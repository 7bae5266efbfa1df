------------------------------ MODULE DhwPlan ------------------------------
(***************************************************************************)
(* The DHW service of the outer cycle over the days: the weekday timers    *)
(* that sync_morning_dhw_timer rewrites as fallback rails, and the charges *)
(* that plan_dhw_schedule launches in its slots; and restore_baseline,     *)
(* which sets all the timers back. Commands succeed here and cycles are    *)
(* whole; what becomes of them otherwise is HeatingController's subject.   *)
(*                                                                         *)
(* Times of day count half minutes: 2 * m is the stroke of minute m and    *)
(* 2 * m + 1 any moment after it, within the minute. Window comparisons    *)
(* see the seconds, hours_until_time does not. Temperatures: 0.01 degC.    *)
(***************************************************************************)
EXTENDS Integers, FiniteSets

CONSTANTS
    Configs,    \* the Cosy windows a tariff may have
    Instant,    \* when an outer cycle may run
    Reading,    \* T1 temperatures; 0 stands for no reading
    Week,       \* weekdays before a timer register comes round again
    MaxDay      \* bound on days

Minute == 0..1439
Window == [start: Minute, end: Minute]

\* octopus-tariff merges the adjacent half hours of one rate, so that no two windows
\* of a tariff begin together.
ASSUME DhwPlanAssumption ==
    /\ \A c \in Configs :
          c \subseteq Window /\ IsFiniteSet(c) /\ \A v, w \in c : v.start = w.start => v = w
    /\ Instant \subseteq 0..2879
    /\ Reading \subseteq Nat
    /\ Week \in Nat \ {0} /\ MaxDay \in Nat

Waking == 420           \* waking_start, 07:00
Trigger == 4000         \* charge_trigger_c
DecayPerHour == 23      \* DHW_T1_DECAY_C_PER_H

Slot == {"evening_bank", "overnight_battery", "cosy_morning", "afternoon_fallback"}

VARIABLES
    windows,    \* dhw.cosy_windows
    day, clock,
    dst,        \* summer time is still to end
    timer,      \* HwcTimer_<Weekday>: the windows written, "-:-" read as minute 1440
    weekday, morning,  \* last_dhw_timer_weekday (Week for None), .._morning_enabled
    slot,       \* last_dhw_scheduler_slot: <<day, slot>>
    seen,       \* history: the last T1 reading, [day, clock, t1], t1 = 0 for none
    needed, launched,  \* history: today's Cosy slots found to need a charge, and
                       \* the slots launched
    again,      \* history: some slot of a date was launched twice
    restored    \* history: a restore of the baseline may still stand, "behind" the
                \* controller's back or "known" to be possible since a restart; or "no"

memory == <<weekday, morning, slot>>
history == <<seen, needed, launched, again, restored>>
vars == <<windows, day, clock, dst, timer, memory, history>>

-----------------------------------------------------------------------------
(* Time helpers.                                                           *)

Stroke(minute) == 2 * minute

\* Mutant: an end at 00:00 is left as it is.
RuntimeEndRaw(end) == end

RuntimeEnd(end) == IF end = 0 THEN 1439 ELSE end
EbusEnd(end) == IF end \in {0, 1439} THEN 1440 ELSE end

Within(t, w) == Stroke(w.start) <= t /\ t <= Stroke(RuntimeEnd(w.end))

RuntimeWindows(c) == { [w EXCEPT !.end = RuntimeEnd(@)] : w \in c }
CosyWindows == RuntimeWindows(windows)

\* sorted_cosy_windows sorts by start; what it decides is how many windows of ws come
\* before w, and which window of a tariff is the n-th of the day (none or one).
Before(w, ws) == { v \in ws : v.start < w.start }
Sorted ==
    [c \in Configs |-> [n \in 1..3 |->
        LET ws == RuntimeWindows(c) IN { w \in ws : Cardinality(Before(w, ws)) = n - 1 }]]
Nth(n) == Sorted[windows][n]

\* hours_until_time, in minutes.
MinutesUntil(t, minute) ==
    LET now == t \div 2
    IN  IF minute >= now THEN minute - now ELSE 1440 - now + minute

\* predict_t1_at_time at waking, less the trigger, in 1/6000 degC.
Surplus(t1, t) == 60 * (t1 - Trigger) - DecayPerHour * MinutesUntil(t, Waking)
ColdAtWaking(t1, t) == Surplus(t1, t) < 0

\* Mutant: the weekday rolls at midnight only.
TargetWeekdayToday(t) == day % Week

\* Mutant: the weekdays do not come round.
TargetWeekdayUnwrapped(t) == IF t < Stroke(Waking) THEN day ELSE day + 1

\* The weekday of the waking that comes after time t of day d.
ComingWeekday(d, t) == (IF t < Stroke(Waking) THEN d ELSE d + 1) % Week
TargetWeekday(t) == ComingWeekday(day, t)

-----------------------------------------------------------------------------
(* The timer.                                                              *)

\* dhw_timer_payload: the first three windows of the day, or of those that do not
\* end at waking.
Payload(keep) ==
    LET ws == { w \in CosyWindows : keep \/ w.end # Waking }
    IN  { [w EXCEPT !.end = EbusEnd(@)] : w \in { w \in ws : Cardinality(Before(w, ws)) < 3 } }

\* sync_morning_dhw_timer.
SyncTimer(t1) ==
    LET target == TargetWeekday(clock)
        keep == ColdAtWaking(t1, clock)
    IN  IF t1 = 0 \/ (weekday = target /\ morning = keep)
        THEN UNCHANGED <<timer, weekday, morning>>
        ELSE /\ timer' = [timer EXCEPT ![target] = Payload(keep)]
             /\ weekday' = target /\ morning' = keep

-----------------------------------------------------------------------------
(* The schedule.                                                           *)

WithinAny(t, ws) == \E w \in ws : Within(t, w)

CurrentSlot(t) ==
    LET first == Nth(1)
        third == Nth(3)
    IN  IF third = {} THEN {}
        ELSE IF WithinAny(t, third) THEN {"evening_bank"}
        ELSE IF \E w \in first : t < Stroke(w.start) THEN {"overnight_battery"}
        ELSE IF WithinAny(t, first) THEN {"cosy_morning"}
        ELSE IF WithinAny(t, Nth(2)) THEN {"afternoon_fallback"}
        ELSE {}

\* What the other readings of a cycle say: DHW is running already; the storage
\* temperature or the litres left call for a charge; cold outside, eco mode or the
\* battery let one start at night. The last two are not asked while DHW runs.
Others == { o \in [dhw: BOOLEAN, short: BOOLEAN, favourable: BOOLEAN] :
                o.dhw => ~o.short /\ ~o.favourable }

NeedsCharge(t1, others) == (t1 # 0 /\ ColdAtWaking(t1, clock)) \/ others.short

\* plan_dhw_schedule: the slots to launch now, none or one.
PlanLaunch(t1, others) ==
    IF ~NeedsCharge(t1, others) THEN {}
    ELSE { s \in CurrentSlot(clock) : s = "overnight_battery" =>
              others.favourable \/ (t1 # 0 /\ Surplus(t1, clock) <= -9000) }

SlotKey(s) == <<day, s>>

Launch(t1, others) ==
    LET due == { s \in PlanLaunch(t1, others) : slot # SlotKey(s) }
    IN  /\ slot' = IF due = {} THEN slot ELSE SlotKey(CHOOSE s \in due : TRUE)
        /\ launched' = launched \union due
        /\ again' = (again \/ due \intersect launched # {})

-----------------------------------------------------------------------------
\* The Cosy windows as the tariff means them: from the start to the end, which does
\* not belong to it, and 00:00 is the end of the day.
CosySlotName == <<"cosy_morning", "afternoon_fallback", "evening_bank">>
CosySlot(t) ==
    { CosySlotName[n] : n \in { n \in 1..3 : \E w \in Nth(n) :
          Stroke(w.start) <= t /\ t < Stroke(EbusEnd(w.end)) } }

\* What a reading calls for: the weekday of the coming waking, and whether it will be
\* cold by then.
Call(r) == <<ComingWeekday(r.day, r.clock), ColdAtWaking(r.t1, r.clock)>>

\* What of a restore may outlast reading r: nothing where the controller does not
\* remember what it wrote, and nothing where r calls for something else than the
\* reading before.
Outlasts(r) ==
    IF restored = "behind" /\ seen.t1 # 0 /\ Call(r) = Call(seen) THEN "behind" ELSE "no"

\* One outer cycle in an active mode.
Cycle(t1, others) ==
    /\ SyncTimer(t1)
    /\ IF others.dhw THEN UNCHANGED <<slot, launched, again>> ELSE Launch(t1, others)
    /\ LET r == [day |-> day, clock |-> clock, t1 |-> t1]
       IN  /\ seen' = IF t1 = 0 THEN seen ELSE r
           /\ restored' = IF t1 = 0 THEN restored ELSE Outlasts(r)
    /\ needed' = IF ~others.dhw /\ NeedsCharge(t1, others)
                 THEN needed \union CosySlot(clock) ELSE needed
    /\ UNCHANGED <<windows, day, clock, dst>>

\* restore_baseline: every weekday has its morning again. It runs for /kill, in a
\* process of its own for ExecStop, while the service still runs and remembers what
\* it wrote before, and by hand.
Restore ==
    /\ timer' = [d \in 0..(Week - 1) |-> Payload(TRUE)]
    /\ restored' = "behind"
    /\ UNCHANGED <<windows, day, clock, dst, memory, seen, needed, launched, again>>

\* The memory of a restore outlasts the memory of the timer.
Noticed == restored' = IF restored = "no" THEN "no" ELSE "known"

\* Mutant: the slot is forgotten with the timer.
RestartForgetsSlot ==
    /\ weekday' = Week /\ morning' = FALSE /\ slot' = <<0, "none">>
    /\ Noticed
    /\ UNCHANGED <<windows, day, clock, dst, timer, seen, needed, launched, again>>

\* Mutant: what was written to the timer comes back from the state file as well.
RestartRemembers ==
    /\ Noticed
    /\ UNCHANGED <<windows, day, clock, dst, timer, memory, seen, needed, launched, again>>

\* control_loop's start forgets the timer; the slot comes back from the state file.
\* After a stop it follows a Restore, after a crash it need not. A mode switched off
\* and on again comes to the same, for set_mode forgets the timer too.
Restart ==
    /\ weekday' = Week /\ morning' = FALSE
    /\ Noticed
    /\ UNCHANGED <<windows, day, clock, dst, timer, slot, seen, needed, launched, again>>

\* The next cycle is at some later instant; cycles may be missed for days.
LaterToday(t) ==
    /\ t > clock
    /\ clock' = t
    /\ UNCHANGED <<windows, day, dst, timer, memory, history>>

NextDay(t) ==
    /\ day < MaxDay
    /\ day' = day + 1 /\ clock' = t
    /\ needed' = {} /\ launched' = {}
    /\ UNCHANGED <<windows, dst, timer, memory, seen, again, restored>>

\* Summer time ends: at 02:00 it is 01:00 once more.
ClocksGoBack ==
    /\ dst /\ dst' = FALSE
    /\ Stroke(60) <= clock /\ clock < Stroke(120)
    /\ clock' = Stroke(60)
    /\ UNCHANGED <<windows, day, timer, memory, history>>

NoReading == [day |-> 0, clock |-> 0, t1 |-> 0]

Init ==
    /\ windows \in Configs
    /\ day = 0 /\ clock \in Instant
    /\ dst = TRUE
    /\ timer = [d \in 0..(Week - 1) |-> Payload(TRUE)]
    /\ weekday = Week /\ morning = FALSE /\ slot = <<0, "none">>
    /\ seen = NoReading /\ needed = {} /\ launched = {} /\ again = FALSE
    /\ restored = "no"

Next ==
    \/ \E t1 \in Reading \union {0}, others \in Others : Cycle(t1, others)
    \/ Restore
    \/ Restart
    \/ \E t \in Instant : LaterToday(t) \/ NextDay(t)
    \/ ClocksGoBack

Spec == Init /\ [][Next]_vars

-----------------------------------------------------------------------------
(* Properties.                                                             *)

TypeOK ==
    /\ windows \in Configs
    /\ day \in 0..MaxDay /\ clock \in Instant \union {Stroke(60)} /\ dst \in BOOLEAN
    /\ timer \in [0..(Week - 1) -> SUBSET [start: Minute, end: 0..1440]]
    /\ weekday \in 0..Week /\ morning \in BOOLEAN
    /\ needed \subseteq Slot /\ launched \subseteq Slot
    /\ again \in BOOLEAN /\ restored \in {"no", "behind", "known"}

\* The windows as a register should have them.
Rails(ws) ==
    { [start |-> w.start, end |-> IF w.end \in {0, 1439} THEN 1440 ELSE w.end] : w \in ws }

\* The morning the VRC 700 is coming to is treated as the last T1 reading calls for,
\* by the decay over all the hours from that reading to that waking: across
\* midnight, across the roll of the weekday, restarts, readings that are missing
\* and a week-old register. Where the baseline was restored the morning may be kept
\* though the reading was warm, never the other way round: after a stop or a /kill
\* until the first reading after the way back, and beside a service that runs on
\* until a reading calls for something else than the one before.
\* A reading from the minute of waking itself is left out.
WindowFollowsLastReading ==
    LET recent == seen.day = day \/ (seen.day = day - 1 /\ seen.clock > Stroke(Waking) + 1)
        minutes == 1440 * (day - seen.day) + Waking - seen.clock \div 2
        cold == 60 * (seen.t1 - Trigger) < DecayPerHour * minutes
        register == timer[day % Week]
    IN  clock < Stroke(Waking) /\ seen.t1 # 0 /\ recent
            => \/ register = Rails({ w \in windows : cold \/ w.end # Waking })
               \/ restored # "no" /\ register = Rails(windows)

\* A slot of a date is launched once, over midnights, restarts and the hour that
\* comes twice, although only the last slot launched is remembered.
OncePerSlot == ~again

\* A charge that some cycle of a Cosy window found necessary has been launched in
\* that window's slot, or was before. Left out are the moments after 23:59, which are
\* in no slot, and tariffs without the three windows the slots are named after.
CosyNeedLaunched ==
    Nth(3) # {} /\ clock <= Stroke(1439) => needed \subseteq launched
=============================================================================
