---------------------------- MODULE DhwPlanProofs ----------------------------
(***************************************************************************)
(* Proofs about DhwPlan for any tariffs, instants, readings and bounds.    *)
(***************************************************************************)
EXTENDS DhwPlan, FiniteSetTheorems, TLAPS

(* The steps.                                                              *)
LEMMA StepCases ==
    ASSUME [Next]_vars
    PROVE  \/ UNCHANGED vars
           \/ \E t1 \in Reading \union {0}, others \in Others : Cycle(t1, others)
           \/ Restore
           \/ Restart
           \/ \E t \in Instant : LaterToday(t)
           \/ \E t \in Instant : NextDay(t)
           \/ ClocksGoBack
BY DEF Next

-----------------------------------------------------------------------------
(* The windows of a tariff.                                                *)

LEMMA WindowTypes ==
    ASSUME windows \in Configs
    PROVE  /\ windows \subseteq Window /\ IsFiniteSet(windows)
           /\ CosyWindows \subseteq Window /\ IsFiniteSet(CosyWindows)
           /\ Cardinality(CosyWindows) <= Cardinality(windows)
           /\ \A w \in CosyWindows : w.start \in 0..1439 /\ w.end \in 1..1439
<1> DEFINE Run(w) == [w EXCEPT !.end = RuntimeEnd(@)]
           run == [w \in windows |-> Run(w)]
<1>1. windows \subseteq Window /\ IsFiniteSet(windows)
  BY DhwPlanAssumption
<1>2. \A w \in windows :
         Run(w) \in Window /\ Run(w).start \in 0..1439 /\ Run(w).end \in 1..1439
  BY <1>1 DEF Window, Minute, RuntimeEnd
<1>3. \A w : w \in CosyWindows <=> \E v \in windows : w = Run(v)
  BY DEF CosyWindows, RuntimeWindows
<1> HIDE DEF Run
<1>4. run \in Surjection(windows, CosyWindows)
  BY <1>3 DEF Surjection
<1>5. IsFiniteSet(CosyWindows) /\ Cardinality(CosyWindows) <= Cardinality(windows)
  BY <1>1, <1>4, FS_Surjection
<1> QED
  BY <1>1, <1>2, <1>3, <1>5

LEMMA WindowStarts ==
    ASSUME windows \in Configs
    PROVE  \A w \in CosyWindows : w.start \in Int /\ w.end \in Int
<1> TAKE w \in CosyWindows
<1>1. w \in Window
  BY WindowTypes
<1>2. w.start \in Minute
  BY <1>1 DEF Window
<1>3. w.end \in Minute
  BY <1>1 DEF Window
<1>4. w.start \in Int
  BY <1>2 DEF Minute
<1>5. w.end \in Int
  BY <1>3 DEF Minute
<1> QED
  BY <1>4, <1>5

LEMMA NthWindows ==
    ASSUME windows \in Configs
    PROVE  \A n \in 1..3 :
              Nth(n) = { w \in CosyWindows : Cardinality(Before(w, CosyWindows)) = n - 1 }
BY DEF Nth, Sorted, CosyWindows

LEMMA NthCosy ==
    ASSUME windows \in Configs
    PROVE  \A n \in 1..3 : \A w \in Nth(n) : w \in CosyWindows
BY NthWindows

FirstThree(ws) ==
    { [w EXCEPT !.end = EbusEnd(@)] : w \in { w \in ws : Cardinality(Before(w, ws)) < 3 } }

LEMMA PayloadTypes ==
    ASSUME windows \in Configs, NEW ws \in SUBSET CosyWindows
    PROVE  FirstThree(ws) \subseteq [start: Minute, end: 0..1440]
<1>1. ASSUME NEW w \in CosyWindows
      PROVE  [w EXCEPT !.end = EbusEnd(@)] \in [start: Minute, end: 0..1440]
  <2>1. w \in [start: Minute, end: Minute] /\ EbusEnd(w.end) \in 0..1440
    BY WindowTypes DEF Window, Minute, EbusEnd
  <2> QED
    BY <2>1
<1>2. SUFFICES ASSUME NEW x \in FirstThree(ws)
                PROVE  x \in [start: Minute, end: 0..1440]
  OBVIOUS
<1>3. \E w \in CosyWindows : x = [w EXCEPT !.end = EbusEnd(@)]
  BY Zenon DEF FirstThree
<1> QED
  BY <1>1, <1>3

LEMMA PayloadAny ==
    ASSUME windows \in Configs, NEW keep \in BOOLEAN
    PROVE  Payload(keep) \in SUBSET [start: Minute, end: 0..1440]
<1> DEFINE ws == { w \in CosyWindows : keep \/ w.end # Waking }
<1>1. Payload(keep) = FirstThree(ws)
  BY Zenon DEF Payload, FirstThree
<1>2. ws \in SUBSET CosyWindows
  OBVIOUS
<1> QED
  BY <1>1, <1>2, PayloadTypes

\* Every weekday with all its windows, as at first and after a restore.
LEMMA AllWeek ==
    ASSUME windows \in Configs
    PROVE  [d \in 0..(Week - 1) |-> Payload(TRUE)]
               \in [0..(Week - 1) -> SUBSET [start: Minute, end: 0..1440]]
<1> DEFINE full == Payload(TRUE)
<1>1. full \in SUBSET [start: Minute, end: 0..1440]
  <2> DEFINE ws == { w \in CosyWindows : TRUE \/ w.end # Waking }
  <2>1. full = FirstThree(ws)
    BY Zenon DEF Payload, FirstThree
  <2>2. ws \in SUBSET CosyWindows
    OBVIOUS
  <2>3. FirstThree(ws) \in SUBSET [start: Minute, end: 0..1440]
    BY <2>2, PayloadTypes
  <2> HIDE DEF full, ws
  <2> QED
    BY <2>1, <2>3
<1> HIDE DEF full
<1>2. [d \in 0..(Week - 1) |-> full] \in [0..(Week - 1) -> SUBSET [start: Minute, end: 0..1440]]
  BY <1>1
<1> QED
  BY <1>2 DEF full

\* The windows come in the order of their numbers.
LEMMA InOrder ==
    ASSUME windows \in Configs, NEW m \in 1..3, NEW n \in 1..3, m < n,
           NEW v \in Nth(m), NEW w \in Nth(n)
    PROVE  v.start < w.start
<1>1. v \in CosyWindows /\ w \in CosyWindows
  BY NthCosy
<1>2. v.start \in Int /\ w.start \in Int /\ \A u \in CosyWindows : u.start \in Int
  BY <1>1, WindowStarts
<1>3. IsFiniteSet(Before(v, CosyWindows)) /\ IsFiniteSet(Before(w, CosyWindows))
  BY WindowTypes, FS_Subset DEF Before
<1>4. ASSUME w.start <= v.start PROVE FALSE
  <2>1. Before(w, CosyWindows) \subseteq Before(v, CosyWindows)
    BY <1>2, <1>4 DEF Before
  <2>2. Cardinality(Before(w, CosyWindows)) <= Cardinality(Before(v, CosyWindows))
    BY <1>3, <2>1, FS_Subset
  <2> QED
    BY <2>2, NthWindows
<1> QED
  BY <1>2, <1>4

\* There is one first window.
LEMMA FirstStart ==
    ASSUME windows \in Configs, NEW v \in Nth(1), NEW w \in CosyWindows
    PROVE  v.start <= w.start
<1>1. v \in CosyWindows /\ Cardinality(Before(v, CosyWindows)) = 0
  BY NthWindows
<1>2. IsFiniteSet(Before(v, CosyWindows))
  BY WindowTypes, FS_Subset DEF Before
<1>3. Before(v, CosyWindows) = {}
  BY <1>1, <1>2, FS_EmptySet
<1>4. v.start \in Int /\ w.start \in Int
  BY <1>1, WindowStarts
<1>5. ~(w.start < v.start)
  BY <1>3 DEF Before
<1> QED
  BY <1>4, <1>5

-----------------------------------------------------------------------------
(* Type correctness.                                                       *)

LEMMA InitTypes == Init => TypeOK
<1> SUFFICES ASSUME Init PROVE TypeOK
  OBVIOUS
<1>1. windows \in Configs
  BY DEF Init
<1>3. timer \in [0..(Week - 1) -> SUBSET [start: Minute, end: 0..1440]]
  <2>1. timer = [d \in 0..(Week - 1) |-> Payload(TRUE)]
    BY Zenon DEF Init
  <2> QED
    BY Zenon, <1>1, <2>1, AllWeek
<1>4. day \in 0..MaxDay /\ weekday \in 0..Week
  <2>1. MaxDay \in Nat /\ Week \in Nat
    BY DhwPlanAssumption
  <2>2. day = 0 /\ weekday = Week
    BY DEF Init, memory
  <2> QED
    BY <2>1, <2>2
<1>5. needed \subseteq Slot /\ launched \subseteq Slot
  BY DEF Init
<1>6. clock \in Instant
  BY DEF Init
<1>7. dst \in BOOLEAN
  <2>1. dst = TRUE
    BY DEF Init
  <2> QED
    BY <2>1
<1>8. morning \in BOOLEAN
  <2>1. morning = FALSE
    BY DEF Init
  <2> QED
    BY <2>1
<1>9. again \in BOOLEAN
  <2>1. again = FALSE
    BY DEF Init
  <2> QED
    BY <2>1
<1>10. restored = "no"
  BY DEF Init
<1> QED
  BY <1>1, <1>3, <1>4, <1>5, <1>6, <1>7, <1>8, <1>9, <1>10 DEF TypeOK

LEMMA WeekdayType ==
    ASSUME TypeOK, NEW t
    PROVE  TargetWeekday(t) \in 0..(Week - 1)
<1>1. Week \in Nat \ {0} /\ day \in Nat
  BY DhwPlanAssumption DEF TypeOK
<1>2. \A d \in Nat : d % Week \in 0..(Week - 1)
  BY <1>1
<1> QED
  BY <1>1, <1>2 DEF TargetWeekday, ComingWeekday

LEMMA SlotTypes ==
    ASSUME NEW t
    PROVE  CurrentSlot(t) \subseteq Slot /\ CosySlot(t) \subseteq Slot
<1>1. CurrentSlot(t) \subseteq Slot
  BY DEF CurrentSlot, Slot
<1>2. \A n \in 1..3 : CosySlotName[n] \in Slot
  BY DEF CosySlotName, Slot
<1> QED
  BY <1>1, <1>2 DEF CosySlot

\* What a cycle launches.
Due(t1, others) == { s \in PlanLaunch(t1, others) : slot # SlotKey(s) }

LEMMA DueTypes ==
    ASSUME NEW t1, NEW others
    PROVE  /\ PlanLaunch(t1, others) \subseteq CurrentSlot(clock)
           /\ Due(t1, others) \subseteq CurrentSlot(clock)
           /\ \A r, s \in CurrentSlot(clock) : r = s
<1>1. \A r, s \in CurrentSlot(clock) : r = s
  BY DEF CurrentSlot
<1> QED
  BY <1>1 DEF Due, PlanLaunch

LEMMA StepTypes ==
    ASSUME TypeOK, [Next]_vars
    PROVE  TypeOK'
<1> USE DEF memory, history
<1>1. CASE UNCHANGED vars
  BY <1>1 DEF vars, TypeOK
<1>2. ASSUME NEW t1 \in Reading \union {0}, NEW others \in Others, Cycle(t1, others)
      PROVE  TypeOK'
  <2>1. ColdAtWaking(t1, clock) \in BOOLEAN
    BY DEF ColdAtWaking
  <2>2. /\ timer' \in [0..(Week - 1) -> SUBSET [start: Minute, end: 0..1440]]
        /\ weekday' \in 0..Week /\ morning' \in BOOLEAN
    <3>1. windows \in Configs
      BY DEF TypeOK
    <3>2. Payload(ColdAtWaking(t1, clock)) \subseteq [start: Minute, end: 0..1440]
      BY <2>1, <3>1, PayloadAny
    <3>3. TargetWeekday(clock) \in 0..(Week - 1)
      BY WeekdayType
    <3>4. timer \in [0..(Week - 1) -> SUBSET [start: Minute, end: 0..1440]]
      BY DEF TypeOK
    <3>5. CASE UNCHANGED <<timer, weekday, morning>>
      BY <3>4, <3>5 DEF TypeOK
    <3>6. CASE ~UNCHANGED <<timer, weekday, morning>>
      <4>1. /\ timer' = [timer EXCEPT ![TargetWeekday(clock)] = Payload(ColdAtWaking(t1, clock))]
            /\ weekday' = TargetWeekday(clock) /\ morning' = ColdAtWaking(t1, clock)
        BY <1>2, <3>6 DEF Cycle, SyncTimer
      <4>2. TargetWeekday(clock) \in 0..Week
        BY <3>3, DhwPlanAssumption
      <4>3. timer' \in [0..(Week - 1) -> SUBSET [start: Minute, end: 0..1440]]
        BY <3>2, <3>3, <3>4, <4>1
      <4> QED
        BY <2>1, <4>1, <4>2, <4>3
    <3> QED
      BY <3>5, <3>6
  <2>3. needed' \subseteq Slot
    BY <1>2, SlotTypes DEF Cycle, TypeOK
  <2>4. launched' \subseteq Slot /\ again' \in BOOLEAN
    <3>1. Due(t1, others) \subseteq Slot
      BY DueTypes, SlotTypes
    <3>2. CASE others.dhw
      BY <1>2, <3>2 DEF Cycle, TypeOK
    <3>3. CASE ~others.dhw
      BY <1>2, <3>1, <3>3 DEF Cycle, Launch, Due, TypeOK
    <3> QED
      BY <3>2, <3>3
  <2>5. restored' \in {"no", "behind", "known"}
    BY <1>2 DEF Cycle, Outlasts, TypeOK
  <2> QED
    BY <1>2, <2>2, <2>3, <2>4, <2>5 DEF Cycle, TypeOK
<1>3. CASE Restart
  <2>1. Week \in 0..Week
    BY DhwPlanAssumption
  <2>2. restored' \in {"no", "behind", "known"}
    BY <1>3 DEF Restart, Noticed
  <2>3. morning' \in BOOLEAN
    <3>1. morning' = FALSE
      BY <1>3 DEF Restart
    <3> QED
      BY <3>1
  <2> QED
    BY <1>3, <2>1, <2>2, <2>3 DEF Restart, TypeOK
<1>7. CASE Restore
  <2>1. timer' = [d \in 0..(Week - 1) |-> Payload(TRUE)]
    BY Zenon, <1>7 DEF Restore
  <2>2. windows \in Configs
    BY DEF TypeOK
  <2>3. timer' \in [0..(Week - 1) -> SUBSET [start: Minute, end: 0..1440]]
    BY Zenon, <2>1, <2>2, AllWeek
  <2> QED
    BY <1>7, <2>3 DEF Restore, TypeOK
<1>4. ASSUME NEW t \in Instant, LaterToday(t) PROVE TypeOK'
  BY <1>4 DEF LaterToday, TypeOK
<1>5. ASSUME NEW t \in Instant, NextDay(t) PROVE TypeOK'
  <2>1. day' \in 0..MaxDay
    BY <1>5, DhwPlanAssumption DEF NextDay, TypeOK
  <2> QED
    BY <1>5, <2>1 DEF NextDay, TypeOK
<1>6. CASE ClocksGoBack
  <2>1. clock' \in Instant \union {Stroke(60)} /\ dst' \in BOOLEAN
    BY <1>6 DEF ClocksGoBack
  <2> QED
    BY <1>6, <2>1 DEF ClocksGoBack, TypeOK
<1> QED
  BY <1>1, <1>2, <1>3, <1>4, <1>5, <1>6, <1>7, StepCases

\* The types hold for any tariffs, instants and readings.
THEOREM PlanTyped == Spec => []TypeOK
<1>1. Init => TypeOK
  BY InitTypes
<1>2. TypeOK /\ [Next]_vars => TypeOK'
  BY StepTypes
<1> QED
  BY <1>1, <1>2, PTL DEF Spec

-----------------------------------------------------------------------------
(* Launches. The slots of a day come in the order of their ranks, and what   *)
(* has begun has not come back: once a slot's time has been reached, the     *)
(* current slot is of no lower rank.                                         *)

Rank(s) ==
    CASE s = "overnight_battery" -> 0
      [] s = "cosy_morning" -> 1
      [] s = "afternoon_fallback" -> 2
      [] s = "evening_bank" -> 3

Reached(s, t) ==
    s # "overnight_battery" => \E w \in Nth(Rank(s)) : Stroke(w.start) <= t

\* The windows of a tariff neither overlap nor touch: octopus-tariff merges the
\* adjacent half hours of one rate.
Apart(c) == \A v, w \in c : v.start < w.start => RuntimeEnd(v.end) < w.start

\* No window begins within the hour that comes twice in October.
NoneInTheHour(c) == \A w \in c : w.start <= 60 \/ w.start >= 120

LEMMA RankTypes ==
    /\ \A s \in Slot : Rank(s) \in 0..3
    /\ \A s \in Slot : s # "overnight_battery" => Rank(s) \in 1..3
    /\ \A r, s \in Slot : Rank(r) = Rank(s) => r = s
<1>1. /\ Rank("overnight_battery") = 0 /\ Rank("cosy_morning") = 1
      /\ Rank("afternoon_fallback") = 2 /\ Rank("evening_bank") = 3
  BY DEF Rank
<1> QED
  BY <1>1 DEF Slot

LEMMA ApartWhenRun ==
    ASSUME windows \in Configs, Apart(windows)
    PROVE  \A v, w \in CosyWindows : v.start < w.start => v.end < w.start
<1>1. \A w \in CosyWindows : \E u \in windows : w.start = u.start /\ w.end = RuntimeEnd(u.end)
  <2>1. \A u \in windows : u \in [start: Minute, end: Minute]
    BY WindowTypes DEF Window
  <2> QED
    BY <2>1 DEF CosyWindows, RuntimeWindows
<1> QED
  BY <1>1 DEF Apart

\* The n-th window leaves off before the next begins.
LEMMA InOrderApart ==
    ASSUME windows \in Configs, Apart(windows), NEW m \in 1..3, NEW n \in 1..3, m < n,
           NEW v \in Nth(m), NEW w \in Nth(n)
    PROVE  v.end < w.start
<1>1. v.start < w.start
  BY InOrder
<1>2. v \in CosyWindows /\ w \in CosyWindows
  BY NthCosy
<1> QED
  BY <1>1, <1>2, ApartWhenRun

LEMMA WithinBounds ==
    ASSUME windows \in Configs, NEW n \in 1..3, NEW w \in Nth(n), NEW t \in Int
    PROVE  Within(t, w) <=> Stroke(w.start) <= t /\ t <= Stroke(w.end)
<1>1. w \in CosyWindows
  BY NthCosy
<1>2. w.end \in 1..1439
  BY <1>1, WindowTypes
<1>3. RuntimeEnd(w.end) = w.end
  BY <1>2 DEF RuntimeEnd
<1> QED
  BY <1>3 DEF Within

LEMMA CurrentReached ==
    ASSUME NEW t, NEW s \in CurrentSlot(t)
    PROVE  Reached(s, t)
<1>1. CASE s = "evening_bank"
  <2>1. \E w \in Nth(3) : Within(t, w)
    BY <1>1 DEF CurrentSlot, WithinAny
  <2> QED
    BY <1>1, <2>1 DEF Reached, Rank, Within
<1>2. CASE s = "cosy_morning"
  <2>1. \E w \in Nth(1) : Within(t, w)
    BY <1>2 DEF CurrentSlot, WithinAny
  <2> QED
    BY <1>2, <2>1 DEF Reached, Rank, Within
<1>3. CASE s = "afternoon_fallback"
  <2>1. \E w \in Nth(2) : Within(t, w)
    BY <1>3 DEF CurrentSlot, WithinAny
  <2> QED
    BY <1>3, <2>1 DEF Reached, Rank, Within
<1>4. CASE s = "overnight_battery"
  BY <1>4 DEF Reached
<1> QED
  BY <1>1, <1>2, <1>3, <1>4, SlotTypes DEF Slot

LEMMA NoWayBack ==
    ASSUME windows \in Configs, Apart(windows), NEW t \in Int,
           NEW r \in Slot, NEW s \in CurrentSlot(t), Reached(r, t)
    PROVE  Rank(r) <= Rank(s)
<1>1. s \in Slot
  BY SlotTypes
<1>2. ASSUME Rank(s) < Rank(r) PROVE FALSE
  <2>1. /\ Rank(r) \in 1..3 /\ Rank(s) \in 0..2 /\ s # "evening_bank"
        /\ r # "overnight_battery"
    BY <1>1, <1>2 DEF Rank, Slot
  <2>2. PICK w \in Nth(Rank(r)) : Stroke(w.start) <= t
    BY <2>1 DEF Reached
  <2>3. w \in CosyWindows
    BY <2>1, NthCosy
  <2>4. w.start \in Int
    BY <2>3, WindowStarts
  <2>5. CASE s = "overnight_battery"
    <3>1. PICK v \in Nth(1) : t < Stroke(v.start)
      BY <2>5 DEF CurrentSlot
    <3>2. v.start <= w.start
      BY <2>3, FirstStart
    <3>3. v.start \in Int
      BY WindowStarts, NthCosy
    <3> QED
      BY <2>2, <2>4, <3>1, <3>2, <3>3 DEF Stroke
  <2>6. CASE s # "overnight_battery"
    <3>1. Rank(s) \in 1..2 /\ (s = "cosy_morning" \/ s = "afternoon_fallback")
      BY <1>1, <2>1, <2>6 DEF Rank, Slot
    <3>2. PICK v \in Nth(Rank(s)) : Within(t, v)
      <4>1. CASE s = "cosy_morning"
        BY <4>1 DEF CurrentSlot, WithinAny, Rank
      <4>2. CASE s = "afternoon_fallback"
        BY <4>2 DEF CurrentSlot, WithinAny, Rank
      <4> QED
        BY <3>1, <4>1, <4>2
    <3>3. v.end < w.start
      BY <1>2, <2>1, <3>1, InOrderApart
    <3>4. PICK n \in 1..3 : n = Rank(s)
      BY <3>1
    <3>5. v \in Nth(n) /\ t <= Stroke(v.end)
      BY <3>2, <3>4, WithinBounds
    <3>6. v.end \in Int
      BY <3>5, WindowStarts, NthCosy
    <3> QED
      BY <2>2, <2>4, <3>3, <3>5, <3>6 DEF Stroke
  <2> QED
    BY <2>5, <2>6
<1>3. Rank(r) \in 0..3 /\ Rank(s) \in 0..3
  BY <1>1, RankTypes
<1> QED
  BY <1>2, <1>3

\* What is launched today ends with the slot remembered, and all of it has begun.
MemoryInv ==
    /\ slot[1] <= day
    /\ \A s \in Slot : slot = <<day, s>> => s \in launched
    /\ launched # {} => \E s \in launched : slot = <<day, s>>

LaunchInv ==
    /\ ~again
    /\ \A s \in launched : Reached(s, clock)
    /\ \A r \in launched : \A s \in Slot : slot = <<day, s>> => Rank(r) <= Rank(s)

NeedInv == Nth(3) # {} /\ clock <= Stroke(1439) => needed \subseteq launched

SlotInv == slot \in Int \X (Slot \union {"none"})

\* Both invariants read the windows through Nth alone, and those never change.
LEMMA WindowsStay ==
    ASSUME [Next]_vars
    PROVE  windows' = windows
<1> USE DEF vars, history, memory
<1>1. ASSUME NEW t1 \in Reading \union {0}, NEW others \in Others, Cycle(t1, others)
      PROVE  windows' = windows
  BY <1>1 DEF Cycle
<1>2. CASE UNCHANGED vars \/ Restore \/ Restart \/ ClocksGoBack
  BY <1>2 DEF Restore, Restart, ClocksGoBack
<1>3. ASSUME NEW t \in Instant, LaterToday(t) \/ NextDay(t) PROVE windows' = windows
  BY <1>3 DEF LaterToday, NextDay
<1> QED
  BY <1>1, <1>2, <1>3, StepCases

LEMMA ReachedStays ==
    ASSUME windows' = windows, windows \in Configs,
           NEW s \in Slot, Reached(s, clock), clock \in Int, clock' \in Int, clock' >= clock
    PROVE  Reached(s, clock)'
<1>1. Nth(Rank(s))' = Nth(Rank(s))
  BY DEF Nth
<1>2. CASE s = "overnight_battery"
  BY <1>2 DEF Reached
<1>3. CASE s # "overnight_battery"
  <2>1. PICK w \in Nth(Rank(s)) : Stroke(w.start) <= clock
    BY <1>3 DEF Reached
  <2>2. w.start \in Int
    BY <1>3, RankTypes, WindowStarts, NthCosy
  <2>3. Stroke(w.start) <= clock'
    BY <2>1, <2>2 DEF Stroke
  <2> QED
    BY <1>1, <2>1, <2>3 DEF Reached
<1> QED
  BY <1>2, <1>3

\* The four ways a cycle can deal with the slots.
LEMMA CycleLaunches ==
    ASSUME TypeOK, NEW t1, NEW others, Cycle(t1, others)
    PROVE  \/ UNCHANGED <<slot, launched, again>> /\ (others.dhw \/ Due(t1, others) = {})
           \/ \E s \in Due(t1, others) :
                 /\ s \in CurrentSlot(clock) /\ s \in Slot /\ slot # <<day, s>>
                 /\ slot' = <<day, s>>
                 /\ launched' = launched \union {s}
                 /\ again' = (again \/ s \in launched)
<1>1. CASE others.dhw
  BY <1>1 DEF Cycle
<1>2. CASE ~others.dhw /\ Due(t1, others) = {}
  <2>1. slot' = slot
    BY <1>2 DEF Cycle, Launch, Due
  <2>2. launched' = launched \union {} /\ again' = (again \/ {} \intersect launched # {})
    BY <1>2 DEF Cycle, Launch, Due
  <2>3. again \in BOOLEAN /\ launched' = launched
    BY <2>2 DEF TypeOK
  <2>4. {} \intersect launched = {}
    OBVIOUS
  <2>5. again' = again
    BY <2>2, <2>3, <2>4
  <2> QED
    BY <1>2, <2>1, <2>3, <2>5
<1>3. CASE ~others.dhw /\ Due(t1, others) # {}
  <2>1. PICK s \in Due(t1, others) : s = CHOOSE r \in Due(t1, others) : TRUE
    BY <1>3
  <2>2. Due(t1, others) = {s}
    BY <2>1, DueTypes
  <2>3. s \in CurrentSlot(clock) /\ s \in Slot /\ slot # <<day, s>>
    BY <2>1, DueTypes, SlotTypes DEF Due, SlotKey
  <2>4. slot' = <<day, s>>
    BY <1>3, <2>1 DEF Cycle, Launch, Due, SlotKey
  <2>5. launched' = launched \union {s} /\ again' = (again \/ {s} \intersect launched # {})
    BY <1>3, <2>2 DEF Cycle, Launch, Due
  <2>6. {s} \intersect launched # {} <=> s \in launched
    OBVIOUS
  <2>7. again' = (again \/ s \in launched)
    BY <2>5, <2>6
  <2> QED
    BY <2>1, <2>3, <2>4, <2>5, <2>7
<1> QED
  BY <1>1, <1>2, <1>3

LEMMA MemoryStep ==
    TypeOK /\ SlotInv /\ MemoryInv /\ [Next]_vars => SlotInv' /\ MemoryInv'
<1> SUFFICES ASSUME TypeOK, SlotInv, MemoryInv, [Next]_vars PROVE SlotInv' /\ MemoryInv'
  OBVIOUS
<1> USE DEF history, memory
<1>0. day \in Int /\ slot[1] \in Int /\ launched \subseteq Slot
  BY DEF TypeOK, SlotInv
<1>1. CASE UNCHANGED <<day, slot, launched>>
  BY <1>1 DEF SlotInv, MemoryInv
<1>2. ASSUME NEW t1 \in Reading \union {0}, NEW others \in Others, Cycle(t1, others)
      PROVE  SlotInv' /\ MemoryInv'
  <2>1. day' = day
    BY <1>2 DEF Cycle
  <2>2. CASE UNCHANGED <<slot, launched, again>>
    BY <2>1, <2>2, <1>1
  <2>3. ASSUME NEW s \in CurrentSlot(clock), s \in Slot, slot' = <<day, s>>,
               launched' = launched \union {s}
        PROVE  SlotInv' /\ MemoryInv'
    <3>1. SlotInv'
      BY <1>0, <2>3 DEF SlotInv
    <3>2. slot'[1] <= day' /\ (\A r \in Slot : slot' = <<day', r>> => r = s)
      BY <1>0, <2>1, <2>3
    <3>3. s \in launched' /\ slot' = <<day', s>>
      BY <2>1, <2>3
    <3> QED
      BY <3>1, <3>2, <3>3 DEF MemoryInv
  <2> QED
    BY <1>2, <2>2, <2>3, CycleLaunches
<1>3. ASSUME NEW t \in Instant, NextDay(t) PROVE SlotInv' /\ MemoryInv'
  <2>1. day' = day + 1 /\ slot' = slot /\ launched' = {}
    BY <1>3 DEF NextDay
  <2>2. slot'[1] < day'
    BY <1>0, <2>1 DEF MemoryInv
  <2>3. \A s \in Slot : slot' # <<day', s>>
    BY <1>0, <2>1, <2>2
  <2> QED
    BY <1>0, <2>1, <2>2, <2>3 DEF SlotInv, MemoryInv
<1>4. CASE UNCHANGED vars \/ Restore \/ Restart \/ ClocksGoBack \/ \E t \in Instant : LaterToday(t)
  BY <1>1, <1>4 DEF vars, Restore, Restart, ClocksGoBack, LaterToday
<1> QED
  BY <1>2, <1>3, <1>4, StepCases

LEMMA ClockType == (TypeOK => clock \in Int) /\ (TypeOK' => clock' \in Int)
<1>1. \A t \in Instant \union {Stroke(60)} : t \in Int
  <2>1. Stroke(60) \in Int
    BY DEF Stroke
  <2>2. \A t \in 0..2879 : t \in Int
    OBVIOUS
  <2>3. Instant \subseteq 0..2879
    BY DhwPlanAssumption
  <2> QED
    BY <2>1, <2>2, <2>3
<1>2. ASSUME TypeOK PROVE clock \in Instant \union {Stroke(60)}
  BY <1>2 DEF TypeOK
<1>3. ASSUME TypeOK' PROVE clock' \in Instant \union {Stroke(60)}
  BY <1>3 DEF TypeOK
<1> QED
  BY <1>1, <1>2, <1>3

LEMMA LaunchStep ==
    TypeOK /\ TypeOK' /\ Apart(windows) /\ NoneInTheHour(windows) /\ SlotInv /\ MemoryInv
    /\ LaunchInv /\ [Next]_vars => LaunchInv'
<1> SUFFICES ASSUME TypeOK, TypeOK', Apart(windows), NoneInTheHour(windows),
                    SlotInv, MemoryInv, LaunchInv, [Next]_vars
             PROVE  LaunchInv'
  OBVIOUS
<1> USE DEF history, memory
<1>0. /\ windows \in Configs /\ launched \subseteq Slot
      /\ clock \in Int /\ clock' \in Int
      /\ windows' = windows
  <2>1. windows \in Configs /\ launched \subseteq Slot
    BY DEF TypeOK
  <2> QED
    BY <2>1, ClockType, WindowsStay
<1>1. ASSUME UNCHANGED <<day, slot, launched, again>>, clock' >= clock
      PROVE  LaunchInv'
  <2>1. \A s \in launched' : Reached(s, clock)'
    BY <1>0, <1>1, ReachedStays DEF LaunchInv
  <2> QED
    BY <1>1, <2>1 DEF LaunchInv
<1>2. ASSUME NEW t1 \in Reading \union {0}, NEW others \in Others, Cycle(t1, others)
      PROVE  LaunchInv'
  <2>1. day' = day /\ clock' = clock
    BY <1>2 DEF Cycle
  <2>2. CASE UNCHANGED <<slot, launched, again>>
    BY <1>0, <1>1, <2>1, <2>2
  <2>3. ASSUME NEW s \in CurrentSlot(clock), s \in Slot, slot # <<day, s>>,
               slot' = <<day, s>>, launched' = launched \union {s},
               again' = (again \/ s \in launched)
        PROVE  LaunchInv'
    <3>1. \A r \in launched : Rank(r) <= Rank(s)
      BY <1>0, NoWayBack DEF LaunchInv
    <3>2. s \notin launched
      <4>1. SUFFICES ASSUME s \in launched PROVE FALSE
        OBVIOUS
      <4>2. PICK r \in launched : slot = <<day, r>>
        BY <4>1 DEF MemoryInv
      <4>3. Rank(s) <= Rank(r)
        BY <1>0, <4>1, <4>2 DEF LaunchInv
      <4>4. Rank(r) <= Rank(s)
        BY <3>1
      <4>5. Rank(r) \in 0..3 /\ Rank(s) \in 0..3
        BY <1>0, <2>3, RankTypes
      <4>6. Rank(r) = Rank(s)
        BY <4>3, <4>4, <4>5
      <4>7. r = s
        BY <1>0, <2>3, <4>6, RankTypes
      <4> QED
        BY <2>3, <4>2, <4>7
    <3>3. ~again'
      BY <2>3, <3>2 DEF LaunchInv
    <3>4. Reached(s, clock)
      BY CurrentReached
    <3>5. \A r \in launched' : r \in Slot /\ Reached(r, clock)'
      BY <1>0, <2>1, <2>3, <3>4, ReachedStays DEF LaunchInv
    <3>6. ASSUME NEW r \in launched', NEW q \in Slot, slot' = <<day', q>>
          PROVE  Rank(r) <= Rank(q)
      <4>1. q = s
        BY <2>1, <2>3, <3>6
      <4>2. Rank(s) <= Rank(s)
        BY <2>3, RankTypes
      <4> QED
        BY <2>3, <3>1, <4>1, <4>2
    <3> QED
      BY <3>3, <3>5, <3>6 DEF LaunchInv
  <2> QED
    BY <1>2, <2>2, <2>3, CycleLaunches
<1>3. ASSUME NEW t \in Instant, NextDay(t) PROVE LaunchInv'
  BY <1>3 DEF NextDay, LaunchInv
<1>4. ASSUME NEW t \in Instant, LaterToday(t) PROVE LaunchInv'
  <2>1. UNCHANGED <<day, slot, launched, again>> /\ clock' > clock
    BY <1>4 DEF LaterToday
  <2> QED
    BY <1>0, <1>1, <2>1
<1>5. CASE ClocksGoBack
  <2>1. /\ UNCHANGED <<day, slot, launched, again>>
        /\ 120 <= clock /\ clock < 240 /\ clock' = 120
    BY <1>5 DEF ClocksGoBack, Stroke
  <2>2. ASSUME NEW s \in launched PROVE Reached(s, clock)'
    <3>1. CASE s = "overnight_battery"
      BY <3>1 DEF Reached
    <3>2. CASE s # "overnight_battery"
      <4>1. PICK w \in Nth(Rank(s)) : Stroke(w.start) <= clock
        BY <3>2 DEF LaunchInv, Reached
      <4>2. PICK u \in windows : w = [u EXCEPT !.end = RuntimeEnd(@)]
        BY <1>0, <3>2, <4>1, RankTypes, NthCosy DEF CosyWindows, RuntimeWindows
      <4>3. w.start = u.start
        <5>1. u \in [start: Minute, end: Minute]
          BY <1>0, WindowTypes DEF Window
        <5> QED
          BY <4>2, <5>1
      <4>4. w.start <= 60 \/ w.start >= 120
        BY <4>3 DEF NoneInTheHour
      <4>5. w.start \in Int
        BY <1>0, <3>2, <4>1, RankTypes, WindowStarts, NthCosy
      <4>6. Stroke(w.start) <= 120
        <5>1. ASSUME NEW m \in Int, m <= 60 \/ m >= 120, Stroke(m) <= clock
              PROVE  Stroke(m) <= 120
          BY <1>0, <2>1, <5>1 DEF Stroke
        <5> QED
          BY <4>1, <4>4, <4>5, <5>1
      <4>7. Nth(Rank(s))' = Nth(Rank(s))
        BY <1>0 DEF Nth
      <4> QED
        BY <2>1, <4>6, <4>7 DEF Reached
    <3> QED
      BY <3>1, <3>2
  <2> QED
    BY <2>1, <2>2 DEF LaunchInv
<1>6. CASE UNCHANGED vars \/ Restore \/ Restart
  <2>1. UNCHANGED <<day, slot, launched, again>> /\ clock' = clock
    BY <1>6 DEF vars, Restore, Restart
  <2> QED
    BY <1>0, <1>1, <2>1
<1> QED
  BY <1>2, <1>3, <1>4, <1>5, <1>6, StepCases

\* The slot that a Cosy window stands for is the current one in that window.
LEMMA CosyIsCurrent ==
    ASSUME windows \in Configs, Apart(windows), Nth(3) # {},
           NEW t \in Int, t <= Stroke(1439), NEW s \in CosySlot(t)
    PROVE  CurrentSlot(t) = {s} /\ s # "overnight_battery"
<1>1. PICK n \in 1..3 : /\ s = CosySlotName[n]
                        /\ \E w \in Nth(n) : Stroke(w.start) <= t /\ t < Stroke(EbusEnd(w.end))
  BY DEF CosySlot
<1>2. PICK w \in Nth(n) : Stroke(w.start) <= t /\ t < Stroke(EbusEnd(w.end))
  BY <1>1
<1>3. w \in CosyWindows /\ w.start \in Int /\ w.end \in Int
  BY <1>2, WindowStarts, NthCosy
<1>4. t <= Stroke(w.end)
  <2>1. w.end >= 1 /\ w.end <= 1439
    <3>1. w.end \in 1..1439
      BY <1>3, WindowTypes
    <3> DEFINE e == w.end
    <3>2. e \in 1..1439
      BY <3>1
    <3> HIDE DEF e
    <3>3. 1 <= e /\ e <= 1439
      BY <3>2
    <3> QED
      BY <3>3 DEF e
  <2>2. CASE w.end = 1439
    BY <2>2
  <2>3. CASE w.end # 1439
    <3>1. EbusEnd(w.end) = w.end
      BY <1>3, <2>1, <2>3 DEF EbusEnd
    <3> QED
      BY <1>2, <1>3, <3>1 DEF Stroke
  <2> QED
    BY <2>2, <2>3
<1>5. Within(t, w)
  BY <1>2, <1>4, WithinBounds
<1>6. \A m \in 1..3 : m > n => ~WithinAny(t, Nth(m))
  <2>1. SUFFICES ASSUME NEW m \in 1..3, m > n, NEW v \in Nth(m), Within(t, v) PROVE FALSE
    BY DEF WithinAny
  <2>2. w.end < v.start /\ v.start \in Int
    BY <2>1, InOrderApart, WindowStarts, NthCosy
  <2>3. Stroke(v.start) <= t
    BY <2>1 DEF Within
  <2>4. \A a, b \in Int : a < b => Stroke(a) < Stroke(b)
    BY DEF Stroke
  <2>5. Stroke(w.end) < Stroke(v.start) /\ Stroke(w.end) \in Int /\ Stroke(v.start) \in Int
    BY <1>3, <2>2, <2>4 DEF Stroke
  <2> QED
    BY <1>4, <2>3, <2>5
<1>7. \A m \in 1..3 : m < n => ~WithinAny(t, Nth(m))
  <2>1. SUFFICES ASSUME NEW m \in 1..3, m < n, NEW v \in Nth(m), Within(t, v) PROVE FALSE
    BY DEF WithinAny
  <2>2. v.end < w.start /\ v.end \in Int
    BY <2>1, InOrderApart, WindowStarts, NthCosy
  <2>3. t <= Stroke(v.end)
    BY <2>1, WithinBounds
  <2>4. \A a, b \in Int : a < b => Stroke(a) < Stroke(b)
    BY DEF Stroke
  <2>5. Stroke(v.end) < Stroke(w.start) /\ Stroke(v.end) \in Int /\ Stroke(w.start) \in Int
    BY <1>3, <2>2, <2>4 DEF Stroke
  <2> QED
    BY <1>2, <2>3, <2>5
<1>8. ~\E v \in Nth(1) : t < Stroke(v.start)
  <2>1. SUFFICES ASSUME NEW v \in Nth(1), t < Stroke(v.start) PROVE FALSE
    OBVIOUS
  <2>2. v.start <= w.start /\ v.start \in Int
    BY <1>3, FirstStart, WindowStarts, NthCosy
  <2>3. Stroke(v.start) <= Stroke(w.start) /\ Stroke(v.start) \in Int /\ Stroke(w.start) \in Int
    BY <1>3, <2>2 DEF Stroke
  <2> QED
    BY <1>2, <2>1, <2>3
<1>9. WithinAny(t, Nth(n))
  BY <1>5 DEF WithinAny
<1>10. CASE n = 1
  <2>1. s = "cosy_morning"
    BY <1>1, <1>10 DEF CosySlotName
  <2> QED
    BY <1>6, <1>8, <1>9, <1>10, <2>1 DEF CurrentSlot
<1>11. CASE n = 2
  <2>1. s = "afternoon_fallback"
    BY <1>1, <1>11 DEF CosySlotName
  <2> QED
    BY <1>6, <1>7, <1>8, <1>9, <1>11, <2>1 DEF CurrentSlot
<1>12. CASE n = 3
  <2>1. s = "evening_bank"
    BY <1>1, <1>12 DEF CosySlotName
  <2> QED
    BY <1>9, <1>12, <2>1 DEF CurrentSlot
<1> QED
  BY <1>10, <1>11, <1>12

LEMMA NeedStep ==
    TypeOK /\ TypeOK' /\ Apart(windows) /\ SlotInv /\ MemoryInv /\ NeedInv /\ [Next]_vars
    => NeedInv'
<1> SUFFICES ASSUME TypeOK, TypeOK', Apart(windows), SlotInv, MemoryInv, NeedInv, [Next]_vars,
                    Nth(3)' # {}, clock' <= Stroke(1439)
             PROVE  needed' \subseteq launched'
  BY DEF NeedInv, Stroke
<1> USE DEF history, memory
<1>0. /\ windows \in Configs /\ Nth(3) # {}
      /\ clock \in Int /\ clock' \in Int
      /\ windows' = windows
  <2>1. windows \in Configs
    BY DEF TypeOK
  <2>2. windows' = windows
    BY WindowsStay
  <2>3. Nth(3) # {}
    BY <2>2 DEF Nth
  <2> QED
    BY <2>1, <2>2, <2>3, ClockType
<1>1. ASSUME UNCHANGED <<needed, launched>>, clock <= Stroke(1439)
      PROVE  needed' \subseteq launched'
  BY <1>0, <1>1 DEF NeedInv
<1>2. ASSUME NEW t1 \in Reading \union {0}, NEW others \in Others, Cycle(t1, others)
      PROVE  needed' \subseteq launched'
  <2>1. clock' = clock
    BY <1>2 DEF Cycle
  <2>2. needed \subseteq launched /\ launched \subseteq launched'
    BY <1>0, <1>2, <2>1, CycleLaunches DEF NeedInv
  <2>3. CASE others.dhw \/ ~NeedsCharge(t1, others)
    BY <1>2, <2>2, <2>3 DEF Cycle
  <2>4. ASSUME ~others.dhw, NeedsCharge(t1, others), NEW s \in CosySlot(clock)
        PROVE  s \in launched'
    <3>1. CurrentSlot(clock) = {s} /\ s # "overnight_battery"
      BY <1>0, <2>1, CosyIsCurrent
    <3>2. s \in PlanLaunch(t1, others)
      BY <2>4, <3>1 DEF PlanLaunch
    <3>3. CASE slot = <<day, s>>
      BY <2>2, <2>4, <3>3, SlotTypes DEF MemoryInv
    <3>4. CASE slot # <<day, s>>
      <4>1. s \in Due(t1, others)
        BY <3>2, <3>4 DEF Due, SlotKey
      <4>2. \E r \in Due(t1, others) : r \in CurrentSlot(clock) /\ launched' = launched \union {r}
        BY <1>2, <2>4, <4>1, CycleLaunches
      <4> QED
        BY <3>1, <4>2
    <3> QED
      BY <3>3, <3>4
  <2>5. needed' \subseteq needed \union CosySlot(clock)
    BY <1>2 DEF Cycle
  <2> QED
    BY <2>2, <2>3, <2>4, <2>5
<1>3. ASSUME NEW t \in Instant, NextDay(t) PROVE needed' \subseteq launched'
  BY <1>3 DEF NextDay
<1>4. ASSUME NEW t \in Instant, LaterToday(t) PROVE needed' \subseteq launched'
  <2>1. UNCHANGED <<needed, launched>> /\ clock' > clock
    BY <1>4 DEF LaterToday
  <2> QED
    BY <1>0, <1>1, <2>1 DEF Stroke
<1>5. CASE ClocksGoBack
  BY <1>0, <1>1, <1>5 DEF ClocksGoBack, Stroke
<1>6. CASE UNCHANGED vars \/ Restore \/ Restart
  <2>1. UNCHANGED <<needed, launched, clock>>
    BY <1>6 DEF vars, Restore, Restart
  <2> QED
    BY <1>1, <2>1
<1> QED
  BY <1>2, <1>3, <1>4, <1>5, <1>6, StepCases

LEMMA InitLaunches == Init => SlotInv /\ MemoryInv /\ LaunchInv /\ NeedInv
<1> SUFFICES ASSUME Init PROVE SlotInv /\ MemoryInv /\ LaunchInv /\ NeedInv
  OBVIOUS
<1>1. slot = <<0, "none">> /\ day = 0
  BY DEF Init, memory
<1>2. launched = {} /\ needed = {}
  BY DEF Init, history
<1>3. ~again
  BY DEF Init, history
<1>4. \A s \in Slot : s # "none"
  BY DEF Slot
<1>5. SlotInv
  BY <1>1 DEF SlotInv
<1>6. MemoryInv
  BY <1>1, <1>2, <1>4 DEF MemoryInv
<1>7. LaunchInv
  BY <1>2, <1>3 DEF LaunchInv
<1> QED
  BY <1>2, <1>5, <1>6, <1>7 DEF NeedInv

\* A slot of a date is launched once, for tariffs whose windows neither overlap nor
\* touch, and none of which begins in the hour that comes twice.
THEOREM SlotsLaunchedOnce ==
    ASSUME \A c \in Configs : Apart(c) /\ NoneInTheHour(c)
    PROVE  Spec => []OncePerSlot
<1> DEFINE Inv == TypeOK /\ SlotInv /\ MemoryInv /\ LaunchInv
<1>1. Init => Inv
  BY InitTypes, InitLaunches
<1>2. Inv /\ [Next]_vars => Inv'
  <2> SUFFICES ASSUME Inv, [Next]_vars PROVE Inv'
    OBVIOUS
  <2>1. TypeOK'
    BY StepTypes
  <2>2. Apart(windows) /\ NoneInTheHour(windows)
    BY DEF TypeOK
  <2> QED
    BY <2>1, <2>2, MemoryStep, LaunchStep
<1>3. Inv => OncePerSlot
  BY DEF LaunchInv, OncePerSlot
<1> QED
  BY <1>1, <1>2, <1>3, PTL DEF Spec

\* A charge found necessary in a Cosy window has been launched, for tariffs whose
\* windows neither overlap nor touch; one may begin in the hour that comes twice.
THEOREM NeedsLaunched ==
    ASSUME \A c \in Configs : Apart(c)
    PROVE  Spec => []CosyNeedLaunched
<1> DEFINE Inv == TypeOK /\ SlotInv /\ MemoryInv /\ NeedInv
<1>1. Init => Inv
  BY InitTypes, InitLaunches
<1>2. Inv /\ [Next]_vars => Inv'
  <2> SUFFICES ASSUME Inv, [Next]_vars PROVE Inv'
    OBVIOUS
  <2>1. TypeOK'
    BY StepTypes
  <2>2. Apart(windows)
    BY DEF TypeOK
  <2> QED
    BY <2>1, <2>2, MemoryStep, NeedStep
<1>3. Inv => CosyNeedLaunched
  BY DEF NeedInv, CosyNeedLaunched
<1> QED
  BY <1>1, <1>2, <1>3, PTL DEF Spec

-----------------------------------------------------------------------------
(* The morning's register. What the last reading called for was written, or   *)
(* stood there already, or the baseline was restored over it: the controller *)
(* only forgets what it wrote, it never remembers a write that was not made. *)

AllRails == FirstThree(CosyWindows)
DayRails == FirstThree({ w \in CosyWindows : w.end # Waking })

\* The register of weekday d is right for a waking that is cold, or that is not.
Standing(d, cold) ==
    \/ cold /\ timer[d] = AllRails
    \/ ~cold /\ timer[d] = DayRails
    \/ restored # "no" /\ timer[d] = AllRails

\* What is remembered is what the last reading called for; and a restore that may
\* have been noticed has been, for nothing is remembered.
MemoInv ==
    /\ weekday # Week => seen.t1 # 0 /\ weekday = Call(seen)[1] /\ morning = Call(seen)[2]
    /\ restored = "known" => weekday = Week

SeenInv == seen.t1 # 0 => Standing(Call(seen)[1], Call(seen)[2])

\* A reading is of the past, but for the hour that comes twice.
PastInv ==
    /\ seen \in [day: Int, clock: Int, t1: Nat]
    /\ seen.day <= day
    /\ seen.day = day => seen.clock <= clock \/ seen.clock < Stroke(120)

LEMMA PayloadCases ==
    ASSUME NEW keep \in BOOLEAN
    PROVE  (keep => Payload(keep) = AllRails) /\ (~keep => Payload(keep) = DayRails)
<1> DEFINE ws == { w \in CosyWindows : keep \/ w.end # Waking }
<1>1. Payload(keep) = FirstThree(ws)
  BY Zenon DEF Payload, FirstThree
<1>2. keep => ws = CosyWindows
  OBVIOUS
<1>3. ~keep => ws = { w \in CosyWindows : w.end # Waking }
  OBVIOUS
<1> HIDE DEF ws
<1> QED
  BY <1>1, <1>2, <1>3 DEF AllRails, DayRails

\* No window of three is left out of the registers.
LEMMA NoneLeftOut ==
    ASSUME windows \in Configs, Cardinality(windows) <= 3, NEW ws \in SUBSET CosyWindows
    PROVE  FirstThree(ws) = { [w EXCEPT !.end = EbusEnd(@)] : w \in ws }
<1>1. ASSUME NEW w \in ws PROVE Cardinality(Before(w, ws)) < 3
  <2>1. IsFiniteSet(CosyWindows) /\ Cardinality(CosyWindows) <= Cardinality(windows)
        /\ IsFiniteSet(windows)
    BY WindowTypes
  <2>2. w \in CosyWindows /\ w.start \in Int
    BY WindowStarts
  <2>3. Before(w, ws) \subseteq CosyWindows \ {w}
    BY <2>2 DEF Before
  <2>4. /\ IsFiniteSet(CosyWindows \ {w})
        /\ Cardinality(CosyWindows \ {w}) = Cardinality(CosyWindows) - 1
    BY <2>1, <2>2, FS_RemoveElement
  <2>5. /\ IsFiniteSet(Before(w, ws))
        /\ Cardinality(Before(w, ws)) <= Cardinality(CosyWindows \ {w})
    BY <2>3, <2>4, FS_Subset
  <2>6. /\ Cardinality(Before(w, ws)) \in Nat /\ Cardinality(CosyWindows) \in Nat
        /\ Cardinality(windows) \in Nat
    BY <2>1, <2>5, FS_CardinalityType
  <2> QED
    BY <2>1, <2>4, <2>5, <2>6
<1>2. { w \in ws : Cardinality(Before(w, ws)) < 3 } = ws
  BY <1>1
<1> QED
  BY <1>2 DEF FirstThree

LEMMA RailsCases ==
    ASSUME windows \in Configs, Cardinality(windows) <= 3
    PROVE  /\ AllRails = Rails(windows)
           /\ DayRails = Rails({ w \in windows : w.end # Waking })
<1> DEFINE Run(w) == [w EXCEPT !.end = RuntimeEnd(@)]
           Ebus(w) == [w EXCEPT !.end = EbusEnd(@)]
           Rail(w) == [start |-> w.start,
                       end |-> IF w.end \in {0, 1439} THEN 1440 ELSE w.end]
           late == { w \in windows : w.end # Waking }
           lateRun == { w \in CosyWindows : w.end # Waking }
<1>1. \A w \in windows : /\ Ebus(Run(w)) = Rail(w)
                         /\ Run(w).end # Waking <=> w.end # Waking
  <2>1. SUFFICES ASSUME NEW w \in windows
                 PROVE  Ebus(Run(w)) = Rail(w) /\ (Run(w).end # Waking <=> w.end # Waking)
    OBVIOUS
  <2>2. w \in [start: Minute, end: Minute]
    BY WindowTypes DEF Window
  <2>3. w.end \in Int
    BY <2>2 DEF Minute
  <2> DEFINE v == [start |-> w.start, end |-> RuntimeEnd(w.end)]
  <2>4. Run(w) = v
    BY <2>2
  <2>5. [v EXCEPT !.end = EbusEnd(@)] = [start |-> w.start, end |-> EbusEnd(RuntimeEnd(w.end))]
    OBVIOUS
  <2>6. Ebus(Run(w)) = [start |-> w.start, end |-> EbusEnd(RuntimeEnd(w.end))]
    <3> HIDE DEF v
    <3> QED
      BY Zenon, <2>4, <2>5
  <2>7. /\ EbusEnd(RuntimeEnd(w.end)) = IF w.end \in {0, 1439} THEN 1440 ELSE w.end
        /\ RuntimeEnd(w.end) # Waking <=> w.end # Waking
    BY <2>3 DEF EbusEnd, RuntimeEnd, Waking
  <2> QED
    BY <2>4, <2>6, <2>7
<1>2. \A x : x \in CosyWindows <=> \E w \in windows : x = Run(w)
  BY DEF CosyWindows, RuntimeWindows
<1>3. /\ AllRails = { Ebus(w) : w \in CosyWindows }
      /\ DayRails = { Ebus(w) : w \in lateRun }
  BY NoneLeftOut DEF AllRails, DayRails
<1>4. Rails(windows) = { Rail(w) : w \in windows } /\ Rails(late) = { Rail(w) : w \in late }
  BY DEF Rails
<1> HIDE DEF Run, Ebus, Rail
<1>5. { Ebus(w) : w \in CosyWindows } = { Rail(w) : w \in windows }
  BY <1>1, <1>2
<1>6. { Ebus(w) : w \in lateRun } = { Rail(w) : w \in late }
  <2>1. ASSUME NEW w \in lateRun PROVE \E v \in late : Ebus(w) = Rail(v)
    BY <1>1, <1>2
  <2>2. ASSUME NEW v \in late PROVE \E w \in lateRun : Ebus(w) = Rail(v)
    <3>1. Run(v) \in lateRun
      BY <1>1, <1>2
    <3> QED
      BY <1>1, <3>1
  <2> QED
    BY <2>1, <2>2
<1> QED
  BY <1>3, <1>4, <1>5, <1>6

LEMMA InitTimer == Init => MemoInv /\ SeenInv /\ PastInv
<1> SUFFICES ASSUME Init PROVE MemoInv /\ SeenInv /\ PastInv
  OBVIOUS
<1>1. /\ weekday = Week /\ seen = [day |-> 0, clock |-> 0, t1 |-> 0] /\ day = 0
      /\ clock \in Instant /\ restored = "no"
  BY DEF Init, NoReading, memory, history
<1>2. clock >= 0
  BY <1>1, DhwPlanAssumption
<1> QED
  BY <1>1, <1>2 DEF MemoInv, SeenInv, PastInv

LEMMA RailsStay ==
    ASSUME windows' = windows
    PROVE  AllRails' = AllRails /\ DayRails' = DayRails
BY DEF AllRails, DayRails, FirstThree, CosyWindows, RuntimeWindows

\* A reading calls for the register of a weekday that exists.
LEMMA CallType ==
    ASSUME NEW r \in [day: Int, clock: Int, t1: Nat]
    PROVE  Call(r)[1] \in 0..(Week - 1) /\ Call(r)[2] \in BOOLEAN
<1>1. Week \in Nat \ {0}
  BY DhwPlanAssumption
<1>2. \A d \in Int : d % Week \in 0..(Week - 1)
  BY <1>1
<1>3. r.day \in Int
  OBVIOUS
<1>4. ComingWeekday(r.day, r.clock) \in 0..(Week - 1)
  BY <1>2, <1>3 DEF ComingWeekday
<1>5. ColdAtWaking(r.t1, r.clock) \in BOOLEAN
  BY DEF ColdAtWaking
<1> QED
  BY <1>4, <1>5 DEF Call

LEMMA CallStays ==
    ASSUME seen' = seen
    PROVE  Call(seen)' = Call(seen)
BY DEF Call, ComingWeekday, ColdAtWaking, Surplus, MinutesUntil

LEMMA TimerStep ==
    TypeOK /\ PastInv /\ MemoInv /\ SeenInv /\ [Next]_vars => MemoInv' /\ SeenInv'
<1> SUFFICES ASSUME TypeOK, PastInv, MemoInv, SeenInv, [Next]_vars PROVE MemoInv' /\ SeenInv'
  OBVIOUS
<1> USE DEF history, memory
<1>0. /\ AllRails' = AllRails /\ DayRails' = DayRails
      /\ Week \in Nat \ {0}
  BY WindowsStay, RailsStay, DhwPlanAssumption
<1>1. ASSUME UNCHANGED <<timer, weekday, morning, seen, restored>> PROVE MemoInv' /\ SeenInv'
  BY <1>0, <1>1, CallStays DEF MemoInv, SeenInv, Standing
<1>2. ASSUME NEW t1 \in Reading \union {0}, NEW others \in Others, Cycle(t1, others)
      PROVE  MemoInv' /\ SeenInv'
  <2>1. CASE t1 = 0
    BY <1>1, <1>2, <2>1 DEF Cycle, SyncTimer
  <2>2. CASE t1 # 0
    <3> DEFINE r == [day |-> day, clock |-> clock, t1 |-> t1]
               target == Call(r)[1]
               keep == Call(r)[2]
    <3>1. target = TargetWeekday(clock) /\ keep = ColdAtWaking(t1, clock)
      BY DEF Call, TargetWeekday
    <3>2. target \in 0..(Week - 1) /\ keep \in BOOLEAN /\ target # Week
      <4>1. day \in Int /\ clock \in Int /\ t1 \in Nat
        BY ClockType, DhwPlanAssumption DEF TypeOK
      <4>2. target \in 0..(Week - 1) /\ keep \in BOOLEAN
        BY <4>1, CallType
      <4> HIDE DEF target, keep
      <4> QED
        BY <1>0, <4>2
    <3>3. seen' = r /\ restored' = Outlasts(r)
      BY <1>2, <2>2 DEF Cycle
    <3>4. seen'.t1 # 0 /\ Call(seen)'[1] = target /\ Call(seen)'[2] = keep
      BY <2>2, <3>3 DEF Call, ComingWeekday, ColdAtWaking, Surplus, MinutesUntil
    <3>5. \/ weekday = target /\ morning = keep /\ UNCHANGED <<timer, weekday, morning>>
          \/ /\ timer' = [timer EXCEPT ![target] = Payload(keep)]
             /\ weekday' = target /\ morning' = keep
      BY <1>2, <2>2, <3>1 DEF Cycle, SyncTimer
    <3>6. restored' \in {"no", "behind"}
      BY <3>3 DEF Outlasts
    <3>7. weekday' = target /\ morning' = keep
      BY <3>5
    <3>8. MemoInv'
      BY <3>4, <3>6, <3>7 DEF MemoInv
    <3>9. Call(r) = <<target, keep>> /\ Call(seen) = <<Call(seen)[1], Call(seen)[2]>>
      BY DEF Call
    <3> HIDE DEF target, keep
    <3>10. CASE weekday = target /\ morning = keep /\ UNCHANGED <<timer, weekday, morning>>
      <4>1. weekday # Week
        BY <3>2, <3>10
      <4>2. seen.t1 # 0 /\ Call(seen)[1] = target /\ Call(seen)[2] = keep /\ restored # "known"
        BY <3>10, <4>1 DEF MemoInv
      <4>3. Call(r) = Call(seen)
        BY <3>9, <4>2
      <4>4. restored' = restored
        <5>1. restored \in {"no", "behind", "known"}
          BY DEF TypeOK
        <5> QED
          BY <3>3, <4>2, <4>3, <5>1 DEF Outlasts
      <4>5. Standing(target, keep)
        BY <4>2 DEF SeenInv
      <4>6. \/ keep /\ timer'[target] = AllRails'
            \/ ~keep /\ timer'[target] = DayRails'
            \/ restored' # "no" /\ timer'[target] = AllRails'
        BY <1>0, <3>10, <4>4, <4>5 DEF Standing
      <4> QED
        BY <3>4, <3>8, <4>6 DEF SeenInv, Standing
    <3>11. CASE timer' = [timer EXCEPT ![target] = Payload(keep)]
      <4>1. timer \in [0..(Week - 1) -> SUBSET [start: Minute, end: 0..1440]]
        BY DEF TypeOK
      <4>2. timer'[target] = Payload(keep)
        BY <3>2, <3>11, <4>1
      <4>3. (keep => Payload(keep) = AllRails) /\ (~keep => Payload(keep) = DayRails)
        BY <3>2, PayloadCases
      <4>4. \/ keep /\ timer'[target] = AllRails'
            \/ ~keep /\ timer'[target] = DayRails'
        BY <1>0, <3>2, <4>2, <4>3
      <4> QED
        BY <3>4, <3>8, <4>4 DEF SeenInv, Standing
    <3> QED
      BY <3>5, <3>10, <3>11
  <2> QED
    BY <2>1, <2>2
<1>3. CASE Restart
  <2>1. weekday' = Week /\ UNCHANGED <<timer, seen>> /\ Week' = Week
    BY <1>3 DEF Restart
  <2>2. restored' # "no" <=> restored # "no"
    BY <1>3 DEF Restart, Noticed
  <2>3. SeenInv'
    BY <1>0, <2>1, <2>2, CallStays DEF SeenInv, Standing
  <2> QED
    BY <2>1, <2>3 DEF MemoInv
<1>4. CASE Restore
  <2>1. /\ timer' = [d \in 0..(Week - 1) |-> Payload(TRUE)] /\ restored' = "behind"
        /\ UNCHANGED <<weekday, morning, seen>>
    BY <1>4 DEF Restore
  <2>2. MemoInv'
    BY <2>1, CallStays DEF MemoInv
  <2>3. Call(seen)[1] \in 0..(Week - 1)
    BY CallType DEF PastInv
  <2>4. Payload(TRUE) = AllRails
    BY PayloadCases
  <2>5. timer'[Call(seen)[1]] = AllRails'
    BY <1>0, <2>1, <2>3, <2>4
  <2>6. SeenInv'
    BY <2>1, <2>5, CallStays DEF SeenInv, Standing
  <2> QED
    BY <2>2, <2>6
<1>5. CASE UNCHANGED vars \/ ClocksGoBack \/ \E t \in Instant : LaterToday(t) \/ NextDay(t)
  BY <1>1, <1>5 DEF vars, ClocksGoBack, LaterToday, NextDay
<1> QED
  BY <1>2, <1>3, <1>4, <1>5, StepCases

LEMMA PastStep ==
    TypeOK /\ TypeOK' /\ PastInv /\ [Next]_vars => PastInv'
<1> SUFFICES ASSUME TypeOK, TypeOK', PastInv, [Next]_vars PROVE PastInv'
  OBVIOUS
<1> USE DEF history, memory
<1>0. day \in Int /\ clock \in Int /\ clock' \in Int
  <2>1. day \in Int
    BY DEF TypeOK
  <2> QED
    BY <2>1, ClockType
<1>1. ASSUME UNCHANGED <<day, seen>>, clock' >= clock PROVE PastInv'
  BY <1>0, <1>1 DEF PastInv, Stroke
<1>2. ASSUME NEW t1 \in Reading \union {0}, NEW others \in Others, Cycle(t1, others)
      PROVE  PastInv'
  <2>1. day' = day /\ clock' = clock /\ t1 \in Nat
    BY <1>2, DhwPlanAssumption DEF Cycle
  <2>2. CASE seen' = seen
    BY <1>0, <1>1, <2>1, <2>2
  <2>3. CASE seen' = [day |-> day, clock |-> clock, t1 |-> t1]
    BY <1>0, <2>1, <2>3 DEF PastInv
  <2> QED
    BY <1>2, <2>2, <2>3 DEF Cycle
<1>3. ASSUME NEW t \in Instant, NextDay(t) PROVE PastInv'
  BY <1>0, <1>3 DEF NextDay, PastInv
<1>4. CASE ClocksGoBack
  BY <1>0, <1>4 DEF ClocksGoBack, PastInv, Stroke
<1>5. CASE \E t \in Instant : LaterToday(t)
  BY <1>0, <1>1, <1>5 DEF LaterToday
<1>6. CASE UNCHANGED vars \/ Restore \/ Restart
  <2>1. UNCHANGED <<day, seen, clock>>
    BY <1>6 DEF vars, Restore, Restart
  <2> QED
    BY <1>0, <1>1, <2>1
<1> QED
  BY <1>2, <1>3, <1>4, <1>5, <1>6, StepCases

\* What the last reading calls for, by the hours to the waking it was taken for.
LEMMA MorningAsRead ==
    ASSUME TypeOK, SeenInv, PastInv, Cardinality(windows) <= 3
    PROVE  WindowFollowsLastReading
<1> DEFINE recent == seen.day = day \/ (seen.day = day - 1 /\ seen.clock > Stroke(Waking) + 1)
           minutes == 1440 * (day - seen.day) + Waking - seen.clock \div 2
           cold == 60 * (seen.t1 - Trigger) < DecayPerHour * minutes
           register == timer[day % Week]
<1> SUFFICES ASSUME clock < Stroke(Waking), seen.t1 # 0, recent
             PROVE  \/ register = Rails({ w \in windows : cold \/ w.end # Waking })
                    \/ restored # "no" /\ register = Rails(windows)
  BY Zenon DEF WindowFollowsLastReading
<1>1. /\ windows \in Configs /\ day \in Int /\ clock \in Int
      /\ seen.day \in Int /\ seen.clock \in Int /\ seen.t1 \in Int
  <2>1. seen \in [day: Int, clock: Int, t1: Nat]
    BY DEF PastInv
  <2>2. windows \in Configs /\ day \in Int
    BY DEF TypeOK
  <2> QED
    BY <2>1, <2>2, ClockType
<1>2. ComingWeekday(seen.day, seen.clock) = day % Week /\ MinutesUntil(seen.clock, Waking) = minutes
  <2>1. CASE seen.day = day
    <3>1. seen.clock < 840
      BY <1>1, <2>1 DEF PastInv, Stroke, Waking
    <3>2. seen.clock \div 2 <= 420
      BY <1>1, <3>1
    <3> QED
      BY <1>1, <2>1, <3>1, <3>2 DEF ComingWeekday, MinutesUntil, Stroke, Waking
  <2>2. CASE seen.day = day - 1 /\ seen.clock > Stroke(Waking) + 1
    <3>1. seen.clock >= 842
      BY <1>1, <2>2 DEF Stroke, Waking
    <3>2. seen.clock \div 2 > 420
      BY <1>1, <3>1
    <3>3. seen.day + 1 = day
      BY <1>1, <2>2
    <3>4. ComingWeekday(seen.day, seen.clock) = day % Week
      BY <1>1, <3>1, <3>3 DEF ComingWeekday, Stroke, Waking
    <3> QED
      BY <1>1, <2>2, <3>2, <3>4 DEF MinutesUntil, Waking
  <2> QED
    BY <2>1, <2>2
<1>3. minutes \in Int
  BY <1>1 DEF Waking
<1>4. ColdAtWaking(seen.t1, seen.clock) <=> cold
  <2> HIDE DEF minutes
  <2> QED
    BY <1>1, <1>2, <1>3 DEF ColdAtWaking, Surplus, Trigger, DecayPerHour
<1>5. \/ cold /\ register = Rails(windows)
      \/ ~cold /\ register = Rails({ w \in windows : w.end # Waking })
      \/ restored # "no" /\ register = Rails(windows)
  <2>1. Call(seen)[1] = day % Week /\ (Call(seen)[2] <=> cold)
    <3> HIDE DEF cold
    <3> QED
      BY <1>2, <1>4 DEF Call
  <2> HIDE DEF cold
  <2> QED
    BY <1>1, <2>1, RailsCases DEF SeenInv, Standing
<1>6. CASE cold
  <2>1. { w \in windows : cold \/ w.end # Waking } = windows
    BY <1>6
  <2> HIDE DEF cold, register
  <2> QED
    BY <1>5, <1>6, <2>1
<1>7. CASE ~cold
  <2>1. { w \in windows : cold \/ w.end # Waking } = { w \in windows : w.end # Waking }
    BY <1>7
  <2> HIDE DEF cold, register
  <2> QED
    BY <1>5, <1>7, <2>1
<1> QED
  BY <1>6, <1>7

\* The morning the VRC 700 is coming to is treated as the last reading calls for, or
\* kept where a restore of the baseline kept it and the controller has not written
\* since; for tariffs of up to three windows, which is what a register holds.
THEOREM MorningFollowsReading ==
    ASSUME \A c \in Configs : Cardinality(c) <= 3
    PROVE  Spec => []WindowFollowsLastReading
<1> DEFINE Inv == TypeOK /\ MemoInv /\ SeenInv /\ PastInv
<1>1. Init => Inv
  BY InitTypes, InitTimer
<1>2. Inv /\ [Next]_vars => Inv'
  <2> SUFFICES ASSUME Inv, [Next]_vars PROVE Inv'
    OBVIOUS
  <2>1. TypeOK'
    BY StepTypes
  <2> QED
    BY <2>1, TimerStep, PastStep
<1>3. Inv => WindowFollowsLastReading
  BY MorningAsRead DEF TypeOK
<1> QED
  BY <1>1, <1>2, <1>3, PTL DEF Spec

=============================================================================
