-------------------------- MODULE FeedMirrorProofs --------------------------
(***************************************************************************)
(* Theorems about FeedMirror: for any feeds, any length of chunks and gaps,*)
(* any kinds of minutes, any lag of emoncms and any number of faults, the  *)
(* mirror is complete up to its marks and the frame says what it made up.  *)
(***************************************************************************)
EXTENDS FeedMirror, WellFoundedInduction, NaturalsInduction, TLAPS

-----------------------------------------------------------------------------
(* Extremes of sets of numbers.                                            *)

LEMMA LeastNatural ==
    ASSUME NEW T \in SUBSET Nat, T # {}
    PROVE  \E x \in T : \A y \in T : x <= y
<1> DEFINE R == OpToRel(<, Nat)
<1>1. IsWellFoundedOn(R, Nat) BY NatLessThanWellFounded
<1> HIDE DEF R
<1>2. PICK x \in T : \A y \in T : ~ (<<y, x>> \in R) BY <1>1, WFMin
<1>3. ASSUME NEW y \in T PROVE x <= y
  <2>1. x \in Nat /\ y \in Nat OBVIOUS
  <2>2. y < x => <<y, x>> \in R BY <2>1 DEF R, OpToRel
  <2> QED BY <1>2, <2>1, <2>2
<1> QED BY <1>2, <1>3

LEMMA MinIs ==
    ASSUME NEW T \in SUBSET Nat, T # {}
    PROVE  Min(T) \in T
<1>1. \E x \in T : \A y \in T : x <= y BY LeastNatural
<1> QED BY <1>1 DEF Min

LEMMA MaxIs ==
    ASSUME NEW b \in Nat, NEW T, T # {}, \A y \in T : y \in 0..b
    PROVE  Max(T) \in T /\ \A y \in T : y <= Max(T)
<1> DEFINE D == {b - y : y \in T}
<1>1. D \in SUBSET Nat /\ D # {}
  <2>1. PICK y \in T : TRUE OBVIOUS
  <2>2. b - y \in D BY <2>1
  <2>3. \A z \in T : b - z \in Nat OBVIOUS
  <2> QED BY <2>2, <2>3
<1>2. PICK d \in D : \A e \in D : d <= e BY <1>1, LeastNatural
<1>3. PICK x \in T : d = b - x OBVIOUS
<1>4. ASSUME NEW y \in T PROVE x >= y
  <2>1. b - y \in D OBVIOUS
  <2>2. b - x <= b - y BY <1>2, <1>3, <2>1
  <2>3. x \in Int /\ y \in Int OBVIOUS
  <2> QED BY <2>2, <2>3
<1>5. \E z \in T : \A y \in T : z >= y BY <1>4
<1>6. Max(T) \in T /\ \A y \in T : Max(T) >= y BY <1>5 DEF Max
<1> QED BY <1>6

LEMMA ChunkEndIs ==
    ASSUME NEW a \in Nat, NEW u \in Nat, a < u
    PROVE  ChunkEnd(a, u) \in Nat /\ a <= ChunkEnd(a, u) /\ ChunkEnd(a, u) <= u
<1>1. a + Chunk \in Nat /\ a <= a + Chunk BY FeedMirrorAssumption
<1>2. {a + Chunk, u} \in SUBSET Nat /\ {a + Chunk, u} # {} BY <1>1
<1>3. \E x \in {a + Chunk, u} : \A y \in {a + Chunk, u} : x <= y BY <1>2, LeastNatural
<1>4. /\ ChunkEnd(a, u) \in {a + Chunk, u}
      /\ \A y \in {a + Chunk, u} : ChunkEnd(a, u) <= y
  BY <1>3 DEF ChunkEnd, Min
<1>5. ChunkEnd(a, u) <= u BY <1>4
<1>6. ChunkEnd(a, u) \in Nat BY <1>1, <1>4
<1>7. a <= ChunkEnd(a, u) BY <1>1, <1>4
<1> QED BY <1>5, <1>6, <1>7

-----------------------------------------------------------------------------
(* The invariant.                                                          *)

\* Every minute up to top is in the mirror, was asked for too early, or is none.
Accounted(f, top) ==
    \A t \in 1..top : \/ t \in samples[f] \cup late[f]
                      \/ t \in DOMAIN log /\ ~Reported(f, t)

MarkInv ==
    \A f \in Feed :
        /\ mark[f] = 0 \/ mark[f] \in samples[f]
        /\ samples[f] \subseteq DOMAIN log
        /\ Accounted(f, mark[f])

\* The run of sync that is under way, on the i-th feed.
Fetching ==
    LET f == Feeds[sync.i]
    IN  /\ sync.last = mark[f] /\ sync.last <= sync.max /\ sync.max <= sync.at
        /\ sync.at <= sync.until /\ sync.until <= now
        /\ sync.max = sync.last \/ sync.max \in samples[f]
        /\ Accounted(f, sync.at)

SyncRun == [pc : {"chunk"}, i : 1..Len(Feeds), until : Nat, last : Nat, at : Nat, max : Nat]

SyncInv == sync = Resting \/ (sync \in SyncRun /\ Fetching)

\* A minute between two power samples: should its own arrive, it comes after a later one.
Bridged(t) ==
    /\ \E u \in samples[Power] : t < u
    /\ t \in samples[Power] => t \in belated

SimInv ==
    /\ \A f \in SimFeeds : \A t \in DOMAIN sim[f] : t \in Minute /\ Bridged(t)
    /\ fill = Resting
       \/ /\ fill = [pc |-> "fill", model |-> fill.model, todo |-> fill.todo]
          /\ \A g \in fill.todo :
                g.start \in Minute /\ g.end \in Minute /\ \A t \in Inside(g) : Bridged(t)

BaseInv ==
    /\ now \in 0..End /\ log \in Seq(Kind) /\ Len(log) <= now
    /\ samples \in [Feed -> SUBSET Minute] /\ mark \in [Feed -> 0..now]
    /\ late \in [Feed -> SUBSET Minute] /\ belated \subseteq Minute /\ faults \in 0..MaxFaults

IInv == BaseInv /\ MarkInv /\ SyncInv /\ SimInv

LEMMA Feeding ==
    /\ \A i \in 1..Len(Feeds) : Feeds[i] \in Feed
    /\ \A i, j \in 1..Len(Feeds) : Feeds[i] = Feeds[j] => i = j
    /\ Len(Feeds) \in Nat
<1>1. Feeds \in Seq(Feed) /\ IsInjective(Feeds) BY FeedMirrorAssumption
<1>2. Len(Feeds) \in Nat /\ DOMAIN Feeds = 1..Len(Feeds) BY <1>1
<1> QED BY <1>1, <1>2 DEF Feed, Range, IsInjective

LEMMA Constants ==
    /\ End \in Nat /\ Chunk \in Nat /\ MaxFaults \in Nat /\ Power \in Feed
    /\ SimFeeds \subseteq Feed
BY FeedMirrorAssumption

-----------------------------------------------------------------------------
(* What the invariant says of its parts.                                   *)

LEMMA InvTypes == IInv => TypeOK
<1> SUFFICES ASSUME IInv PROVE TypeOK OBVIOUS
<1>1. sync.pc \in {"idle", "chunk"} BY DEF IInv, SyncInv, SyncRun, Resting
<1>2. fill.pc \in {"idle", "fill"}
  <2>1. CASE fill = Resting BY <2>1 DEF Resting
  <2>2. CASE fill # Resting
    <3>1. fill = [pc |-> "fill", model |-> fill.model, todo |-> fill.todo]
      BY <2>2 DEF IInv, SimInv
    <3> QED BY <3>1
  <2> QED BY <2>1, <2>2
<1>3. sync.pc = "chunk" => sync.last <= sync.max /\ sync.at <= sync.until
  BY DEF IInv, SyncInv, Fetching, Resting
<1>4. \A f \in SimFeeds : DOMAIN sim[f] \subseteq Minute BY DEF IInv, SimInv
<1> QED BY <1>1, <1>2, <1>3, <1>4 DEF IInv, BaseInv, TypeOK

LEMMA InvComplete == IInv => MirrorComplete
<1> SUFFICES ASSUME IInv, NEW f \in Feed, NEW t \in 1..mark[f], Reported(f, t)
             PROVE  t \in samples[f] \cup Overtaken(f)
  BY DEF MirrorComplete
<1>1. mark[f] \in Nat BY Constants DEF IInv, BaseInv
<1>2. t \in samples[f] \cup late[f] BY DEF IInv, MarkInv, Accounted
<1>3. mark[f] \in samples[f] BY <1>1 DEF IInv, MarkInv
<1>4. CASE t = mark[f] BY <1>3, <1>4
<1>5. CASE t # mark[f]
  <2>1. t < mark[f] BY <1>1, <1>5
  <2> QED BY <1>2, <1>3, <2>1 DEF Overtaken
<1> QED BY <1>4, <1>5

LEMMA InvHonest == IInv => FrameHonest
<1> SUFFICES ASSUME IInv, NEW t \in Rows \ belated, NEW f \in Feed, Cell(f, t) = "simulated"
             PROVE  IsSimulated(t)
  BY DEF FrameHonest
<1>1. f \in SimFeeds /\ t \in DOMAIN sim[f] BY DEF Cell
<1>2. Bridged(t) BY <1>1 DEF IInv, SimInv
<1>3. t \notin samples[Power] BY <1>2 DEF Bridged
<1> QED BY <1>1, <1>3 DEF IsSimulated, SimOnly

-----------------------------------------------------------------------------
(* The steps.                                                              *)

LEMMA InvInit == Init => IInv
<1> SUFFICES ASSUME Init PROVE IInv OBVIOUS
<1> USE DEF Init, tables
<1>1. log \in Seq(Kind) /\ Len(log) = 0 OBVIOUS
<1>2. BaseInv BY <1>1, Constants DEF BaseInv
<1>3. MarkInv BY DEF MarkInv, Accounted
<1>4. SyncInv BY DEF SyncInv
<1>5. DOMAIN <<>> = {} OBVIOUS
<1>6. SimInv BY <1>5 DEF SimInv
<1> QED BY <1>2, <1>3, <1>4, <1>6 DEF IInv

LEMMA Logged ==
    BaseInv =>
        /\ Len(log) \in Nat /\ DOMAIN log = 1..Len(log) /\ DOMAIN log \subseteq 1..now
        /\ now \in Nat /\ now <= End /\ 1..now \subseteq Minute
<1>1. BaseInv => Len(log) \in Nat /\ DOMAIN log = 1..Len(log) BY DEF BaseInv
<1>2. BaseInv => now \in Nat /\ now <= End BY Constants DEF BaseInv
<1>3. BaseInv => Len(log) <= now BY DEF BaseInv
<1> QED BY <1>1, <1>2, <1>3, Constants DEF Minute

\* Time and the faults of the run matter to none of the parts but the types.
LEMMA SameParts ==
    ASSUME IInv, UNCHANGED <<log, samples, mark, late, sync, fill, sim, belated>>,
           now <= now', now' \in Nat
    PROVE  MarkInv' /\ SyncInv' /\ SimInv'
<1>1. MarkInv' BY DEF IInv, MarkInv, Accounted, Reported
<1>2. SyncInv'
  <2>1. now \in Nat BY Logged DEF IInv
  <2>2. \A u \in Nat : u <= now => u <= now' BY <2>1
  <2> QED BY <2>2 DEF IInv, SyncInv, Fetching, SyncRun, Accounted, Reported
<1>3. SimInv' BY DEF IInv, SimInv, Bridged, Inside
<1> QED BY <1>1, <1>2, <1>3

LEMMA InvTick == IInv /\ Tick => IInv'
<1> SUFFICES ASSUME IInv, Tick PROVE IInv' OBVIOUS
<1> USE DEF Tick, tables
<1>1. now \in Nat /\ now' = now + 1 /\ now < End BY Logged DEF IInv
<1>2. now' \in 0..End /\ now <= now' BY <1>1, Constants
<1>3. mark' \in [Feed -> 0..now']
  <2>1. 0..now \subseteq 0..now' BY <1>1
  <2> QED BY <2>1 DEF IInv, BaseInv
<1>4. Len(log') <= now' BY <1>1, Logged DEF IInv, BaseInv
<1>5. BaseInv' BY <1>2, <1>3, <1>4 DEF IInv, BaseInv
<1>6. MarkInv' /\ SyncInv' /\ SimInv' BY <1>1, <1>2, SameParts
<1> QED BY <1>5, <1>6 DEF IInv

\* A minute that is delivered was reported before as it is now, if it was there.
LEMMA InvDeliver == \A kind \in Kind : IInv /\ Deliver(kind) => IInv'
<1> SUFFICES ASSUME NEW kind \in Kind, IInv, Deliver(kind) PROVE IInv' OBVIOUS
<1> USE DEF Deliver, tables
<1>1. /\ log' \in Seq(Kind) /\ Len(log') = Len(log) + 1
      /\ DOMAIN log \subseteq DOMAIN log'
      /\ \A t \in DOMAIN log : log'[t] = log[t]
  BY DEF IInv, BaseInv
<1>2. BaseInv' BY <1>1, Logged DEF IInv, BaseInv
<1>3. \A f \in Feed, t \in DOMAIN log : Reported(f, t)' = Reported(f, t)
  BY <1>1 DEF Reported
<1>4. ASSUME NEW f \in Feed, NEW top \in Nat, Accounted(f, top) PROVE Accounted(f, top)'
  BY <1>1, <1>3, <1>4 DEF Accounted
<1>5. MarkInv'
  <2>1. \A f \in Feed : mark[f] \in Nat BY Constants DEF IInv, BaseInv
  <2> QED BY <1>1, <1>4, <2>1 DEF IInv, MarkInv, Accounted
<1>6. SyncInv'
  <2>1. CASE sync = Resting BY <2>1 DEF SyncInv
  <2>2. CASE sync # Resting
    <3>1. sync \in SyncRun /\ Fetching BY <2>2 DEF IInv, SyncInv
    <3>2. Feeds[sync.i] \in Feed /\ sync.at \in Nat BY <3>1, Feeding DEF SyncRun
    <3>3. Accounted(Feeds[sync.i], sync.at)' BY <1>4, <3>1, <3>2 DEF Fetching, Accounted
    <3> QED BY <3>1, <3>3 DEF SyncInv, Fetching, SyncRun
  <2> QED BY <2>1, <2>2
<1>7. SimInv' BY DEF IInv, SimInv, Bridged, Inside
<1> QED BY <1>2, <1>5, <1>6, <1>7 DEF IInv

-----------------------------------------------------------------------------
(* The steps of sync.                                                      *)

\* The run goes to a feed it has not closed yet, from that feed's mark on.
LEMMA OpenedIs ==
    ASSUME NEW i \in Nat \ {0}, NEW u \in Nat
    PROVE  \/ Opened(i, u) = Resting
           \/ \E j \in 1..Len(Feeds) :
                 /\ i <= j /\ mark[Feeds[j]] < u
                 /\ Opened(i, u) = [pc |-> "chunk", i |-> j, until |-> u,
                                    last |-> mark[Feeds[j]], at |-> mark[Feeds[j]],
                                    max |-> mark[Feeds[j]]]
<1> DEFINE due == {j \in i..Len(Feeds) : mark[Feeds[j]] < u}
<1>1. CASE due = {} BY <1>1 DEF Opened
<1>2. CASE due # {}
  <2>1. due \in SUBSET Nat BY Feeding
  <2>2. Min(due) \in due BY <1>2, <2>1, MinIs
  <2>3. Min(due) \in 1..Len(Feeds) /\ i <= Min(due) /\ mark[Feeds[Min(due)]] < u
    BY <2>2, Feeding
  <2>4. Opened(i, u) = [pc |-> "chunk", i |-> Min(due), until |-> u,
                        last |-> mark[Feeds[Min(due)]], at |-> mark[Feeds[Min(due)]],
                        max |-> mark[Feeds[Min(due)]]]
    BY <1>2 DEF Opened
  <2> QED BY <2>3, <2>4
<1> QED BY <1>1, <1>2

LEMMA InvStartSync == IInv /\ StartSync => IInv'
<1> SUFFICES ASSUME IInv, StartSync PROVE IInv' OBVIOUS
<1> USE DEF StartSync, tables
<1>1. BaseInv' BY DEF IInv, BaseInv
<1>2. MarkInv' BY DEF IInv, MarkInv, Accounted, Reported
<1>3. SimInv' BY DEF IInv, SimInv, Bridged, Inside
<1>4. now \in Nat BY Logged DEF IInv
<1>5. SyncInv'
  <2>1. CASE sync' = Resting BY <2>1 DEF SyncInv
  <2>2. CASE sync' # Resting
    <3>1. PICK j \in 1..Len(Feeds) :
             /\ mark[Feeds[j]] < now
             /\ sync' = [pc |-> "chunk", i |-> j, until |-> now, last |-> mark[Feeds[j]],
                         at |-> mark[Feeds[j]], max |-> mark[Feeds[j]]]
      BY <1>4, <2>2, OpenedIs
    <3>2. Feeds[j] \in Feed BY Feeding
    <3>3. mark[Feeds[j]] \in Nat /\ Accounted(Feeds[j], mark[Feeds[j]])
      BY <1>4, <3>2 DEF IInv, BaseInv, MarkInv
    <3>4. sync' \in SyncRun BY <1>4, <3>1, <3>3 DEF SyncRun
    <3>5. Accounted(Feeds[j], mark[Feeds[j]])' BY <3>3 DEF Accounted, Reported
    <3>6. Fetching' BY <1>4, <3>1, <3>3, <3>5 DEF Fetching, Accounted, Reported
    <3> QED BY <3>4, <3>6 DEF SyncInv, SyncRun
  <2> QED BY <2>1, <2>2
<1> QED BY <1>1, <1>2, <1>3, <1>5 DEF IInv

\* What is accounted for stays so when samples and questions are only added.
LEMMA InvFetch == IInv /\ FetchChunk => IInv'
<1> SUFFICES ASSUME IInv, FetchChunk PROVE IInv' OBVIOUS
<1> DEFINE f == Feeds[sync.i]
           end == ChunkEnd(sync.at, sync.until)
           got == {t \in sync.at..end : Reported(f, t)}
           asked == {t \in sync.at..end : t > Len(log)}
<1>1. sync \in SyncRun /\ Fetching BY DEF FetchChunk, IInv, SyncInv, Resting
<1>2. f \in Feed /\ sync.at \in Nat /\ sync.until \in Nat /\ sync.last \in Nat /\ sync.max \in Nat
  BY <1>1, Feeding DEF SyncRun
<1>3. end \in Nat /\ sync.at <= end /\ end <= sync.until
  BY <1>2, ChunkEndIs DEF FetchChunk
<1>4. /\ Len(log) \in Nat /\ DOMAIN log = 1..Len(log) /\ DOMAIN log \subseteq 1..now
      /\ now \in Nat /\ 1..now \subseteq Minute
  BY Logged DEF IInv
<1>5. end <= now BY <1>1, <1>2, <1>3, <1>4 DEF Fetching
<1>6. got \subseteq DOMAIN log BY DEF Reported
<1>7. asked \subseteq Minute
  <2>1. asked \subseteq 1..now BY <1>2, <1>3, <1>4, <1>5
  <2> QED BY <1>4, <2>1
<1>8. /\ samples' = [samples EXCEPT ![f] = @ \cup got]
      /\ late' = [late EXCEPT ![f] = @ \cup asked]
      /\ sync' = [sync EXCEPT !.at = end, !.max = Max(got \cup {@})]
      /\ belated' = IF f # Power THEN belated
                    ELSE belated \cup {t \in got \ samples[f] : \E u \in samples[f] : t < u}
      /\ UNCHANGED <<now, log, mark, sim, fill, faults>>
  BY DEF FetchChunk, tables
<1> HIDE DEF end, got, asked, f
<1>9. samples \in [Feed -> SUBSET Minute] /\ late \in [Feed -> SUBSET Minute]
  BY DEF IInv, BaseInv
<1>10. /\ samples'[f] = samples[f] \cup got /\ late'[f] = late[f] \cup asked
       /\ \A g \in Feed : g # f => samples'[g] = samples[g] /\ late'[g] = late[g]
  BY <1>2, <1>8, <1>9
<1>11. got \subseteq Minute BY <1>4, <1>6
<1>12. BaseInv'
  <2>1. samples[f] \cup got \in SUBSET Minute BY <1>2, <1>9, <1>11
  <2>2. samples' \in [Feed -> SUBSET Minute] BY <1>8, <1>9, <2>1
  <2>3. late[f] \cup asked \in SUBSET Minute BY <1>2, <1>7, <1>9
  <2>4. late' \in [Feed -> SUBSET Minute] BY <1>8, <1>9, <2>3
  <2>5. belated \subseteq Minute BY DEF IInv, BaseInv
  <2>6. belated' \subseteq Minute BY <1>8, <1>11, <2>5
  <2> QED BY <1>8, <2>2, <2>4, <2>6 DEF IInv, BaseInv
<1>13. \A g \in Feed : samples[g] \cup late[g] \subseteq samples'[g] \cup late'[g]
  BY <1>10
<1>14. MarkInv'
  <2>1. \A g \in Feed : samples[g] \subseteq samples'[g] /\ samples'[g] \subseteq DOMAIN log
    BY <1>6, <1>10 DEF IInv, MarkInv
  <2>2. SUFFICES ASSUME NEW g \in Feed
                 PROVE  /\ mark[g] = 0 \/ mark[g] \in samples'[g]
                        /\ samples'[g] \subseteq DOMAIN log
                        /\ \A t \in 1..mark[g] :
                              \/ t \in samples'[g] \cup late'[g]
                              \/ t \in DOMAIN log /\ ~Reported(g, t)
    BY <1>8 DEF MarkInv, Accounted, Reported
  <2>3. (mark[g] = 0 \/ mark[g] \in samples[g]) /\ Accounted(g, mark[g])
    BY DEF IInv, MarkInv
  <2> QED BY <1>13, <2>1, <2>3 DEF Accounted
<1>15. SyncInv'
  <2> DEFINE top == Max(got \cup {sync.max})
  <2>1. \A y \in got \cup {sync.max} : y \in 0..end
    <3>1. \A y \in got : y \in sync.at..end BY DEF got
    <3>2. \A y \in got : y \in 0..end BY <1>2, <1>3, <3>1
    <3>3. sync.max <= sync.at BY <1>1 DEF Fetching
    <3>4. sync.max \in 0..end BY <1>2, <1>3, <3>3
    <3> QED BY <3>2, <3>4
  <2>2. top \in got \cup {sync.max} /\ \A y \in got \cup {sync.max} : y <= top
    BY <1>3, <2>1, MaxIs
  <2>3. top \in Nat /\ top <= end /\ sync.max <= top
    <3> HIDE DEF top
    <3>1. top \in 0..end BY <2>1, <2>2
    <3>2. sync.max <= top BY <2>2
    <3> QED BY <1>3, <3>1, <3>2
  <2>4. sync' = [sync EXCEPT !.at = end, !.max = top] BY <1>8
  <2> HIDE DEF top
  <2>5. sync' \in SyncRun BY <1>1, <1>3, <2>3, <2>4 DEF SyncRun
  <2>6. /\ sync'.i = sync.i /\ sync'.until = sync.until /\ sync'.last = sync.last
        /\ sync'.at = end /\ sync'.max = top
    BY <1>1, <2>4 DEF SyncRun
  <2>7. ASSUME NEW t \in 1..end
        PROVE  \/ t \in samples'[f] \cup late'[f]
               \/ t \in DOMAIN log /\ ~Reported(f, t)
    <3>1. CASE t <= sync.at
      <4>1. t \in 1..sync.at BY <1>2, <1>3, <3>1
      <4>2. Accounted(f, sync.at) BY <1>1 DEF Fetching, f
      <4> QED BY <1>10, <4>1, <4>2 DEF Accounted
    <3>2. CASE ~(t <= sync.at)
      <4>1. t \in sync.at..end BY <1>2, <1>3, <3>2
      <4>2. t > Len(log) \/ t \in DOMAIN log BY <1>3, <1>4
      <4>3. t > Len(log) => t \in asked BY <4>1 DEF asked
      <4>4. Reported(f, t) => t \in got BY <4>1 DEF got
      <4> QED BY <1>10, <4>2, <4>3, <4>4
    <3> QED BY <3>1, <3>2
  <2>8. sync.last <= top BY <1>1, <1>2, <2>3 DEF Fetching
  <2>9. top = sync.last \/ top \in samples'[f]
    BY <1>1, <1>10, <2>2 DEF Fetching, f
  <2>10. Fetching'
    <3>1. mark'[Feeds[sync'.i]] = mark[f] /\ mark[f] = sync.last
      BY <1>1, <1>8, <2>6 DEF Fetching, f
    <3>2. Accounted(Feeds[sync.i], sync.at)'
      BY <1>8, <2>6, <2>7 DEF f, Accounted, Reported
    <3>3. sync'.until <= now' BY <1>1, <1>8, <2>6 DEF Fetching
    <3> QED BY <1>3, <2>3, <2>6, <2>8, <2>9, <3>1, <3>2, <3>3 DEF Fetching, f
  <2> QED BY <2>5, <2>10 DEF SyncInv, SyncRun
<1>16. ASSUME NEW t, Bridged(t) PROVE Bridged(t)'
  <2>1. PICK u \in samples[Power] : t < u BY <1>16 DEF Bridged
  <2>2. u \in samples'[Power] BY <1>10, <2>1, Constants
  <2>3. ASSUME t \in samples'[Power] PROVE t \in belated'
    <3>1. CASE t \in samples[Power] BY <1>8, <1>16, <3>1 DEF Bridged
    <3>2. CASE t \notin samples[Power]
      <4>1. f = Power /\ t \in got BY <1>10, <2>3, <3>2, Constants
      <4> QED BY <1>8, <2>1, <3>2, <4>1
    <3> QED BY <3>1, <3>2
  <2> QED BY <2>1, <2>2, <2>3 DEF Bridged
<1>17. SimInv' BY <1>8, <1>16 DEF IInv, SimInv, Inside
<1> QED BY <1>12, <1>14, <1>15, <1>17 DEF IInv

\* A question is forgotten only when a later fetch will ask it again.
LEMMA PassedKeeps ==
    ASSUME BaseInv, NEW marks, DOMAIN marks = Feed, NEW f \in Feed, marks[f] \in Nat,
           marks[f] = 0 \/ marks[f] \in samples[f],
           Accounted(f, marks[f]), late' = Passed(marks), UNCHANGED <<samples, log>>
    PROVE  \A t \in 1..marks[f] : \/ t \in samples[f] \cup late'[f]
                                  \/ t \in DOMAIN log /\ ~Reported(f, t)
<1>1. late'[f] = {t \in late[f] : t < marks[f]} BY DEF Passed
<1>2. SUFFICES ASSUME NEW t \in 1..marks[f]
               PROVE  \/ t \in samples[f] \cup late'[f]
                      \/ t \in DOMAIN log /\ ~Reported(f, t)
  OBVIOUS
<1>3. CASE t = marks[f] BY <1>3
<1>4. CASE t # marks[f]
  <2>1. t < marks[f] BY <1>4
  <2> QED BY <1>1, <2>1 DEF Accounted
<1> QED BY <1>3, <1>4

LEMMA PassedTypes ==
    ASSUME BaseInv, NEW marks
    PROVE  Passed(marks) \in [Feed -> SUBSET Minute]
<1>1. \A f \in Feed : {t \in late[f] : t < marks[f]} \in SUBSET Minute BY DEF BaseInv
<1> QED BY <1>1 DEF Passed

\* The mark is closed at a sample, with all below it accounted for; the next feed's
\* mark is not the one that moved.
LEMMA InvClose == IInv /\ CloseFeed => IInv'
<1> SUFFICES ASSUME IInv, CloseFeed PROVE IInv' OBVIOUS
<1> DEFINE f == Feeds[sync.i]
           m == Max({sync.max, sync.last})
<1>1. sync \in SyncRun /\ Fetching BY DEF CloseFeed, IInv, SyncInv, Resting
<1>2. /\ f \in Feed /\ sync.i \in 1..Len(Feeds) /\ sync.at \in Nat /\ sync.until \in Nat
      /\ sync.last \in Nat /\ sync.max \in Nat
  BY <1>1, Feeding DEF SyncRun
<1>3. now \in Nat /\ Len(log) \in Nat BY Logged DEF IInv
<1>4. sync.last <= sync.max /\ sync.max <= sync.at /\ sync.at <= now
  BY <1>1, <1>2, <1>3 DEF Fetching
<1>5. m \in {sync.max, sync.last} /\ \A y \in {sync.max, sync.last} : y <= m
  <2>1. \A y \in {sync.max, sync.last} : y \in 0..now BY <1>2, <1>3, <1>4
  <2> QED BY <1>3, <2>1, MaxIs
<1>6. m = sync.max BY <1>2, <1>4, <1>5
<1>7. /\ mark' = [mark EXCEPT ![f] = m] /\ late' = Passed(mark')
      /\ sync' = Opened(sync.i + 1, sync.until)
      /\ UNCHANGED <<now, log, samples, sim, fill, belated, faults>>
  BY DEF CloseFeed
<1> HIDE DEF m
<1>8. mark \in [Feed -> 0..now] BY DEF IInv, BaseInv
<1>9. /\ mark' \in [Feed -> 0..now] /\ DOMAIN mark' = Feed
      /\ mark'[f] = m /\ \A g \in Feed : g # f => mark'[g] = mark[g]
  <2>1. m \in 0..now BY <1>2, <1>3, <1>4, <1>6
  <2> QED BY <1>2, <1>7, <1>8, <2>1
<1>10. ASSUME NEW g \in Feed
       PROVE  /\ mark'[g] \in Nat /\ (mark'[g] = 0 \/ mark'[g] \in samples[g])
              /\ Accounted(g, mark'[g])
  <2>1. mark'[g] \in Nat BY <1>3, <1>9
  <2>2. CASE g # f BY <1>9, <2>1, <2>2 DEF IInv, MarkInv
  <2>3. CASE g = f
    <3>1. mark'[g] = sync.max BY <1>6, <1>9, <2>3
    <3>2. mark[f] = sync.last BY <1>1 DEF Fetching
    <3>3. sync.max = 0 \/ sync.max \in samples[f]
      BY <1>1, <1>2, <3>2 DEF Fetching, IInv, MarkInv
    <3>4. Accounted(f, sync.at) BY <1>1 DEF Fetching
    <3>5. \A t \in 1..sync.max : t \in 1..sync.at BY <1>2, <1>4
    <3>6. Accounted(f, sync.max) BY <3>4, <3>5 DEF Accounted
    <3> QED BY <2>1, <2>3, <3>1, <3>3, <3>6
  <2> QED BY <2>2, <2>3
<1>11. ASSUME NEW g \in Feed
       PROVE  \A t \in 1..mark'[g] : \/ t \in samples[g] \cup late'[g]
                                     \/ t \in DOMAIN log /\ ~Reported(g, t)
  <2>1. BaseInv /\ DOMAIN mark' = Feed BY <1>9 DEF IInv
  <2> QED BY <1>7, <1>10, <2>1, PassedKeeps
<1>12. MarkInv'
  <2> SUFFICES ASSUME NEW g \in Feed
               PROVE  /\ mark'[g] = 0 \/ mark'[g] \in samples[g]
                      /\ samples[g] \subseteq DOMAIN log
                      /\ \A t \in 1..mark'[g] : \/ t \in samples[g] \cup late'[g]
                                                \/ t \in DOMAIN log /\ ~Reported(g, t)
    BY <1>7 DEF MarkInv, Accounted, Reported
  <2> QED BY <1>10, <1>11 DEF IInv, MarkInv
<1>13. BaseInv'
  <2>1. late' \in [Feed -> SUBSET Minute] BY <1>7, PassedTypes DEF IInv
  <2> QED BY <1>7, <1>9, <2>1 DEF IInv, BaseInv
<1>14. SyncInv'
  <2>1. CASE sync' = Resting BY <2>1 DEF SyncInv
  <2>2. CASE sync' # Resting
    <3>1. PICK j \in 1..Len(Feeds) :
             /\ sync.i + 1 <= j /\ mark[Feeds[j]] < sync.until
             /\ sync' = [pc |-> "chunk", i |-> j, until |-> sync.until,
                         last |-> mark[Feeds[j]], at |-> mark[Feeds[j]],
                         max |-> mark[Feeds[j]]]
      <4>1. sync.i + 1 \in Nat \ {0} BY <1>2, Feeding
      <4> QED BY <1>2, <1>7, <2>2, <4>1, OpenedIs
    <3>2. Feeds[j] \in Feed /\ Feeds[j] # f BY <1>2, <3>1, Feeding
    <3>3. mark'[Feeds[j]] = mark[Feeds[j]] /\ mark[Feeds[j]] \in Nat
      BY <1>3, <1>8, <1>9, <3>2
    <3>4. sync' \in SyncRun BY <1>2, <3>1, <3>3 DEF SyncRun
    <3>5. sync.until <= now BY <1>1 DEF Fetching
    <3>6. \A t \in 1..mark[Feeds[j]] : \/ t \in samples[Feeds[j]] \cup late'[Feeds[j]]
                                       \/ t \in DOMAIN log /\ ~Reported(Feeds[j], t)
      BY <1>11, <3>2, <3>3
    <3>7. /\ sync'.i = j /\ sync'.until = sync.until /\ sync'.last = mark[Feeds[j]]
          /\ sync'.at = mark[Feeds[j]] /\ sync'.max = mark[Feeds[j]]
      BY <3>1
    <3>8. Accounted(Feeds[sync.i], sync.at)'
      BY <1>7, <3>6, <3>7 DEF Accounted, Reported
    <3>9. mark[Feeds[j]] <= sync.until BY <1>2, <3>1, <3>3
    <3>10. Fetching' BY <1>7, <3>3, <3>5, <3>7, <3>8, <3>9 DEF Fetching
    <3> QED BY <3>4, <3>10 DEF SyncInv, SyncRun
  <2> QED BY <2>1, <2>2
<1>15. SimInv' BY <1>7 DEF IInv, SimInv, Bridged, Inside
<1> QED BY <1>12, <1>13, <1>14, <1>15 DEF IInv

LEMMA InvSyncFails == IInv /\ SyncFails => IInv'
<1> SUFFICES ASSUME IInv, SyncFails PROVE IInv' OBVIOUS
<1>1. /\ late' = Passed(mark) /\ sync' = Resting /\ faults' = faults + 1 /\ faults < MaxFaults
      /\ UNCHANGED <<now, log, samples, mark, sim, fill, belated>>
  BY DEF SyncFails, tables
<1>2. mark \in [Feed -> 0..now] /\ now \in Nat BY Logged DEF IInv, BaseInv
<1>3. ASSUME NEW g \in Feed
      PROVE  \A t \in 1..mark[g] : \/ t \in samples[g] \cup late'[g]
                                   \/ t \in DOMAIN log /\ ~Reported(g, t)
  <2>1. BaseInv /\ DOMAIN mark = Feed /\ mark[g] \in Nat BY <1>2 DEF IInv
  <2>2. (mark[g] = 0 \/ mark[g] \in samples[g]) /\ Accounted(g, mark[g]) BY DEF IInv, MarkInv
  <2> QED BY <1>1, <2>1, <2>2, PassedKeeps
<1>4. MarkInv' BY <1>1, <1>3 DEF IInv, MarkInv, Accounted, Reported
<1>5. BaseInv'
  <2>1. late' \in [Feed -> SUBSET Minute] BY <1>1, PassedTypes DEF IInv
  <2>2. faults' \in 0..MaxFaults BY <1>1, Constants DEF IInv, BaseInv
  <2> QED BY <1>1, <2>1, <2>2 DEF IInv, BaseInv
<1>6. SyncInv' BY <1>1 DEF SyncInv
<1>7. SimInv' BY <1>1 DEF IInv, SimInv, Bridged, Inside
<1> QED BY <1>4, <1>5, <1>6, <1>7 DEF IInv

-----------------------------------------------------------------------------
(* The steps of fill-gaps.                                                 *)

\* What the other parts are about, a fill leaves alone.
LEMMA FillLeaves ==
    ASSUME IInv, UNCHANGED <<now, log, samples, mark, sync, late, belated>>
    PROVE  /\ MarkInv' /\ SyncInv'
           /\ \A t : Bridged(t) => Bridged(t)'
<1>1. MarkInv' BY DEF IInv, MarkInv, Accounted, Reported
<1>2. SyncInv' BY DEF IInv, SyncInv, Fetching, SyncRun, Accounted, Reported
<1>3. \A t : Bridged(t) => Bridged(t)' BY DEF Bridged
<1> QED BY <1>1, <1>2, <1>3

\* No sample lies between two neighbours, and the second is a later one.
LEMMA InvStartFill == IInv /\ StartFill => IInv'
<1> SUFFICES ASSUME IInv, StartFill PROVE IInv' OBVIOUS
<1>1. /\ fill' = [pc |-> "fill", model |-> Joined, todo |-> FoundGaps]
      /\ UNCHANGED <<now, log, samples, mark, sim, sync, late, belated, faults>>
  BY DEF StartFill, tables
<1>2. MarkInv' /\ SyncInv' /\ \A t : Bridged(t) => Bridged(t)' BY <1>1, FillLeaves
<1>3. BaseInv' BY <1>1 DEF IInv, BaseInv
<1>4. samples[Power] \subseteq Minute BY Constants DEF IInv, BaseInv
<1>5. ASSUME NEW g \in FoundGaps
      PROVE  g.start \in Minute /\ g.end \in Minute /\ \A t \in Inside(g) : Bridged(t)
  <2>1. PICK p \in Neighbours : g = Gap(p[1], p[2]) BY DEF FoundGaps
  <2>2. /\ p[1] \in samples[Power] /\ p[2] \in samples[Power]
        /\ ~\E t \in samples[Power] : p[1] < t /\ t < p[2]
    BY DEF Neighbours
  <2>3. g.start = p[1] /\ g.end = p[2] BY <2>1 DEF Gap
  <2>4. p[1] \in Int /\ p[2] \in Int BY <1>4, <2>2 DEF Minute
  <2>5. ASSUME NEW t \in Inside(g) PROVE Bridged(t)
    <3>1. p[1] < t /\ t < p[2] BY <2>3, <2>4 DEF Inside
    <3> QED BY <2>2, <3>1 DEF Bridged
  <2> QED BY <1>4, <2>2, <2>3, <2>5
<1>6. SimInv'
  <2>1. \A f \in SimFeeds : \A t \in DOMAIN sim'[f] : t \in Minute /\ Bridged(t)'
    BY <1>1, <1>2 DEF IInv, SimInv
  <2>2. fill' = [pc |-> "fill", model |-> fill'.model, todo |-> fill'.todo] BY <1>1
  <2>3. \A g \in fill'.todo : g.start \in Minute /\ g.end \in Minute
                              /\ \A t \in Inside(g) : Bridged(t)'
    BY <1>1, <1>2, <1>5
  <2> QED BY <2>1, <2>2, <2>3 DEF SimInv, Inside
<1> QED BY <1>2, <1>3, <1>6 DEF IInv

\* Values are made up inside the gap only.
LEMMA NewInside ==
    ASSUME NEW f, NEW g, NEW J
    PROVE  /\ DOMAIN Interpolated(f, g) = Inside(g)
           /\ DOMAIN Scaled(f, g, Estimates(J, g)) \subseteq Inside(g)
<1>1. DOMAIN Interpolated(f, g) = Inside(g) BY DEF Interpolated
<1>2. DOMAIN Estimates(J, g) \subseteq Inside(g) BY DEF Estimates
<1>3. DOMAIN Scaled(f, g, Estimates(J, g)) = DOMAIN Estimates(J, g) BY DEF Scaled
<1> QED BY <1>1, <1>2, <1>3

LEMMA InvFillGap == IInv /\ FillGap => IInv'
<1> SUFFICES ASSUME IInv, FillGap PROVE IInv' OBVIOUS
<1>1. fill # Resting /\ UNCHANGED <<now, log, samples, mark, sync, late, belated, faults>>
  BY DEF FillGap
<1>2. PICK g \in fill.todo :
         LET new(f) == IF g.end - g.start < ShortGap THEN Interpolated(f, g)
                       ELSE Scaled(f, g, Estimates(fill.model, g))
             rest == fill.todo \ {g}
         IN  /\ sim' = [f \in SimFeeds |-> Inserted(sim[f], new(f))]
             /\ fill' = IF rest = {} THEN Resting ELSE [fill EXCEPT !.todo = rest]
  BY DEF FillGap
<1>3. MarkInv' /\ SyncInv' /\ \A t : Bridged(t) => Bridged(t)' BY <1>1, FillLeaves
<1>4. BaseInv' BY <1>1 DEF IInv, BaseInv
<1>5. /\ fill = [pc |-> "fill", model |-> fill.model, todo |-> fill.todo]
      /\ \A h \in fill.todo :
            h.start \in Minute /\ h.end \in Minute /\ \A t \in Inside(h) : Bridged(t)
  BY <1>1 DEF IInv, SimInv
<1>6. \A t \in Inside(g) : t \in Minute
  <2>1. g.start \in Minute /\ g.end \in Minute BY <1>5
  <2> QED BY <2>1, Constants DEF Inside, Minute
<1>7. ASSUME NEW f \in SimFeeds, NEW t \in DOMAIN sim'[f] PROVE t \in Minute /\ Bridged(t)'
  <2> DEFINE new == IF g.end - g.start < ShortGap THEN Interpolated(f, g)
                    ELSE Scaled(f, g, Estimates(fill.model, g))
  <2>1. DOMAIN new \subseteq Inside(g) BY NewInside
  <2>2. sim'[f] = Inserted(sim[f], new) BY <1>2
  <2> HIDE DEF new
  <2>3. t \in DOMAIN sim[f] \cup DOMAIN new BY <2>2 DEF Inserted
  <2>4. CASE t \in DOMAIN sim[f] BY <1>3, <2>4 DEF IInv, SimInv
  <2>5. CASE t \in DOMAIN new BY <1>3, <1>5, <1>6, <2>1, <2>5
  <2> QED BY <2>3, <2>4, <2>5
<1>8. \/ fill' = Resting
      \/ /\ fill' = [pc |-> "fill", model |-> fill'.model, todo |-> fill'.todo]
         /\ fill'.todo \subseteq fill.todo
  <2>1. CASE fill.todo \ {g} = {} BY <1>2, <2>1
  <2>2. CASE fill.todo \ {g} # {}
    <3>1. fill' = [fill EXCEPT !.todo = fill.todo \ {g}] BY <1>2, <2>2
    <3>2. PICK M, T : fill = [pc |-> "fill", model |-> M, todo |-> T] BY <1>5
    <3>3. fill' = [pc |-> "fill", model |-> M, todo |-> T \ {g}] BY <3>1, <3>2
    <3> QED BY <3>2, <3>3
  <2> QED BY <2>1, <2>2
<1>9. SimInv'
  <2>1. fill' = Resting \/ \A h \in fill'.todo :
          h.start \in Minute /\ h.end \in Minute /\ \A t \in Inside(h) : Bridged(t)'
    BY <1>3, <1>5, <1>8
  <2> QED BY <1>7, <1>8, <2>1 DEF SimInv, Inside
<1> QED BY <1>3, <1>4, <1>9 DEF IInv

LEMMA InvFillFails == IInv /\ FillFails => IInv'
<1> SUFFICES ASSUME IInv, FillFails PROVE IInv' OBVIOUS
<1>1. /\ fill' = Resting /\ faults' = faults + 1 /\ faults < MaxFaults
      /\ UNCHANGED <<now, log, samples, mark, sim, sync, late, belated>>
  BY DEF FillFails, tables
<1>2. MarkInv' /\ SyncInv' /\ \A t : Bridged(t) => Bridged(t)' BY <1>1, FillLeaves
<1>3. BaseInv' BY <1>1, Constants DEF IInv, BaseInv
<1>4. SimInv' BY <1>1, <1>2 DEF IInv, SimInv
<1> QED BY <1>2, <1>3, <1>4 DEF IInv

-----------------------------------------------------------------------------
LEMMA InvNext == IInv /\ [Next]_vars => IInv'
<1>1. ASSUME IInv, UNCHANGED vars PROVE IInv'
  <2>1. UNCHANGED <<now, log, samples, mark, sync, fill, sim, late, belated, faults>>
    BY <1>1 DEF vars, tables
  <2>2. MarkInv' /\ SyncInv' /\ \A t : Bridged(t) => Bridged(t)' BY <1>1, <2>1, FillLeaves
  <2>3. BaseInv' /\ SimInv' BY <1>1, <2>1, <2>2 DEF IInv, BaseInv, SimInv, Inside
  <2> QED BY <2>2, <2>3 DEF IInv
<1> QED BY <1>1, InvTick, InvDeliver, InvStartSync, InvFetch, InvClose, InvSyncFails,
           InvStartFill, InvFillGap, InvFillFails DEF Next, Sync

\* What there is of each table is of its type, through every interruption: no run of
\* sync stores a minute that emoncms had not reached or moves a mark past its start.
THEOREM MirrorTyped == Spec => []TypeOK
<1> QED BY InvInit, InvNext, InvTypes, PTL DEF Spec

\* Whatever emoncms has up to the mark of a feed is in the mirror but for what came
\* late, whichever runs of sync were killed or refused and between which requests.
THEOREM MirrorsComplete == Spec => []MirrorComplete
<1> QED BY InvInit, InvNext, InvComplete, PTL DEF Spec

\* A row with a made-up value is flagged, whatever sync stores while a fill works
\* through gaps it found before.
THEOREM FramesHonest == Spec => []FrameHonest
<1> QED BY InvInit, InvNext, InvHonest, PTL DEF Spec
=============================================================================
