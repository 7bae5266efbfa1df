-------------------------- MODULE DhwSessionsProofs --------------------------
(* Proofs about DhwSessions, for every series, window and bound: a capacity *)
(* rests on measurements that are in the table, and is what they recommend. *)
EXTENDS DhwSessions, FiniteSetTheorems, TLAPS

-----------------------------------------------------------------------------
(* Least and greatest elements.                                             *)

LEMMA LeastNatural ==
    ASSUME NEW T \in SUBSET Nat, T # {}
    PROVE  \E x \in T : \A y \in T : x <= y
<1> DEFINE R == OpToRel(<, Nat)
<1>1. IsWellFoundedOn(R, Nat) BY NatLessThanWellFounded
<1> HIDE DEF R
<1>2. PICK x \in T : \A y \in T : ~ (<<y, x>> \in R) BY <1>1, WFMin
<1>3. ASSUME NEW y \in T PROVE x <= y
  <2>1. x \in Nat /\ y \in Nat OBVIOUS
  <2>2. y < x => <<y, x>> \in R BY <2>1 DEF R, OpToRel
  <2> QED BY <1>2, <2>1, <2>2
<1> QED BY <1>2, <1>3

\* A finite set of integers, as the image of a function on 1..n, has a greatest element.
LEMMA GreatestValue ==
    ASSUME NEW n \in Nat \ {0}, NEW f \in [1..n -> Int]
    PROVE  \E i \in 1..n : \A j \in 1..n : f[j] <= f[i]
<1> DEFINE Bad == {k \in Nat : k \in 1..n /\ ~ \E i \in 1..k : \A j \in 1..k : f[j] <= f[i]}
<1>1. ASSUME Bad = {} PROVE \E i \in 1..n : \A j \in 1..n : f[j] <= f[i]
  <2>1. n \in Nat /\ n \in 1..n OBVIOUS
  <2> QED BY <1>1, <2>1
<1>2. SUFFICES ASSUME Bad # {} PROVE FALSE BY <1>1
<1>3. PICK k \in Bad : \A y \in Bad : k <= y BY <1>2, LeastNatural
<1>4. k # 1 OBVIOUS
<1>5. k - 1 \in 1..n /\ k - 1 \in Nat BY <1>4
<1>11. k - 1 \notin Bad
  <2>1. k \in Nat /\ ~ (k <= k - 1) OBVIOUS
  <2> HIDE DEF Bad
  <2> QED BY <1>3, <2>1
<1>6. PICK i \in 1..(k - 1) : \A j \in 1..(k - 1) : f[j] <= f[i] BY <1>5, <1>11
<1>7. f[i] \in Int /\ f[k] \in Int /\ \A j \in 1..(k - 1) : f[j] \in Int OBVIOUS
<1>8. \A j \in 1..k : j \in 1..(k - 1) \/ j = k OBVIOUS
<1>9. CASE f[k] <= f[i] BY <1>6, <1>8, <1>9
<1>10. CASE f[i] < f[k]
  <2>1. \A j \in 1..k : f[j] <= f[k] BY <1>6, <1>7, <1>8, <1>10
  <2> QED BY <2>1
<1> QED BY <1>7, <1>9, <1>10

LEMMA FiniteMax ==
    ASSUME NEW S \in SUBSET Int, IsFiniteSet(S), S # {}
    PROVE  Max(S) \in S /\ \A x \in S : x <= Max(S)
<1> DEFINE n == Cardinality(S)
<1>1. n \in Nat /\ n # 0 BY FS_CardinalityType, FS_EmptySet
<1>2. PICK f \in Bijection(1..n, S) : TRUE BY FS_CardinalityType DEF ExistsBijection
<1>3. f \in [1..n -> S] /\ \A x \in S : \E i \in 1..n : f[i] = x
    BY <1>2 DEF Bijection, Injection, Surjection
<1> HIDE DEF n
<1>4. f \in [1..n -> Int] BY <1>3
<1>5. PICK i \in 1..n : \A j \in 1..n : f[j] <= f[i] BY <1>1, <1>4, GreatestValue
<1>6. f[i] \in S /\ \A x \in S : f[i] >= x BY <1>3, <1>5
<1> QED BY <1>6 DEF Max

LEMMA FiniteMin ==
    ASSUME NEW S \in SUBSET Int, IsFiniteSet(S), S # {}
    PROVE  Min(S) \in S /\ \A x \in S : Min(S) <= x
<1> DEFINE n == Cardinality(S)
<1>1. n \in Nat /\ n # 0 BY FS_CardinalityType, FS_EmptySet
<1>2. PICK f \in Bijection(1..n, S) : TRUE BY FS_CardinalityType DEF ExistsBijection
<1>3. f \in [1..n -> S] /\ \A x \in S : \E i \in 1..n : f[i] = x
    BY <1>2 DEF Bijection, Injection, Surjection
<1> HIDE DEF n
<1> DEFINE g == [i \in 1..n |-> -f[i]]
<1>4. g \in [1..n -> Int]
  <2>1. \A i \in 1..n : f[i] \in Int BY <1>3
  <2> QED BY <2>1
<1> HIDE DEF g
<1>5. PICK i \in 1..n : \A j \in 1..n : g[j] <= g[i] BY <1>1, <1>4, GreatestValue
<1>6. \A j \in 1..n : f[j] \in Int /\ g[j] = -f[j] BY <1>3 DEF g
<1>7. \A j \in 1..n : f[i] <= f[j] BY <1>5, <1>6
<1>8. f[i] \in S /\ \A x \in S : f[i] <= x BY <1>3, <1>7
<1> QED BY <1>8 DEF Min

LEMMA PairIs ==
    ASSUME NEW x \in Int, NEW y \in Int
    PROVE  /\ Max({x, y}) \in {x, y} /\ x <= Max({x, y}) /\ y <= Max({x, y})
           /\ Min({x, y}) \in {x, y} /\ Min({x, y}) <= x /\ Min({x, y}) <= y
<1>1. IsFiniteSet({x} \cup {y}) BY FS_Singleton, FS_AddElement
<1>2. {x} \cup {y} = {x, y} OBVIOUS
<1>3. {x, y} \in SUBSET Int /\ {x, y} # {} /\ IsFiniteSet({x, y}) BY <1>1, <1>2
<1>4. Max({x, y}) \in {x, y} /\ \A z \in {x, y} : z <= Max({x, y}) BY <1>3, FiniteMax
<1>5. Min({x, y}) \in {x, y} /\ \A z \in {x, y} : Min({x, y}) <= z BY <1>3, FiniteMin
<1> QED BY <1>4, <1>5

LEMMA FiniteRange ==
    ASSUME NEW f, IsFiniteSet(DOMAIN f)
    PROVE  IsFiniteSet({f[x] : x \in DOMAIN f})
<1> DEFINE S == DOMAIN f
           T == {f[x] : x \in S}
           g == [x \in S |-> f[x]]
<1>1. g \in Surjection(S, T) BY DEF Surjection
<1> HIDE DEF g, T
<1> QED BY <1>1, FS_Surjection DEF T

-----------------------------------------------------------------------------
(* Sums over instants.                                                      *)

LEMMA EndIsNat == End \in Nat BY DhwSessionsAssumption

Term(f, t) == IF t \in DOMAIN f THEN f[t] ELSE 0

\* The recursive function that Total evaluates.
SumsOf(f, sums) ==
    sums = [t \in 0..End |-> IF t = 0 THEN 0 ELSE sums[t - 1] + Term(f, t)]

\* Its values up to n.
SumsTo(f, n, g) ==
    g = [t \in 0..n |-> IF t = 0 THEN 0 ELSE g[t - 1] + Term(f, t)]

LEMMA SumsExist == ASSUME NEW f PROVE \E sums : SumsOf(f, sums)
<1> DEFINE Bad == {n \in Nat : ~ \E g : SumsTo(f, n, g)}
<1>1. CASE Bad = {}
  <2>1. \E g : SumsTo(f, End, g) BY <1>1, EndIsNat
  <2> QED BY <2>1 DEF SumsOf, SumsTo
<1>2. CASE Bad # {}
  <2>1. PICK n \in Bad : \A m \in Bad : n <= m BY <1>2, LeastNatural
  <2>2. n # 0
    <3> DEFINE g == [t \in 0..0 |-> 0]
    <3>1. SumsTo(f, 0, g) BY DEF SumsTo
    <3> QED BY <3>1
  <2>3. n \in Nat /\ n - 1 \in Nat BY <2>2
  <2>4. PICK g : SumsTo(f, n - 1, g) BY <2>1, <2>3
  <2> DEFINE h == [t \in 0..n |-> IF t = n THEN g[n - 1] + Term(f, n) ELSE g[t]]
  <2>5. \A t \in 0..n : h[t] = IF t = 0 THEN 0 ELSE h[t - 1] + Term(f, t)
    <3> SUFFICES ASSUME NEW t \in 0..n
                 PROVE  h[t] = IF t = 0 THEN 0 ELSE h[t - 1] + Term(f, t)
        OBVIOUS
    <3>1. \A u \in 0..(n - 1) : g[u] = IF u = 0 THEN 0 ELSE g[u - 1] + Term(f, u)
        BY <2>4 DEF SumsTo
    <3>2. CASE t = n BY <2>2, <2>3, <3>2
    <3>3. CASE t # n
      <4>1. t \in 0..(n - 1) BY <2>3, <3>3
      <4>2. t # 0 => t - 1 \in 0..n /\ t - 1 # n BY <2>3, <4>1
      <4> QED BY <3>1, <3>3, <4>1, <4>2
    <3> QED BY <3>2, <3>3
  <2>6. SumsTo(f, n, h)
    <3>1. h = [t \in 0..n |-> h[t]] OBVIOUS
    <3> HIDE DEF h
    <3> QED BY <2>5, <3>1 DEF SumsTo
  <2> HIDE DEF h
  <2> QED BY <2>6
<1> QED BY <1>1, <1>2

LEMMA TotalIs ==
    ASSUME NEW f
    PROVE  \E sums : /\ sums[0] = 0 /\ Total(f) = sums[End]
                     /\ \A t \in 1..End : sums[t] = sums[t - 1] + Term(f, t)
<1> DEFINE sums == CHOOSE g : SumsOf(f, g)
<1>1. SumsOf(f, sums) BY SumsExist
<1>2. Total(f) = sums[End] BY DEF Total, SumsOf, Term
<1> HIDE DEF sums
<1>3. sums[0] = 0 /\ \A t \in 1..End : sums[t] = sums[t - 1] + Term(f, t)
    BY <1>1, EndIsNat DEF SumsOf
<1> QED BY <1>2, <1>3

\* The sum of smaller terms is smaller.
LEMMA TotalGrows ==
    ASSUME NEW f, NEW g,
           \A t \in 1..End : Term(f, t) \in Int /\ Term(g, t) \in Int
                             /\ Term(f, t) <= Term(g, t)
    PROVE  Total(f) \in Int /\ Total(g) \in Int /\ Total(f) <= Total(g)
<1>1. PICK a : /\ a[0] = 0 /\ Total(f) = a[End]
               /\ \A t \in 1..End : a[t] = a[t - 1] + Term(f, t) BY TotalIs
<1>2. PICK b : /\ b[0] = 0 /\ Total(g) = b[End]
               /\ \A t \in 1..End : b[t] = b[t - 1] + Term(g, t) BY TotalIs
<1> DEFINE Bad == {t \in Nat : t \in 0..End /\ ~ (a[t] \in Int /\ b[t] \in Int /\ a[t] <= b[t])}
<1>3. Bad = {}
  <2>1. SUFFICES ASSUME Bad # {} PROVE FALSE OBVIOUS
  <2>2. PICK t \in Bad : \A u \in Bad : t <= u BY <2>1, LeastNatural
  <2>3. t # 0 BY <1>1, <1>2
  <2>4. t \in 1..End /\ t - 1 \in 0..End /\ t - 1 \in Nat BY <2>3, EndIsNat
  <2>5. a[t - 1] \in Int /\ b[t - 1] \in Int /\ a[t - 1] <= b[t - 1] BY <2>2, <2>4
  <2>6. a[t] = a[t - 1] + Term(f, t) /\ b[t] = b[t - 1] + Term(g, t) BY <1>1, <1>2, <2>4
  <2>7. Term(f, t) \in Int /\ Term(g, t) \in Int /\ Term(f, t) <= Term(g, t) BY <2>4
  <2> QED BY <2>2, <2>5, <2>6, <2>7
<1> QED BY <1>1, <1>2, <1>3, EndIsNat

LEMMA TotalIsInt ==
    ASSUME NEW f, \A t \in 1..End : t \in DOMAIN f => f[t] \in Int
    PROVE  Total(f) \in Int
<1>1. \A t \in 1..End : Term(f, t) \in Int /\ Term(f, t) <= Term(f, t) BY DEF Term
<1> QED BY <1>1, TotalGrows

LEMMA TotalIsNat ==
    ASSUME NEW f, \A t \in 1..End : t \in DOMAIN f => f[t] \in Nat
    PROVE  Total(f) \in Nat
<1>1. PICK a : /\ a[0] = 0 /\ Total(f) = a[End]
               /\ \A t \in 1..End : a[t] = a[t - 1] + Term(f, t) BY TotalIs
<1> DEFINE Bad == {t \in Nat : t \in 0..End /\ a[t] \notin Nat}
<1>2. Bad = {}
  <2>1. SUFFICES ASSUME Bad # {} PROVE FALSE OBVIOUS
  <2>2. PICK t \in Bad : \A u \in Bad : t <= u BY <2>1, LeastNatural
  <2>3. t # 0 BY <1>1
  <2>4. t \in 1..End /\ t - 1 \in 0..End /\ t - 1 \in Nat BY <2>3, EndIsNat
  <2>5. a[t - 1] \in Nat BY <2>2, <2>4
  <2>6. a[t] = a[t - 1] + Term(f, t) BY <1>1, <2>4
  <2>7. Term(f, t) \in Nat BY <2>4 DEF Term
  <2> QED BY <2>2, <2>5, <2>6, <2>7
<1> QED BY <1>1, <1>2, EndIsNat

LEMMA TotalAdds ==
    ASSUME NEW f, NEW g, NEW h,
           \A t \in 1..End : Term(f, t) \in Int /\ Term(g, t) \in Int
                             /\ Term(h, t) = Term(f, t) + Term(g, t)
    PROVE  Total(h) = Total(f) + Total(g)
<1>1. PICK a : /\ a[0] = 0 /\ Total(f) = a[End]
               /\ \A t \in 1..End : a[t] = a[t - 1] + Term(f, t) BY TotalIs
<1>2. PICK b : /\ b[0] = 0 /\ Total(g) = b[End]
               /\ \A t \in 1..End : b[t] = b[t - 1] + Term(g, t) BY TotalIs
<1>3. PICK c : /\ c[0] = 0 /\ Total(h) = c[End]
               /\ \A t \in 1..End : c[t] = c[t - 1] + Term(h, t) BY TotalIs
<1> DEFINE Bad == {t \in Nat : t \in 0..End
                         /\ ~ (a[t] \in Int /\ b[t] \in Int /\ c[t] = a[t] + b[t])}
<1>4. Bad = {}
  <2>1. SUFFICES ASSUME Bad # {} PROVE FALSE OBVIOUS
  <2>2. PICK t \in Bad : \A u \in Bad : t <= u BY <2>1, LeastNatural
  <2>3. t # 0 BY <1>1, <1>2, <1>3
  <2>4. t \in 1..End /\ t - 1 \in 0..End /\ t - 1 \in Nat BY <2>3, EndIsNat
  <2>5. a[t - 1] \in Int /\ b[t - 1] \in Int /\ c[t - 1] = a[t - 1] + b[t - 1]
      BY <2>2, <2>4
  <2>6. a[t] = a[t - 1] + Term(f, t) /\ b[t] = b[t - 1] + Term(g, t)
        /\ c[t] = c[t - 1] + Term(h, t)
      BY <1>1, <1>2, <1>3, <2>4
  <2>7. Term(f, t) \in Int /\ Term(g, t) \in Int /\ Term(h, t) = Term(f, t) + Term(g, t)
      BY <2>4
  <2> QED BY <2>2, <2>5, <2>6, <2>7
<1> QED BY <1>1, <1>2, <1>3, <1>4, EndIsNat

-----------------------------------------------------------------------------
(* The series.                                                              *)

Recorded == trace \in Seq(Sample) /\ Len(trace) <= End

Span == [from : Nat \ {0}, to : Nat]

LEMMA OptionIs ==
    /\ \A v : Some(v) # None /\ Some(v)[1] = v
    /\ \A v, d : UnwrapOr(Some(v), d) = v
    /\ \A d : UnwrapOr(None, d) = d
BY DEF Some, None, UnwrapOr

LEMMA InstantsIs ==
    ASSUME Recorded
    PROVE  /\ Len(trace) \in Nat /\ DOMAIN trace = 1..Len(trace)
           /\ DOMAIN trace \subseteq 1..End /\ DOMAIN trace \subseteq Int
           /\ IsFiniteSet(DOMAIN trace)
           /\ \A T \in SUBSET DOMAIN trace : IsFiniteSet(T) /\ T \in SUBSET Int
<1>1. Len(trace) \in Nat /\ DOMAIN trace = 1..Len(trace) BY DEF Recorded
<1>2. DOMAIN trace \subseteq 1..End BY <1>1, EndIsNat DEF Recorded
<1>3. DOMAIN trace \subseteq Int BY <1>1
<1>4. IsFiniteSet(DOMAIN trace)
  <2>1. \A a, b \in Int : IsFiniteSet(a..b) BY FS_Interval
  <2>2. 1 \in Int /\ Len(trace) \in Int BY <1>1
  <2> QED BY <1>1, <2>1, <2>2, Zenon
<1>5. \A T \in SUBSET DOMAIN trace : IsFiniteSet(T) /\ T \in SUBSET Int
    BY <1>3, <1>4, FS_Subset
<1> QED BY <1>1, <1>2, <1>3, <1>4, <1>5

LEMMA SampleIs ==
    ASSUME Recorded, NEW t \in DOMAIN trace
    PROVE  /\ trace[t].flow \in Nat /\ trace[t].t1 \in Nat
           /\ trace[t].t2 \in Nat /\ trace[t].hwc \in Nat
<1>1. trace[t] \in Sample BY DEF Recorded
<1> QED BY <1>1 DEF Sample

LEMMA RegisterGrows ==
    ASSUME Recorded, NEW a \in Int, NEW b \in Int, a <= b, b <= Len(trace)
    PROVE  Register(a) \in Nat /\ Register(b) \in Nat /\ Register(a) <= Register(b)
<1> DEFINE f == [u \in 2..a |-> trace[u - 1].flow + trace[u].flow]
           g == [u \in 2..b |-> trace[u - 1].flow + trace[u].flow]
<1>1. \A u \in 2..b : trace[u - 1].flow + trace[u].flow \in Nat
  <2> SUFFICES ASSUME NEW u \in 2..b
               PROVE  trace[u - 1].flow + trace[u].flow \in Nat
      OBVIOUS
  <2>1. u \in DOMAIN trace /\ u - 1 \in DOMAIN trace BY InstantsIs
  <2> QED BY <2>1, SampleIs
<1>2. \A u \in 2..a : u \in 2..b OBVIOUS
<1>3. Total(f) \in Nat BY <1>1, <1>2, TotalIsNat
<1>4. Total(g) \in Nat BY <1>1, TotalIsNat
<1>5. \A t \in 1..End : Term(f, t) \in Int /\ Term(g, t) \in Int /\ Term(f, t) <= Term(g, t)
    BY <1>1, <1>2 DEF Term
<1>6. Total(f) <= Total(g) BY <1>5, TotalGrows
<1> QED BY <1>3, <1>4, <1>6 DEF Register

LEMMA RegisterOrder ==
    Recorded => \A a, b \in Int : a <= b /\ b <= Len(trace) =>
        Register(a) \in Nat /\ Register(b) \in Nat /\ Register(a) <= Register(b)
BY RegisterGrows

LEMMA RowsAre ==
    ASSUME NEW source, NEW w
    PROVE  /\ Rows(source, w) \subseteq DOMAIN trace
           /\ Rows(source, w) \subseteq w.from..w.to
BY DEF Rows

LEMMA KnownIs ==
    ASSUME Recorded, NEW source, NEW w, NEW t \in Int
    PROVE  \/ /\ lkv(source, w, t) = None
              /\ \A u \in Rows(source, w) : t < u
           \/ \E u \in Rows(source, w) :
                 /\ lkv(source, w, t) = Some(u) /\ u <= t
                 /\ \A v \in Rows(source, w) : v <= t => v <= u
<1> DEFINE known == {u \in Rows(source, w) : u <= t}
<1>1. known \in SUBSET DOMAIN trace BY RowsAre
<1>2. IsFiniteSet(known) /\ known \in SUBSET Int BY <1>1, InstantsIs
<1>3. Rows(source, w) \subseteq Int BY RowsAre, InstantsIs
<1>4. CASE known = {}
  <2>1. lkv(source, w, t) = None BY <1>4 DEF lkv
  <2> QED BY <1>3, <1>4, <2>1
<1>5. CASE known # {}
  <2>1. lkv(source, w, t) = Some(Max(known)) BY <1>5 DEF lkv
  <2>2. Max(known) \in known /\ \A x \in known : x <= Max(known) BY <1>2, <1>5, FiniteMax
  <2> QED BY <2>1, <2>2
<1> QED BY <1>4, <1>5

\* What the meter showed, as its last row says it, never goes back.
LEMMA VolumeGrows ==
    ASSUME Recorded, NEW w, NEW a \in Int, NEW b \in Int, a <= b
    PROVE  Volume(w, a) \in Nat /\ Volume(w, b) \in Nat /\ Volume(w, a) <= Volume(w, b)
<1>1. Rows("m", w) \subseteq DOMAIN trace BY RowsAre
<1>2. \A u \in Rows("m", w) : u \in Int /\ u <= Len(trace) BY <1>1, InstantsIs
<1>3. \A u, v \in Rows("m", w) : u <= v =>
          Register(u) \in Nat /\ Register(v) \in Nat /\ Register(u) <= Register(v)
    BY <1>2, RegisterGrows
<1>4. CASE lkv("m", w, a) = None
  <2>1. Volume(w, a) = 0 BY <1>4 DEF Volume
  <2>2. Volume(w, b) \in Nat
    <3>1. CASE lkv("m", w, b) = None BY <3>1 DEF Volume
    <3>2. CASE lkv("m", w, b) # None
      <4>1. PICK v \in Rows("m", w) : lkv("m", w, b) = Some(v) BY <3>2, KnownIs
      <4>2. Volume(w, b) = Register(v) BY <3>2, <4>1, OptionIs DEF Volume
      <4> QED BY <1>2, <1>3, <4>2
    <3> QED BY <3>1, <3>2
  <2> QED BY <2>1, <2>2
<1>5. CASE lkv("m", w, a) # None
  <2>1. PICK u \in Rows("m", w) : lkv("m", w, a) = Some(u) /\ u <= a BY <1>5, KnownIs
  <2>2. u <= b BY <1>2, <2>1
  <2>3. PICK v \in Rows("m", w) : lkv("m", w, b) = Some(v) /\ u <= v
    <3>1. ~ \A x \in Rows("m", w) : b < x BY <1>2, <2>2
    <3> QED BY <2>2, <3>1, KnownIs
  <2>4. Volume(w, a) = Register(u) /\ Volume(w, b) = Register(v)
      BY <2>1, <2>3, OptionIs DEF Volume
  <2> QED BY <1>3, <2>3, <2>4
<1> QED BY <1>4, <1>5

-----------------------------------------------------------------------------
(* Charges, draws and their points.                                         *)

LEMMA SpellIs ==
    ASSUME NEW w \in Span, NEW on, NEW s \in Spells(w, on)
    PROVE  s.start \in w.from..w.to /\ s.end \in w.from..w.to /\ s.start < s.end
BY DEF Spells

LEMMA ChargeIs ==
    ASSUME NEW w \in Span, NEW c \in Charges(w)
    PROVE  c.end \in w.from..w.to /\ c.volume_at_end = Volume(w, c.end)
<1>1. PICK s \in Spells(w, High(w)) : c = Charge(w, s) BY DEF Charges
<1>2. c.end = s.end /\ c.volume_at_end = Volume(w, s.end) BY <1>1 DEF Charge
<1> QED BY <1>1, <1>2, SpellIs

LEMMA PrecedingIs ==
    ASSUME NEW w \in Span, NEW start \in Int
    PROVE  \/ Preceding(Charges(w), start) = None
           \/ \E c \in Charges(w) :
                 /\ Preceding(Charges(w), start) = Some(c) /\ c.end <= start
                 /\ \A d \in Charges(w) : d.end <= start => d.end <= c.end
<1> DEFINE before == {c \in Charges(w) : c.end <= start}
           ends == {c.end : c \in before}
<1>1. CASE before = {} BY <1>1 DEF Preceding
<1>2. CASE before # {}
  <2>1. ends \subseteq w.from..w.to BY ChargeIs
  <2>2. IsFiniteSet(w.from..w.to)
    <3>1. w.from \in Int /\ w.to \in Int BY DEF Span
    <3> QED BY <3>1, FS_Interval
  <2>3. IsFiniteSet(ends) BY <2>1, <2>2, FS_Subset
  <2>4. ends \in SUBSET Int /\ ends # {} BY <1>2, <2>1 DEF Span
  <2>5. Max(ends) \in ends /\ \A x \in ends : x <= Max(ends) BY <2>3, <2>4, FiniteMax
  <2>6. \E c \in before : \A d \in before : d.end <= c.end BY <2>5
  <2>7. Latest(before) \in before /\ \A d \in before : d.end <= Latest(before).end
      BY <2>6 DEF Latest
  <2>8. Preceding(Charges(w), start) = Some(Latest(before)) BY <1>2 DEF Preceding
  <2> QED BY <2>7, <2>8
<1> QED BY <1>1, <1>2

LEMMA DrawIs ==
    ASSUME Recorded, NEW w \in Span, NEW d \in Draws(w)
    PROVE  /\ d.start \in w.from..w.to
           /\ d.register_start \in Nat /\ VolumeAtCharge(d.preceding) \in Nat
           /\ VolumeAtCharge(d.preceding) <= d.register_start
<1>1. PICK s \in Spells(w, Flowing(w)) : d = Draw(w, s) BY DEF Draws
<1>2. d.start = s.start /\ d.register_start = Volume(w, s.start)
      /\ d.preceding = Preceding(Charges(w), s.start)
    BY <1>1 DEF Draw
<1>3. s.start \in w.from..w.to /\ s.start \in Int BY SpellIs DEF Span
<1>4. d.register_start \in Nat BY <1>2, <1>3, VolumeGrows
<1>5. CASE d.preceding = None
  <2>1. VolumeAtCharge(d.preceding) = 0 BY <1>5 DEF VolumeAtCharge
  <2> QED BY <1>2, <1>3, <1>4, <2>1
<1>6. CASE d.preceding # None
  <2>1. PICK c \in Charges(w) : d.preceding = Some(c) /\ c.end <= s.start
      BY <1>2, <1>3, <1>6, PrecedingIs
  <2>2. VolumeAtCharge(d.preceding) = Volume(w, c.end)
      BY <1>6, <2>1, OptionIs, ChargeIs DEF VolumeAtCharge
  <2>3. c.end \in Int BY ChargeIs DEF Span
  <2>4. Volume(w, c.end) \in Nat /\ Volume(w, c.end) <= Volume(w, s.start)
      BY <1>3, <2>1, <2>3, VolumeGrows
  <2> QED BY <1>2, <1>3, <1>4, <2>2, <2>4
<1> QED BY <1>5, <1>6

LEMMA IntegralIsNat ==
    ASSUME Recorded, NEW rows \in SUBSET DOMAIN trace, NEW t \in Int
    PROVE  Integral(rows, t) \in Nat
<1> DEFINE before(u) == Max({v \in rows : v < u})
           later == {u \in rows : u <= t /\ \E v \in rows : v < u}
           f == [u \in later |-> (trace[before(u)].flow + trace[u].flow) * (u - before(u))]
<1>1. ASSUME NEW u \in later PROVE f[u] \in Nat
  <2> DEFINE earlier == {v \in rows : v < u}
  <2>1. earlier \in SUBSET DOMAIN trace /\ earlier # {} BY <1>1
  <2>2. IsFiniteSet(earlier) /\ earlier \in SUBSET Int BY <2>1, InstantsIs
  <2>3. Max(earlier) \in earlier BY <2>1, <2>2, FiniteMax
  <2> DEFINE b == before(u)
  <2>4. b \in DOMAIN trace /\ b < u BY <2>3
  <2>5. f[u] = (trace[b].flow + trace[u].flow) * (u - b) BY <1>1
  <2> HIDE DEF b, f
  <2>6. u \in DOMAIN trace BY <1>1
  <2>7. u \in Int /\ b \in Int BY <2>4, <2>6, InstantsIs
  <2>8. trace[b].flow \in Nat /\ trace[u].flow \in Nat BY <2>4, <2>6, SampleIs
  <2>9. u - b \in Nat BY <2>4, <2>7
  <2>10. trace[b].flow + trace[u].flow \in Nat BY <2>8
  <2>11. \A x, y \in Nat : x * y \in Nat OBVIOUS
  <2> QED BY <2>5, <2>9, <2>10, <2>11
<1>2. Total(f) \in Nat
  <2>1. DOMAIN f = later OBVIOUS
  <2> HIDE DEF f, later
  <2> QED BY <1>1, <2>1, TotalIsNat
<1> QED BY <1>2 DEF Integral

\* Over rows of every minute the trapezoids are what the register counted.
LEMMA IntegralIs ==
    ASSUME Recorded, NEW first \in Nat \ {0}, NEW last \in Int, last <= Len(trace),
           NEW t \in first..last
    PROVE  Integral(first..last, t) = Register(t) - Register(first)
<1> DEFINE rows == first..last
           before(u) == Max({v \in rows : v < u})
           later == {u \in rows : u <= t /\ \E v \in rows : v < u}
           term(u) == trace[u - 1].flow + trace[u].flow
           f == [u \in 2..first |-> term(u)]
           g == [u \in later |-> (trace[before(u)].flow + trace[u].flow) * (u - before(u))]
           h == [u \in 2..t |-> term(u)]
<1>1. Len(trace) \in Nat /\ DOMAIN trace = 1..Len(trace) BY InstantsIs
<1>2. \A u \in 2..t : term(u) \in Nat
  <2> SUFFICES ASSUME NEW u \in 2..t PROVE term(u) \in Nat OBVIOUS
  <2>1. u \in DOMAIN trace /\ u - 1 \in DOMAIN trace BY <1>1
  <2>2. trace[u].flow \in Nat /\ trace[u - 1].flow \in Nat BY <2>1, SampleIs
  <2> QED BY <2>2
<1>3. \A u \in Int : u \in later <=> u \in (first + 1)..t
  <2> SUFFICES ASSUME NEW u \in Int PROVE u \in later <=> u \in (first + 1)..t OBVIOUS
  <2>1. ASSUME u \in (first + 1)..t PROVE u \in later
    <3>1. first \in rows /\ first < u BY <2>1
    <3> QED BY <2>1, <3>1
  <2> QED BY <2>1
<1>4. ASSUME NEW u \in (first + 1)..t PROVE g[u] = term(u)
  <2> DEFINE earlier == {v \in rows : v < u}
  <2>1. u - 1 \in earlier /\ \A v \in earlier : v <= u - 1 BY <1>4
  <2>2. earlier \in SUBSET DOMAIN trace BY <1>1
  <2>3. IsFiniteSet(earlier) /\ earlier \in SUBSET Int BY <2>2, InstantsIs
  <2>4. Max(earlier) \in earlier /\ \A v \in earlier : v <= Max(earlier)
      BY <2>1, <2>3, FiniteMax
  <2>5. before(u) = u - 1 BY <2>1, <2>3, <2>4
  <2>6. u \in later BY <1>3, <1>4
  <2>7. g[u] = (trace[before(u)].flow + trace[u].flow) * (u - before(u)) BY <2>6
  <2>8. g[u] = term(u) * (u - (u - 1)) BY <2>5, <2>7
  <2>9. u - (u - 1) = 1 /\ u \in 2..t BY <1>4
  <2>10. term(u) \in Nat BY <1>2, <2>9
  <2> HIDE DEF g, term
  <2> QED BY <2>8, <2>9, <2>10
<1>5. \A u \in 1..End : Term(f, u) \in Int /\ Term(g, u) \in Int
                         /\ Term(h, u) = Term(f, u) + Term(g, u)
  <2> SUFFICES ASSUME NEW u \in 1..End
               PROVE  Term(f, u) \in Int /\ Term(g, u) \in Int
                      /\ Term(h, u) = Term(f, u) + Term(g, u)
      OBVIOUS
  <2>1. DOMAIN g = later OBVIOUS
  <2>2. u \in DOMAIN g <=> u \in (first + 1)..t BY <1>3, <2>1
  <2> HIDE DEF g, later
  <2>3. Term(g, u) = IF u \in (first + 1)..t THEN term(u) ELSE 0
      BY <1>4, <2>2 DEF Term
  <2>4. Term(f, u) = IF u \in 2..first THEN term(u) ELSE 0 BY DEF Term
  <2>5. Term(h, u) = IF u \in 2..t THEN term(u) ELSE 0 BY DEF Term
  <2> HIDE DEF f, h, term
  <2>6. CASE u \in 2..first
    <3>1. u \in 2..t /\ u \notin (first + 1)..t BY <2>6
    <3> QED BY <1>2, <2>3, <2>4, <2>5, <2>6, <3>1
  <2>7. CASE u \in (first + 1)..t
    <3>1. u \in 2..t /\ u \notin 2..first BY <2>7
    <3> QED BY <1>2, <2>3, <2>4, <2>5, <2>7, <3>1
  <2>8. CASE u \notin 2..first /\ u \notin (first + 1)..t
    <3>1. u \notin 2..t BY <2>8
    <3> QED BY <2>3, <2>4, <2>5, <2>8, <3>1
  <2> QED BY <2>6, <2>7, <2>8
<1>6. Total(h) = Total(f) + Total(g)
  <2> HIDE DEF f, g, h
  <2> QED BY <1>5, TotalAdds
<1>7. Register(t) = Total(h) /\ Register(first) = Total(f) BY DEF Register
<1>8. Integral(rows, t) = Total(g) BY DEF Integral
<1>9. Total(f) \in Int /\ Total(g) \in Int
  <2>1. Total(f) \in Nat
    <3>1. first <= Len(trace) BY <1>1
    <3> QED BY <1>7, <3>1, RegisterGrows
  <2>2. Total(g) \in Nat
    <3>1. rows \in SUBSET DOMAIN trace BY <1>1
    <3> QED BY <1>8, <3>1, IntegralIsNat
  <2> QED BY <2>1, <2>2
<1> HIDE DEF f, g, h
<1> QED BY <1>6, <1>7, <1>8, <1>9

LEMMA PointsAre ==
    ASSUME Recorded, NEW w \in Span, NEW d \in Draws(w)
    PROVE  /\ DOMAIN Points(d) \in SUBSET DOMAIN trace
           /\ \A t \in DOMAIN Points(d) : Points(d)[t].cumulative \in Nat
<1> DEFINE rows == Rows("m", Around(d, Margin))
           before == d.register_start - VolumeAtCharge(d.preceding)
           third == {t \in rows : /\ Cardinality(rows) >= MinRows
                                  /\ Cardinality({u \in rows : u < t}) >= 2}
<1>1. Points(d) = [t \in third |-> [cumulative |-> before + Integral(rows, t),
                                    t1 |-> trace[t].t1]]
    BY DEF Points
<1>2. rows \in SUBSET DOMAIN trace BY RowsAre
<1>3. third \in SUBSET rows OBVIOUS
<1>4. before \in Nat BY DrawIs
<1>5. \A t \in rows : Integral(rows, t) \in Nat BY <1>2, IntegralIsNat, InstantsIs
<1> HIDE DEF rows, before, third
<1>6. \A t \in third : Points(d)[t].cumulative = before + Integral(rows, t) BY <1>1
<1> QED BY <1>1, <1>2, <1>3, <1>4, <1>5, <1>6

LEMMA FallIs ==
    ASSUME NEW points, NEW rate, DOMAIN points \in SUBSET Int, IsFiniteSet(DOMAIN points),
           FirstFall(points, rate) # None
    PROVE  \E t \in DOMAIN points : FirstFall(points, rate) = Some(points[t])
<1> DEFINE falls == {t \in DOMAIN points : \E u \in Reference(points, t) :
                    20 * (points[t].t1 - points[u].t1)
                        < -rate * (points[t].cumulative - points[u].cumulative)}
<1>1. falls \in SUBSET DOMAIN points OBVIOUS
<1>2. FirstFall(points, rate) = IF falls = {} THEN None ELSE Some(points[Min(falls)])
    BY DEF FirstFall
<1> HIDE DEF falls
<1>3. IsFiniteSet(falls) /\ falls \in SUBSET Int BY <1>1, FS_Subset
<1>4. falls # {} BY <1>2
<1>5. Min(falls) \in falls BY <1>3, <1>4, FiniteMin
<1> QED BY <1>1, <1>2, <1>4, <1>5

\* A median is one of the values.
LEMMA MainsIsInt ==
    ASSUME Recorded, NEW rows \in SUBSET DOMAIN trace
    PROVE  settled_mains_temp(rows) \in Int
<1> DEFINE flowing == {t \in rows : trace[t].flow > DRAW_FLOW_MIN}
           n == Cardinality(flowing)
           tail == {t \in flowing : Cardinality({u \in flowing : u < t}) >= (n * 3) \div 4}
           upTo(t) == {u \in tail : trace[u].t2 <= trace[t].t2}
           middle == {t \in tail : Cardinality(upTo(t)) > Cardinality(tail) \div 2}
           T == {trace[t].t2 : t \in middle}
<1>1. settled_mains_temp(rows) = IF flowing = {} THEN 1500 ELSE Min(T)
    BY DEF settled_mains_temp
<1>2. CASE flowing = {} BY <1>1, <1>2
<1>3. CASE flowing # {}
  <2>1. flowing \in SUBSET DOMAIN trace OBVIOUS
  <2>2. IsFiniteSet(flowing) /\ flowing \in SUBSET Int BY <2>1, InstantsIs
  <2>3. n \in Nat /\ n # 0 BY <1>3, <2>2, FS_CardinalityType, FS_EmptySet
  <2> DEFINE last == Max(flowing)
  <2>4. last \in flowing /\ \A u \in flowing : u <= last BY <1>3, <2>2, FiniteMax
  <2>5. {u \in flowing : u < last} = flowing \ {last}
    <3>1. \A u \in flowing : u < last <=> u # last BY <2>2, <2>4
    <3> HIDE DEF last, flowing
    <3> QED BY <3>1
  <2>6. Cardinality(flowing \ {last}) = n - 1 BY <2>2, <2>4, FS_RemoveElement
  <2>7. n - 1 >= (n * 3) \div 4
    <3> HIDE DEF n
    <3> QED BY <2>3
  <2>8. last \in tail BY <2>4, <2>5, <2>6, <2>7
  <2>9. IsFiniteSet(tail) /\ tail \in SUBSET DOMAIN trace BY <2>1, <2>2, FS_Subset
  <2> HIDE DEF last, tail
  <2> DEFINE f == [t \in tail |-> trace[t].t2]
  <2>10. IsFiniteSet({f[t] : t \in DOMAIN f}) BY <2>9, FiniteRange
  <2>11. {f[t] : t \in DOMAIN f} = {trace[t].t2 : t \in tail} OBVIOUS
  <2>12. {trace[t].t2 : t \in tail} \in SUBSET Int BY <2>9, SampleIs
  <2>13. {trace[t].t2 : t \in tail} # {} BY <2>8
  <2>14. PICK m \in tail : \A u \in tail : trace[u].t2 <= trace[m].t2
    <3> DEFINE V == {trace[t].t2 : t \in tail}
    <3>1. IsFiniteSet(V) /\ V \in SUBSET Int /\ V # {} BY <2>10, <2>11, <2>12, <2>13
    <3>2. Max(V) \in V /\ \A x \in V : x <= Max(V) BY <3>1, FiniteMax
    <3> QED BY <3>2
  <2>15. upTo(m) = tail BY <2>14
  <2>16. Cardinality(tail) \in Nat /\ Cardinality(tail) # 0
      BY <2>8, <2>9, FS_CardinalityType, FS_EmptySet
  <2>17. Cardinality(tail) > Cardinality(tail) \div 2 BY <2>16
  <2>18. m \in middle BY <2>14, <2>15, <2>17
  <2> HIDE DEF middle
  <2>19. middle \in SUBSET tail BY DEF middle
  <2>20. T \in SUBSET {trace[t].t2 : t \in tail} BY <2>19
  <2>21. IsFiniteSet(T) BY <2>10, <2>11, <2>20, FS_Subset
  <2>22. T \in SUBSET Int /\ T # {} BY <2>12, <2>18, <2>20
  <2>23. Min(T) \in T BY <2>21, <2>22, FiniteMin
  <2> QED BY <1>1, <1>3, <2>22, <2>23
<1> QED BY <1>2, <1>3

\* What later steps need of a result.
Good(r) ==
    /\ r.mains \in Int /\ Measured(r) \in Nat
    /\ r.category = "capacity" => r.definitive # None

Sound(results) == IsFiniteSet(results) /\ \A r \in results : Good(r)

LEMMA ResultIs ==
    ASSUME Recorded, NEW w \in Span, NEW d \in Draws(w)
    PROVE  Good(Result(d))
<1> DEFINE r == Result(d)
           definitive == FirstFall(Points(d), 10)
           rows == Rows("m", Around(d, Margin))
<1>1. /\ r.definitive = definitive /\ r.mains = settled_mains_temp(rows)
      /\ r.category = inflection_category(d, definitive)
    BY DEF Result
<1>2. r.mains \in Int BY <1>1, RowsAre, MainsIsInt
<1>3. Measured(r) \in Nat
  <2>1. CASE definitive = None BY <1>1, <2>1, OptionIs DEF Measured
  <2>2. CASE definitive # None
    <3>1. DOMAIN Points(d) \in SUBSET Int /\ IsFiniteSet(DOMAIN Points(d))
        BY PointsAre, InstantsIs
    <3>2. PICK t \in DOMAIN Points(d) : definitive = Some(Points(d)[t])
        BY <2>2, <3>1, FallIs
    <3>3. Measured(r) = Points(d)[t].cumulative BY <1>1, <3>2, OptionIs DEF Measured
    <3> QED BY <3>2, <3>3, PointsAre
  <2> QED BY <2>1, <2>2
<1>4. r.category = "capacity" => definitive # None BY <1>1 DEF inflection_category
<1> QED BY <1>1, <1>2, <1>3, <1>4 DEF Good

LEMMA SpellsFinite ==
    ASSUME NEW w \in Span, NEW on
    PROVE  IsFiniteSet(Spells(w, on))
<1> DEFINE I == w.from..w.to
           f == [p \in I \X I |-> [start |-> p[1], end |-> p[2]]]
           S == {f[p] : p \in DOMAIN f}
<1>1. IsFiniteSet(I)
  <2>1. w.from \in Int /\ w.to \in Int BY DEF Span
  <2> QED BY <2>1, FS_Interval
<1> HIDE DEF I
<1>2. IsFiniteSet(I \X I) BY <1>1, FS_Product
<1>3. IsFiniteSet(S) BY <1>2, FiniteRange
<1>4. \A s \in Spells(w, on) : s \in [start : I, end : I] BY DEF Spells, I
<1>5. \A s \in [start : I, end : I] : s \in S
  <2> SUFFICES ASSUME NEW s \in [start : I, end : I] PROVE s \in S OBVIOUS
  <2>1. <<s.start, s.end>> \in DOMAIN f OBVIOUS
  <2>2. f[<<s.start, s.end>>] = s OBVIOUS
  <2> QED BY <2>1, <2>2
<1> HIDE DEF S
<1>6. Spells(w, on) \in SUBSET S BY <1>4, <1>5
<1> QED BY <1>3, <1>6, FS_Subset

LEMMA ResultsAreSound ==
    ASSUME Recorded, NEW w \in Span
    PROVE  Sound(Results(w))
<1> DEFINE S == Spells(w, Flowing(w))
           f == [s \in S |-> Result(Draw(w, s))]
           R == {f[s] : s \in DOMAIN f}
<1>1. IsFiniteSet(R)
  <2>1. DOMAIN f = S /\ IsFiniteSet(S) BY SpellsFinite
  <2> HIDE DEF f, S
  <2> QED BY <2>1, FiniteRange
<1>2. \A d \in Draws(w) : Result(d) \in R
  <2> SUFFICES ASSUME NEW d \in Draws(w) PROVE Result(d) \in R OBVIOUS
  <2>1. PICK s \in S : d = Draw(w, s) BY DEF Draws
  <2> QED BY <2>1
<1> HIDE DEF R
<1>3. Results(w) \in SUBSET R BY <1>2 DEF Results
<1>4. IsFiniteSet(Results(w)) BY <1>1, <1>3, FS_Subset
<1>5. \A r \in Results(w) : Good(r) BY ResultIs DEF Results
<1> QED BY <1>4, <1>5 DEF Sound

-----------------------------------------------------------------------------
(* What is recommended.                                                     *)

LEMMA MeasuredAre ==
    ASSUME NEW results, Sound(results)
    PROVE  /\ {Measured(r) : r \in results} \in SUBSET Nat
           /\ IsFiniteSet({Measured(r) : r \in results})
<1> DEFINE f == [r \in results |-> Measured(r)]
<1>1. IsFiniteSet({f[r] : r \in DOMAIN f}) BY FiniteRange DEF Sound
<1>2. {f[r] : r \in DOMAIN f} = {Measured(r) : r \in results} OBVIOUS
<1> QED BY <1>1, <1>2 DEF Sound, Good

LEMMA BestIs ==
    ASSUME NEW results, Sound(results), results # {}
    PROVE  Best(results) \in Nat /\ Best(results) = Max({Measured(r) : r \in results})
<1> DEFINE V == {Measured(r) : r \in results}
           Z == V \cup {0}
<1>1. V \in SUBSET Nat /\ IsFiniteSet(V) /\ V # {} BY MeasuredAre
<1> HIDE DEF V
<1>2. Z \in SUBSET Int /\ IsFiniteSet(Z) /\ Z # {} BY <1>1, FS_AddElement
<1>3. Max(V) \in V /\ \A x \in V : x <= Max(V) BY <1>1, FiniteMax
<1>4. Max(Z) \in Z /\ \A x \in Z : x <= Max(Z) BY <1>2, FiniteMax
<1>5. Max(V) \in Nat /\ Max(Z) \in Nat
  <2>1. \A x \in Z : x \in Nat BY <1>1
  <2> HIDE DEF Z
  <2> QED BY <1>1, <1>3, <1>4, <2>1
<1>6. Max(V) <= Max(Z) /\ 0 <= Max(V) BY <1>3, <1>4, <1>5
<1>7. Max(Z) <= Max(V) BY <1>3, <1>4, <1>5
<1>8. Max(Z) = Max(V) BY <1>5, <1>6, <1>7
<1> QED BY <1>5, <1>8 DEF Best, V

LEMMA ByStartIs ==
    ASSUME NEW results, Sound(results), results # {}
    PROVE  /\ IsFiniteSet(DOMAIN ByStart(results)) /\ DOMAIN ByStart(results) # {}
           /\ \A t \in DOMAIN ByStart(results) : ByStart(results)[t] \in results
<1> DEFINE f == [r \in results |-> r.draw.start]
           starts == {r.draw.start : r \in results}
<1>1. IsFiniteSet({f[r] : r \in DOMAIN f}) BY FiniteRange DEF Sound
<1>2. {f[r] : r \in DOMAIN f} = starts OBVIOUS
<1>3. DOMAIN ByStart(results) = starts /\ starts # {} BY DEF ByStart
<1>4. \A t \in starts : ByStart(results)[t] \in results
  <2> SUFFICES ASSUME NEW t \in starts PROVE ByStart(results)[t] \in results OBVIOUS
  <2>1. ByStart(results)[t] = CHOOSE r \in results : r.draw.start = t BY DEF ByStart
  <2>2. \E r \in results : r.draw.start = t OBVIOUS
  <2> QED BY <2>1, <2>2
<1> QED BY <1>1, <1>2, <1>3, <1>4

\* However the line goes, the regression says no less than the best measurement.
LEMMA RegressionIs ==
    ASSUME NEW cold, Sound(cold), cold # {}, Regression(cold) # None
    PROVE  Regression(cold)[1] \in Int /\ Best(cold) <= Regression(cold)[1]
<1> DEFINE at == ByStart(cold)
           n == Cardinality(DOMAIN at)
           t2 == [t \in DOMAIN at |-> at[t].mains]
           vol == [t \in DOMAIN at |-> Measured(at[t])]
           squares == [t \in DOMAIN at |-> t2[t] * t2[t]]
           products == [t \in DOMAIN at |-> t2[t] * vol[t]]
           var == n * Total(squares) - Total(t2) * Total(t2)
           cov == n * Total(products) - Total(t2) * Total(vol)
           warmest == Max({t2[t] : t \in DOMAIN at})
           more == (cov * (2500 - warmest)) \div var
           R == {Best(cold), Best(cold) + more}
<1>1. ~ (n < 2 \/ var <= 1000 * n * n) /\ Regression(cold) = Some(Max(R)) BY DEF Regression
<1>2. n \in Nat BY ByStartIs, FS_CardinalityType
<1>3. \A t \in DOMAIN at : at[t].mains \in Int /\ Measured(at[t]) \in Int
    BY ByStartIs DEF Sound, Good
<1>4. \A t \in DOMAIN at : t2[t] \in Int /\ vol[t] \in Int BY <1>3
<1>5. DOMAIN t2 = DOMAIN at /\ DOMAIN vol = DOMAIN at
      /\ DOMAIN squares = DOMAIN at /\ DOMAIN products = DOMAIN at OBVIOUS
<1>6. \A x, y \in Int : x * y \in Int /\ x - y \in Int OBVIOUS
<1>7. \A t \in DOMAIN at : squares[t] = t2[t] * t2[t] /\ products[t] = t2[t] * vol[t] OBVIOUS
<1>8. IsFiniteSet({t2[t] : t \in DOMAIN at}) /\ {t2[t] : t \in DOMAIN at} # {}
  <2>1. IsFiniteSet({t2[t] : t \in DOMAIN t2}) BY <1>5, ByStartIs, FiniteRange
  <2> QED BY <1>5, <2>1, ByStartIs
<1> HIDE DEF t2, vol, squares, products
<1>9. Total(t2) \in Int /\ Total(vol) \in Int BY <1>4, <1>5, TotalIsInt
<1>10. \A t \in DOMAIN at : squares[t] \in Int /\ products[t] \in Int BY <1>4, <1>6, <1>7
<1>11. Total(squares) \in Int /\ Total(products) \in Int BY <1>5, <1>10, TotalIsInt
<1>12. {t2[t] : t \in DOMAIN at} \in SUBSET Int BY <1>4
<1>13. warmest \in Int BY <1>8, <1>12, FiniteMax
<1> HIDE DEF n, warmest
<1>14. var \in Int
  <2>1. n \in Int BY <1>2
  <2>2. n * Total(squares) \in Int /\ Total(t2) * Total(t2) \in Int BY <1>6, <1>9, <1>11, <2>1
  <2> QED BY <2>2
<1>15. cov \in Int
  <2>1. n \in Int BY <1>2
  <2>2. n * Total(products) \in Int /\ Total(t2) * Total(vol) \in Int
      BY <1>6, <1>9, <1>11, <2>1
  <2> QED BY <2>2
<1> HIDE DEF var, cov
<1>16. var > 0
  <2>1. 1000 * n * n \in Nat
    <3>1. \A x, y \in Nat : x * y \in Nat OBVIOUS
    <3>2. 1000 * n \in Nat BY <1>2, <3>1
    <3> QED BY <1>2, <3>1, <3>2
  <2> DEFINE k == 1000 * n * n
  <2>2. ~ (var <= k) BY <1>1
  <2> HIDE DEF k
  <2> QED BY <1>14, <2>1, <2>2 DEF k
<1>17. more \in Int
  <2>1. 2500 - warmest \in Int BY <1>13
  <2>2. cov * (2500 - warmest) \in Int BY <1>6, <1>15, <2>1
  <2>3. \A x, y \in Int : y > 0 => x \div y \in Int OBVIOUS
  <2> QED BY <1>14, <1>16, <2>2, <2>3
<1> HIDE DEF more
<1>18. Best(cold) \in Int
  <2>1. Best(cold) \in Nat BY BestIs
  <2> QED BY <2>1
<1>19. R \in SUBSET Int /\ R # {} BY <1>17, <1>18
<1>20. Max(R) \in R /\ Best(cold) <= Max(R)
  <2>1. Best(cold) + more \in Int BY <1>17, <1>18
  <2> QED BY <1>18, <2>1, PairIs
<1> HIDE DEF R
<1> QED BY <1>1, <1>19, <1>20, OptionIs

\* A recommendation is the best measurement with warm mains, or at least 97% of the best.
Fits(litres, results) ==
    IF \E r \in results : r.mains >= WWHR_T2_THRESHOLD
    THEN litres = Litres(Best({r \in results : r.mains >= WWHR_T2_THRESHOLD}), 100)
    ELSE litres >= Litres(Best(results), 97)

LEMMA PartIsSound ==
    ASSUME NEW results, Sound(results), NEW part \in SUBSET results
    PROVE  Sound(part)
BY FS_Subset DEF Sound

LEMMA RecommendedIs ==
    ASSUME NEW results, Sound(results)
    PROVE  IF results = {} THEN Recommended(results) = None
           ELSE Recommended(results) # None /\ Fits(Recommended(results)[1], results)
<1> DEFINE wwhr == {r \in results : r.mains >= WWHR_T2_THRESHOLD}
           cold == {r \in results : r.mains < WWHR_T2_THRESHOLD}
<1>1. CASE results = {} BY <1>1 DEF Recommended
<1>2. CASE wwhr # {}
  <2>1. Recommended(results) = Some(Litres(Best(wwhr), 100)) BY <1>2 DEF Recommended
  <2>2. \E r \in results : r.mains >= WWHR_T2_THRESHOLD BY <1>2
  <2> QED BY <1>2, <2>1, <2>2, OptionIs DEF Fits
<1>3. CASE results # {} /\ wwhr = {}
  <2>1. cold = results
    <3>1. \A r \in results : r.mains \in Int BY DEF Sound, Good
    <3>2. WWHR_T2_THRESHOLD \in Int BY DEF WWHR_T2_THRESHOLD
    <3>3. \A r \in results : ~ (r.mains >= WWHR_T2_THRESHOLD) BY <1>3
    <3>4. \A r \in results : r.mains < WWHR_T2_THRESHOLD BY <3>1, <3>2, <3>3
    <3> QED BY <3>4
  <2>2. ~ \E r \in results : r.mains >= WWHR_T2_THRESHOLD BY <1>3
  <2>3. Best(results) \in Nat BY <1>3, BestIs
  <2>4. Recommended(results) =
            IF Regression(results) # None THEN Some(Litres(Regression(results)[1], 100))
            ELSE Some(Litres(Best(results), 97))
      BY <1>3, <2>1 DEF Recommended
  <2>5. CASE Regression(results) # None
    <3> DEFINE b == Best(results)
               l == Regression(results)[1]
    <3>1. l \in Int /\ b <= l BY <1>3, <2>5, RegressionIs
    <3> HIDE DEF b, l
    <3>2. b \in Nat BY <2>3 DEF b
    <3>3. (l * 100 + 100) \div 200 >= (b * 97 + 100) \div 200 BY <3>1, <3>2
    <3>4. Litres(l, 100) >= Litres(b, 97) BY <3>3 DEF Litres
    <3>5. Recommended(results) = Some(Litres(l, 100)) BY <2>4, <2>5 DEF l
    <3>6. Fits(Litres(l, 100), results) BY <2>2, <3>4 DEF Fits, b
    <3> QED BY <1>3, <3>5, <3>6, OptionIs
  <2>6. CASE Regression(results) = None
    <3> DEFINE b == Best(results)
    <3> HIDE DEF b
    <3>1. b \in Nat BY <2>3 DEF b
    <3>2. (b * 97 + 100) \div 200 >= (b * 97 + 100) \div 200 BY <3>1
    <3>3. Litres(b, 97) >= Litres(b, 97) BY <3>2 DEF Litres
    <3>4. Recommended(results) = Some(Litres(b, 97)) BY <2>4, <2>6 DEF b
    <3>5. Fits(Litres(b, 97), results) BY <2>2, <3>3 DEF Fits, b
    <3> QED BY <1>3, <3>4, <3>5, OptionIs
  <2> QED BY <2>5, <2>6
<1> QED BY <1>1, <1>2, <1>3

-----------------------------------------------------------------------------
(* The inductive invariant.                                                 *)

\* The rows that a recommendation rests on.
Whole(results, w) == {row \in RowsOf(results, w) : row.category = "capacity"}

\* The results of a run are those of its window until more is recorded.
JobInv ==
    \/ job = Resting
    \/ /\ job = [pc |-> "write", todo |-> job.todo, window |-> job.window,
                 results |-> job.results]
       /\ Sound(job.results)
       /\ job.todo \subseteq RowsOf(job.results, job.window)
       /\ RowsOf(job.results, job.window) \subseteq inflection \cup job.todo
       /\ job.window.to \in 0..Len(trace)
       /\ job.window.to = Len(trace) => job.results = Results(job.window)

\* A row with the window of a run is one of that run's.
RowsInv ==
    \A row \in inflection :
        /\ row.window.to \in 0..Len(trace)
        /\ row.window.to = Len(trace) => row \in RowsOf(Results(row.window), row.window)
        /\ job.pc = "write" /\ row.window = job.window =>
               row \in RowsOf(job.results, job.window)

\* What a run over the same window may still write is there already.
Settled(c) ==
    /\ c.window.to \in 0..Len(trace)
    /\ c.window.to = Len(trace) => Whole(Results(c.window), c.window) \subseteq inflection
    /\ job.pc = "write" /\ c.window = job.window =>
           Whole(job.results, job.window) \subseteq inflection

Backed(c) == c.of # {} /\ c.of = {r.time : r \in Backing(c)}

Held(c) ==
    LET wwhr == {r \in Backing(c) : r.mains >= WWHR_T2_THRESHOLD}
        best(rows) == Max({r.cumulative : r \in rows})
    IN  IF wwhr # {} THEN c.litres = Litres(best(wwhr), 100)
        ELSE c.litres >= Litres(best(Backing(c)), 97)

CapacityInv == \A c \in capacity : Settled(c) /\ Backed(c) /\ Held(c)

TablesInv == Recorded /\ JobInv /\ RowsInv /\ CapacityInv

LEMMA TablesInit == Init => TablesInv
<1> SUFFICES ASSUME Init PROVE TablesInv OBVIOUS
<1>1. Recorded BY EndIsNat DEF Init, Recorded
<1>2. JobInv /\ RowsInv /\ CapacityInv BY DEF Init, JobInv, RowsInv, CapacityInv
<1> QED BY <1>1, <1>2 DEF TablesInv

LEMMA RowIs ==
    ASSUME NEW results, NEW w, NEW row \in RowsOf(results, w)
    PROVE  /\ row.window = w
           /\ \E r \in results : r.definitive # None /\ row = Row(r, w)
BY DEF RowsOf, Row

\* The series being as it was, so is what is found in it.
LEMMA SameResults ==
    ASSUME UNCHANGED trace, NEW w
    PROVE  Results(w)' = Results(w)
<1>1. \A source, v : Rows(source, v)' = Rows(source, v) BY DEF Rows
<1>2. \A source, v, t : lkv(source, v, t)' = lkv(source, v, t) BY <1>1 DEF lkv
<1>3. \A source, field, v, t : Value(source, field, v, t)' = Value(source, field, v, t)
    BY <1>2 DEF Value
<1>4. \A t : Register(t)' = Register(t) BY DEF Register
<1>5. \A v, t : Volume(v, t)' = Volume(v, t) BY <1>2, <1>4 DEF Volume
<1>6. High(w)' = High(w) /\ Flowing(w)' = Flowing(w) BY <1>3 DEF High, Flowing
<1>7. \A s : PreT1(w, s)' = PreT1(w, s) BY <1>3 DEF PreT1
<1>8. \A s : Charge(w, s)' = Charge(w, s) BY <1>3, <1>5, <1>7 DEF Charge
<1>9. Charges(w)' = Charges(w) BY <1>6, <1>7, <1>8 DEF Charges
<1>10. \A s : Drawn(w, s)' = Drawn(w, s) BY <1>5 DEF Drawn
<1>11. \A s : Draw(w, s)' = Draw(w, s)
  <2> SUFFICES ASSUME NEW s PROVE Draw(w, s)' = Draw(w, s) OBVIOUS
  <2>1. Preceding(Charges(w), s.start)' = Preceding(Charges(w), s.start) BY <1>9
  <2>2. Flowing(w)' = Flowing(w) BY <1>6
  <2>3. Volume(w, s.end)' = Volume(w, s.end) /\ Volume(w, s.start)' = Volume(w, s.start)
        /\ Drawn(w, s)' = Drawn(w, s) /\ High(w)' = High(w)
      BY <1>5, <1>6, <1>10
  <2> QED BY <2>1, <2>2, <2>3 DEF Draw
<1>12. Draws(w)' = Draws(w) BY <1>6, <1>10, <1>11 DEF Draws
<1>13. \A rows, t : Integral(rows, t)' = Integral(rows, t) BY DEF Integral
<1>14. \A d : Points(d)' = Points(d) BY <1>1, <1>13 DEF Points
<1>15. \A rows : settled_mains_temp(rows)' = settled_mains_temp(rows)
    BY DEF settled_mains_temp
<1>16. \A d : HwcMin(d)' = HwcMin(d) BY <1>1 DEF HwcMin
<1>17. \A d : Result(d)' = Result(d) BY <1>1, <1>14, <1>15, <1>16 DEF Result
<1> QED BY <1>12, <1>14, <1>17 DEF Results

LEMMA RecordStep ==
    ASSUME TablesInv, NEW s, Record(s)
    PROVE  TablesInv'
<1>1. Recorded /\ JobInv /\ RowsInv /\ CapacityInv BY DEF TablesInv
<1>2. Len(trace) \in Nat /\ Len(trace) < End /\ trace' = Append(trace, s)
    BY <1>1 DEF Record, Recorded
<1>3. UNCHANGED <<job, inflection, capacity>> BY DEF Record
<1>4. s \in Sample
  <2>1. s \in Samples[Len(trace) + 1] BY DEF Record
  <2>2. Len(trace) + 1 \in Instant BY <1>2, EndIsNat DEF Instant
  <2> QED BY <2>1, <2>2, DhwSessionsAssumption
<1>5. Len(trace') = Len(trace) + 1 /\ Recorded' BY <1>1, <1>2, <1>4, EndIsNat DEF Recorded
<1>6. \A n \in 0..Len(trace) : n \in 0..Len(trace') /\ n # Len(trace') BY <1>2, <1>5
<1>7. JobInv' BY <1>1, <1>3, <1>6 DEF JobInv
<1>8. RowsInv' BY <1>1, <1>3, <1>6 DEF RowsInv
<1>9. CapacityInv'
  <2> SUFFICES ASSUME NEW c \in capacity
               PROVE  Settled(c)' /\ Backed(c)' /\ Held(c)'
      BY <1>3 DEF CapacityInv
  <2>1. Settled(c) /\ Backed(c) /\ Held(c) BY <1>1 DEF CapacityInv
  <2>2. Backing(c)' = Backing(c) BY <1>3 DEF Backing
  <2>3. Settled(c)' BY <1>3, <1>6, <2>1 DEF Settled
  <2>4. Backed(c)' BY <2>1, <2>2 DEF Backed
  <2>5. Held(c)' BY <2>1, <2>2 DEF Held
  <2> QED BY <2>3, <2>4, <2>5
<1> QED BY <1>5, <1>7, <1>8, <1>9 DEF TablesInv

\* A step of the command that leaves the tables alone, and starts no run.
LEMMA StopStep ==
    ASSUME TablesInv, UNCHANGED <<trace, inflection, capacity>>, job' = Resting \/ job' = job
    PROVE  TablesInv'
<1>1. Recorded /\ JobInv /\ RowsInv /\ CapacityInv BY DEF TablesInv
<1>2. Recorded' BY <1>1 DEF Recorded
<1>3. \A w : Results(w)' = Results(w) BY SameResults
<1>4. JobInv' BY <1>1, <1>3 DEF JobInv
<1>5. job'.pc = "write" => job' = job BY DEF Resting
<1>6. RowsInv' BY <1>1, <1>3, <1>5 DEF RowsInv
<1>7. CapacityInv'
  <2> SUFFICES ASSUME NEW c \in capacity
               PROVE  Settled(c)' /\ Backed(c)' /\ Held(c)'
      BY DEF CapacityInv
  <2>1. Settled(c) /\ Backed(c) /\ Held(c) BY <1>1 DEF CapacityInv
  <2>2. Backing(c)' = Backing(c) BY DEF Backing
  <2>3. Settled(c)' BY <1>3, <1>5, <2>1 DEF Settled
  <2>4. Backed(c)' BY <2>1, <2>2 DEF Backed
  <2>5. Held(c)' BY <2>1, <2>2 DEF Held
  <2> QED BY <2>3, <2>4, <2>5
<1> QED BY <1>2, <1>4, <1>6, <1>7 DEF TablesInv

LEMMA WindowIs ==
    ASSUME Recorded, NEW days \in Windows, NEW w,
           w = [from |-> Max({1, Len(trace) - days + 1}), to |-> Len(trace)]
    PROVE  w \in Span /\ w.to = Len(trace) /\ w.to <= Len(trace)
<1> DEFINE first == Len(trace) - days + 1
<1>1. Len(trace) \in Nat BY InstantsIs
<1>2. first \in Int BY <1>1, DhwSessionsAssumption
<1> HIDE DEF first
<1>3. \A x, y \in Int : Max({x, y}) \in {x, y} /\ x <= Max({x, y}) BY PairIs
<1>4. 1 \in Int OBVIOUS
<1>5. Max({1, first}) \in {1, first} /\ 1 <= Max({1, first}) BY <1>2, <1>3, <1>4, Zenon
<1>6. Max({1, first}) \in Nat \ {0} BY <1>2, <1>5
<1>7. w = [from |-> Max({1, first}), to |-> Len(trace)] BY DEF first
<1>8. w.to = Len(trace) /\ w \in Span BY <1>1, <1>6, <1>7 DEF Span
<1> QED BY <1>1, <1>8

LEMMA RunStep ==
    ASSUME TablesInv, NEW days \in Windows, NEW no_write \in BOOLEAN, Run(days, no_write)
    PROVE  TablesInv'
<1> DEFINE w == [from |-> Max({1, Len(trace) - days + 1}), to |-> Len(trace)]
<1>1. Recorded /\ JobInv /\ RowsInv /\ CapacityInv BY DEF TablesInv
<1>2. UNCHANGED <<trace, inflection, capacity>> BY DEF Run
<1>3. CASE no_write
  <2>1. job' = Resting BY <1>3 DEF Run
  <2> QED BY <1>2, <2>1, StopStep
<1>4. CASE ~ no_write
  <2>1. job' = [pc |-> "write", todo |-> RowsOf(Results(w), w), window |-> w,
                results |-> Results(w)]
      BY <1>4 DEF Run
  <2>2. Len(trace) \in Nat /\ w.to = Len(trace) BY <1>1, InstantsIs
  <2>3. w \in Span BY <1>1, WindowIs
  <2> HIDE DEF w
  <2>4. Recorded' BY <1>1, <1>2 DEF Recorded
  <2>5. \A v : Results(v)' = Results(v) BY <1>2, SameResults
  <2>6. Sound(Results(w)) BY <1>1, <2>3, ResultsAreSound
  <2>7. /\ job'.pc = "write" /\ job'.todo = RowsOf(Results(w), w)
        /\ job'.window = w /\ job'.results = Results(w)
      BY <2>1
  <2>8. JobInv' BY <1>2, <2>1, <2>2, <2>5, <2>6, <2>7 DEF JobInv
  <2>9. RowsInv' BY <1>1, <1>2, <2>2, <2>5, <2>7 DEF RowsInv
  <2>10. CapacityInv'
    <3> SUFFICES ASSUME NEW c \in capacity
                 PROVE  Settled(c)' /\ Backed(c)' /\ Held(c)'
        BY <1>2 DEF CapacityInv
    <3>1. Settled(c) /\ Backed(c) /\ Held(c) BY <1>1 DEF CapacityInv
    <3>2. Backing(c)' = Backing(c) BY <1>2 DEF Backing
    <3>3. Settled(c)' BY <1>2, <2>2, <2>5, <2>7, <3>1 DEF Settled
    <3>4. Backed(c)' BY <3>1, <3>2 DEF Backed
    <3>5. Held(c)' BY <3>1, <3>2 DEF Held
    <3> QED BY <3>3, <3>4, <3>5
  <2> QED BY <2>4, <2>8, <2>9, <2>10 DEF TablesInv
<1> QED BY <1>3, <1>4

LEMMA WriteRowStep ==
    ASSUME TablesInv, WriteRow
    PROVE  TablesInv'
<1>1. Recorded /\ JobInv /\ RowsInv /\ CapacityInv BY DEF TablesInv
<1>2. UNCHANGED <<trace, capacity>> /\ job.pc = "write" BY DEF WriteRow
<1>3. PICK row \in job.todo :
          inflection' = inflection \cup {row} /\ job' = [job EXCEPT !.todo = @ \ {row}]
    BY DEF WriteRow
<1>4. /\ job = [pc |-> "write", todo |-> job.todo, window |-> job.window,
                results |-> job.results]
      /\ Sound(job.results)
      /\ job.todo \subseteq RowsOf(job.results, job.window)
      /\ RowsOf(job.results, job.window) \subseteq inflection \cup job.todo
      /\ job.window.to \in 0..Len(trace)
      /\ job.window.to = Len(trace) => job.results = Results(job.window)
    BY <1>1, <1>2 DEF JobInv, Resting
<1>5. job' = [pc |-> "write", todo |-> job.todo \ {row}, window |-> job.window,
              results |-> job.results]
  <2>1. \A a, b, c, d : [[pc |-> "write", todo |-> a, window |-> b, results |-> c] EXCEPT !.todo = d]
            = [pc |-> "write", todo |-> d, window |-> b, results |-> c]
      OBVIOUS
  <2>2. job' = [job EXCEPT !.todo = job.todo \ {row}] BY <1>3
  <2>3. \A d : [job EXCEPT !.todo = d]
            = [pc |-> "write", todo |-> d, window |-> job.window, results |-> job.results]
    <3> DEFINE a == job.todo
               b == job.window
               c == job.results
    <3>1. job = [pc |-> "write", todo |-> a, window |-> b, results |-> c] BY <1>4
    <3> HIDE DEF a, b, c
    <3> QED BY <2>1, <3>1 DEF b, c
  <2> QED BY <2>2, <2>3
<1>6. job'.pc = "write" /\ job'.todo = job.todo \ {row} /\ job'.window = job.window
      /\ job'.results = job.results
    BY <1>5
<1>7. \A w : Results(w)' = Results(w) BY <1>2, SameResults
<1>8. row \in RowsOf(job.results, job.window) /\ row.window = job.window BY <1>4, RowIs
<1>9. Recorded' BY <1>1, <1>2 DEF Recorded
<1>10. JobInv' BY <1>2, <1>3, <1>4, <1>5, <1>6, <1>7 DEF JobInv
<1>11. RowsInv' BY <1>1, <1>2, <1>3, <1>4, <1>6, <1>7, <1>8 DEF RowsInv
<1>12. CapacityInv'
  <2> SUFFICES ASSUME NEW c \in capacity
               PROVE  Settled(c)' /\ Backed(c)' /\ Held(c)'
      BY <1>2 DEF CapacityInv
  <2>1. Settled(c) /\ Backed(c) /\ Held(c) BY <1>1 DEF CapacityInv
  <2>2. row.window = c.window /\ row.category = "capacity" => row \in inflection
      BY <1>2, <1>8, <2>1 DEF Settled, Whole
  <2>3. Backing(c)' = Backing(c) BY <1>3, <2>2 DEF Backing
  <2>4. Settled(c)' BY <1>2, <1>3, <1>6, <1>7, <2>1 DEF Settled
  <2>5. Backed(c)' BY <2>1, <2>3 DEF Backed
  <2>6. Held(c)' BY <2>1, <2>3 DEF Held
  <2> QED BY <2>4, <2>5, <2>6
<1> QED BY <1>9, <1>10, <1>11, <1>12 DEF TablesInv

LEMMA FinishStep ==
    ASSUME TablesInv, Finish
    PROVE  TablesInv'
<1> DEFINE w == job.window
           measured == Measurements(job.results)
           new == [litres |-> Recommended(measured)[1], window |-> w,
                   of |-> {r.draw.start : r \in measured}]
<1>1. Recorded /\ JobInv /\ RowsInv /\ CapacityInv BY DEF TablesInv
<1>2. /\ UNCHANGED <<trace, inflection>> /\ job.pc = "write" /\ job.todo = {}
      /\ job' = Resting
      /\ capacity' = IF Recommended(measured) = None THEN capacity ELSE capacity \cup {new}
    BY DEF Finish
<1>3. /\ Sound(job.results)
      /\ RowsOf(job.results, w) \subseteq inflection
      /\ w.to \in 0..Len(trace)
      /\ w.to = Len(trace) => job.results = Results(w)
    BY <1>1, <1>2 DEF JobInv, Resting
<1>4. Recorded' BY <1>1, <1>2 DEF Recorded
<1>5. \A v : Results(v)' = Results(v) BY <1>2, SameResults
<1>6. job'.pc # "write" BY <1>2 DEF Resting
<1>7. JobInv' BY <1>2 DEF JobInv
<1>8. RowsInv' BY <1>1, <1>2, <1>5, <1>6 DEF RowsInv
<1>9. CapacityInv'
  <2>1. \A c : Backing(c)' = Backing(c) BY <1>2 DEF Backing
  <2>2. \A c : Backed(c)' = Backed(c) /\ Held(c)' = Held(c) BY <2>1 DEF Backed, Held
  <2>3. ASSUME NEW c \in capacity PROVE Settled(c)' /\ Backed(c)' /\ Held(c)'
    <3>1. Settled(c) /\ Backed(c) /\ Held(c) BY <1>1 DEF CapacityInv
    <3>2. Settled(c)' BY <1>2, <1>5, <1>6, <3>1 DEF Settled
    <3> QED BY <2>2, <3>1, <3>2
  <2>4. ASSUME Recommended(measured) # None, NEW c, c = new
        PROVE  Settled(c)' /\ Backed(c)' /\ Held(c)'
    <3>1. measured \in SUBSET job.results /\ \A r \in measured : r.category = "capacity"
        BY DEF Measurements, InCategory
    <3>2. Sound(measured) BY <1>3, <3>1, PartIsSound
    <3>3. measured # {} /\ Fits(Recommended(measured)[1], measured)
        BY <2>4, <3>2, RecommendedIs
    <3>4. \A r \in job.results : r.category = "capacity" => r \in measured
        BY DEF Measurements, InCategory
    <3> DEFINE of == {r.draw.start : r \in measured}
    <3>5. c.window = w /\ c.of = of /\ c.litres = Recommended(measured)[1] BY <2>4
    <3> HIDE DEF new, measured, w
    <3>6. Backing(c) = {Row(r, w) : r \in measured}
      <4>1. ASSUME NEW r \in measured PROVE Row(r, w) \in Backing(c)
        <5>1. r \in job.results /\ r.definitive # None BY <3>1, <3>2 DEF Sound, Good
        <5>2. Row(r, w) \in inflection BY <1>3, <5>1 DEF RowsOf
        <5>3. Row(r, w).window = w /\ Row(r, w).time \in of /\ Row(r, w).category = "capacity"
            BY <3>1 DEF Row
        <5> QED BY <3>5, <5>2, <5>3 DEF Backing
      <4>2. ASSUME NEW row \in Backing(c) PROVE \E r \in measured : row = Row(r, w)
        <5>1. row \in inflection /\ row.window = w /\ row.category = "capacity"
            BY <3>5 DEF Backing
        <5>2. row \in RowsOf(job.results, w) BY <1>1, <1>2, <5>1 DEF RowsInv, w
        <5>3. PICK r \in job.results : row = Row(r, w) BY <5>2, RowIs
        <5>4. r.category = "capacity" BY <5>1, <5>3 DEF Row
        <5> QED BY <3>4, <5>3, <5>4
      <4> QED BY <4>1, <4>2
    <3>10. \A r : Row(r, w).time = r.draw.start /\ Row(r, w).mains = r.mains
                  /\ Row(r, w).cumulative = Measured(r)
        BY DEF Row
    <3>7. Backed(c)
      <4>1. {row.time : row \in Backing(c)} = of BY <3>6, <3>10
      <4>2. of # {} BY <3>3
      <4> QED BY <3>5, <4>1, <4>2 DEF Backed
    <3>8. Held(c)
      <4> DEFINE warm == {r \in measured : r.mains >= WWHR_T2_THRESHOLD}
                 wwhr == {row \in Backing(c) : row.mains >= WWHR_T2_THRESHOLD}
      <4>1. wwhr = {Row(r, w) : r \in warm} BY <3>6, <3>10
      <4>2. {row.cumulative : row \in wwhr} = {Measured(r) : r \in warm} BY <4>1, <3>10
      <4>3. {row.cumulative : row \in Backing(c)} = {Measured(r) : r \in measured}
          BY <3>6, <3>10
      <4>4. wwhr # {} <=> \E r \in measured : r.mains >= WWHR_T2_THRESHOLD BY <4>1
      <4>5. warm # {} => Best(warm) = Max({Measured(r) : r \in warm})
          BY <3>2, PartIsSound, BestIs
      <4>6. Best(measured) = Max({Measured(r) : r \in measured}) BY <3>2, <3>3, BestIs
      <4>7. CASE wwhr # {}
        <5>1. c.litres = Litres(Best(warm), 100) BY <3>3, <3>5, <4>4, <4>7 DEF Fits
        <5>2. warm # {} BY <4>1, <4>7
        <5>3. c.litres = Litres(Max({row.cumulative : row \in wwhr}), 100)
            BY <4>2, <4>5, <5>1, <5>2
        <5> QED BY <4>7, <5>3 DEF Held
      <4>8. CASE wwhr = {}
        <5>1. c.litres >= Litres(Best(measured), 97) BY <3>3, <3>5, <4>4, <4>8 DEF Fits
        <5>2. c.litres >= Litres(Max({row.cumulative : row \in Backing(c)}), 97)
            BY <4>3, <4>6, <5>1
        <5> QED BY <4>8, <5>2 DEF Held
      <4> QED BY <4>7, <4>8
    <3>9. Settled(c)'
      <4>1. Whole(job.results, w) \subseteq inflection BY <1>3 DEF Whole
      <4> QED BY <1>2, <1>3, <1>5, <1>6, <3>5, <4>1 DEF Settled, w
    <3> QED BY <2>2, <3>7, <3>8, <3>9
  <2> HIDE DEF new, measured
  <2>5. \/ capacity' = capacity
        \/ Recommended(measured) # None /\ capacity' = capacity \cup {new}
      BY <1>2
  <2>6. \A c \in capacity' : Settled(c)' /\ Backed(c)' /\ Held(c)'
    <3> SUFFICES ASSUME NEW c \in capacity'
                 PROVE  Settled(c)' /\ Backed(c)' /\ Held(c)'
        OBVIOUS
    <3>1. CASE c \in capacity BY <2>3, <3>1
    <3>2. CASE c \notin capacity
      <4>1. Recommended(measured) # None /\ c = new BY <2>5, <3>2
      <4> QED BY <2>4, <4>1
    <3> QED BY <3>1, <3>2
  <2> QED BY <2>6 DEF CapacityInv
<1> QED BY <1>4, <1>7, <1>8, <1>9 DEF TablesInv

LEMMA TablesStep == TablesInv /\ [Next]_vars => TablesInv'
<1> SUFFICES ASSUME TablesInv, [Next]_vars PROVE TablesInv' OBVIOUS
<1>1. ASSUME NEW s, Record(s) PROVE TablesInv' BY <1>1, RecordStep
<1>2. ASSUME NEW days \in Windows, NEW no_write \in BOOLEAN, Run(days, no_write)
      PROVE  TablesInv'
    BY <1>2, RunStep
<1>3. CASE WriteRow BY <1>3, WriteRowStep
<1>4. CASE Finish BY <1>4, FinishStep
<1>5. CASE RunFails BY <1>5, StopStep DEF RunFails
<1>6. CASE UNCHANGED vars BY <1>6, StopStep DEF vars
<1> QED BY <1>1, <1>2, <1>3, <1>4, <1>5, <1>6 DEF Next

LEMMA TablesInvariant == Spec => []TablesInv
BY TablesInit, TablesStep, PTL DEF Spec

-----------------------------------------------------------------------------
(* A recommended capacity rests on measurements that are all in the table, through    *)
(* failed runs and runs over the same window again (dhw_sessions.rs, write_results).  *)
THEOREM RecommendationsBacked == Spec => []CapacityBacked
<1>1. TablesInv => CapacityBacked BY DEF TablesInv, CapacityInv, Backed, CapacityBacked
<1> QED BY <1>1, TablesInvariant, PTL

(* What z2m-hub is told is the best measurement with warm mains, or else no less than *)
(* 97% of the best with cold mains, whatever the series and however the regression    *)
(* goes (dhw_sessions.rs, compute_recommended_capacity).                              *)
THEOREM RecommendationsHold == Spec => []RecommendationHolds
<1>1. TablesInv => RecommendationHolds
    BY DEF TablesInv, CapacityInv, Held, RecommendationHolds
<1> QED BY <1>1, TablesInvariant, PTL

-----------------------------------------------------------------------------
(* The series only grows.                                                   *)

Grown ==
    /\ Recorded /\ Recorded' /\ Len(trace) <= Len(trace')
    /\ \A t \in DOMAIN trace : trace'[t] = trace[t]

LEMMA Growth ==
    ASSUME TablesInv, [Next]_vars
    PROVE  Grown
<1>1. Recorded /\ Recorded' BY TablesStep DEF TablesInv
<1>2. CASE UNCHANGED trace BY <1>1, <1>2, InstantsIs DEF Grown
<1>3. ASSUME NEW s, Record(s) PROVE Grown
  <2>1. trace' = Append(trace, s) BY <1>3 DEF Record
  <2> QED BY <1>1, <2>1 DEF Grown, Recorded
<1>4. ASSUME NEW days, NEW no_write, Run(days, no_write) PROVE UNCHANGED trace
    BY <1>4 DEF Run
<1> QED BY <1>2, <1>3, <1>4 DEF Next, WriteRow, Finish, RunFails, vars

LEMMA RegisterKept ==
    ASSUME Grown, NEW t \in Int, t <= Len(trace)
    PROVE  Register(t)' = Register(t)
<1> DEFINE f == [u \in 2..t |-> trace[u - 1].flow + trace[u].flow]
           g == [u \in 2..t |-> trace'[u - 1].flow + trace'[u].flow]
<1>1. \A u \in 2..t : trace'[u - 1] = trace[u - 1] /\ trace'[u] = trace[u]
  <2> SUFFICES ASSUME NEW u \in 2..t
               PROVE  trace'[u - 1] = trace[u - 1] /\ trace'[u] = trace[u]
      OBVIOUS
  <2>1. u \in DOMAIN trace /\ u - 1 \in DOMAIN trace BY InstantsIs DEF Grown
  <2> QED BY <2>1 DEF Grown
<1>2. f = g BY <1>1
<1>3. Register(t) = Total(f) /\ Register(t)' = Total(g) BY DEF Register
<1> QED BY <1>2, <1>3

-----------------------------------------------------------------------------
(* What a measurement counts.                                               *)

\* CapacityCounted of one measurement, n of the draw d.
Counted(d, n) ==
    LET charge == d.preceding[1]
        first == Max({1, d.start - Margin})
        last == Min({d.end + Margin, Len(trace)})
    IN  /\ charge.end <= d.start
        /\ Metered(Min({first, charge.end}), last) =>
              n <= Register(last) - charge.volume_at_end + Register(d.start) - Register(first)

Measurement(d, n) ==
    /\ d.start \in 1..Len(trace) /\ d.end \in 1..Len(trace) /\ d.start < d.end
    /\ d.preceding[1].end \in Int /\ d.preceding[1].volume_at_end \in Int /\ n \in Int
    /\ Counted(d, n)

LEMMA AroundIs ==
    ASSUME Recorded, NEW d, d.start \in 1..Len(trace), d.end \in 1..Len(trace),
           d.start < d.end,
           NEW first, first = Max({1, d.start - Margin}),
           NEW last, last = Min({d.end + Margin, Len(trace)})
    PROVE  /\ first \in Nat \ {0} /\ first <= d.start
           /\ last \in Int /\ last <= Len(trace) /\ d.end <= last
           /\ \A t \in Int : t <= d.end + Margin /\ t <= Len(trace) => t <= last
<1>1. Len(trace) \in Nat /\ d.start \in Int /\ d.end \in Int BY InstantsIs
<1>2. d.start - Margin \in Int /\ d.end + Margin \in Int
      /\ d.start - Margin <= d.start /\ d.end <= d.end + Margin
    BY <1>1 DEF Margin
<1>3. first \in {1, d.start - Margin} /\ 1 <= first
  <2> DEFINE x == d.start - Margin
  <2>1. x \in Int /\ first = Max({1, x}) BY <1>2
  <2> HIDE DEF x
  <2>3. \A y, z \in Int : Max({y, z}) \in {y, z} /\ y <= Max({y, z}) BY PairIs
  <2>4. 1 \in Int OBVIOUS
  <2>5. Max({1, x}) \in {1, x} /\ 1 <= Max({1, x}) BY <2>1, <2>3, <2>4, Zenon
  <2>2. first \in {1, x} /\ 1 <= first BY <2>1, <2>5
  <2> QED BY <2>2 DEF x
<1>4. last \in {d.end + Margin, Len(trace)} /\ last <= Len(trace)
  <2> DEFINE x == d.end + Margin
  <2>1. x \in Int /\ last = Min({x, Len(trace)}) /\ Len(trace) \in Int BY <1>1, <1>2
  <2> HIDE DEF x
  <2>2. last \in {x, Len(trace)} /\ last <= Len(trace) BY <2>1, PairIs
  <2> QED BY <2>2 DEF x
<1>5. first \in Nat \ {0} /\ first <= d.start BY <1>1, <1>2, <1>3
<1>6. last \in Int /\ d.end <= last BY <1>1, <1>2, <1>4
<1>7. \A t \in Int : t <= d.end + Margin /\ t <= Len(trace) => t <= last BY <1>4
<1> QED BY <1>4, <1>5, <1>6, <1>7

LEMMA MeasurementKept ==
    ASSUME Grown, NEW d, NEW n, Measurement(d, n)
    PROVE  Measurement(d, n)'
<1> DEFINE charge == d.preceding[1]
<1>11. PICK first : first = Max({1, d.start - Margin}) OBVIOUS
<1>12. PICK last : last = Min({d.end + Margin, Len(trace)}) OBVIOUS
<1>13. PICK later : later = Min({d.end + Margin, Len(trace')}) OBVIOUS
<1>1. Recorded /\ Recorded' /\ Len(trace) \in Nat /\ Len(trace') \in Nat
      /\ Len(trace) <= Len(trace') /\ DOMAIN trace = 1..Len(trace)
      /\ DOMAIN trace' = 1..Len(trace')
    BY InstantsIs DEF Grown, Recorded
<1>2. /\ d.start \in 1..Len(trace) /\ d.end \in 1..Len(trace) /\ d.start < d.end
      /\ charge.end \in Int /\ charge.volume_at_end \in Int /\ n \in Int
      /\ charge.end <= d.start
    BY DEF Measurement, Counted
<1>3. d.start \in 1..Len(trace') /\ d.end \in 1..Len(trace') BY <1>1, <1>2
<1>4. /\ first \in Nat \ {0} /\ first <= d.start
      /\ last \in Int /\ last <= Len(trace) /\ d.end <= last
    BY <1>1, <1>2, <1>11, <1>12, AroundIs
<1>5. /\ later \in Int /\ later <= Len(trace')
      /\ \A t \in Int : t <= d.end + Margin /\ t <= Len(trace') => t <= later
  <2>1. d.end + Margin \in Int /\ Len(trace') \in Int BY <1>1, <1>2 DEF Margin
  <2>2. later \in {d.end + Margin, Len(trace')} /\ later <= Len(trace')
      BY <1>13, <2>1, PairIs
  <2> QED BY <2>1, <2>2
<1>6. last <= d.end + Margin
  <2>1. d.end + Margin \in Int /\ Len(trace) \in Int BY <1>1, <1>2 DEF Margin
  <2> QED BY <1>12, <2>1, PairIs
<1>7. last <= later BY <1>1, <1>4, <1>5, <1>6
<1>8. ASSUME NEW from, Metered(from, later)' PROVE Metered(from, last)
  <2> SUFFICES ASSUME NEW t \in from..last, t \in DOMAIN trace PROVE trace[t].m
      BY DEF Metered
  <2>1. t \in Int /\ t \in from..later /\ t \in DOMAIN trace'
      BY <1>1, <1>4, <1>5, <1>7
  <2>2. trace'[t].m BY <1>8, <2>1 DEF Metered
  <2> QED BY <2>2 DEF Grown
<1>9. Register(d.start)' = Register(d.start) /\ Register(first)' = Register(first)
  <2>1. d.start \in Int /\ d.start <= Len(trace) /\ first \in Int /\ first <= Len(trace)
      BY <1>1, <1>2, <1>4
  <2> QED BY <2>1, RegisterKept
<1>10. Register(last) \in Int /\ Register(later)' \in Int /\ Register(last) <= Register(later)'
  <2>1. \A t \in Int : t <= Len(trace) => Register(t)' = Register(t) BY RegisterKept
  <2>2. \A a, b \in Int : a <= b /\ b <= Len(trace) =>
            Register(a) \in Nat /\ Register(b) \in Nat /\ Register(a) <= Register(b)
      BY <1>1, RegisterGrows
  <2>3. \A a, b \in Int : a <= b /\ b <= Len(trace') =>
            Register(a)' \in Nat /\ Register(b)' \in Nat /\ Register(a)' <= Register(b)'
    <3>1. (Recorded => \A a, b \in Int : a <= b /\ b <= Len(trace) =>
            Register(a) \in Nat /\ Register(b) \in Nat /\ Register(a) <= Register(b))'
        BY RegisterOrder, PTL
    <3> QED BY <1>1, <3>1
  <2>4. Register(last)' = Register(last) BY <1>4, <2>1
  <2>5. Register(last)' \in Nat /\ Register(later)' \in Nat
        /\ Register(last)' <= Register(later)'
      BY <1>4, <1>5, <1>7, <2>3
  <2> QED BY <2>4, <2>5
<1>14. Metered(Min({first, charge.end}), later)' =>
          n <= Register(later)' - charge.volume_at_end + Register(d.start)' - Register(first)'
  <2> SUFFICES ASSUME Metered(Min({first, charge.end}), later)'
               PROVE  n <= Register(later)' - charge.volume_at_end
                             + Register(d.start)' - Register(first)'
      OBVIOUS
  <2>1. Metered(Min({first, charge.end}), last) BY <1>8
  <2>2. n <= Register(last) - charge.volume_at_end + Register(d.start) - Register(first)
      BY <1>11, <1>12, <2>1 DEF Measurement, Counted
  <2>3. Register(d.start) \in Int /\ Register(first) \in Int
    <3>1. d.start \in Int /\ d.start <= Len(trace) /\ first \in Int /\ first <= Len(trace)
        BY <1>1, <1>2, <1>4
    <3> QED BY <1>1, <3>1, RegisterOrder
  <2> DEFINE v == charge.volume_at_end
             r == Register(last)
             s == Register(d.start)
             f == Register(first)
  <2>4. n \in Int /\ v \in Int /\ r \in Int /\ s \in Int /\ f \in Int /\ n <= r - v + s - f
      BY <1>2, <1>10, <2>2, <2>3
  <2> HIDE DEF v, r, s, f
  <2>5. PICK l : l = Register(later)' OBVIOUS
  <2>6. l \in Int /\ r <= l BY <1>10, <2>5 DEF r
  <2>7. n <= l - v + s - f BY <2>4, <2>6
  <2> QED BY <1>9, <2>5, <2>7 DEF v, s, f
<1> QED BY <1>2, <1>3, <1>11, <1>13, <1>14 DEF Measurement, Counted

\* The last known register is one that the meter has passed.
LEMMA VolumeCounted ==
    ASSUME Recorded, NEW w, NEW t \in Int, t <= Len(trace)
    PROVE  Volume(w, t) \in Nat /\ Volume(w, t) <= Register(t)
<1>1. Volume(w, t) \in Nat BY VolumeGrows
<1>2. Register(t) \in Nat BY RegisterGrows
<1>3. CASE lkv("m", w, t) = None
  <2>1. Volume(w, t) = 0 BY <1>3 DEF Volume
  <2> QED BY <1>2, <2>1
<1>4. CASE lkv("m", w, t) # None
  <2>1. PICK u \in Rows("m", w) : lkv("m", w, t) = Some(u) /\ u <= t BY <1>4, KnownIs
  <2>2. Volume(w, t) = Register(u) BY <1>4, <2>1, OptionIs DEF Volume
  <2>3. u \in Int BY RowsAre, InstantsIs
  <2> QED BY <1>1, <2>1, <2>2, <2>3, RegisterGrows
<1> QED BY <1>3, <1>4

LEMMA ResultCounted ==
    ASSUME Recorded, NEW w \in Span, w.to <= Len(trace), NEW r \in Results(w),
           r.category = "capacity"
    PROVE  Measurement(r.draw, Measured(r))
<1>1. PICK d \in Draws(w) : r = Result(d) BY DEF Results
<1> DEFINE n == Measured(r)
           rows == Rows("m", Around(d, Margin))
<1>2. /\ r.draw = d /\ r.definitive = FirstFall(Points(d), 10)
      /\ r.category = inflection_category(d, r.definitive)
    BY <1>1 DEF Result
<1>3. d.preceding # None /\ r.definitive # None BY <1>2 DEF inflection_category
<1>4. PICK s \in Spells(w, Flowing(w)) : d = Draw(w, s) BY DEF Draws
<1>5. d.start = s.start /\ d.end = s.end /\ d.register_start = Volume(w, s.start)
      /\ d.preceding = Preceding(Charges(w), s.start)
    BY <1>4 DEF Draw
<1>6. Len(trace) \in Nat /\ DOMAIN trace = 1..Len(trace) BY InstantsIs
<1>7. d.start \in 1..Len(trace) /\ d.end \in 1..Len(trace) /\ d.start < d.end
  <2>1. w.from \in Nat \ {0} /\ w.to \in Nat BY DEF Span
  <2> QED BY <1>5, <1>6, <2>1, SpellIs
<1>8. PICK c \in Charges(w) : d.preceding = Some(c) /\ c.end <= d.start
    BY <1>3, <1>5, <1>7, PrecedingIs
<1>9. d.preceding[1] = c /\ VolumeAtCharge(d.preceding) = c.volume_at_end
    BY <1>3, <1>8, OptionIs DEF VolumeAtCharge
<1>10. c.end \in Int /\ c.volume_at_end \in Nat
  <2>1. c.end \in Int BY ChargeIs DEF Span
  <2> QED BY <2>1, ChargeIs, VolumeGrows
<1>11. PICK t \in DOMAIN Points(d) : r.definitive = Some(Points(d)[t])
    BY <1>2, <1>3, PointsAre, InstantsIs, FallIs
<1>12. t \in rows /\ Points(d)[t].cumulative
            = d.register_start - VolumeAtCharge(d.preceding) + Integral(rows, t)
  <2> HIDE DEF rows
  <2> DEFINE third == {u \in rows : /\ Cardinality(rows) >= MinRows
                                    /\ Cardinality({v \in rows : v < u}) >= 2}
             before == d.register_start - VolumeAtCharge(d.preceding)
  <2>1. Points(d) = [u \in third |-> [cumulative |-> before + Integral(rows, u),
                                      t1 |-> trace[u].t1]]
      BY DEF Points, rows
  <2>2. third \in SUBSET rows OBVIOUS
  <2> HIDE DEF third, before
  <2> QED BY <1>11, <2>1, <2>2 DEF before
<1>13. n = d.register_start - c.volume_at_end + Integral(rows, t)
    BY <1>9, <1>11, <1>12, OptionIs DEF Measured
<1>14. d.register_start \in Nat /\ d.register_start <= Register(d.start)
       /\ Register(d.start) \in Nat
    BY <1>5, <1>6, <1>7, VolumeCounted, RegisterGrows
<1>15. rows \in SUBSET DOMAIN trace BY RowsAre
<1>16. Integral(rows, t) \in Nat BY <1>6, <1>12, <1>15, IntegralIsNat
<1>17. n \in Int BY <1>10, <1>13, <1>14, <1>16
<1>18. PICK first : first = Max({1, d.start - Margin}) OBVIOUS
<1>19. PICK last : last = Min({d.end + Margin, Len(trace)}) OBVIOUS
<1>20. /\ first \in Nat \ {0} /\ first <= d.start
       /\ last \in Int /\ last <= Len(trace) /\ d.end <= last
       /\ \A u \in Int : u <= d.end + Margin /\ u <= Len(trace) => u <= last
    BY <1>7, <1>18, <1>19, AroundIs
<1>21. last <= d.end + Margin
  <2>1. d.end + Margin \in Int /\ Len(trace) \in Int BY <1>6, <1>7 DEF Margin
  <2> QED BY <1>19, <2>1, PairIs
<1>22. rows = {u \in first..(d.end + Margin) : u \in DOMAIN trace /\ trace[u].m}
    BY <1>18 DEF Rows, Around
<1>23. t \in first..last
  <2>1. t \in DOMAIN trace /\ t \in first..(d.end + Margin) BY <1>12, <1>22
  <2> QED BY <1>6, <1>20, <2>1
<1>24. ASSUME Metered(Min({first, c.end}), last)
       PROVE  n <= Register(last) - c.volume_at_end + Register(d.start) - Register(first)
  <2>1. \A u \in first..last : trace[u].m
    <3> SUFFICES ASSUME NEW u \in first..last PROVE trace[u].m OBVIOUS
    <3>1. Min({first, c.end}) \in Int /\ Min({first, c.end}) <= first
      <4>1. \A x, y \in Int : Min({x, y}) \in Int /\ Min({x, y}) <= x BY PairIs
      <4>2. first \in Int /\ c.end \in Int BY <1>10, <1>20
      <4> QED BY <4>1, <4>2, Zenon
    <3>2. u \in Min({first, c.end})..last BY <1>20, <3>1
    <3>3. u \in DOMAIN trace BY <1>6, <1>20
    <3> QED BY <1>24, <3>2, <3>3 DEF Metered
  <2>2. rows = first..last
    <3> HIDE DEF rows
    <3>1. \A u \in Int : u \in rows <=> u \in first..last
      <4> SUFFICES ASSUME NEW u \in Int PROVE u \in rows <=> u \in first..last OBVIOUS
      <4>1. d.end + Margin \in Int BY <1>7 DEF Margin
      <4>2. ASSUME u \in rows PROVE u \in first..last
        <5>1. u \in first..(d.end + Margin) /\ u \in DOMAIN trace BY <1>22, <4>2
        <5> QED BY <1>6, <1>20, <4>1, <5>1
      <4>3. ASSUME u \in first..last PROVE u \in rows
        <5>1. u \in first..(d.end + Margin) /\ u \in DOMAIN trace
            BY <1>6, <1>20, <1>21, <4>1, <4>3
        <5> QED BY <1>22, <2>1, <4>3, <5>1
      <4> QED BY <4>2, <4>3
    <3>2. rows \subseteq Int BY <1>6, <1>15
    <3> DEFINE I == first..last
    <3>3. I \subseteq Int OBVIOUS
    <3>4. \A u \in Int : u \in rows <=> u \in I BY <3>1
    <3> HIDE DEF I
    <3>5. rows = I BY <3>2, <3>3, <3>4
    <3> QED BY <3>5 DEF I
  <2>3. Integral(rows, t) = Register(t) - Register(first)
      BY <1>20, <1>23, <2>2, IntegralIs
  <2> DEFINE v == c.volume_at_end
             a == Register(t)
             b == Register(last)
             f == Register(first)
             q == Register(d.start)
             z == d.register_start
  <2>4. a \in Int /\ b \in Int /\ a <= b /\ f \in Int
    <3>1. t \in Int /\ t <= last /\ last \in Int /\ first \in Int /\ first <= last
        BY <1>20, <1>23
    <3>2. a \in Nat /\ b \in Nat /\ a <= b BY <1>20, <3>1, RegisterOrder
    <3>3. f \in Nat BY <1>20, <3>1, RegisterOrder
    <3> QED BY <3>2, <3>3
  <2>5. v \in Int /\ z \in Int /\ q \in Int /\ z <= q BY <1>10, <1>14
  <2>6. n = z - v + (a - f) BY <1>13, <2>3
  <2> HIDE DEF v, a, b, f, q, z, n
  <2>7. n <= b - v + q - f BY <2>4, <2>5, <2>6
  <2> QED BY <2>7 DEF v, b, f, q
<1> QED BY <1>2, <1>7, <1>8, <1>9, <1>10, <1>17, <1>18, <1>19, <1>24 DEF Measurement, Counted

\* The measurements that the tables and a run hold.
CountInv ==
    /\ \A row \in inflection : row.category = "capacity" => Measurement(row.draw, row.cumulative)
    /\ job.pc = "write" =>
          \A r \in job.results : r.category = "capacity" => Measurement(r.draw, Measured(r))

LEMMA CountInit == Init => CountInv
BY DEF Init, CountInv, Resting

LEMMA CountStep ==
    ASSUME TablesInv, CountInv, [Next]_vars
    PROVE  CountInv'
<1>1. Grown BY Growth
<1>2. \A d, n : Measurement(d, n) => Measurement(d, n)' BY <1>1, MeasurementKept
<1>3. CASE UNCHANGED <<job, inflection>> BY <1>2, <1>3 DEF CountInv
<1>4. ASSUME NEW days \in Windows, NEW no_write \in BOOLEAN, Run(days, no_write)
      PROVE  CountInv'
  <2>1. UNCHANGED <<trace, inflection>> BY <1>4 DEF Run
  <2>2. CASE no_write
    <3>1. job' = Resting BY <1>4, <2>2 DEF Run
    <3> QED BY <1>2, <2>1, <3>1 DEF CountInv, Resting
  <2>3. CASE ~ no_write
    <3>1. PICK w : w = [from |-> Max({1, Len(trace) - days + 1}), to |-> Len(trace)] OBVIOUS
    <3>2. job'.results = Results(w)
      <4>1. job' = [pc |-> "write", todo |-> RowsOf(Results(w), w), window |-> w,
                    results |-> Results(w)]
          BY <1>4, <2>3, <3>1 DEF Run
      <4> QED BY <4>1
    <3>3. w \in Span /\ w.to <= Len(trace) BY <1>1, <3>1, WindowIs DEF Grown
    <3>4. \A r \in Results(w) : r.category = "capacity" => Measurement(r.draw, Measured(r))
        BY <1>1, <3>3, ResultCounted DEF Grown
    <3>5. \A r \in job'.results : r.category = "capacity" => Measurement(r.draw, Measured(r))'
        BY <1>2, <3>2, <3>4
    <3> QED BY <1>2, <2>1, <3>5 DEF CountInv
  <2> QED BY <2>2, <2>3
<1>5. CASE WriteRow
  <2>1. job.pc = "write" BY <1>5 DEF WriteRow
  <2>2. PICK row \in job.todo :
            inflection' = inflection \cup {row} /\ job' = [job EXCEPT !.todo = @ \ {row}]
      BY <1>5 DEF WriteRow
  <2>3. /\ job.todo \subseteq RowsOf(job.results, job.window)
        /\ job = [pc |-> "write", todo |-> job.todo, window |-> job.window,
                  results |-> job.results]
      BY <2>1 DEF TablesInv, JobInv, Resting
  <2>4. job'.results = job.results BY <2>2, <2>3
  <2>5. PICK r \in job.results : row = Row(r, job.window) BY <2>3, RowIs
  <2>6. row.category = r.category /\ row.draw = r.draw /\ row.cumulative = Measured(r)
      BY <2>5 DEF Row
  <2>7. row.category = "capacity" => Measurement(row.draw, row.cumulative)
      BY <2>1, <2>5, <2>6 DEF CountInv
  <2>8. \A x \in inflection' : x.category = "capacity" => Measurement(x.draw, x.cumulative)'
      BY <1>2, <2>2, <2>7 DEF CountInv
  <2>9. \A x \in job'.results : x.category = "capacity" => Measurement(x.draw, Measured(x))'
      BY <1>2, <2>1, <2>4 DEF CountInv
  <2> QED BY <2>8, <2>9 DEF CountInv
<1>6. CASE Finish \/ RunFails
  <2>1. UNCHANGED inflection /\ job'.pc # "write" BY <1>6 DEF Finish, RunFails, Resting
  <2> QED BY <1>2, <2>1 DEF CountInv
<1> QED BY <1>3, <1>4, <1>5, <1>6 DEF Next, Record, vars

(* A measured capacity is no more than the register counted since the end of the      *)
(* charge before the draw, and what flowed in the two minutes before it once more,    *)
(* however long the recorder goes on (dhw_sessions.rs, analyse_draw).                 *)
THEOREM MeasurementsCounted == Spec => []CapacityCounted
<1>1. CountInv => CapacityCounted
  <2>1. \A d, n : Measurement(d, n) => Counted(d, n) BY DEF Measurement
  <2> QED BY <2>1 DEF CountInv, CapacityCounted, Counted
<1>2. TablesInv /\ CountInv /\ [Next]_vars => CountInv' BY CountStep
<1> QED BY <1>1, <1>2, CountInit, TablesInvariant, PTL DEF Spec

-----------------------------------------------------------------------------
(* Two windows that share a row find the same after it.                     *)

LEMMA ValuesAgree ==
    ASSUME Recorded, NEW v \in Span, NEW w \in Span, NEW source,
           NEW y \in Rows(source, v), y \in Rows(source, w),
           NEW t \in Int, y <= t, t <= v.to, t <= w.to
    PROVE  /\ lkv(source, v, t) = lkv(source, w, t) /\ lkv(source, v, t) # None
           /\ \A field : Value(source, field, v, t) = Value(source, field, w, t)
<1>1. /\ v.from \in Nat /\ v.to \in Nat /\ w.from \in Nat /\ w.to \in Nat BY DEF Span
<1>2. /\ Rows(source, v) \subseteq DOMAIN trace /\ Rows(source, w) \subseteq DOMAIN trace
      /\ Rows(source, v) \subseteq Int /\ Rows(source, w) \subseteq Int
    BY RowsAre, InstantsIs
<1>3. y \in Int /\ v.from <= y /\ w.from <= y BY <1>1, RowsAre
<1>4. ~ \A u \in Rows(source, v) : t < u BY <1>2, <1>3
<1>5. ~ \A u \in Rows(source, w) : t < u BY <1>2, <1>3
<1>6. PICK a \in Rows(source, v) :
          /\ lkv(source, v, t) = Some(a) /\ a <= t
          /\ \A u \in Rows(source, v) : u <= t => u <= a
    BY <1>4, KnownIs
<1>7. PICK b \in Rows(source, w) :
          /\ lkv(source, w, t) = Some(b) /\ b <= t
          /\ \A u \in Rows(source, w) : u <= t => u <= b
    BY <1>5, KnownIs
<1>8. y <= a /\ y <= b /\ a \in Int /\ b \in Int BY <1>2, <1>3, <1>6, <1>7
<1>9. a \in w.from..w.to /\ b \in v.from..v.to BY <1>1, <1>3, <1>6, <1>7, <1>8
<1>10. a \in Rows(source, w) BY <1>6, <1>9 DEF Rows
<1>11. b \in Rows(source, v) BY <1>7, <1>9 DEF Rows
<1>12. a = b BY <1>6, <1>7, <1>8, <1>10, <1>11
<1>13. lkv(source, v, t) = lkv(source, w, t) BY <1>6, <1>7, <1>12
<1>14. lkv(source, v, t) # None BY <1>6, OptionIs
<1> QED BY <1>13, <1>14 DEF Value

LEMMA VolumesAgree ==
    ASSUME Recorded, NEW v \in Span, NEW w \in Span,
           NEW y \in Rows("m", v), y \in Rows("m", w),
           NEW t \in Int, y <= t, t <= v.to, t <= w.to
    PROVE  Volume(v, t) = Volume(w, t)
BY ValuesAgree DEF Volume

\* Two detectors agree from an instant on that both windows hold.
Agree(v, w, y, on, other) ==
    /\ y \in v.from..v.to /\ y \in w.from..w.to
    /\ \A t \in Int : y <= t /\ t <= v.to /\ t <= w.to => (t \in on <=> t \in other)

LEMMA HighAgrees ==
    ASSUME Recorded, NEW v \in Span, NEW w \in Span,
           NEW y \in Rows("e", v), y \in Rows("e", w)
    PROVE  Agree(v, w, y, High(v), High(w))
<1>1. y \in v.from..v.to /\ y \in w.from..w.to BY RowsAre
<1>2. ASSUME NEW t \in Int, y <= t, t <= v.to, t <= w.to
      PROVE  t \in High(v) <=> t \in High(w)
  <2>1. t \in v.from..v.to /\ t \in w.from..w.to BY <1>1, <1>2 DEF Span
  <2>2. Value("e", "bc", v, t) = Value("e", "bc", w, t) BY <1>2, ValuesAgree
  <2> QED BY <2>1, <2>2 DEF High
<1> QED BY <1>1, <1>2 DEF Agree

LEMMA FlowingAgrees ==
    ASSUME Recorded, NEW v \in Span, NEW w \in Span,
           NEW y \in Rows("m", v), y \in Rows("m", w)
    PROVE  Agree(v, w, y, Flowing(v), Flowing(w))
<1>1. y \in v.from..v.to /\ y \in w.from..w.to BY RowsAre
<1>2. ASSUME NEW t \in Int, y <= t, t <= v.to, t <= w.to
      PROVE  t \in Flowing(v) <=> t \in Flowing(w)
  <2>1. t \in v.from..v.to /\ t \in w.from..w.to BY <1>1, <1>2 DEF Span
  <2>2. Value("m", "flow", v, t) = Value("m", "flow", w, t) BY <1>2, ValuesAgree
  <2> QED BY <2>1, <2>2 DEF Flowing
<1> QED BY <1>1, <1>2 DEF Agree

LEMMA SpellAgrees ==
    ASSUME NEW v \in Span, NEW w \in Span, NEW y, NEW on, NEW other,
           Agree(v, w, y, on, other), NEW s \in Spells(v, on), y < s.start, s.end <= w.to
    PROVE  s \in Spells(w, other)
<1>1. /\ v.from \in Nat /\ v.to \in Nat /\ w.from \in Nat /\ w.to \in Nat BY DEF Span
<1>2. /\ s \in [start : v.from..v.to, end : v.from..v.to]
      /\ s.start < s.end /\ s.start..(s.end - 1) \subseteq on
      /\ s.start - 1 \notin on /\ s.end \notin on
    BY DEF Spells
<1>3. y \in Int /\ v.from <= y /\ w.from <= y /\ s.start \in Int /\ s.end \in Int
      /\ s.end <= v.to
    BY <1>1, <1>2 DEF Agree
<1>4. \A t \in Int : y <= t /\ t <= s.end => (t \in on <=> t \in other)
    BY <1>1, <1>3 DEF Agree
<1>5. s.start..(s.end - 1) \subseteq other
  <2> SUFFICES ASSUME NEW t \in s.start..(s.end - 1) PROVE t \in other OBVIOUS
  <2>1. t \in Int /\ y <= t /\ t <= s.end BY <1>3
  <2> QED BY <1>2, <1>4, <2>1
<1>6. s.start - 1 \notin other /\ s.end \notin other
  <2>1. s.start - 1 \in Int /\ y <= s.start - 1 /\ s.start - 1 <= s.end BY <1>2, <1>3
  <2>2. y <= s.end BY <1>2, <1>3
  <2> QED BY <1>2, <1>3, <1>4, <2>1, <2>2
<1>7. s \in [start : w.from..w.to, end : w.from..w.to]
  <2>1. s = [start |-> s.start, end |-> s.end] BY <1>2
  <2>2. s.start \in w.from..w.to /\ s.end \in w.from..w.to BY <1>1, <1>2, <1>3
  <2> QED BY <2>1, <2>2
<1> QED BY <1>2, <1>5, <1>6, <1>7 DEF Spells

\* Spells of one detector do not run into each other.
LEMMA SpellsApart ==
    ASSUME NEW w \in Span, NEW on, NEW s \in Spells(w, on), NEW q \in Spells(w, on),
           s.start < q.start
    PROVE  s.end < q.start
<1>1. /\ w.from \in Nat /\ w.to \in Nat BY DEF Span
<1>2. /\ s.start \in Int /\ s.end \in Int /\ s.start..(s.end - 1) \subseteq on
      /\ s.end \notin on
      /\ q.start \in Int /\ q.end \in Int /\ q.start < q.end /\ q.start - 1 \notin on
      /\ q.start..(q.end - 1) \subseteq on
    BY <1>1 DEF Spells
<1>3. SUFFICES ASSUME q.start <= s.end PROVE FALSE BY <1>2
<1>4. q.start - 1 \in s.start..(s.end - 1) BY <1>2, <1>3
<1> QED BY <1>2, <1>4

\* Two spells that start together are one.
LEMMA SpellIsOne ==
    ASSUME NEW w \in Span, NEW on, NEW s \in Spells(w, on), NEW q \in Spells(w, on),
           s.start = q.start
    PROVE  s = q
<1>1. /\ w.from \in Nat /\ w.to \in Nat BY DEF Span
<1>2. /\ s \in [start : w.from..w.to, end : w.from..w.to]
      /\ q \in [start : w.from..w.to, end : w.from..w.to]
      /\ s.start..(s.end - 1) \subseteq on /\ s.end \notin on /\ s.start < s.end
      /\ q.start..(q.end - 1) \subseteq on /\ q.end \notin on /\ q.start < q.end
    BY DEF Spells
<1>3. s.start \in Int /\ s.end \in Int /\ q.start \in Int /\ q.end \in Int BY <1>1, <1>2
<1>4. ~ (s.end < q.end)
  <2> SUFFICES ASSUME s.end < q.end PROVE FALSE OBVIOUS
  <2>1. s.end \in q.start..(q.end - 1) BY <1>2, <1>3
  <2> QED BY <1>2, <2>1
<1>5. ~ (q.end < s.end)
  <2> SUFFICES ASSUME q.end < s.end PROVE FALSE OBVIOUS
  <2>1. q.end \in s.start..(s.end - 1) BY <1>2, <1>3
  <2> QED BY <1>2, <2>1
<1>6. s.end = q.end BY <1>3, <1>4, <1>5
<1> QED BY <1>2, <1>6

LEMMA ChargeAgrees ==
    ASSUME Recorded, NEW v \in Span, NEW w \in Span,
           NEW y \in Rows("e", v), y \in Rows("e", w),
           NEW z \in Rows("m", v), z \in Rows("m", w),
           NEW s \in Spells(v, High(v)), y < s.start, z <= s.start, s.end <= w.to
    PROVE  /\ s \in Spells(w, High(w)) /\ Charge(v, s) = Charge(w, s)
           /\ PreT1(v, s) = PreT1(w, s) /\ PreT1(w, s) # None
<1>1. s \in Spells(w, High(w)) BY HighAgrees, SpellAgrees
<1>2. /\ v.from \in Nat /\ v.to \in Nat /\ w.from \in Nat /\ w.to \in Nat BY DEF Span
<1>3. /\ s.start \in v.from..v.to /\ s.end \in v.from..v.to /\ s.start < s.end BY SpellIs
<1>4. /\ y \in Int /\ z \in Int BY <1>2, RowsAre
<1>5. \A t \in s.start..(s.end - 1) : Value("e", "hwc", v, t) = Value("e", "hwc", w, t)
  <2> SUFFICES ASSUME NEW t \in s.start..(s.end - 1)
               PROVE  Value("e", "hwc", v, t) = Value("e", "hwc", w, t)
      OBVIOUS
  <2>1. t \in Int /\ y <= t /\ t <= v.to /\ t <= w.to BY <1>2, <1>3, <1>4
  <2> QED BY <2>1, ValuesAgree
<1>6. /\ s.start \in Int /\ z <= s.start /\ s.start <= v.to /\ s.start <= w.to
      /\ s.end \in Int /\ z <= s.end /\ s.end <= v.to /\ s.end <= w.to
    BY <1>2, <1>3, <1>4
<1>7. /\ Value("m", "t1", v, s.start) = Value("m", "t1", w, s.start)
      /\ lkv("m", w, s.start) # None
    BY <1>6, ValuesAgree
<1>8. Value("m", "t1", v, s.end) = Value("m", "t1", w, s.end) BY <1>6, ValuesAgree
<1>9. Volume(v, s.end) = Volume(w, s.end) BY <1>6, VolumesAgree
<1>10. PreT1(v, s) = PreT1(w, s) BY <1>7 DEF PreT1
<1>11. PreT1(w, s) # None BY <1>7, OptionIs DEF PreT1, Value
<1>12. Charge(v, s) = Charge(w, s)
  <2>1. {UnwrapOr(Value("e", "hwc", v, t), 0) : t \in s.start..(s.end - 1)}
            = {UnwrapOr(Value("e", "hwc", w, t), 0) : t \in s.start..(s.end - 1)}
      BY <1>5
  <2> QED BY <1>8, <1>9, <1>10, <2>1 DEF Charge
<1> QED BY <1>1, <1>10, <1>11, <1>12

LEMMA ChargeSpell ==
    ASSUME Recorded, NEW w \in Span, NEW c \in Charges(w)
    PROVE  \E s \in Spells(w, High(w)) :
              /\ c = Charge(w, s) /\ s.end - s.start >= MinCharge
              /\ c.start = s.start /\ c.end = s.end
              /\ \E z \in Rows("m", w) : z <= s.start
<1>1. PICK s \in Spells(w, High(w)) :
          c = Charge(w, s) /\ s.end - s.start >= MinCharge /\ PreT1(w, s) # None
    BY DEF Charges
<1>2. c.start = s.start /\ c.end = s.end BY <1>1 DEF Charge
<1>3. s.start \in Int BY SpellIs DEF Span
<1>4. lkv("m", w, s.start) # None BY <1>1 DEF PreT1, Value
<1>5. \E z \in Rows("m", w) : z <= s.start BY <1>3, <1>4, KnownIs
<1> QED BY <1>1, <1>2, <1>5

\* The charge before a draw is the same in two windows that hold it whole.
LEMMA PrecedingAgrees ==
    ASSUME Recorded, NEW v \in Span, NEW w \in Span, v.from <= w.from,
           NEW start \in Int, start <= v.to, start <= w.to,
           NEW c \in Charges(v), c.end <= start,
           \A x \in Charges(v) : x.end <= start => x.end <= c.end,
           NEW b \in Charges(w), b.end <= start,
           \A x \in Charges(w) : x.end <= start => x.end <= b.end,
           NEW y \in Rows("e", w), y < b.start
    PROVE  c = b /\ \E z \in Rows("m", v) : z \in Rows("m", w) /\ z <= b.start /\ b.start < start
<1>1. /\ v.from \in Nat /\ v.to \in Nat /\ w.from \in Nat /\ w.to \in Nat BY DEF Span
<1>2. PICK q \in Spells(w, High(w)) :
          /\ b = Charge(w, q) /\ q.end - q.start >= MinCharge
          /\ b.start = q.start /\ b.end = q.end
          /\ \E z \in Rows("m", w) : z <= q.start
    BY ChargeSpell
<1>3. PICK z \in Rows("m", w) : z <= q.start BY <1>2
<1>4. PICK p \in Spells(v, High(v)) :
          /\ c = Charge(v, p) /\ p.end - p.start >= MinCharge
          /\ c.start = p.start /\ c.end = p.end
    BY ChargeSpell
<1>5. /\ q.start \in w.from..w.to /\ q.end \in w.from..w.to /\ q.start < q.end
      /\ p.start \in v.from..v.to /\ p.end \in v.from..v.to /\ p.start < p.end
    BY SpellIs
<1>6. y \in w.from..w.to /\ z \in w.from..w.to BY RowsAre
<1>7. y \in v.from..v.to /\ z \in v.from..v.to BY <1>1, <1>2, <1>3, <1>5, <1>6
<1>8. y \in Rows("e", v) /\ z \in Rows("m", v) BY <1>7 DEF Rows
<1>9. q \in Spells(v, High(v)) /\ Charge(v, q) = b /\ PreT1(v, q) # None
  <2>1. q.end <= v.to BY <1>1, <1>2, <1>5
  <2> QED BY <1>2, <1>3, <1>8, <2>1, ChargeAgrees
<1>10. b \in Charges(v) BY <1>2, <1>9 DEF Charges
<1>11. q.end <= p.end BY <1>2, <1>4, <1>10
<1>12. ~ (p.start < q.start)
  <2> SUFFICES ASSUME p.start < q.start PROVE FALSE OBVIOUS
  <2>1. p.end < q.start BY <1>9, SpellsApart
  <2> QED BY <1>1, <1>5, <1>11, <2>1
<1>13. y < p.start /\ z <= p.start /\ p.end <= w.to
    BY <1>1, <1>2, <1>3, <1>4, <1>5, <1>6, <1>12
<1>14. p \in Spells(w, High(w)) /\ Charge(w, p) = c /\ PreT1(w, p) # None
    BY <1>4, <1>8, <1>13, ChargeAgrees
<1>15. c \in Charges(w) BY <1>4, <1>14 DEF Charges
<1>16. p.end <= q.end BY <1>2, <1>4, <1>15
<1>17. ~ (q.start < p.start)
  <2> SUFFICES ASSUME q.start < p.start PROVE FALSE OBVIOUS
  <2>1. q.end < p.start BY <1>9, SpellsApart
  <2> QED BY <1>1, <1>5, <1>16, <2>1
<1>18. p.start = q.start BY <1>1, <1>5, <1>12, <1>17
<1>19. p = q BY <1>9, <1>18, SpellIsOne
<1>20. c = b BY <1>4, <1>9, <1>19
<1>21. z <= b.start /\ b.start < start BY <1>1, <1>2, <1>3, <1>5
<1> QED BY <1>8, <1>20, <1>21

LEMMA DrawSpell ==
    ASSUME NEW w \in Span, NEW d \in Draws(w)
    PROVE  \E s \in Spells(w, Flowing(w)) :
              /\ d.start = s.start /\ d.end = s.end
              /\ d.register_start = Volume(w, s.start) /\ d.drawn = Drawn(w, s)
              /\ d.preceding = Preceding(Charges(w), s.start)
<1>1. PICK s \in Spells(w, Flowing(w)) : d = Draw(w, s) BY DEF Draws
<1> QED BY <1>1 DEF Draw

LEMMA DrawsAgree ==
    ASSUME Recorded, NEW v \in Span, NEW w \in Span, v.from <= w.from,
           NEW d \in Draws(v), NEW e \in Draws(w), d.start = e.start,
           d.preceding # None, e.preceding # None,
           NEW y \in Rows("e", w), y < e.preceding[1].start
    PROVE  /\ d.end = e.end /\ d.register_start = e.register_start
           /\ d.drawn = e.drawn /\ d.preceding = e.preceding
<1>1. PICK p \in Spells(v, Flowing(v)) :
          /\ d.start = p.start /\ d.end = p.end
          /\ d.register_start = Volume(v, p.start) /\ d.drawn = Drawn(v, p)
          /\ d.preceding = Preceding(Charges(v), p.start)
    BY DrawSpell
<1>2. PICK q \in Spells(w, Flowing(w)) :
          /\ e.start = q.start /\ e.end = q.end
          /\ e.register_start = Volume(w, q.start) /\ e.drawn = Drawn(w, q)
          /\ e.preceding = Preceding(Charges(w), q.start)
    BY DrawSpell
<1>3. /\ v.from \in Nat /\ v.to \in Nat /\ w.from \in Nat /\ w.to \in Nat BY DEF Span
<1>4. /\ p.start \in v.from..v.to /\ p.end \in v.from..v.to /\ p.start < p.end
      /\ q.start \in w.from..w.to /\ q.end \in w.from..w.to /\ q.start < q.end
    BY SpellIs
<1>5. PICK start : start = p.start OBVIOUS
<1>6. start = q.start /\ start \in Int /\ start <= v.to /\ start <= w.to
  <2>1. start = q.start BY <1>1, <1>2, <1>5
  <2> QED BY <1>3, <1>4, <1>5, <2>1
<1>7. PICK c \in Charges(v) :
          /\ d.preceding = Some(c) /\ c.end <= start
          /\ \A x \in Charges(v) : x.end <= start => x.end <= c.end
    BY <1>1, <1>5, <1>6, PrecedingIs
<1>8. PICK b \in Charges(w) :
          /\ e.preceding = Some(b) /\ b.end <= start
          /\ \A x \in Charges(w) : x.end <= start => x.end <= b.end
    BY <1>2, <1>6, PrecedingIs
<1>9. y < b.start BY <1>8, OptionIs
<1>10. c = b /\ \E z \in Rows("m", v) : z \in Rows("m", w) /\ z <= b.start /\ b.start < start
    BY <1>6, <1>7, <1>8, <1>9, PrecedingAgrees
<1>11. PICK z \in Rows("m", v) : z \in Rows("m", w) /\ z <= b.start /\ b.start < start
    BY <1>10
<1>12. b.start \in Int
  <2>1. PICK s \in Spells(w, High(w)) : b.start = s.start BY ChargeSpell
  <2> QED BY <1>3, <2>1, SpellIs
<1>13. z \in Int /\ z < start BY <1>3, <1>6, <1>11, <1>12, RowsAre
<1>14. Agree(v, w, z, Flowing(v), Flowing(w)) BY <1>11, FlowingAgrees
<1>15. Agree(w, v, z, Flowing(w), Flowing(v)) BY <1>11, FlowingAgrees
<1>16. p = q
  <2>1. CASE p.end <= w.to
    <3>1. p \in Spells(w, Flowing(w)) BY <1>5, <1>13, <1>14, <2>1, SpellAgrees
    <3> QED BY <1>5, <1>6, <3>1, SpellIsOne
  <2>2. CASE q.end <= v.to
    <3>1. q \in Spells(v, Flowing(v)) BY <1>6, <1>13, <1>15, <2>2, SpellAgrees
    <3> QED BY <1>5, <1>6, <3>1, SpellIsOne
  <2>3. p.end <= w.to \/ q.end <= v.to BY <1>3, <1>4
  <2> QED BY <2>1, <2>2, <2>3
<1>17. \A t \in {p.start, p.end} : Volume(v, t) = Volume(w, t)
  <2> SUFFICES ASSUME NEW t \in {p.start, p.end} PROVE Volume(v, t) = Volume(w, t) OBVIOUS
  <2>1. t \in Int /\ z <= t /\ t <= v.to /\ t <= w.to
      BY <1>3, <1>4, <1>5, <1>13, <1>16
  <2> QED BY <1>11, <2>1, VolumesAgree
<1>18. Drawn(v, p) = Drawn(w, q) BY <1>16, <1>17 DEF Drawn
<1> QED BY <1>1, <1>2, <1>7, <1>8, <1>10, <1>16, <1>17, <1>18

LEMMA ResultsAgree ==
    ASSUME NEW d, NEW e, d.start = e.start, d.end = e.end,
           d.register_start = e.register_start, d.drawn = e.drawn,
           d.preceding = e.preceding
    PROVE  /\ Result(d).definitive = Result(e).definitive
           /\ Result(d).category = Result(e).category /\ Result(d).type = Result(e).type
           /\ Result(d).mains = Result(e).mains /\ Result(d).hwc_min = Result(e).hwc_min
<1>1. \A after : Around(d, after) = Around(e, after) BY DEF Around
<1>2. Points(d) = Points(e) BY <1>1 DEF Points
<1>3. HwcMin(d) = HwcMin(e)
  <2>1. Rows("e", Around(d, Settle)) = Rows("e", Around(e, Settle)) BY <1>1
  <2>2. PICK rows : rows = Rows("e", Around(e, Settle)) OBVIOUS
  <2>3. PICK start : start = e.start OBVIOUS
  <2>4. Rows("e", Around(d, Settle)) = rows /\ Rows("e", Around(e, Settle)) = rows
        /\ d.start = start /\ e.start = start
      BY <2>1, <2>2, <2>3
  <2> QED BY <2>4, Zenon DEF HwcMin
<1>4. \A x : inflection_category(d, x) = inflection_category(e, x) BY DEF inflection_category
<1>5. Rows("m", Around(d, Margin)) = Rows("m", Around(e, Margin)) BY <1>1
<1> QED BY <1>2, <1>3, <1>4, <1>5 DEF Result

\* A row of a draw that had settled as the window ended.
Fresh(row) ==
    /\ row.window \in Span /\ row.window.to <= Len(trace)
    /\ row.draw \in Draws(row.window) /\ row.time = row.draw.start
    /\ row.draw.end + Settle <= row.window.to => row = Row(Result(row.draw), row.window)

RowWith(t, c, k, n, g, m, h, d, w) ==
    [time |-> t, category |-> c, type |-> k, cumulative |-> n, gap |-> g, mains |-> m,
     hwc_min |-> h, draw |-> d, window |-> w]

Moved(a, b) == [a EXCEPT !.window = b.window, !.gap = b.gap, !.draw = b.draw]

LEMMA MovedIs ==
    ASSUME NEW t, NEW c, NEW k, NEW n, NEW m, NEW h,
           NEW g, NEW d, NEW v, NEW gap, NEW e, NEW w,
           NEW a, a = RowWith(t, c, k, n, g, m, h, d, v),
           NEW b, b = RowWith(t, c, k, n, gap, m, h, e, w)
    PROVE  Moved(a, b) = b
<1>1. b.window = w /\ b.gap = gap /\ b.draw = e BY DEF RowWith
<1>2. [RowWith(t, c, k, n, g, m, h, d, v) EXCEPT !.window = w]
          = RowWith(t, c, k, n, g, m, h, d, w)
    BY DEF RowWith
<1>3. [RowWith(t, c, k, n, g, m, h, d, w) EXCEPT !.gap = gap]
          = RowWith(t, c, k, n, gap, m, h, d, w)
    BY DEF RowWith
<1>4. [RowWith(t, c, k, n, gap, m, h, d, w) EXCEPT !.draw = e]
          = RowWith(t, c, k, n, gap, m, h, e, w)
    BY DEF RowWith
<1>5. Moved(a, b) = [[[a EXCEPT !.window = b.window] EXCEPT !.gap = b.gap] EXCEPT !.draw = b.draw]
    BY DEF Moved
<1> QED BY <1>1, <1>2, <1>3, <1>4, <1>5

LEMMA FreshAgree ==
    ASSUME Recorded, NEW a, NEW b, Fresh(a), Fresh(b), a.time = b.time,
           SawWhole(a), SawWhole(b), a.window.from <= b.window.from
    PROVE  /\ [a EXCEPT !.window = b.window, !.gap = b.gap, !.draw = b.draw] = b
           /\ [b EXCEPT !.window = a.window, !.gap = a.gap, !.draw = a.draw] = a
<1> DEFINE d == a.draw
           e == b.draw
           v == a.window
           w == b.window
<1>1. /\ v \in Span /\ w \in Span /\ d \in Draws(v) /\ e \in Draws(w) /\ d.start = e.start
      /\ v.from <= w.from
    BY DEF Fresh
<1>2. /\ d.preceding # None /\ e.preceding # None
      /\ d.end + Settle <= v.to /\ e.end + Settle <= w.to
    BY DEF SawWhole
<1>3. PICK y \in Rows("e", w) : y < e.preceding[1].start BY DEF SawWhole
<1>4. a = Row(Result(d), v) /\ b = Row(Result(e), w) BY <1>2 DEF Fresh
<1> HIDE DEF d, e, v, w
<1>5. /\ d.end = e.end /\ d.register_start = e.register_start
      /\ d.drawn = e.drawn /\ d.preceding = e.preceding
    BY <1>1, <1>2, <1>3, DrawsAgree
<1>6. /\ Result(d).definitive = Result(e).definitive
      /\ Result(d).category = Result(e).category /\ Result(d).type = Result(e).type
      /\ Result(d).mains = Result(e).mains /\ Result(d).hwc_min = Result(e).hwc_min
    BY <1>1, <1>5, ResultsAgree
<1>7. Result(d).draw = d /\ Result(e).draw = e BY DEF Result
<1>8. Measured(Result(d)) = Measured(Result(e)) BY <1>6 DEF Measured
<1>9. a = RowWith(d.start, Result(d).category, Result(d).type, Measured(Result(d)), d.gap,
                  Result(d).mains, Result(d).hwc_min, d, v)
    BY <1>4, <1>7 DEF Row, RowWith
<1>10. b = RowWith(d.start, Result(d).category, Result(d).type, Measured(Result(d)), e.gap,
                   Result(d).mains, Result(d).hwc_min, e, w)
    BY <1>1, <1>4, <1>6, <1>7, <1>8 DEF Row, RowWith
<1>11. Moved(a, b) = b /\ Moved(b, a) = a BY <1>9, <1>10, MovedIs
<1> QED BY <1>11 DEF Moved

-----------------------------------------------------------------------------
(* What was found stays as the series grows.                                *)

LEMMA RowsKept ==
    ASSUME Grown, NEW source, NEW v, v.from \in Int, v.to \in Int, v.to <= Len(trace)
    PROVE  Rows(source, v)' = Rows(source, v)
<1>1. /\ Len(trace) \in Nat /\ Len(trace') \in Nat /\ Len(trace) <= Len(trace')
      /\ DOMAIN trace = 1..Len(trace) /\ DOMAIN trace' = 1..Len(trace')
    BY DEF Grown, Recorded
<1>2. \A t \in v.from..v.to : t \in DOMAIN trace <=> t \in DOMAIN trace' BY <1>1
<1>3. \A t \in DOMAIN trace : trace'[t] = trace[t] BY DEF Grown
<1> QED BY <1>2, <1>3 DEF Rows

LEMMA KnownKept ==
    ASSUME Grown, NEW source, NEW w \in Span, w.to <= Len(trace), NEW t \in Int
    PROVE  /\ lkv(source, w, t)' = lkv(source, w, t)
           /\ \A field : Value(source, field, w, t)' = Value(source, field, w, t)
<1>1. Rows(source, w)' = Rows(source, w)
  <2>1. w.from \in Int /\ w.to \in Int BY DEF Span
  <2> QED BY <2>1, RowsKept
<1>2. lkv(source, w, t)' = lkv(source, w, t) BY <1>1 DEF lkv
<1>3. CASE lkv(source, w, t) = None BY <1>2, <1>3 DEF Value
<1>4. CASE lkv(source, w, t) # None
  <2>1. PICK u \in Rows(source, w) : lkv(source, w, t) = Some(u) BY <1>4, KnownIs DEF Grown
  <2>2. u \in DOMAIN trace BY RowsAre
  <2>3. trace'[u] = trace[u] BY <2>2 DEF Grown
  <2>4. lkv(source, w, t)[1] = u BY <2>1, OptionIs
  <2> QED BY <1>2, <1>4, <2>3, <2>4 DEF Value
<1> QED BY <1>2, <1>3, <1>4

LEMMA VolumeKept ==
    ASSUME Grown, NEW w \in Span, w.to <= Len(trace), NEW t \in Int
    PROVE  Volume(w, t)' = Volume(w, t)
<1>1. lkv("m", w, t)' = lkv("m", w, t) BY KnownKept
<1>2. CASE lkv("m", w, t) = None BY <1>1, <1>2 DEF Volume
<1>3. CASE lkv("m", w, t) # None
  <2>1. PICK u \in Rows("m", w) : lkv("m", w, t) = Some(u) BY <1>3, KnownIs DEF Grown
  <2>2. u \in Int /\ u <= Len(trace)
    <3>1. u \in DOMAIN trace BY RowsAre
    <3> QED BY <3>1, InstantsIs DEF Grown
  <2>3. Register(u)' = Register(u) BY <2>2, RegisterKept
  <2>4. lkv("m", w, t)[1] = u BY <2>1, OptionIs
  <2> QED BY <1>1, <1>3, <2>3, <2>4 DEF Volume
<1> QED BY <1>2, <1>3

LEMMA DrawsKept ==
    ASSUME Grown, NEW w \in Span, w.to <= Len(trace)
    PROVE  Draws(w)' = Draws(w)
<1>1. w.from \in Int /\ w.to \in Int BY DEF Span
<1>2. \A source, field : \A t \in Int : Value(source, field, w, t)' = Value(source, field, w, t)
    BY KnownKept
<1>3. \A t \in Int : Volume(w, t)' = Volume(w, t) BY VolumeKept
<1>4. \A t \in w.from..w.to : t \in Int BY <1>1
<1>5. High(w)' = High(w) BY <1>2, <1>4 DEF High
<1>6. Flowing(w)' = Flowing(w) BY <1>2, <1>4 DEF Flowing
<1>7. \A on : \A s \in Spells(w, on) : s.start \in Int /\ s.end \in Int BY <1>4, SpellIs
<1>8. \A on : \A s \in Spells(w, on) : PreT1(w, s)' = PreT1(w, s) BY <1>2, <1>7 DEF PreT1
<1>9. \A on : \A s \in Spells(w, on) : Charge(w, s)' = Charge(w, s)
  <2> SUFFICES ASSUME NEW on, NEW s \in Spells(w, on)
               PROVE  Charge(w, s)' = Charge(w, s)
      OBVIOUS
  <2>1. \A t \in s.start..(s.end - 1) : Value("e", "hwc", w, t)' = Value("e", "hwc", w, t)
      BY <1>2, <1>7
  <2>2. {UnwrapOr(Value("e", "hwc", w, t), 0) : t \in s.start..(s.end - 1)}'
            = {UnwrapOr(Value("e", "hwc", w, t), 0) : t \in s.start..(s.end - 1)}
      BY <2>1
  <2>3. Value("m", "t1", w, s.end)' = Value("m", "t1", w, s.end) BY <1>2, <1>7
  <2>4. Volume(w, s.end)' = Volume(w, s.end) BY <1>3, <1>7
  <2>5. PreT1(w, s)' = PreT1(w, s) BY <1>8
  <2> QED BY <2>2, <2>3, <2>4, <2>5 DEF Charge
<1>10. Charges(w)' = Charges(w)
  <2>1. PICK on : on = High(w) OBVIOUS
  <2>2. High(w)' = on /\ High(w) = on BY <1>5, <2>1
  <2> QED BY <1>8, <1>9, <2>2 DEF Charges
<1>11. \A on : \A s \in Spells(w, on) : Drawn(w, s)' = Drawn(w, s) BY <1>3, <1>7 DEF Drawn
<1>12. \A on : \A s \in Spells(w, on) : Draw(w, s)' = Draw(w, s)
  <2> SUFFICES ASSUME NEW on, NEW s \in Spells(w, on) PROVE Draw(w, s)' = Draw(w, s) OBVIOUS
  <2>1. Preceding(Charges(w), s.start)' = Preceding(Charges(w), s.start) BY <1>10
  <2>2. Flowing(w)' = Flowing(w) BY <1>6
  <2>3. Volume(w, s.end)' = Volume(w, s.end) /\ Volume(w, s.start)' = Volume(w, s.start)
      BY <1>3, <1>7
  <2>4. Drawn(w, s)' = Drawn(w, s) /\ High(w)' = High(w) BY <1>5, <1>11
  <2> QED BY <2>1, <2>2, <2>3, <2>4 DEF Draw
<1>13. PICK on : on = Flowing(w) OBVIOUS
<1>14. Flowing(w)' = on /\ Flowing(w) = on BY <1>6, <1>13
<1> QED BY <1>11, <1>12, <1>14 DEF Draws

LEMMA IntegralKept ==
    ASSUME Grown, NEW rows \in SUBSET DOMAIN trace, NEW t \in Int
    PROVE  Integral(rows, t)' = Integral(rows, t)
<1> DEFINE before(u) == Max({v \in rows : v < u})
           later == {u \in rows : u <= t /\ \E v \in rows : v < u}
           f == [u \in later |-> (trace[before(u)].flow + trace[u].flow) * (u - before(u))]
           g == [u \in later |-> (trace'[before(u)].flow + trace'[u].flow) * (u - before(u))]
<1>1. \A u \in DOMAIN trace : trace'[u] = trace[u] BY DEF Grown
<1>2. ASSUME NEW u \in later PROVE f[u] = g[u]
  <2> DEFINE earlier == {v \in rows : v < u}
  <2>1. earlier \in SUBSET DOMAIN trace /\ earlier # {} BY <1>2
  <2>2. IsFiniteSet(earlier) /\ earlier \in SUBSET Int BY <2>1, InstantsIs DEF Grown
  <2>3. Max(earlier) \in earlier BY <2>1, <2>2, FiniteMax
  <2> DEFINE b == before(u)
  <2>4. b \in DOMAIN trace /\ u \in DOMAIN trace BY <2>3
  <2>5. f[u] = (trace[b].flow + trace[u].flow) * (u - b)
        /\ g[u] = (trace'[b].flow + trace'[u].flow) * (u - b)
      BY <1>2
  <2> HIDE DEF b, f, g
  <2> QED BY <1>1, <2>4, <2>5
<1>3. f = g
  <2>1. f = [u \in later |-> f[u]] /\ g = [u \in later |-> g[u]] OBVIOUS
  <2> HIDE DEF f, g, later
  <2> QED BY <1>2, <2>1
<1>4. Integral(rows, t) = Total(f) /\ Integral(rows, t)' = Total(g) BY DEF Integral
<1> HIDE DEF f, g
<1> QED BY <1>3, <1>4

LEMMA MainsKept ==
    ASSUME Grown, NEW rows \in SUBSET DOMAIN trace
    PROVE  settled_mains_temp(rows)' = settled_mains_temp(rows)
<1> DEFINE flowing == {t \in rows : trace[t].flow > DRAW_FLOW_MIN}
           flowed == {t \in rows : trace'[t].flow > DRAW_FLOW_MIN}
           tail(F) == {t \in F : Cardinality({u \in F : u < t}) >= (Cardinality(F) * 3) \div 4}
           middle(T) == {t \in T : Cardinality({u \in T : trace[u].t2 <= trace[t].t2})
                                       > Cardinality(T) \div 2}
           middled(T) == {t \in T : Cardinality({u \in T : trace'[u].t2 <= trace'[t].t2})
                                        > Cardinality(T) \div 2}
           values(M) == {trace[t].t2 : t \in M}
           valued(M) == {trace'[t].t2 : t \in M}
<1>1. \A u \in rows : trace'[u] = trace[u] BY DEF Grown
<1>2. settled_mains_temp(rows)
          = IF flowing = {} THEN 1500 ELSE Min(values(middle(tail(flowing))))
    BY DEF settled_mains_temp
<1>3. settled_mains_temp(rows)'
          = IF flowed = {} THEN 1500 ELSE Min(valued(middled(tail(flowed))))
    BY DEF settled_mains_temp
<1>4. flowed = flowing BY <1>1
<1>5. \A F \in SUBSET rows : tail(F) \in SUBSET F OBVIOUS
<1>6. \A T \in SUBSET rows : middled(T) = middle(T) /\ middle(T) \in SUBSET T
  <2> SUFFICES ASSUME NEW T \in SUBSET rows
               PROVE  middled(T) = middle(T) /\ middle(T) \in SUBSET T
      OBVIOUS
  <2>1. \A t \in T : {u \in T : trace'[u].t2 <= trace'[t].t2}
                       = {u \in T : trace[u].t2 <= trace[t].t2}
      BY <1>1
  <2> QED BY <2>1
<1>7. \A M \in SUBSET rows : valued(M) = values(M) BY <1>1
<1>8. flowing \in SUBSET rows OBVIOUS
<1> HIDE DEF flowing, flowed, tail, middle, middled, values, valued
<1>9. tail(flowing) \in SUBSET rows BY <1>5, <1>8
<1>10. middle(tail(flowing)) \in SUBSET rows BY <1>6, <1>9
<1> QED BY <1>2, <1>3, <1>4, <1>6, <1>7, <1>9, <1>10

LEMMA ResultKept ==
    ASSUME Grown, NEW w \in Span, w.to <= Len(trace), NEW d \in Draws(w),
           d.end + Settle <= w.to
    PROVE  Result(d)' = Result(d)
<1>1. /\ Len(trace) \in Nat /\ DOMAIN trace = 1..Len(trace) BY InstantsIs DEF Grown
<1>2. /\ d.start \in Int /\ d.end \in Int /\ d.end >= 1
  <2>1. PICK s \in Spells(w, Flowing(w)) : d.start = s.start /\ d.end = s.end BY DrawSpell
  <2>2. w.from \in Nat \ {0} /\ w.to \in Nat BY DEF Span
  <2> QED BY <2>1, <2>2, SpellIs
<1>3. Settle \in Int /\ Margin <= Settle /\ Margin \in Int BY DhwSessionsAssumption DEF Margin
<1>4. \A after \in {Margin, Settle} :
          Around(d, after).from \in Int /\ Around(d, after).to \in Int
          /\ Around(d, after).to <= Len(trace)
  <2> SUFFICES ASSUME NEW after \in {Margin, Settle}
               PROVE  Around(d, after).from \in Int /\ Around(d, after).to \in Int
                      /\ Around(d, after).to <= Len(trace)
      OBVIOUS
  <2>1. \A x, y \in Int : Max({x, y}) \in Int BY PairIs
  <2>2. 1 \in Int /\ d.start - Margin \in Int BY <1>2, <1>3
  <2>3. Max({1, d.start - Margin}) \in Int BY <2>1, <2>2, Zenon
  <2>4. w.to \in Int BY DEF Span
  <2>5. d.end + after \in Int /\ d.end + after <= Len(trace) BY <1>1, <1>2, <1>3, <2>4
  <2> QED BY <2>3, <2>5 DEF Around
<1>5. \A source : \A after \in {Margin, Settle} :
          Rows(source, Around(d, after))' = Rows(source, Around(d, after))
    BY <1>4, RowsKept
<1>6. PICK rows : rows = Rows("m", Around(d, Margin)) OBVIOUS
<1>7. rows = Rows("m", Around(d, Margin))' BY <1>5, <1>6
<1>8. rows \in SUBSET DOMAIN trace BY <1>6, RowsAre
<1>9. \A t \in DOMAIN trace : trace'[t] = trace[t] BY DEF Grown
<1>10. \A t \in rows : Integral(rows, t)' = Integral(rows, t) BY <1>1, <1>8, IntegralKept
<1>11. Points(d)' = Points(d)
  <2> DEFINE before == d.register_start - VolumeAtCharge(d.preceding)
             third == {t \in rows : /\ Cardinality(rows) >= MinRows
                                    /\ Cardinality({u \in rows : u < t}) >= 2}
  <2>1. Points(d) = [t \in third |-> [cumulative |-> before + Integral(rows, t),
                                      t1 |-> trace[t].t1]]
      BY <1>6 DEF Points
  <2>2. Points(d)' = [t \in third |-> [cumulative |-> before + Integral(rows, t)',
                                       t1 |-> trace'[t].t1]]
      BY <1>7 DEF Points
  <2>3. \A t \in third : t \in rows /\ t \in DOMAIN trace BY <1>8
  <2> HIDE DEF before, third
  <2> QED BY <1>9, <1>10, <2>1, <2>2, <2>3
<1>12. settled_mains_temp(rows)' = settled_mains_temp(rows) BY <1>8, MainsKept
<1>13. HwcMin(d)' = HwcMin(d)
  <2>1. PICK polled : polled = Rows("e", Around(d, Settle)) OBVIOUS
  <2>2. polled = Rows("e", Around(d, Settle))' BY <1>5, <2>1
  <2>3. polled \in SUBSET DOMAIN trace BY <2>1, RowsAre
  <2> DEFINE after == {t \in polled : t >= d.start}
             before == {t \in polled : t <= d.start}
  <2>4. HwcMin(d) = IF after # {} THEN Min({trace[t].hwc : t \in after})
                    ELSE IF before # {} THEN trace[Max(before)].hwc ELSE 0
      BY <2>1 DEF HwcMin
  <2>5. HwcMin(d)' = IF after # {} THEN Min({trace'[t].hwc : t \in after})
                     ELSE IF before # {} THEN trace'[Max(before)].hwc ELSE 0
      BY <2>2 DEF HwcMin
  <2>6. {trace'[t].hwc : t \in after} = {trace[t].hwc : t \in after} BY <1>9, <2>3
  <2>7. before # {} => Max(before) \in DOMAIN trace
    <3>1. before \in SUBSET DOMAIN trace BY <2>3
    <3>2. IsFiniteSet(before) /\ before \in SUBSET Int BY <3>1, InstantsIs DEF Grown
    <3> QED BY <3>1, <3>2, FiniteMax
  <2>8. before # {} => trace'[Max(before)].hwc = trace[Max(before)].hwc BY <1>9, <2>7
  <2> DEFINE values == {trace[t].hwc : t \in after}
             valued == {trace'[t].hwc : t \in after}
  <2>9. valued = values BY <2>6
  <2>10. HwcMin(d) = IF after # {} THEN Min(values)
                     ELSE IF before # {} THEN trace[Max(before)].hwc ELSE 0
      BY <2>4
  <2>11. HwcMin(d)' = IF after # {} THEN Min(valued)
                      ELSE IF before # {} THEN trace'[Max(before)].hwc ELSE 0
      BY <2>5
  <2> HIDE DEF after, before, values, valued
  <2> QED BY <2>8, <2>9, <2>10, <2>11
<1>14. {trace'[t].flow : t \in rows \cap d.start..d.end}
           = {trace[t].flow : t \in rows \cap d.start..d.end}
    BY <1>8, <1>9
<1> DEFINE result(points, peaks, mains, hwc) ==
              [draw |-> d, hint |-> FirstFall(points, 3), definitive |-> FirstFall(points, 10),
               category |-> inflection_category(d, FirstFall(points, 10)),
               type |-> draw_type(Max(peaks \cup {0}), d.drawn),
               mains |-> mains, hwc_min |-> hwc]
<1>15. Result(d) = result(Points(d), {trace[t].flow : t \in rows \cap d.start..d.end},
                          settled_mains_temp(rows), HwcMin(d))
    BY <1>6 DEF Result
<1>16. Result(d)' = result(Points(d)', {trace'[t].flow : t \in rows \cap d.start..d.end},
                           settled_mains_temp(rows)', HwcMin(d)')
    BY <1>7 DEF Result
<1> HIDE DEF result
<1> QED BY <1>11, <1>12, <1>13, <1>14, <1>15, <1>16

-----------------------------------------------------------------------------
(* Every row is one that its run found.                                     *)

LEMMA FreshKept ==
    ASSUME Grown, NEW row, Fresh(row)
    PROVE  Fresh(row)'
<1> DEFINE w == row.window
           d == row.draw
<1>1. /\ w \in Span /\ w.to <= Len(trace) /\ d \in Draws(w) /\ row.time = d.start
      /\ d.end + Settle <= w.to => row = Row(Result(d), w)
    BY DEF Fresh
<1>2. w.to <= Len(trace')
  <2>1. w.to \in Int /\ Len(trace) \in Int /\ Len(trace') \in Int /\ Len(trace) <= Len(trace')
      BY <1>1 DEF Span, Grown, Recorded
  <2> QED BY <1>1, <2>1
<1>3. Draws(w)' = Draws(w) BY <1>1, DrawsKept
<1>4. d.end + Settle <= w.to => Result(d)' = Result(d) BY <1>1, ResultKept
<1>5. d.end + Settle <= w.to => Row(Result(d), w)' = Row(Result(d), w)
  <2>1. \A r : Row(r, w)' = Row(r, w) BY DEF Row, Measured
  <2> QED BY <1>4, <2>1
<1> QED BY <1>1, <1>2, <1>3, <1>5 DEF Fresh

LEMMA ResultFresh ==
    ASSUME NEW w \in Span, w.to <= Len(trace), NEW r \in Results(w)
    PROVE  Fresh(Row(r, w))
<1>1. PICK d \in Draws(w) : r = Result(d) BY DEF Results
<1>2. r.draw = d BY <1>1 DEF Result
<1>3. /\ Row(r, w).window = w /\ Row(r, w).draw = d /\ Row(r, w).time = d.start
    BY <1>2 DEF Row
<1> QED BY <1>1, <1>3 DEF Fresh

FoundRows(results, w) == {Row(r, w) : r \in results}

FreshInv ==
    /\ \A row \in inflection : Fresh(row)
    /\ job.pc = "write" => \A row \in FoundRows(job.results, job.window) : Fresh(row)

LEMMA FreshInit == Init => FreshInv
BY DEF Init, FreshInv, Resting

LEMMA FreshStep ==
    ASSUME TablesInv, FreshInv, [Next]_vars
    PROVE  FreshInv'
<1>1. Grown BY Growth
<1>2. \A row : Fresh(row) => Fresh(row)' BY <1>1, FreshKept
<1>3. CASE UNCHANGED <<job, inflection>> BY <1>2, <1>3 DEF FreshInv
<1>4. ASSUME NEW days \in Windows, NEW no_write \in BOOLEAN, Run(days, no_write)
      PROVE  FreshInv'
  <2>1. UNCHANGED inflection BY <1>4 DEF Run
  <2>2. CASE no_write
    <3>1. job' = Resting BY <1>4, <2>2 DEF Run
    <3> QED BY <1>2, <2>1, <3>1 DEF FreshInv, Resting
  <2>3. CASE ~ no_write
    <3>1. PICK w : w = [from |-> Max({1, Len(trace) - days + 1}), to |-> Len(trace)] OBVIOUS
    <3>2. job'.results = Results(w) /\ job'.window = w
      <4>1. job' = [pc |-> "write", todo |-> RowsOf(Results(w), w), window |-> w,
                    results |-> Results(w)]
          BY <1>4, <2>3, <3>1 DEF Run
      <4> QED BY <4>1
    <3>3. w \in Span /\ w.to <= Len(trace) BY <1>1, <3>1, WindowIs DEF Grown
    <3>4. \A row \in FoundRows(Results(w), w) : Fresh(row)
        BY <3>3, ResultFresh DEF FoundRows
    <3>5. \A row \in FoundRows(job'.results, job'.window) : Fresh(row)'
        BY <1>2, <3>2, <3>4
    <3> QED BY <1>2, <2>1, <3>5 DEF FreshInv
  <2> QED BY <2>2, <2>3
<1>5. CASE WriteRow
  <2>1. job.pc = "write" BY <1>5 DEF WriteRow
  <2>2. PICK row \in job.todo :
            inflection' = inflection \cup {row} /\ job' = [job EXCEPT !.todo = @ \ {row}]
      BY <1>5 DEF WriteRow
  <2>3. /\ job.todo \subseteq RowsOf(job.results, job.window)
        /\ job = [pc |-> "write", todo |-> job.todo, window |-> job.window,
                  results |-> job.results]
      BY <2>1 DEF TablesInv, JobInv, Resting
  <2>4. job'.results = job.results /\ job'.window = job.window BY <2>2, <2>3
  <2>5. row \in FoundRows(job.results, job.window) BY <2>3, RowIs DEF FoundRows
  <2>6. Fresh(row) BY <2>1, <2>5 DEF FreshInv
  <2>7. \A x \in inflection' : Fresh(x)' BY <1>2, <2>2, <2>6 DEF FreshInv
  <2>8. \A x \in FoundRows(job'.results, job'.window) : Fresh(x)'
      BY <1>2, <2>1, <2>4 DEF FreshInv
  <2> QED BY <2>7, <2>8 DEF FreshInv
<1>6. CASE Finish \/ RunFails
  <2>1. UNCHANGED inflection /\ job'.pc # "write" BY <1>6 DEF Finish, RunFails, Resting
  <2> QED BY <1>2, <2>1 DEF FreshInv
<1> QED BY <1>3, <1>4, <1>5, <1>6 DEF Next, Record, vars

(* Two runs that both had a row of the poll before the charge before a draw, and the  *)
(* draw settle, wrote the same of it, whatever their windows, the rows missing from   *)
(* them, and what was recorded in between (dhw_sessions.rs, find_events).             *)
THEOREM RunsAgree == Spec => []RowsAgree
<1>1. TablesInv /\ FreshInv => RowsAgree
  <2> SUFFICES ASSUME TablesInv, FreshInv,
                      NEW a \in inflection, NEW b \in inflection, a.time = b.time,
                      SawWhole(a), SawWhole(b)
               PROVE  [a EXCEPT !.window = b.window, !.gap = b.gap, !.draw = b.draw] = b
      BY DEF RowsAgree
  <2>1. Recorded /\ Fresh(a) /\ Fresh(b) BY DEF TablesInv, FreshInv
  <2>2. a.window.from \in Int /\ b.window.from \in Int BY <2>1 DEF Fresh, Span
  <2>3. CASE a.window.from <= b.window.from BY <2>1, <2>3, FreshAgree
  <2>4. CASE b.window.from <= a.window.from BY <2>1, <2>4, FreshAgree
  <2> QED BY <2>2, <2>3, <2>4
<1>2. TablesInv /\ FreshInv /\ [Next]_vars => FreshInv' BY FreshStep
<1> QED BY <1>1, <1>2, FreshInit, TablesInvariant, PTL DEF Spec

=============================================================================
