--------------------------- MODULE OvernightProofs ---------------------------
(* Theorems about NightChoice, Overnight and HpStates, for any record,     *)
(* tariffs and settings: the totals of NightChoice agree for any results   *)
(* of any number of nights and strategies, the run does what NightChoice   *)
(* promises, and two frames that reach the same rows from different starts *)
(* label them alike from the first row that is decisive on.                *)
EXTENDS Overnight, TLAPS, FiniteSetTheorems, WellFoundedInduction

-----------------------------------------------------------------------------
(* Sums, and what is picked at each target.                                *)

\* A set of naturals has a least element.
LEMMA LeastNatural ==
    ASSUME NEW T \in SUBSET Nat, T # {}
    PROVE  \E x \in T : \A y \in T : x <= y
<1> DEFINE R == OpToRel(<, Nat)
<1>1. IsWellFoundedOn(R, Nat) BY NatLessThanWellFounded
<1> HIDE DEF R
<1>2. PICK x \in T : \A y \in T : ~ (<<y, x>> \in R) BY <1>1, WFMin
<1>3. ASSUME NEW y \in T PROVE x <= y
  <2>1. x \in Nat /\ y \in Nat OBVIOUS
  <2>2. y < x => <<y, x>> \in R BY <2>1 DEF R, OpToRel
  <2> QED BY <1>2, <2>1, <2>2
<1> QED BY <1>2, <1>3

\* What holds at 0 and goes on from each index to the next holds up to n.
LEMMA UpToInduction ==
    ASSUME NEW n \in Nat, NEW G, 0 \in G, \A i \in 1..n : i - 1 \in G => i \in G
    PROVE  \A i \in 0..n : i \in G
<1> DEFINE Bad == {i \in Nat : i \in 0..n /\ i \notin G}
<1>1. SUFFICES ASSUME Bad # {} PROVE FALSE OBVIOUS
<1>2. PICK k \in Bad : \A j \in Bad : k <= j BY <1>1, LeastNatural
<1>3. k \in 1..n /\ k - 1 \in Nat /\ k - 1 \in 0..n OBVIOUS
<1>4. k - 1 \notin Bad
  <2>1. k \in Nat /\ ~ (k <= k - 1) BY <1>3
  <2> HIDE DEF Bad
  <2> QED BY <1>2, <2>1
<1> QED BY <1>3, <1>4

\* A recursive function on 0..n exists.
Recursive(n, S, base, step) ==
    \E g \in [0..n -> S] : g[0] = base /\ \A i \in 1..n : g[i] = step[i][g[i - 1]]

LEMMA RecursionExists ==
    ASSUME NEW n \in Nat, NEW S, NEW base \in S, NEW step \in [1..n -> [S -> S]]
    PROVE  Recursive(n, S, base, step)
<1> DEFINE G == {m \in 0..n : Recursive(m, S, base, step)}
<1>1. 0 \in G
  <2> DEFINE g == [i \in 0..0 |-> base]
  <2>1. 1..0 = {} /\ 0 \in 0..0 /\ 0 \in 0..n OBVIOUS
  <2>2. g \in [0..0 -> S] /\ g[0] = base BY <2>1
  <2> HIDE DEF g
  <2>3. Recursive(0, S, base, step) BY <2>1, <2>2 DEF Recursive
  <2> QED BY <2>1, <2>3
<1>2. ASSUME NEW m \in 1..n, m - 1 \in G PROVE m \in G
  <2>1. PICK g \in [0..(m - 1) -> S] :
            g[0] = base /\ \A i \in 1..(m - 1) : g[i] = step[i][g[i - 1]]
    BY <1>2 DEF Recursive
  <2> DEFINE h == [i \in 0..m |-> IF i = m THEN step[m][g[m - 1]] ELSE g[i]]
  <2>2. m \in Nat /\ m - 1 \in 0..(m - 1) /\ \A i \in 0..m : i # m => i \in 0..(m - 1) OBVIOUS
  <2>3. step[m][g[m - 1]] \in S BY <2>2
  <2>4. h \in [0..m -> S] BY <2>2, <2>3
  <2>5. h[0] = base BY <2>1, <2>2
  <2>6. ASSUME NEW i \in 1..m PROVE h[i] = step[i][h[i - 1]]
    <3>1. i - 1 \in 0..m /\ i - 1 # m BY <2>2
    <3>2. h[i - 1] = g[i - 1] BY <3>1
    <3>3. i # m => i \in 1..(m - 1) /\ h[i] = g[i] BY <2>2
    <3>4. i = m => h[i] = step[i][g[i - 1]] OBVIOUS
    <3> HIDE DEF h
    <3> QED BY <2>1, <3>2, <3>3, <3>4
  <2> HIDE DEF h
  <2>7. Recursive(m, S, base, step) BY <2>4, <2>5, <2>6 DEF Recursive
  <2>8. m \in 0..n BY <2>2
  <2> QED BY <2>7, <2>8
<1>3. n \in 0..n OBVIOUS
<1> HIDE DEF G
<1>4. \A m \in 0..n : m \in G BY <1>1, <1>2, UpToInduction
<1> QED BY <1>3, <1>4 DEF G

-----------------------------------------------------------------------------
(* Sums.                                                                   *)

Term(f, i) == IF i \in DOMAIN f THEN f[i] ELSE 0

\* Partial sums.
LEMMA SummedIs ==
    ASSUME NEW n \in Nat, NEW f, \A i \in 0..n : Term(f, i) \in Int
    PROVE  \E s : /\ Summed(f, n) = s[n] /\ s[0] = Term(f, 0)
                  /\ \A i \in 1..n : s[i] = s[i - 1] + Term(f, i)
                  /\ \A i \in 0..n : s[i] \in Int
<1> DEFINE step == [i \in 1..n |-> [x \in Int |-> x + Term(f, i)]]
           IsSum(s) == s = [i \in 0..n |-> (IF i = 0 THEN 0 ELSE s[i - 1]) + Term(f, i)]
           s == CHOOSE s : IsSum(s)
<1>1. step \in [1..n -> [Int -> Int]]
  <2>1. ASSUME NEW i \in 1..n, NEW x \in Int PROVE x + Term(f, i) \in Int
    <3>1. i \in 0..n OBVIOUS
    <3> QED BY <3>1
  <2> QED BY <2>1
<1>2. 0 \in 0..n /\ Term(f, 0) \in Int OBVIOUS
<1>3. \A i \in 1..n, x \in Int : step[i][x] = x + Term(f, i) OBVIOUS
<1> HIDE DEF step
<1>10. Recursive(n, Int, Term(f, 0), step) BY <1>1, <1>2, RecursionExists
<1>4. PICK g \in [0..n -> Int] :
            g[0] = Term(f, 0) /\ \A i \in 1..n : g[i] = step[i][g[i - 1]]
  BY <1>10 DEF Recursive
<1>5. IsSum(g)
  <2>1. ASSUME NEW i \in 0..n PROVE g[i] = (IF i = 0 THEN 0 ELSE g[i - 1]) + Term(f, i)
    <3>1. CASE i = 0 BY <1>2, <1>4, <3>1
    <3>2. CASE i # 0
      <4>1. i \in 1..n /\ i - 1 \in 0..n BY <3>2
      <4> QED BY <1>3, <1>4, <3>2, <4>1
    <3> QED BY <3>1, <3>2
  <2>2. g = [i \in 0..n |-> g[i]] BY <1>4
  <2> QED BY <2>1, <2>2
<1>6. IsSum(s) BY <1>5
<1>7. Summed(f, n) = s[n] BY DEF Summed, Term
<1> HIDE DEF s
<1>8. s[0] = Term(f, 0) /\ \A i \in 1..n : s[i] = s[i - 1] + Term(f, i)
  <2>1. \A i \in 0..n : s[i] = (IF i = 0 THEN 0 ELSE s[i - 1]) + Term(f, i) BY <1>6
  <2> QED BY <1>2, <2>1
<1>9. \A i \in 0..n : s[i] \in Int
  <2> DEFINE G == {i \in 0..n : s[i] \in Int}
  <2>1. 0 \in G BY <1>2, <1>8
  <2>2. ASSUME NEW i \in 1..n, i - 1 \in G PROVE i \in G
    <3>1. i \in 0..n /\ s[i - 1] \in Int BY <2>2
    <3>2. Term(f, i) \in Int /\ s[i] = s[i - 1] + Term(f, i) BY <1>8, <3>1
    <3> QED BY <3>1, <3>2
  <2> HIDE DEF G
  <2>3. \A i \in 0..n : i \in G BY <2>1, <2>2, UpToInduction
  <2> QED BY <2>3 DEF G
<1> QED BY <1>7, <1>8, <1>9

LEMMA SummedIsInt ==
    ASSUME NEW n \in Nat, NEW f, \A i \in 0..n : Term(f, i) \in Int
    PROVE  Summed(f, n) \in Int
<1>1. n \in 0..n OBVIOUS
<1> QED BY <1>1, SummedIs

LEMMA SummedIsNat ==
    ASSUME NEW n \in Nat, NEW f, \A i \in 0..n : Term(f, i) \in Nat
    PROVE  Summed(f, n) \in Nat
<1>1. PICK s : /\ Summed(f, n) = s[n] /\ s[0] = Term(f, 0)
               /\ \A i \in 1..n : s[i] = s[i - 1] + Term(f, i)
               /\ \A i \in 0..n : s[i] \in Int BY SummedIs
<1> DEFINE G == {i \in 0..n : s[i] \in Nat}
<1>2. 0 \in G BY <1>1
<1>3. ASSUME NEW i \in 1..n, i - 1 \in G PROVE i \in G
  <2>1. s[i - 1] \in Nat /\ i \in 0..n BY <1>3
  <2>2. Term(f, i) \in Nat /\ s[i] = s[i - 1] + Term(f, i) BY <1>1, <2>1
  <2> QED BY <2>1, <2>2
<1> HIDE DEF G
<1>4. \A i \in 0..n : i \in G BY <1>2, <1>3, UpToInduction
<1>5. n \in 0..n OBVIOUS
<1> QED BY <1>1, <1>4, <1>5 DEF G

\* Nothing but zeros adds up to zero.
LEMMA SummedZero ==
    ASSUME NEW n \in Nat, NEW f, \A i \in 0..n : Term(f, i) = 0
    PROVE  Summed(f, n) = 0
<1>1. PICK s : /\ Summed(f, n) = s[n] /\ s[0] = Term(f, 0)
               /\ \A i \in 1..n : s[i] = s[i - 1] + Term(f, i)
               /\ \A i \in 0..n : s[i] \in Int BY SummedIs
<1> DEFINE G == {i \in 0..n : s[i] = 0}
<1>2. 0 \in G BY <1>1
<1>3. ASSUME NEW i \in 1..n, i - 1 \in G PROVE i \in G
  <2>1. s[i - 1] = 0 /\ i \in 0..n BY <1>3
  <2> QED BY <1>1, <2>1
<1> HIDE DEF G
<1>4. \A i \in 0..n : i \in G BY <1>2, <1>3, UpToInduction
<1>5. n \in 0..n OBVIOUS
<1> QED BY <1>1, <1>4, <1>5 DEF G

\* A sum grows by what one of its terms does.
LEMMA SummedChange ==
    ASSUME NEW n \in Nat, NEW f, NEW g, NEW k \in 0..n, NEW d \in Int,
           \A i \in 0..n : Term(f, i) \in Int,
           \A i \in 0..n : Term(g, i) = Term(f, i) + IF i = k THEN d ELSE 0
    PROVE  Summed(g, n) = Summed(f, n) + d
<1>1. PICK s : /\ Summed(f, n) = s[n] /\ s[0] = Term(f, 0)
               /\ \A i \in 1..n : s[i] = s[i - 1] + Term(f, i)
               /\ \A i \in 0..n : s[i] \in Int BY SummedIs
<1>2. \A i \in 0..n : Term(g, i) \in Int OBVIOUS
<1>3. PICK t : /\ Summed(g, n) = t[n] /\ t[0] = Term(g, 0)
               /\ \A i \in 1..n : t[i] = t[i - 1] + Term(g, i)
               /\ \A i \in 0..n : t[i] \in Int BY <1>2, SummedIs
<1> DEFINE G == {i \in 0..n : t[i] = s[i] + IF i < k THEN 0 ELSE d}
<1>4. 0 \in G
  <2>1. 0 \in 0..n /\ (0 < k <=> 0 # k) OBVIOUS
  <2> QED BY <1>1, <1>3, <2>1
<1>5. ASSUME NEW i \in 1..n, i - 1 \in G PROVE i \in G
  <2>1. i \in 0..n /\ t[i - 1] = s[i - 1] + IF i - 1 < k THEN 0 ELSE d BY <1>5
  <2>2. i - 1 \in 0..n /\ s[i - 1] \in Int /\ Term(f, i) \in Int BY <1>1, <2>1
  <2>3. s[i] = s[i - 1] + Term(f, i) BY <1>1
  <2>4. t[i] = t[i - 1] + Term(g, i) BY <1>3
  <2>5. Term(g, i) = Term(f, i) + IF i = k THEN d ELSE 0 BY <2>1
  <2>6. t[i] = s[i] + IF i < k THEN 0 ELSE d
    <3>1. CASE i < k BY <2>1, <2>2, <2>3, <2>4, <2>5, <3>1
    <3>2. CASE i = k BY <2>1, <2>2, <2>3, <2>4, <2>5, <3>2
    <3>3. CASE i > k BY <2>1, <2>2, <2>3, <2>4, <2>5, <3>3
    <3> QED BY <3>1, <3>2, <3>3
  <2> QED BY <2>1, <2>6
<1> HIDE DEF G
<1>6. \A i \in 0..n : i \in G BY <1>4, <1>5, UpToInduction
<1>7. n \in 0..n /\ ~ (n < k) OBVIOUS
<1> QED BY <1>1, <1>3, <1>6, <1>7 DEF G

-----------------------------------------------------------------------------
Total == [cost: Nat, nights: Nat]

LEMMA SimsTyped ==
    ASSUME NEW r \in NightResult
    PROVE  /\ r.actual \in SimResult
           /\ Len(r.sims) \in Nat /\ DOMAIN r.sims = 1..Len(r.sims)
           /\ \A i \in DOMAIN r.sims : r.sims[i] \in SimResult
BY DEF NightResult

\* min_by finds one of the cheapest feasible strategies.
LEMMA CheapestIsLeast ==
    ASSUME NEW r \in NightResult, NEW target \in Int, Feasible(r, target) # {}
    PROVE  /\ Cheapest(r, target) \in Feasible(r, target)
           /\ \A j \in Feasible(r, target) :
                r.sims[Cheapest(r, target)].cost <= r.sims[j].cost
<1> DEFINE F == Feasible(r, target)
           C == {r.sims[j].cost : j \in F}
<1>1. F \subseteq DOMAIN r.sims BY DEF Feasible
<1>2. \A j \in F : j \in Nat /\ r.sims[j].cost \in Nat
  BY <1>1, SimsTyped DEF SimResult
<1>3. C \in SUBSET Nat /\ C # {} BY <1>2
<1>4. PICK c \in C : \A y \in C : c <= y BY <1>3, LeastNatural
<1> DEFINE I == {i \in F : r.sims[i].cost = c}
<1>5. I \in SUBSET Nat /\ I # {} BY <1>2, <1>4
<1>6. PICK i \in I : \A y \in I : i <= y BY <1>5, LeastNatural
<1>7. ASSUME NEW j \in F
      PROVE  r.sims[i].cost < r.sims[j].cost \/ (r.sims[i].cost = r.sims[j].cost /\ i <= j)
  <2>1. c <= r.sims[j].cost BY <1>4
  <2>2. CASE r.sims[j].cost = c BY <2>2, <1>6
  <2>3. CASE r.sims[j].cost # c BY <2>1, <2>3, <1>2, <1>4, <1>6
  <2> QED BY <2>2, <2>3
<1> DEFINE Least(k) == \A j \in F : r.sims[k].cost < r.sims[j].cost
                                    \/ (r.sims[k].cost = r.sims[j].cost /\ k <= j)
<1>8. i \in F /\ Least(i) BY <1>6, <1>7
<1>9. Cheapest(r, target) = CHOOSE k \in F : Least(k) BY DEF Cheapest
<1> HIDE DEF Least
<1>10. Cheapest(r, target) \in F /\ Least(Cheapest(r, target)) BY <1>8, <1>9
<1>11. ASSUME NEW j \in F PROVE r.sims[Cheapest(r, target)].cost <= r.sims[j].cost
  BY <1>10, <1>2 DEF Least
<1> QED BY <1>10, <1>11

\* A sequence of integers has a last greatest element: the shortest prefix without
\* one would follow a prefix that has one.
LEMMA LastGreatest ==
    ASSUME NEW n \in Nat, n >= 1, NEW t \in [1..n -> Int]
    PROVE  \E i \in 1..n : \A j \in 1..n : t[i] > t[j] \/ (t[i] = t[j] /\ j <= i)
<1> DEFINE Has(k) == \E i \in 1..k : \A j \in 1..k : t[i] > t[j] \/ (t[i] = t[j] /\ j <= i)
           T == {k \in 1..n : ~Has(k)}
<1> SUFFICES ASSUME T # {} PROVE FALSE
  <2>1. n \in 1..n OBVIOUS
  <2> QED BY <2>1
<1>1. T \in SUBSET Nat OBVIOUS
<1>2. PICK k \in T : \A y \in T : k <= y BY <1>1, LeastNatural
<1>3. k \in 1..n /\ ~Has(k) BY <1>2
<1>4. k # 1
  <2> SUFFICES ASSUME k = 1 PROVE FALSE OBVIOUS
  <2>1. 1 \in 1..k /\ \A j \in 1..k : j = 1 BY <1>3
  <2>2. \A j \in 1..k : t[1] = t[j] /\ j <= 1
    <3> HIDE DEF Has
    <3> QED BY <2>1
  <2>3. Has(k) BY <2>1, <2>2
  <2> QED BY <2>3, <1>3
<1>5. k - 1 \in 1..n /\ k - 1 < k BY <1>3, <1>4
<1>6. k - 1 \notin T
  <2> HIDE DEF T
  <2>1. k - 1 \in T => k <= k - 1 BY <1>2
  <2>2. ~(k <= k - 1) BY <1>3
  <2> QED BY <2>1, <2>2
<1>7. Has(k - 1) BY <1>5, <1>6
<1>8. PICK i \in 1..k - 1 : \A j \in 1..k - 1 : t[i] > t[j] \/ (t[i] = t[j] /\ j <= i) BY <1>7
<1>9. i \in 1..n /\ i < k /\ i \in 1..k /\ t[i] \in Int /\ t[k] \in Int BY <1>3, <1>5, <1>8
<1>10. \A j \in 1..k : j = k \/ (j \in 1..k - 1 /\ j <= k /\ t[j] \in Int) BY <1>3
<1>11. CASE t[i] > t[k]
  <2>1. \A j \in 1..k : t[i] > t[j] \/ (t[i] = t[j] /\ j <= i) BY <1>8, <1>10, <1>11
  <2>2. Has(k) BY <2>1, <1>9
  <2> QED BY <2>2, <1>3
<1>12. CASE ~(t[i] > t[k])
  <2>1. ASSUME NEW j \in 1..k PROVE t[k] > t[j] \/ (t[k] = t[j] /\ j <= k)
    <3> HIDE DEF Has, T
    <3>1. CASE j = k BY <1>9, <3>1
    <3>2. CASE j \in 1..k - 1 /\ j <= k /\ t[j] \in Int
      <4>1. t[i] >= t[j] /\ t[k] >= t[i] BY <1>8, <1>9, <1>12, <3>2
      <4> QED BY <1>9, <3>2, <4>1
    <3> QED BY <1>10, <3>1, <3>2
  <2>2. k \in 1..k BY <1>3
  <2>3. Has(k) BY <2>1, <2>2
  <2> QED BY <2>3, <1>3
<1> QED BY <1>11, <1>12

\* max_by finds a strategy where there is one.
LEMMA WarmestIsOne ==
    ASSUME NEW r \in NightResult, r.sims # <<>>
    PROVE  Warmest(r) \in DOMAIN r.sims
<1> DEFINE n == Len(r.sims)
           t == [i \in 1..n |-> r.sims[i].t07]
<1>1. n \in Nat /\ DOMAIN r.sims = 1..n BY SimsTyped
<1>2. \A i \in 1..n : r.sims[i] \in SimResult BY SimsTyped, <1>1
<1>3. r.sims \in Seq(SimResult) BY DEF NightResult
<1>4. n # 0 BY <1>3
<1>5. t \in [1..n -> Int] BY <1>2 DEF SimResult
<1>6. n >= 1 BY <1>1, <1>4
<1> HIDE DEF n
<1>7. \E i \in 1..n : \A j \in 1..n : t[i] > t[j] \/ (t[i] = t[j] /\ j <= i)
  <2> HIDE DEF t
  <2> QED BY <1>1, <1>5, <1>6, LastGreatest
<1>8. \E i \in DOMAIN r.sims : \A j \in DOMAIN r.sims :
            \/ r.sims[i].t07 > r.sims[j].t07
            \/ r.sims[i].t07 = r.sims[j].t07 /\ j <= i
  BY <1>7, <1>1
<1> QED BY <1>8 DEF Warmest

\* What a night costs at a target is never more than what was measured, nor than any
\* strategy that meets it.
LEMMA ChosenWell ==
    ASSUME NEW r \in NightResult, NEW target \in Int
    PROVE  /\ Of(r, Chosen(r, target)) \in SimResult
           /\ Of(r, Chosen(r, target)).cost <= r.actual.cost
           /\ \A j \in Feasible(r, target) :
                    Of(r, Chosen(r, target)).cost <= r.sims[j].cost
           /\ Chosen(r, target) # 0 =>
                    Chosen(r, target) \in Feasible(r, target)
<1>1. Feasible(r, target) \subseteq DOMAIN r.sims BY DEF Feasible
<1>2. \A j \in Feasible(r, target) : j # 0 /\ r.sims[j] \in SimResult /\ r.sims[j].cost \in Nat
  BY <1>1, SimsTyped DEF SimResult
<1>3. r.actual \in SimResult /\ r.actual.cost \in Nat BY SimsTyped DEF SimResult
<1>4. CASE Feasible(r, target) # {} /\ r.sims[Cheapest(r, target)].cost <= r.actual.cost
  <2>1. Chosen(r, target) = Cheapest(r, target) BY <1>4 DEF Chosen
  <2>2. Cheapest(r, target) \in Feasible(r, target) BY <1>4, CheapestIsLeast
  <2>3. Of(r, Chosen(r, target)) = r.sims[Cheapest(r, target)] BY <2>1, <2>2, <1>2 DEF Of
  <2> QED BY <1>2, <1>4, <2>1, <2>2, <2>3, CheapestIsLeast
<1>5. CASE ~(Feasible(r, target) # {} /\ r.sims[Cheapest(r, target)].cost <= r.actual.cost)
  <2>1. Chosen(r, target) = 0 BY <1>5 DEF Chosen
  <2>2. Of(r, Chosen(r, target)) = r.actual BY <2>1 DEF Of
  <2>3. ASSUME NEW j \in Feasible(r, target) PROVE r.actual.cost <= r.sims[j].cost
    <3>1. /\ Cheapest(r, target) \in Feasible(r, target)
          /\ r.sims[Cheapest(r, target)].cost <= r.sims[j].cost
      BY CheapestIsLeast
    <3>2. ~(r.sims[Cheapest(r, target)].cost <= r.actual.cost) BY <1>5
    <3> QED BY <1>2, <1>3, <3>1, <3>2
  <2> QED BY <1>3, <2>1, <2>2, <2>3
<1> QED BY <1>4, <1>5

\* Relaxing the target costs no more and keeps a night that was met.
LEMMA ChosenMonotone ==
    ASSUME NEW r \in NightResult, NEW a \in Int, NEW b \in Int, a <= b
    PROVE  /\ Of(r, Chosen(r, a)).cost <= Of(r, Chosen(r, b)).cost
           /\ Met(Of(r, Chosen(r, a)), a) >= Met(Of(r, Chosen(r, b)), b)
<1>1. \A j \in DOMAIN r.sims : j # 0 /\ r.sims[j].t07 \in Int /\ r.sims[j].cost \in Nat
  BY SimsTyped DEF SimResult
<1>2. r.actual.t07 \in Int /\ r.actual.cost \in Nat BY SimsTyped DEF SimResult
<1>3. Feasible(r, b) \subseteq Feasible(r, a) BY <1>1 DEF Feasible
<1>4. \A t \in Int : \A j \in Feasible(r, t) : j \in DOMAIN r.sims /\ r.sims[j].t07 >= t
  BY DEF Feasible
<1>5. CASE Chosen(r, b) = 0
  <2>1. Of(r, Chosen(r, b)) = r.actual BY <1>5 DEF Of
  <2>2. Of(r, Chosen(r, a)).cost <= r.actual.cost BY ChosenWell
  <2>3. CASE Chosen(r, a) = 0
    <3>1. Of(r, Chosen(r, a)) = r.actual BY <2>3 DEF Of
    <3> QED BY <1>2, <2>1, <2>2, <3>1 DEF Met
  <2>4. CASE Chosen(r, a) # 0
    <3>1. Chosen(r, a) \in Feasible(r, a) BY <2>4, ChosenWell
    <3>2. Of(r, Chosen(r, a)).t07 >= a BY <3>1, <2>4, <1>4 DEF Of
    <3> QED BY <2>1, <2>2, <3>2 DEF Met
  <2> QED BY <2>3, <2>4
<1>6. CASE Chosen(r, b) # 0
  <2> DEFINE i == Chosen(r, b)
  <2>1. i \in Feasible(r, b) /\ i \in Feasible(r, a) BY <1>6, <1>3, ChosenWell
  <2>2. Of(r, i) = r.sims[i] BY <1>6 DEF Of
  <2>3. Of(r, Chosen(r, a)).cost <= Of(r, i).cost BY <2>1, <2>2, ChosenWell
  <2>4. r.sims[Cheapest(r, a)].cost <= r.actual.cost
    <3>1. Cheapest(r, a) \in DOMAIN r.sims /\ r.sims[Cheapest(r, a)].cost <= r.sims[i].cost
      BY <2>1, <1>4, CheapestIsLeast
    <3>2. i \in DOMAIN r.sims /\ r.sims[i].cost <= r.actual.cost BY <2>1, <2>2, <1>4, ChosenWell
    <3> QED BY <1>1, <1>2, <3>1, <3>2
  <2>5. Chosen(r, a) = Cheapest(r, a) /\ Cheapest(r, a) \in Feasible(r, a)
    BY <2>1, <2>4, CheapestIsLeast DEF Chosen
  <2>6. Of(r, Chosen(r, a)).t07 >= a BY <2>5, <1>1, <1>4 DEF Of
  <2> QED BY <2>3, <2>6 DEF Met
<1> QED BY <1>5, <1>6

\* The night summary costs no more than the adaptive strategy.
LEMMA SummarisedWell ==
    ASSUME NEW r \in NightResult, r.sims # <<>>, TARGET_TEMP \in Int
    PROVE  /\ Of(r, Summarised(r)).cost \in Nat
           /\ Of(r, Summarised(r)).cost <= Of(r, Chosen(r, TARGET_TEMP)).cost
<1>1. Of(r, Chosen(r, TARGET_TEMP)).cost \in Nat BY ChosenWell DEF SimResult
<1>2. CASE Feasible(r, TARGET_TEMP) = {} /\ r.sims[Warmest(r)].cost <= r.actual.cost
  <2>1. Summarised(r) = Warmest(r) BY <1>2 DEF Summarised
  <2>2. Warmest(r) \in DOMAIN r.sims BY WarmestIsOne
  <2>3. Of(r, Summarised(r)) = r.sims[Warmest(r)] /\ r.sims[Warmest(r)] \in SimResult
    BY <2>1, <2>2, SimsTyped DEF Of
  <2>4. Of(r, Chosen(r, TARGET_TEMP)) = r.actual BY <1>2 DEF Chosen, Of
  <2> QED BY <1>2, <2>3, <2>4 DEF SimResult
<1>3. CASE ~(Feasible(r, TARGET_TEMP) = {} /\ r.sims[Warmest(r)].cost <= r.actual.cost)
  <2>1. Summarised(r) = Chosen(r, TARGET_TEMP) BY <1>3 DEF Summarised
  <2> QED BY <1>1, <2>1
<1> QED BY <1>2, <1>3

-----------------------------------------------------------------------------
\* The inductive invariant: the totals are numbers, no strategy met more nights than
\* were tallied, nothing is spent before the first, and the two properties.
Totals ==
    /\ results \in Seq(NightResult) /\ tallied \in Nat /\ optimal \in Nat
    /\ adaptive \in [TARGET_SWEEP -> Total] /\ actual \in Total
    /\ \A i \in 1..Len(results) : DOMAIN results[i].sims = DOMAIN schedules
    /\ DOMAIN strat_accum = DOMAIN schedules
    /\ \A i \in DOMAIN strat_accum :
            strat_accum[i] \in Total /\ strat_accum[i].nights <= tallied
    /\ tallied = 0 => adaptive = [target \in TARGET_SWEEP |-> Zero]

IInv == Totals /\ TargetsMonotone /\ TotalsOrdered

LEMMA Targets == TARGET_SWEEP \subseteq Int /\ TARGET_TEMP \in TARGET_SWEEP /\ TARGET_TEMP \in Int
BY NightChoiceAssumption

LEMMA InitInv == ChoiceInit => IInv
<1> SUFFICES ASSUME ChoiceInit PROVE IInv OBVIOUS
<1> USE DEF ChoiceInit, Zero, Total
<1>1. Totals BY DEF Totals
<1>2. TargetsMonotone BY DEF TargetsMonotone
<1>3. TotalsOrdered BY Targets DEF TotalsOrdered
<1> QED BY <1>1, <1>2, <1>3 DEF IInv

LEMMA BeginInv == ChoiceBegin => IInv'
<1> SUFFICES ASSUME ChoiceBegin PROVE IInv' OBVIOUS
<1> USE DEF ChoiceBegin, Zero, Total
<1>1. Totals' BY DEF Totals
<1>2. TargetsMonotone' BY DEF TargetsMonotone
<1>3. TotalsOrdered' BY Targets DEF TotalsOrdered
<1> QED BY <1>1, <1>2, <1>3 DEF IInv

LEMMA SchedulesInv == IInv /\ ChoiceSchedules(schedules') => IInv'
<1> SUFFICES ASSUME IInv, ChoiceSchedules(schedules') PROVE IInv' OBVIOUS
<1>1. /\ results' = <<>> /\ results = <<>> /\ tallied' = 0 /\ tallied = 0
      /\ strat_accum' = [i \in DOMAIN schedules' |-> Zero]
      /\ UNCHANGED <<adaptive, actual, optimal>>
  BY DEF ChoiceSchedules
<1>2. Totals'
  <2>1. \A i \in DOMAIN strat_accum' : strat_accum'[i] \in Total /\ strat_accum'[i].nights <= tallied'
    BY <1>1 DEF Zero, Total
  <2> QED BY <1>1, <2>1 DEF IInv, Totals
<1>3. TargetsMonotone' BY <1>1 DEF IInv, TargetsMonotone
<1>4. TotalsOrdered'
  <2>1. adaptive[TARGET_TEMP].cost = 0 BY <1>1, Targets DEF IInv, Totals, Zero
  <2>2. \A i \in DOMAIN strat_accum' : strat_accum'[i].cost = 0 BY <1>1 DEF Zero
  <2> QED BY <1>1, <2>1, <2>2 DEF IInv, TotalsOrdered
<1> QED BY <1>2, <1>3, <1>4 DEF IInv

LEMMA DeliverInv ==
    ASSUME IInv, NEW r, ChoiceDeliver(r) PROVE IInv'
<1>1. /\ r \in NightResult /\ DOMAIN r.sims = DOMAIN schedules /\ results' = Append(results, r)
      /\ UNCHANGED <<schedules, tallied, adaptive, actual, strat_accum, optimal>>
  BY DEF ChoiceDeliver
<1>2. results \in Seq(NightResult) BY DEF IInv, Totals
<1>3. results' \in Seq(NightResult) BY <1>1, <1>2
<1>4. \A i \in 1..Len(results') : DOMAIN results'[i].sims = DOMAIN schedules'
  <2> SUFFICES ASSUME NEW i \in 1..Len(results')
               PROVE  DOMAIN results'[i].sims = DOMAIN schedules' OBVIOUS
  <2>1. i \in 1..Len(results) \/ i = Len(results) + 1 BY <1>1, <1>2
  <2>2. i \in 1..Len(results) => results'[i] = results[i] BY <1>1, <1>2
  <2>3. i = Len(results) + 1 => results'[i] = r BY <1>1, <1>2
  <2> QED BY <1>1, <2>1, <2>2, <2>3 DEF IInv, Totals
<1>5. Totals' BY <1>1, <1>3, <1>4 DEF IInv, Totals
<1>6. TargetsMonotone' /\ TotalsOrdered' BY <1>1 DEF IInv, TargetsMonotone, TotalsOrdered
<1> QED BY <1>5, <1>6 DEF IInv

\* What one night adds to the totals.
LEMMA AddTyped ==
    ASSUME NEW total \in Total, NEW result \in SimResult, NEW target \in Int
    PROVE  /\ Add(total, result, target) \in Total
           /\ Add(total, result, target).cost = total.cost + result.cost
           /\ Add(total, result, target).nights = total.nights + Met(result, target)
           /\ Met(result, target) \in {0, 1}
BY DEF Add, Met, Total, SimResult

LEMMA TallyInv == IInv /\ ChoiceTally => IInv'
<1> SUFFICES ASSUME IInv, ChoiceTally PROVE IInv' OBVIOUS
<1> DEFINE r == results[tallied + 1]
<1>1. tallied \in Nat /\ tallied < Len(results) /\ results \in Seq(NightResult)
  BY DEF IInv, Totals, ChoiceTally
<1>2. tallied + 1 \in 1..Len(results) BY <1>1
<1>3. r \in NightResult /\ DOMAIN r.sims = DOMAIN schedules BY <1>1, <1>2 DEF IInv, Totals
<1>4. TallyNight(r) BY DEF ChoiceTally
<1> HIDE DEF r
<1>5. CASE r.sims = <<>>
  <2>1. UNCHANGED <<schedules, results, tallied, adaptive, actual, strat_accum, optimal>>
    BY <1>4, <1>5 DEF TallyNight
  <2> QED BY <2>1 DEF IInv, Totals, TargetsMonotone, TotalsOrdered
<1>6. CASE r.sims # <<>>
  <2> DEFINE Best(target) == Of(r, Chosen(r, target))
  <2>1. /\ tallied' = tallied + 1 /\ UNCHANGED <<schedules, results>>
        /\ adaptive' = [target \in TARGET_SWEEP |-> Add(adaptive[target], Best(target), target)]
        /\ actual' = Add(actual, r.actual, TARGET_TEMP)
        /\ strat_accum' = [i \in DOMAIN strat_accum |-> Add(strat_accum[i], r.sims[i], TARGET_TEMP)]
        /\ optimal' = optimal + Of(r, Summarised(r)).cost
    BY <1>4, <1>6 DEF TallyNight
  <2>2. \A target \in TARGET_SWEEP : target \in Int /\ adaptive[target] \in Total
    BY Targets DEF IInv, Totals
  <2>3. \A target \in TARGET_SWEEP : Best(target) \in SimResult BY <2>2, <1>3, ChosenWell
  <2>4. r.actual \in SimResult /\ actual \in Total BY <1>3, SimsTyped DEF IInv, Totals
  <2>5. \A i \in DOMAIN strat_accum : strat_accum[i] \in Total /\ r.sims[i] \in SimResult
    BY <1>3, SimsTyped DEF IInv, Totals
  <2>6. \A target \in TARGET_SWEEP :
            /\ adaptive'[target] \in Total
            /\ adaptive'[target].cost = adaptive[target].cost + Best(target).cost
            /\ adaptive'[target].nights = adaptive[target].nights + Met(Best(target), target)
    BY <2>1, <2>2, <2>3, AddTyped
  <2>7. actual' \in Total /\ actual'.cost = actual.cost + r.actual.cost
    BY <2>1, <2>4, Targets, AddTyped
  <2>8. \A i \in DOMAIN strat_accum' :
            /\ i \in DOMAIN strat_accum /\ strat_accum'[i] \in Total
            /\ strat_accum'[i].cost = strat_accum[i].cost + r.sims[i].cost
            /\ strat_accum'[i].nights = strat_accum[i].nights + Met(r.sims[i], TARGET_TEMP)
            /\ Met(r.sims[i], TARGET_TEMP) \in {0, 1}
    BY <2>1, <2>5, Targets, AddTyped
  <2>9. Of(r, Summarised(r)).cost \in Nat /\ Of(r, Summarised(r)).cost <= Best(TARGET_TEMP).cost
    BY <1>3, <1>6, Targets, SummarisedWell
  <2> HIDE DEF Best
  <2>10. Totals'
    <3>1. tallied' \in Nat /\ tallied' # 0 /\ optimal' \in Nat BY <2>1, <2>9, <1>1 DEF IInv, Totals
    <3>2. adaptive' \in [TARGET_SWEEP -> Total] BY <2>1, <2>6
    <3>3. \A i \in DOMAIN strat_accum' : strat_accum'[i].nights <= tallied'
      <4> SUFFICES ASSUME NEW i \in DOMAIN strat_accum' PROVE strat_accum'[i].nights <= tallied'
        OBVIOUS
      <4>1. strat_accum[i].nights <= tallied /\ strat_accum[i].nights \in Nat
        BY <2>8, <2>5 DEF IInv, Totals, Total
      <4> QED BY <4>1, <2>1, <2>8, <1>1
    <3>4. DOMAIN strat_accum' = DOMAIN schedules' BY <2>1 DEF IInv, Totals
    <3> QED BY <2>1, <2>7, <2>8, <3>1, <3>2, <3>3, <3>4 DEF IInv, Totals
  <2>11. TargetsMonotone'
    <3> SUFFICES ASSUME NEW a \in TARGET_SWEEP, NEW b \in TARGET_SWEEP, a <= b
                 PROVE  /\ adaptive'[a].cost <= adaptive'[b].cost
                        /\ adaptive'[a].nights >= adaptive'[b].nights
      BY DEF TargetsMonotone
    <3>1. adaptive[a].cost <= adaptive[b].cost /\ adaptive[a].nights >= adaptive[b].nights
      BY DEF IInv, TargetsMonotone
    <3>2. Best(a).cost <= Best(b).cost /\ Met(Best(a), a) >= Met(Best(b), b)
      BY <1>3, <2>2, ChosenMonotone DEF Best
    <3>3. \A t \in {a, b} : /\ adaptive[t].cost \in Nat /\ adaptive[t].nights \in Nat
                            /\ Best(t).cost \in Nat /\ Met(Best(t), t) \in Nat
      BY <2>2, <2>3 DEF Total, SimResult, Met
    <3> QED BY <2>6, <3>1, <3>2, <3>3
  <2>12. TotalsOrdered'
    <3>1. optimal' <= adaptive'[TARGET_TEMP].cost
      <4>1. optimal <= adaptive[TARGET_TEMP].cost /\ optimal \in Nat
            /\ adaptive[TARGET_TEMP].cost \in Nat /\ Best(TARGET_TEMP).cost \in Nat
        BY Targets, <2>2, <2>3 DEF IInv, Totals, TotalsOrdered, Total, SimResult
      <4> QED BY <4>1, <2>1, <2>6, <2>9, Targets
    <3>2. ASSUME NEW target \in TARGET_SWEEP PROVE adaptive'[target].cost <= actual'.cost
      <4>1. adaptive[target].cost <= actual.cost BY DEF IInv, TotalsOrdered
      <4>2. Best(target).cost <= r.actual.cost BY <1>3, <2>2, ChosenWell DEF Best
      <4>3. /\ adaptive[target].cost \in Nat /\ Best(target).cost \in Nat
            /\ actual.cost \in Nat /\ r.actual.cost \in Nat
        BY <2>2, <2>3, <2>4 DEF Total, SimResult
      <4> QED BY <4>1, <4>2, <4>3, <2>6, <2>7
    <3>3. ASSUME NEW i \in DOMAIN strat_accum', strat_accum'[i].nights = tallied'
          PROVE  adaptive'[TARGET_TEMP].cost <= strat_accum'[i].cost
      <4>1. /\ i \in DOMAIN strat_accum /\ strat_accum[i].nights <= tallied
            /\ strat_accum[i].nights \in Nat /\ strat_accum[i].cost \in Nat
            /\ r.sims[i].cost \in Nat
        BY <2>8, <2>5 DEF IInv, Totals, Total, SimResult
      <4>2. strat_accum[i].nights = tallied /\ Met(r.sims[i], TARGET_TEMP) = 1
        BY <4>1, <3>3, <2>1, <2>8, <1>1
      <4>3. adaptive[TARGET_TEMP].cost <= strat_accum[i].cost BY <4>1, <4>2 DEF IInv, TotalsOrdered
      <4>4. i \in Feasible(r, TARGET_TEMP)
        BY <4>1, <4>2, <1>3 DEF Feasible, Met, IInv, Totals
      <4>5. Best(TARGET_TEMP).cost <= r.sims[i].cost BY <4>4, <1>3, Targets, ChosenWell DEF Best
      <4>6. adaptive[TARGET_TEMP].cost \in Nat /\ Best(TARGET_TEMP).cost \in Nat
        BY Targets, <2>2, <2>3 DEF Total, SimResult
      <4> QED BY <4>1, <4>3, <4>5, <4>6, <2>6, <2>8, Targets
    <3> QED BY <3>1, <3>2, <3>3 DEF TotalsOrdered
  <2> QED BY <2>10, <2>11, <2>12 DEF IInv
<1> QED BY <1>5, <1>6

LEMMA InductiveInvariant == ChoiceSpec => []IInv
<1>1. ChoiceInit => IInv BY InitInv
<1>2. IInv /\ [ChoiceNext]_choiceVars => IInv'
  <2> SUFFICES ASSUME IInv, [ChoiceNext]_choiceVars PROVE IInv' OBVIOUS
  <2>1. CASE ChoiceBegin BY <2>1, BeginInv
  <2>2. CASE schedules' \in Seq(Strategy) /\ ChoiceSchedules(schedules') BY <2>2, SchedulesInv
  <2>3. CASE results' # <<>> /\ ChoiceDeliver(results'[Len(results')]) BY <2>3, DeliverInv
  <2>4. CASE ChoiceTally BY <2>4, TallyInv
  <2>5. CASE ChoiceReport \/ ChoiceFail \/ UNCHANGED choiceVars
    <3>1. UNCHANGED <<schedules, results, tallied, adaptive, actual, strat_accum, optimal>>
      BY <2>5 DEF ChoiceReport, ChoiceFail, choiceVars
    <3> QED BY <3>1 DEF IInv, Totals, TargetsMonotone, TotalsOrdered
  <2> QED BY <2>1, <2>2, <2>3, <2>4, <2>5 DEF ChoiceNext
<1> QED BY <1>1, <1>2, PTL DEF ChoiceSpec

(* Relaxing the target never costs more and never loses a night: the       *)
(* subtraction of the key insight never wraps.                             *)
THEOREM SweepIsMonotone == ChoiceSpec => []TargetsMonotone
BY InductiveInvariant, PTL DEF IInv

(* The three totals that are printed are ordered, and no single strategy   *)
(* that always met the target is cheaper than the adaptive one.            *)
THEOREM PrintedTotalsOrdered == ChoiceSpec => []TotalsOrdered
BY InductiveInvariant, PTL DEF IInv

-----------------------------------------------------------------------------
(* The strategy breakdown.                                                 *)

NightsOf == [i \in DOMAIN picks |-> picks[i].nights]
SavedOf == [i \in DOMAIN picks |-> picks[i].saved]

PicksTyped ==
    /\ schedules \in Seq(Strategy)
    /\ DOMAIN picks \subseteq 0..Len(schedules)
    /\ schedules # <<>> => DOMAIN picks = {0} \union DOMAIN schedules
    /\ \A i \in DOMAIN picks : picks[i] \in [nights: Int, saved: Int]

Partitions ==
    /\ breakdown \in [Counted -> Int]
    /\ breakdown["off"] + breakdown["continuous"] + breakdown["actual"] = tallied
    /\ breakdown["norm"] + breakdown["eco"] = breakdown["off"] + breakdown["continuous"]
    /\ breakdown["heat_first"] + breakdown["dhw_first"] = breakdown["off"]

\* The counts and savings of the strategies add up in every state, those of a run that
\* failed half way too.
PicksInv ==
    /\ PicksTyped /\ Partitions
    /\ Summed(NightsOf, Len(schedules)) = tallied
    /\ Summed(SavedOf, Len(schedules)) = actual.cost - adaptive[Recommended].cost
    /\ tallied = 0 => actual.cost - adaptive[Recommended].cost = 0

\* Before the first night.
NothingYet ==
    /\ tallied = 0 /\ Partitions
    /\ schedules \in Seq(Strategy)
    /\ actual.cost - adaptive[Recommended].cost = 0
    /\ \/ schedules = <<>> /\ picks = <<>>
       \/ picks = [i \in {0} \union DOMAIN schedules |-> [nights |-> 0, saved |-> 0]]

LEMMA NothingAddsUp == NothingYet => PicksInv
<1> SUFFICES ASSUME NothingYet PROVE PicksInv OBVIOUS
<1>1. Len(schedules) \in Nat /\ DOMAIN schedules = 1..Len(schedules) BY DEF NothingYet
<1>2. \A i \in DOMAIN picks : picks[i] = [nights |-> 0, saved |-> 0] BY DEF NothingYet
<1>3. DOMAIN picks = {} \/ DOMAIN picks = {0} \union DOMAIN schedules BY DEF NothingYet
<1>4. PicksTyped BY <1>1, <1>2, <1>3 DEF PicksTyped, NothingYet
<1>5. \A i \in 0..Len(schedules) : Term(NightsOf, i) = 0 /\ Term(SavedOf, i) = 0
  BY <1>2 DEF Term, NightsOf, SavedOf
<1>6. Summed(NightsOf, Len(schedules)) = 0 /\ Summed(SavedOf, Len(schedules)) = 0
  BY <1>1, <1>5, SummedZero
<1> QED BY <1>4, <1>6 DEF NothingYet, PicksInv

\* What the tally of a night makes of the counts of one strategy.
Picked(r, i, d) ==
    /\ DOMAIN picks' = DOMAIN picks
    /\ \A j \in DOMAIN picks :
        /\ picks'[j] \in [nights: Int, saved: Int]
        /\ picks'[j].nights = picks[j].nights + IF j = i THEN 1 ELSE 0
        /\ picks'[j].saved = picks[j].saved + IF j = i THEN d ELSE 0

LEMMA PickCounts ==
    ASSUME PicksTyped, NEW r, NEW d \in Int,
           d = r.actual.cost - Of(r, Chosen(r, Recommended)).cost,
           r.actual.cost \in Int, Of(r, Chosen(r, Recommended)).cost \in Int,
           Chosen(r, Recommended) \in DOMAIN picks, picks' = Pick(r)
    PROVE  Picked(r, Chosen(r, Recommended), d)
<1> DEFINE i == Chosen(r, Recommended)
           c == Of(r, i).cost
           m == r.actual.cost
<1>1. picks' = [picks EXCEPT ![i].nights = @ + 1, ![i].saved = @ + m - c] BY DEF Pick
<1>2. \A j \in DOMAIN picks : picks[j] \in [nights: Int, saved: Int] BY DEF PicksTyped
<1> HIDE DEF i, c, m
<1>3. DOMAIN picks' = DOMAIN picks BY <1>1
<1>4. ASSUME NEW j \in DOMAIN picks, j # i
      PROVE  picks'[j] = picks[j] BY <1>1, <1>4
<1>5. i \in DOMAIN picks /\ m \in Int /\ c \in Int /\ d = m - c BY DEF i, m, c
<1>6. picks'[i] = [picks[i] EXCEPT !.nights = @ + 1, !.saved = @ + m - c] BY <1>1, <1>5
<1>7. /\ picks'[i] \in [nights: Int, saved: Int]
      /\ picks'[i].nights = picks[i].nights + 1 /\ picks'[i].saved = picks[i].saved + d
  <2>1. PICK p \in [nights: Int, saved: Int] : p = picks[i] BY <1>2, <1>5
  <2>2. picks'[i] = [p EXCEPT !.nights = @ + 1, !.saved = @ + m - c] BY <1>6, <2>1
  <2>3. picks'[i] = [nights |-> p.nights + 1, saved |-> p.saved + m - c] BY <2>1, <2>2
  <2>4. p.saved + m - c = p.saved + d /\ p.saved + d \in Int /\ p.nights + 1 \in Int
    BY <1>5, <2>1
  <2> QED BY <2>1, <2>3, <2>4
<1>8. ASSUME NEW j \in DOMAIN picks
      PROVE  /\ picks'[j] \in [nights: Int, saved: Int]
             /\ picks'[j].nights = picks[j].nights + IF j = i THEN 1 ELSE 0
             /\ picks'[j].saved = picks[j].saved + IF j = i THEN d ELSE 0
  BY <1>2, <1>4, <1>7
<1>9. Picked(r, i, d) BY <1>3, <1>8 DEF Picked
<1> QED BY <1>9 DEF i

LEMMA KindsArePartitioned ==
    ASSUME NEW i, i = 0 \/ (schedules[i].shape \in Shape /\ schedules[i].mode \in Mode),
           NEW one, one = [c \in Counted |-> IF c \in Kinds(i) THEN 1 ELSE 0]
    PROVE  /\ one["off"] + one["continuous"] + one["actual"] = 1
           /\ one["norm"] + one["eco"] = one["off"] + one["continuous"]
           /\ one["heat_first"] + one["dhw_first"] = one["off"]
           /\ \A c \in Counted : one[c] \in {0, 1}
BY DEF Kinds, Shape, Mode, Counted

LEMMA PicksTally == IInv /\ PicksInv /\ ChoiceTally => PicksInv'
<1> SUFFICES ASSUME IInv, PicksInv, ChoiceTally PROVE PicksInv' OBVIOUS
<1> DEFINE r == results[tallied + 1]
           i == Chosen(r, Recommended)
           d == r.actual.cost - Of(r, i).cost
<1>1. tallied \in Nat /\ tallied < Len(results) /\ results \in Seq(NightResult)
  BY DEF IInv, Totals, ChoiceTally
<1>2. tallied + 1 \in 1..Len(results) BY <1>1
<1>3. r \in NightResult /\ DOMAIN r.sims = DOMAIN schedules BY <1>1, <1>2 DEF IInv, Totals
<1>4. TallyNight(r) BY DEF ChoiceTally
<1>5. /\ schedules \in Seq(Strategy) /\ Len(schedules) \in Nat
      /\ DOMAIN schedules = 1..Len(schedules)
  BY DEF PicksInv, PicksTyped
<1> HIDE DEF r
<1>6. CASE r.sims = <<>>
  <2>1. UNCHANGED <<schedules, tallied, adaptive, actual, picks, breakdown>>
    BY <1>4, <1>6 DEF TallyNight
  <2> QED BY <2>1 DEF PicksInv, PicksTyped, Partitions, NightsOf, SavedOf
<1>7. CASE r.sims # <<>>
  <2>1. Recommended \in TARGET_SWEEP /\ Recommended \in Int BY NightChoiceAssumption
  <2>2. /\ i \in {0} \union DOMAIN schedules
        /\ Of(r, i) \in SimResult /\ r.actual \in SimResult
    BY <1>3, <2>1, ChosenWell, SimsTyped DEF Feasible
  <2>3. Of(r, i).cost \in Nat /\ r.actual.cost \in Nat /\ d \in Int BY <2>2 DEF SimResult
  <2>4. /\ tallied' = tallied + 1 /\ UNCHANGED schedules
        /\ adaptive' = [target \in TARGET_SWEEP |->
                            Add(adaptive[target], Of(r, Chosen(r, target)), target)]
        /\ actual' = Add(actual, r.actual, TARGET_TEMP)
        /\ picks' = Pick(r)
        /\ breakdown' = [c \in Counted |-> breakdown[c] + IF c \in Kinds(i) THEN 1 ELSE 0]
    BY <1>4, <1>7 DEF TallyNight
  <2>5. schedules # <<>>
    <3>1. CASE schedules = <<>>
      <4>1. Len(r.sims) \in Nat /\ DOMAIN r.sims = 1..Len(r.sims) BY <1>3, SimsTyped
      <4>4. DOMAIN r.sims = {} BY <1>3, <3>1
      <4>5. 1..Len(r.sims) = {} BY <4>1, <4>4
      <4>6. \A n \in Nat : 1..n = {} => n = 0 OBVIOUS
      <4>2. Len(r.sims) = 0 BY <4>1, <4>5, <4>6
      <4>3. r.sims \in Seq(SimResult) BY <1>3 DEF NightResult
      <4> QED BY <4>2, <4>3, <1>7
    <3> QED BY <3>1
  <2>6. PicksTyped /\ DOMAIN picks = {0} \union DOMAIN schedules
    BY <2>5 DEF PicksInv, PicksTyped
  <2>7. i \in DOMAIN picks /\ i \in 0..Len(schedules) BY <1>5, <2>2, <2>6
  <2>8. Picked(r, i, d)
    <3>1. r.actual.cost \in Int /\ Of(r, i).cost \in Int BY <2>3
    <3> QED BY <2>3, <2>4, <2>6, <2>7, <3>1, PickCounts
  <2> HIDE DEF i, d
  <2>9. PicksTyped' BY <2>4, <2>6, <2>8 DEF PicksTyped, Picked
  <2>10. \A j \in 0..Len(schedules) : Term(NightsOf, j) \in Int /\ Term(SavedOf, j) \in Int
    BY <2>6 DEF PicksTyped, Term, NightsOf, SavedOf
  <2>11. PICK counted, saved : counted = NightsOf' /\ saved = SavedOf' OBVIOUS
  <2>12. \A j \in 0..Len(schedules) :
            /\ Term(counted, j) = Term(NightsOf, j) + IF j = i THEN 1 ELSE 0
            /\ Term(saved, j) = Term(SavedOf, j) + IF j = i THEN d ELSE 0
    BY <2>3, <2>7, <2>8, <2>10, <2>11 DEF Picked, Term, NightsOf, SavedOf
  <2>13. Summed(counted, Len(schedules)) = Summed(NightsOf, Len(schedules)) + 1
    <3>1. PICK once \in Int : once = 1 OBVIOUS
    <3>2. \A j \in 0..Len(schedules) :
                Term(counted, j) = Term(NightsOf, j) + IF j = i THEN once ELSE 0 BY <2>12, <3>1
    <3>3. \A j \in 0..Len(schedules) : Term(NightsOf, j) \in Int BY <2>10
    <3>4. Summed(counted, Len(schedules)) = Summed(NightsOf, Len(schedules)) + once
      BY <1>5, <2>7, <3>2, <3>3, SummedChange
    <3> QED BY <3>1, <3>4
  <2>14. Summed(saved, Len(schedules)) = Summed(SavedOf, Len(schedules)) + d
    BY <1>5, <2>3, <2>7, <2>10, <2>12, SummedChange
  <2>15. Summed(NightsOf, Len(schedules))' = Summed(counted, Len(schedules))
         /\ Summed(SavedOf, Len(schedules))' = Summed(saved, Len(schedules))
    BY <2>4, <2>11
  <2>16. /\ actual.cost \in Nat /\ actual'.cost = actual.cost + r.actual.cost
         /\ adaptive[Recommended].cost \in Nat
         /\ adaptive'[Recommended].cost = adaptive[Recommended].cost + Of(r, i).cost
    <3>1. actual \in Total /\ adaptive[Recommended] \in Total BY <2>1 DEF IInv, Totals
    <3> QED BY <2>1, <2>2, <2>4, <3>1 DEF Add, Total, i
  <2>17. /\ Summed(NightsOf, Len(schedules))' = tallied'
         /\ Summed(SavedOf, Len(schedules))' = actual'.cost - adaptive'[Recommended].cost
    BY <2>3, <2>4, <2>13, <2>14, <2>15, <2>16 DEF PicksInv, d
  <2>18. Partitions'
    <3>1. PICK one : one = [c \in Counted |-> IF c \in Kinds(i) THEN 1 ELSE 0] OBVIOUS
    <3>2. i = 0 \/ (schedules[i].shape \in Shape /\ schedules[i].mode \in Mode)
      <4>1. ASSUME i # 0 PROVE schedules[i] \in Strategy BY <1>5, <2>2, <4>1
      <4> QED BY <4>1 DEF Strategy
    <3>3. /\ one["off"] + one["continuous"] + one["actual"] = 1
          /\ one["norm"] + one["eco"] = one["off"] + one["continuous"]
          /\ one["heat_first"] + one["dhw_first"] = one["off"]
          /\ \A c \in Counted : one[c] \in {0, 1}
      BY <3>1, <3>2, KindsArePartitioned
    <3>4. \A c \in Counted : breakdown'[c] = breakdown[c] + one[c] /\ breakdown[c] \in Int
      BY <2>4, <3>1 DEF PicksInv, Partitions
    <3>5. breakdown' \in [Counted -> Int] BY <2>4, <3>1, <3>3, <3>4
    <3>6. /\ breakdown'["off"] = breakdown["off"] + one["off"]
          /\ breakdown'["continuous"] = breakdown["continuous"] + one["continuous"]
          /\ breakdown'["actual"] = breakdown["actual"] + one["actual"]
          /\ breakdown'["norm"] = breakdown["norm"] + one["norm"]
          /\ breakdown'["eco"] = breakdown["eco"] + one["eco"]
          /\ breakdown'["heat_first"] = breakdown["heat_first"] + one["heat_first"]
          /\ breakdown'["dhw_first"] = breakdown["dhw_first"] + one["dhw_first"]
      BY <3>4 DEF Counted
    <3>10. \A c \in Counted : breakdown[c] \in Int /\ one[c] \in Int BY <3>3, <3>4
    <3>7. /\ breakdown["off"] \in Int /\ breakdown["continuous"] \in Int
          /\ breakdown["actual"] \in Int /\ breakdown["norm"] \in Int
          /\ breakdown["eco"] \in Int /\ breakdown["heat_first"] \in Int
          /\ breakdown["dhw_first"] \in Int
          /\ one["off"] \in Int /\ one["continuous"] \in Int
          /\ one["actual"] \in Int /\ one["norm"] \in Int
          /\ one["eco"] \in Int /\ one["heat_first"] \in Int
          /\ one["dhw_first"] \in Int
      BY <3>10 DEF Counted
    <3>8. /\ breakdown["off"] + breakdown["continuous"] + breakdown["actual"] = tallied
          /\ breakdown["norm"] + breakdown["eco"] = breakdown["off"] + breakdown["continuous"]
          /\ breakdown["heat_first"] + breakdown["dhw_first"] = breakdown["off"]
      BY DEF PicksInv, Partitions
    <3>9. /\ breakdown'["off"] + breakdown'["continuous"] + breakdown'["actual"] = tallied'
          /\ breakdown'["norm"] + breakdown'["eco"] = breakdown'["off"] + breakdown'["continuous"]
          /\ breakdown'["heat_first"] + breakdown'["dhw_first"] = breakdown'["off"]
      <4>1. \A a, b, c, x, y, z \in Int : (a + x) + (b + y) + (c + z) = (a + b + c) + (x + y + z)
        OBVIOUS
      <4>2. \A a, b, x, y \in Int : (a + x) + (b + y) = (a + b) + (x + y) OBVIOUS
      <4>3. /\ breakdown'["off"] + breakdown'["continuous"] + breakdown'["actual"] = tallied + 1
        BY <3>3, <3>6, <3>7, <3>8, <4>1
      <4>4. breakdown'["norm"] + breakdown'["eco"] = breakdown'["off"] + breakdown'["continuous"]
        <5>1. breakdown'["norm"] + breakdown'["eco"]
                = (breakdown["norm"] + breakdown["eco"]) + (one["norm"] + one["eco"])
          BY <3>6, <3>7, <4>2
        <5>2. breakdown'["off"] + breakdown'["continuous"]
                = (breakdown["off"] + breakdown["continuous"]) + (one["off"] + one["continuous"])
          BY <3>6, <3>7, <4>2
        <5> QED BY <3>3, <3>8, <5>1, <5>2
      <4>5. breakdown'["heat_first"] + breakdown'["dhw_first"] = breakdown'["off"]
        BY <3>3, <3>6, <3>7, <3>8, <4>2
      <4> QED BY <2>4, <4>3, <4>4, <4>5
    <3> QED BY <3>5, <3>9 DEF Partitions
  <2>19. tallied' # 0 BY <1>1, <2>4
  <2> QED BY <2>9, <2>17, <2>18, <2>19 DEF PicksInv
<1> QED BY <1>6, <1>7

(* Every night is in one strategy's count and one kind of each partition,  *)
(* and the savings of the strategies make up the difference between the    *)
(* measured total and that of the target they were chosen at.              *)
THEOREM PicksAgree == ChoiceSpec => []PicksAddUp
<1>1. ChoiceInit => PicksInv
  <2> SUFFICES ASSUME ChoiceInit PROVE PicksInv OBVIOUS
  <2>2. Partitions BY DEF ChoiceInit, Partitions, Counted
  <2>1. NothingYet BY <2>2, NightChoiceAssumption DEF ChoiceInit, NothingYet, Zero
  <2> QED BY <2>1, NothingAddsUp
<1>2. IInv /\ PicksInv /\ [ChoiceNext]_choiceVars => PicksInv'
  <2> SUFFICES ASSUME IInv, PicksInv, [ChoiceNext]_choiceVars PROVE PicksInv' OBVIOUS
  <2>1. NothingYet' => PicksInv' BY NothingAddsUp, PTL
  <2>2. CASE ChoiceBegin
    <3>2. Partitions' BY <2>2 DEF ChoiceBegin, Partitions, Counted
    <3>1. NothingYet' BY <2>2, <3>2, NightChoiceAssumption DEF ChoiceBegin, NothingYet, Zero
    <3> QED BY <2>1, <3>1
  <2>3. CASE schedules' \in Seq(Strategy) /\ ChoiceSchedules(schedules')
    <3>1. /\ tallied = 0 /\ results = <<>> /\ schedules' \in Seq(Strategy)
          /\ picks' = [i \in {0} \union DOMAIN schedules' |-> [nights |-> 0, saved |-> 0]]
          /\ UNCHANGED <<tallied, actual, adaptive, breakdown>>
      BY <2>3 DEF ChoiceSchedules
    <3>2. NothingYet' BY <3>1 DEF NothingYet, PicksInv, Partitions
    <3> QED BY <2>1, <3>2
  <2>4. CASE results' # <<>> /\ ChoiceDeliver(results'[Len(results')])
    <3>1. UNCHANGED <<schedules, tallied, adaptive, actual, picks, breakdown>>
      BY <2>4 DEF ChoiceDeliver
    <3> QED BY <3>1 DEF PicksInv, PicksTyped, Partitions, NightsOf, SavedOf
  <2>5. CASE ChoiceTally BY <2>5, PicksTally
  <2>6. CASE ChoiceReport \/ ChoiceFail \/ UNCHANGED choiceVars
    <3>1. UNCHANGED <<schedules, tallied, adaptive, actual, picks, breakdown>>
      BY <2>6 DEF ChoiceReport, ChoiceFail, choiceVars
    <3> QED BY <3>1 DEF PicksInv, PicksTyped, Partitions, NightsOf, SavedOf
  <2> QED BY <2>2, <2>3, <2>4, <2>5, <2>6 DEF ChoiceNext
<1>3. PicksInv => PicksAddUp BY DEF PicksInv, PicksAddUp, Partitions, NightsOf, SavedOf
<1> QED BY <1>1, <1>2, <1>3, InductiveInvariant, PTL DEF ChoiceSpec

-----------------------------------------------------------------------------
(* Two frames of the same rows.                                            *)

VARIABLES
    long, short,    \* what the machine remembers in either frame
    settled         \* a decisive row was among those they share

frames == <<long, short, settled>>

FramesInit == long \in Memory /\ short \in Memory /\ settled = FALSE

\* Both frames go on to the next row they share.
NextRow ==
    \E r \in Reading :
        /\ long' = Classified(long, r) /\ short' = Classified(short, r)
        /\ settled' = (settled \/ Decisive(r))

Frames == FramesInit /\ [][NextRow]_frames

\* The same state, and the same state to return to after a defrost.
Agree(m, n) == m.current = n.current /\ (m.current = "defrost" => m.pre = n.pre)

AgreeOnceSettled ==
    /\ long \in Memory /\ short \in Memory /\ settled \in BOOLEAN
    /\ settled => Agree(long, short)

LabelledAlike == settled => long.current = short.current

-----------------------------------------------------------------------------
(* The states of a frame.                                                  *)

\* The machine never leaves its states, whatever the row (classify_states).
LEMMA ClassifiedInMemory ==
    ASSUME NEW m \in Memory, NEW r
    PROVE  Classified(m, r) \in Memory
<1>1. Interrupted(m) \in {"heating", "dhw"}
  BY DEF Interrupted, Memory, HpState
<1>2. ByFlow(m, r.flow) \in HpState
  BY <1>1 DEF ByFlow, HpState
<1>3. CASE ~Running(r)
  BY <1>3 DEF Classified, Memory, HpState
<1>4. CASE Running(r) /\ Reversed(r)
  BY <1>1, <1>4 DEF Classified, Memory, HpState
<1>5. CASE Running(r) /\ ~Reversed(r)
  BY <1>2, <1>5 DEF Classified, Memory
<1> QED
  BY <1>3, <1>4, <1>5

\* A decisive row is called the same whatever was before it, and is no defrost.
LEMMA DecisiveForgets ==
    ASSUME NEW m \in Memory, NEW n \in Memory, NEW r, r.flow \in Int, Decisive(r)
    PROVE  Agree(Classified(m, r), Classified(n, r))
<1>1. CASE ~Running(r)
  BY <1>1 DEF Classified, Agree, Memory
<1>2. CASE Running(r) /\ ~Reversed(r) /\ (r.flow >= EnterDhw \/ r.flow < ExitDhw)
  <2>1. /\ ByFlow(m, r.flow) = ByFlow(n, r.flow)
        /\ ByFlow(m, r.flow) # "defrost"
    BY <1>2, HpStatesAssumption DEF ByFlow
  <2> QED
    BY <1>2, <2>1 DEF Classified, Agree, Memory
<1> QED
  BY <1>1, <1>2 DEF Decisive

\* Machines that agree go on to agree, through defrosts too.
LEMMA AgreementKept ==
    ASSUME NEW m \in Memory, NEW n \in Memory, NEW r, Agree(m, n)
    PROVE  Agree(Classified(m, r), Classified(n, r))
<1>1. Interrupted(m) = Interrupted(n)
  BY DEF Agree, Interrupted, Memory, HpState
<1>2. ByFlow(m, r.flow) = ByFlow(n, r.flow) /\ ByFlow(m, r.flow) # "defrost"
  BY <1>1 DEF ByFlow, Interrupted, Memory, HpState
<1>3. CASE ~Running(r)
  BY <1>3 DEF Classified, Agree, Memory
<1>4. CASE Running(r) /\ Reversed(r)
  BY <1>1, <1>4 DEF Classified, Agree, Memory
<1>5. CASE Running(r) /\ ~Reversed(r)
  BY <1>2, <1>5 DEF Classified, Agree, Memory
<1> QED
  BY <1>3, <1>4, <1>5

\* Frames that start anywhere label every later shared row alike once one of the
\* shared rows was decisive: how far back a frame was loaded does not matter.
THEOREM FrameStartNeverMatters == Frames => []LabelledAlike
<1>1. FramesInit => AgreeOnceSettled
  BY DEF FramesInit, AgreeOnceSettled
<1>2. AgreeOnceSettled /\ [NextRow]_frames => AgreeOnceSettled'
  <2> SUFFICES ASSUME AgreeOnceSettled, [NextRow]_frames PROVE AgreeOnceSettled'
    OBVIOUS
  <2>1. CASE NextRow
    <3>1. PICK r \in Reading :
            /\ long' = Classified(long, r) /\ short' = Classified(short, r)
            /\ settled' = (settled \/ Decisive(r))
      BY <2>1 DEF NextRow
    <3>2. long' \in Memory /\ short' \in Memory /\ settled' \in BOOLEAN
      BY <3>1, ClassifiedInMemory DEF AgreeOnceSettled
    <3>3. ASSUME settled' PROVE Agree(long', short')
      <4>1. CASE settled
        BY <3>1, <4>1, AgreementKept DEF AgreeOnceSettled
      <4>2. CASE Decisive(r)
        BY <3>1, <4>2, DecisiveForgets DEF AgreeOnceSettled, Reading
      <4> QED
        BY <3>1, <3>3, <4>1, <4>2
    <3> QED
      BY <3>2, <3>3 DEF AgreeOnceSettled, Agree
  <2>2. CASE UNCHANGED frames
    BY <2>2 DEF AgreeOnceSettled, Agree, frames
  <2> QED
    BY <2>1, <2>2
<1>3. AgreeOnceSettled => LabelledAlike
  BY DEF AgreeOnceSettled, LabelledAlike, Agree
<1> QED
  BY <1>1, <1>2, <1>3, PTL DEF Frames

-----------------------------------------------------------------------------
(* A frame and what came before it.                                        *)

\* What is remembered after each instant of a frame.
Remembers(rows, before, memory) ==
    \A t \in 0..LastOffset :
        memory[t] = LET m == IF t = 0 THEN before ELSE memory[t - 1]
                    IN  IF t \in DOMAIN rows THEN Classified(m, rows[t]) ELSE m

LEMMA LastIsNat == LastOffset \in Nat BY OvernightAssumption

LEMMA MemoryOfFrame ==
    ASSUME NEW rows, NEW before \in Memory
    PROVE  \E memory \in [0..LastOffset -> Memory] :
                /\ Remembers(rows, before, memory)
                /\ ClassifyStates(rows, before, LastOffset)
                        = [t \in DOMAIN rows |-> memory[t].current]
<1> DEFINE Go(t, m) == IF t \in DOMAIN rows THEN Classified(m, rows[t]) ELSE m
           step == [t \in 1..LastOffset |-> [m \in Memory |-> Go(t, m)]]
           IsMemory(g) == g = [t \in 0..LastOffset |->
                LET m == IF t = 0 THEN before ELSE g[t - 1]
                IN  IF t \in DOMAIN rows THEN Classified(m, rows[t]) ELSE m]
           memory == CHOOSE g : IsMemory(g)
<1>1. \A t, m : m \in Memory => Go(t, m) \in Memory BY ClassifiedInMemory
<1> HIDE DEF Go
<1>2. step \in [1..LastOffset -> [Memory -> Memory]] BY <1>1
<1>3. \A t \in 1..LastOffset, m \in Memory : step[t][m] = Go(t, m) OBVIOUS
<1> HIDE DEF step
<1>4. Recursive(LastOffset, Memory, Go(0, before), step)
  BY <1>1, <1>2, LastIsNat, RecursionExists
<1>5. PICK g \in [0..LastOffset -> Memory] :
            g[0] = Go(0, before) /\ \A t \in 1..LastOffset : g[t] = step[t][g[t - 1]]
  BY <1>4 DEF Recursive
<1>6. IsMemory(g)
  <2>1. ASSUME NEW t \in 0..LastOffset
        PROVE  g[t] = LET m == IF t = 0 THEN before ELSE g[t - 1]
                      IN  IF t \in DOMAIN rows THEN Classified(m, rows[t]) ELSE m
    <3>1. CASE t = 0 BY <1>5, <3>1 DEF Go
    <3>2. CASE t # 0
      <4>1. t \in 1..LastOffset /\ t - 1 \in 0..LastOffset BY <3>2, LastIsNat
      <4>2. g[t] = Go(t, g[t - 1]) BY <1>3, <1>5, <4>1
      <4> QED BY <3>2, <4>2 DEF Go
    <3> QED BY <3>1, <3>2
  <2>2. g = [t \in 0..LastOffset |-> g[t]] BY <1>5
  <2> QED BY <2>1, <2>2
<1>7. IsMemory(memory) BY <1>6
<1>8. ClassifyStates(rows, before, LastOffset) = [t \in DOMAIN rows |-> memory[t].current]
  BY DEF ClassifyStates
<1> HIDE DEF memory
<1>9. Remembers(rows, before, memory) BY <1>7 DEF Remembers
<1>10. \A t \in 0..LastOffset : memory[t] \in Memory
  <2> DEFINE G == {t \in 0..LastOffset : memory[t] \in Memory}
  <2>1. 0 \in G
    <3>1. 0 \in 0..LastOffset BY LastIsNat
    <3>2. memory[0] = Go(0, before) BY <1>9, <3>1 DEF Remembers, Go
    <3> QED BY <1>1, <3>1, <3>2
  <2>2. ASSUME NEW t \in 1..LastOffset, t - 1 \in G PROVE t \in G
    <3>1. t \in 0..LastOffset /\ t # 0 /\ memory[t - 1] \in Memory BY <2>2
    <3>2. memory[t] = Go(t, memory[t - 1]) BY <1>9, <3>1 DEF Remembers, Go
    <3> QED BY <1>1, <3>1, <3>2
  <2> HIDE DEF G
  <2>3. \A t \in 0..LastOffset : t \in G BY <2>1, <2>2, LastIsNat, UpToInduction
  <2> QED BY <2>3 DEF G
<1>11. memory \in [0..LastOffset -> Memory]
  <2>1. memory = [t \in 0..LastOffset |-> memory[t]] BY <1>7
  <2> QED BY <1>10, <2>1
<1> QED BY <1>8, <1>9, <1>11

\* Frames of the same rows label them alike from a decisive one on.
LEMMA FramesAgree ==
    ASSUME NEW rows, DOMAIN rows \subseteq Offset,
           \A t \in DOMAIN rows : rows[t].flow \in Int,
           NEW a \in Memory, NEW b \in Memory,
           NEW o \in DOMAIN rows, Decisive(rows[o]),
           NEW p \in DOMAIN rows, p >= o
    PROVE  ClassifyStates(rows, a, LastOffset)[p] = ClassifyStates(rows, b, LastOffset)[p]
<1>1. PICK m \in [0..LastOffset -> Memory] :
            /\ Remembers(rows, a, m)
            /\ ClassifyStates(rows, a, LastOffset) = [t \in DOMAIN rows |-> m[t].current]
  BY MemoryOfFrame
<1>2. PICK n \in [0..LastOffset -> Memory] :
            /\ Remembers(rows, b, n)
            /\ ClassifyStates(rows, b, LastOffset) = [t \in DOMAIN rows |-> n[t].current]
  BY MemoryOfFrame
<1>3. o \in 0..LastOffset /\ p \in 0..LastOffset BY DEF Offset
<1> DEFINE G == {t \in 0..LastOffset : t >= o => Agree(m[t], n[t])}
<1>4. Agree(m[o], n[o])
  <2>1. PICK x, y : /\ x = (IF o = 0 THEN a ELSE m[o - 1]) /\ m[o] = Classified(x, rows[o])
                    /\ y = (IF o = 0 THEN b ELSE n[o - 1]) /\ n[o] = Classified(y, rows[o])
    BY <1>1, <1>2, <1>3 DEF Remembers
  <2>2. o # 0 => o - 1 \in 0..LastOffset BY <1>3, LastIsNat
  <2>3. x \in Memory /\ y \in Memory BY <2>1, <2>2
  <2> QED BY <2>1, <2>3, DecisiveForgets
<1>5. 0 \in G
  <2>1. 0 \in 0..LastOffset /\ (0 >= o => o = 0) BY <1>3, LastIsNat
  <2> QED BY <1>4, <2>1
<1>6. ASSUME NEW t \in 1..LastOffset, t - 1 \in G PROVE t \in G
  <2>1. t \in 0..LastOffset /\ t # 0 /\ t - 1 \in 0..LastOffset BY LastIsNat
  <2>2. CASE t = o BY <1>4, <2>1, <2>2
  <2>3. CASE t < o BY <1>3, <2>1, <2>3
  <2>4. CASE t > o
    <3>1. Agree(m[t - 1], n[t - 1]) BY <1>3, <1>6, <2>1, <2>4
    <3>2. /\ m[t] = IF t \in DOMAIN rows THEN Classified(m[t - 1], rows[t]) ELSE m[t - 1]
          /\ n[t] = IF t \in DOMAIN rows THEN Classified(n[t - 1], rows[t]) ELSE n[t - 1]
      BY <1>1, <1>2, <2>1 DEF Remembers
    <3>3. m[t - 1] \in Memory /\ n[t - 1] \in Memory BY <2>1
    <3>4. Agree(m[t], n[t]) BY <3>1, <3>2, <3>3, AgreementKept
    <3> QED BY <2>1, <3>4
  <2> QED BY <1>3, <2>1, <2>2, <2>3, <2>4
<1> HIDE DEF G
<1>7. p \in G BY <1>3, <1>5, <1>6, LastIsNat, UpToInduction
<1>8. Agree(m[p], n[p]) BY <1>7 DEF G
<1> QED BY <1>1, <1>2, <1>8 DEF Agree

-----------------------------------------------------------------------------
(* Finite sets of integers.                                                *)

LEMMA FiniteMax ==
    ASSUME NEW S \in SUBSET Int, IsFiniteSet(S), S # {}
    PROVE  Max(S) \in S /\ \A x \in S : x <= Max(S)
<1>1. Cardinality(S) \in Nat /\ Cardinality(S) # 0 BY FS_CardinalityType, FS_EmptySet
<1>2. PICK f \in Bijection(1..Cardinality(S), S) : TRUE BY FS_CardinalityType DEF ExistsBijection
<1>3. PICK n : n = Cardinality(S) OBVIOUS
<1>4. f \in [1..n -> S] /\ \A x \in S : \E i \in 1..n : f[i] = x
  BY <1>2, <1>3 DEF Bijection, Injection, Surjection
<1>9. n \in Nat /\ n # 0 BY <1>1, <1>3
<1>10. \A i \in 1..n : f[i] \in Int BY <1>4
<1>5. f \in [1..n -> Int] /\ n \in Nat /\ n >= 1 BY <1>9, <1>4, <1>10
<1>6. PICK i \in 1..n : \A j \in 1..n : f[i] > f[j] \/ (f[i] = f[j] /\ j <= i)
  BY <1>5, LastGreatest
<1>7. \A j \in 1..n : f[j] \in Int /\ f[i] >= f[j] BY <1>5, <1>6
<1>8. f[i] \in S /\ \A x \in S : f[i] >= x BY <1>4, <1>7
<1> QED BY <1>8 DEF Max

LEMMA FiniteMin ==
    ASSUME NEW S \in SUBSET Int, IsFiniteSet(S), S # {}
    PROVE  Min(S) \in S /\ \A x \in S : Min(S) <= x
<1>1. Cardinality(S) \in Nat /\ Cardinality(S) # 0 BY FS_CardinalityType, FS_EmptySet
<1>2. PICK f \in Bijection(1..Cardinality(S), S) : TRUE BY FS_CardinalityType DEF ExistsBijection
<1>3. PICK n : n = Cardinality(S) OBVIOUS
<1>4. f \in [1..n -> S] /\ \A x \in S : \E i \in 1..n : f[i] = x
  BY <1>2, <1>3 DEF Bijection, Injection, Surjection
<1> DEFINE g == [i \in 1..n |-> -f[i]]
<1>5. g \in [1..n -> Int] /\ n \in Nat /\ n >= 1
  <2>1. \A i \in 1..n : f[i] \in Int BY <1>4
  <2> QED BY <2>1, <1>1, <1>3
<1>6. \A j \in 1..n : g[j] = -f[j] /\ f[j] \in Int BY <1>4
<1> HIDE DEF g
<1>7. PICK i \in 1..n : \A j \in 1..n : g[i] > g[j] \/ (g[i] = g[j] /\ j <= i)
  BY <1>5, LastGreatest
<1>8. \A j \in 1..n : f[i] <= f[j] BY <1>6, <1>7
<1>9. f[i] \in S /\ \A x \in S : f[i] <= x BY <1>4, <1>8
<1> QED BY <1>9 DEF Min

LEMMA PairIs ==
    ASSUME NEW x \in Int, NEW y \in Int
    PROVE  /\ Max({x, y}) \in {x, y} /\ x <= Max({x, y}) /\ y <= Max({x, y})
           /\ Min({x, y}) \in {x, y} /\ Min({x, y}) <= x /\ Min({x, y}) <= y
<1>1. IsFiniteSet({x} \cup {y}) BY FS_Singleton, FS_AddElement
<1>2. {x} \cup {y} = {x, y} OBVIOUS
<1>3. {x, y} \in SUBSET Int /\ {x, y} # {} /\ IsFiniteSet({x, y}) BY <1>1, <1>2
<1>4. Max({x, y}) \in {x, y} /\ \A z \in {x, y} : z <= Max({x, y}) BY <1>3, FiniteMax
<1>5. Min({x, y}) \in {x, y} /\ \A z \in {x, y} : Min({x, y}) <= z BY <1>3, FiniteMin
<1> QED BY <1>4, <1>5

LEMMA PartOfInterval ==
    ASSUME NEW n \in Nat, NEW S \in SUBSET (0..n)
    PROVE  S \in SUBSET Int /\ IsFiniteSet(S) /\ Cardinality(S) \in Nat
<1>1. PICK a \in Int, b \in Int : a = 0 /\ b = n OBVIOUS
<1>2. IsFiniteSet(a..b) BY FS_Interval
<1>3. IsFiniteSet(S) BY <1>1, <1>2, FS_Subset
<1> QED BY <1>3, FS_CardinalityType

\* A set of naturals has as many elements as it counts: one has i - 1 below it.
LEMMA NthExists ==
    ASSUME NEW n \in Nat, NEW S \in SUBSET (1..n), NEW i \in 1..Cardinality(S)
    PROVE  \E x \in S : Cardinality({y \in S : y < x}) = i - 1
<1> DEFINE Below(x) == {y \in S : y < x}
           T == {x \in 0..(n + 1) : Cardinality(Below(x)) >= i}
<1>1. ASSUME NEW x PROVE IsFiniteSet(Below(x)) /\ Cardinality(Below(x)) \in Nat
  <2>2. \A y \in S : y \in 0..n OBVIOUS
  <2>1. Below(x) \in SUBSET (0..n) BY <2>2
  <2> HIDE DEF Below
  <2> QED BY <2>1, PartOfInterval
<1>2. n + 1 \in T
  <2>4. \A y \in S : y < n + 1 OBVIOUS
  <2>1. Below(n + 1) = S BY <2>4
  <2>5. S \in SUBSET (0..n) OBVIOUS
  <2>6. Cardinality(S) \in Nat BY <2>5, PartOfInterval
  <2>2. Cardinality(S) >= i BY <2>6
  <2> HIDE DEF Below
  <2>3. Cardinality(Below(n + 1)) >= i BY <2>1, <2>2
  <2> QED BY <2>3
<1>3. T \in SUBSET Nat OBVIOUS
<1>4. PICK t \in T : \A x \in T : t <= x
  <2> HIDE DEF T
  <2> QED BY <1>2, <1>3, LeastNatural
<1>5. t \in 0..(n + 1) /\ Cardinality(Below(t)) >= i OBVIOUS
<1>6. t # 0
  <2> SUFFICES ASSUME t = 0 PROVE FALSE OBVIOUS
  <2>3. \A y \in S : ~ (y < 0) OBVIOUS
  <2>1. Below(0) = {} BY <2>3
  <2> HIDE DEF Below
  <2>2. Cardinality(Below(0)) = 0 BY <2>1, FS_EmptySet
  <2> QED BY <2>2, <1>5
<1>7. t - 1 \in 0..(n + 1) /\ t - 1 \notin T
  <2>1. t - 1 \in 0..(n + 1) /\ ~ (t <= t - 1) BY <1>5, <1>6
  <2> HIDE DEF T
  <2> QED BY <2>1, <1>4
<1>8. ~ (Cardinality(Below(t - 1)) >= i) BY <1>7
<1>9. Below(t) = Below(t - 1) \cup ({t - 1} \cap S)
  <2>1. \A y \in S : y < t <=> (y < t - 1 \/ y = t - 1) BY <1>5
  <2> QED BY <2>1
<1> HIDE DEF T
<1>10. t - 1 \in S /\ Cardinality(Below(t)) <= Cardinality(Below(t - 1)) + 1
  <2> HIDE DEF Below
  <2>1. CASE t - 1 \notin S
    <3>1. Below(t) = Below(t - 1) BY <1>9, <2>1
    <3> QED BY <3>1, <1>5, <1>8
  <2>2. CASE t - 1 \in S
    <3>1. Below(t) = Below(t - 1) \cup {t - 1} BY <1>9, <2>2
    <3>2. Cardinality(Below(t)) = Cardinality(Below(t - 1))
          \/ Cardinality(Below(t)) = Cardinality(Below(t - 1)) + 1
      BY <3>1, <1>1, FS_AddElement
    <3>3. Cardinality(Below(t - 1)) \in Nat BY <1>1
    <3> QED BY <3>2, <3>3, <2>2
  <2> QED BY <2>1, <2>2
<1>11. Cardinality(Below(t - 1)) = i - 1
  <2>1. Cardinality(Below(t)) \in Nat /\ Cardinality(Below(t - 1)) \in Nat BY <1>1
  <2> HIDE DEF Below
  <2> QED BY <2>1, <1>5, <1>8, <1>10
<1> QED BY <1>10, <1>11

\* A sum of naturals is at least what a part of its terms comes to.
LEMMA SummedAtLeast ==
    ASSUME NEW n \in Nat, NEW f, \A i \in 0..n : Term(f, i) \in Nat,
           NEW c \in Nat, NEW T \in SUBSET (0..n), \A i \in T : Term(f, i) >= c
    PROVE  Summed(f, n) >= Cardinality(T) * c
<1> DEFINE Up(i) == {j \in T : j <= i}
           size == [i \in 0..n |-> Cardinality(Up(i))]
<1>1. \A i \in 0..n : Term(f, i) \in Int OBVIOUS
<1>2. PICK s : /\ Summed(f, n) = s[n] /\ s[0] = Term(f, 0)
               /\ \A i \in 1..n : s[i] = s[i - 1] + Term(f, i)
               /\ \A i \in 0..n : s[i] \in Int BY <1>1, SummedIs
<1>3. ASSUME NEW i PROVE IsFiniteSet(Up(i)) /\ Cardinality(Up(i)) \in Nat
  <2>1. Up(i) \in SUBSET (0..n) OBVIOUS
  <2> HIDE DEF Up
  <2> QED BY <2>1, PartOfInterval
<1>4. ASSUME NEW i \in 1..n PROVE Up(i) = Up(i - 1) \cup ({i} \cap T)
  <2>1. \A j \in T : j <= i <=> (j <= i - 1 \/ j = i) OBVIOUS
  <2> QED BY <2>1
<1>5. Up(0) = {0} \cap T
  <2>1. \A j \in T : j <= 0 <=> j = 0 OBVIOUS
  <2> QED BY <2>1
<1>6. Up(n) = T
  <2>1. \A j \in T : j <= n OBVIOUS
  <2> QED BY <2>1
<1> DEFINE G == {i \in 0..n : s[i] >= Cardinality(Up(i)) * c}
<1>7. 0 \in G
  <2> HIDE DEF Up
  <2>1. 0 \in 0..n OBVIOUS
  <2>2. CASE 0 \in T
    <3>1. Up(0) = {0} BY <1>5, <2>2
    <3>2. Cardinality(Up(0)) = 1 BY <3>1, FS_Singleton
    <3>3. Cardinality(Up(0)) * c = c BY <3>2
    <3> QED BY <1>2, <2>1, <2>2, <3>3
  <2>3. CASE 0 \notin T
    <3>1. Up(0) = {} BY <1>5, <2>3
    <3>2. Cardinality(Up(0)) = 0 BY <3>1, FS_EmptySet
    <3>3. Cardinality(Up(0)) * c = 0 BY <3>2
    <3> QED BY <1>2, <2>1, <3>3
  <2> QED BY <2>2, <2>3
<1>8. ASSUME NEW i \in 1..n, i - 1 \in G PROVE i \in G
  <2> HIDE DEF Up
  <2>1. i \in 0..n /\ i - 1 \in 0..n /\ s[i - 1] >= Cardinality(Up(i - 1)) * c BY <1>8
  <2>2. s[i] = s[i - 1] + Term(f, i) /\ s[i - 1] \in Int /\ Term(f, i) \in Nat BY <1>2, <2>1
  <2>3. PICK k \in Nat : k = Cardinality(Up(i - 1)) BY <1>3
  <2>4. CASE i \in T
    <3>1. i \notin Up(i - 1)
      <4>1. ~ (i <= i - 1) OBVIOUS
      <4> QED BY <4>1 DEF Up
    <3>2. Up(i) = Up(i - 1) \cup {i} BY <1>4, <2>4
    <3>3. Cardinality(Up(i)) = k + 1 BY <1>3, <2>3, <3>1, <3>2, FS_AddElement
    <3>4. (k + 1) * c = k * c + c /\ k * c \in Nat BY <2>3
    <3>5. Term(f, i) >= c BY <2>4
    <3>6. s[i] >= (k + 1) * c BY <2>1, <2>2, <2>3, <3>4, <3>5
    <3> QED BY <2>1, <3>3, <3>6
  <2>5. CASE i \notin T
    <3>1. Up(i) = Up(i - 1) BY <1>4, <2>5
    <3>2. k * c \in Nat BY <2>3
    <3>3. s[i] >= k * c BY <2>1, <2>2, <2>3, <3>2
    <3> QED BY <2>1, <2>3, <3>1, <3>3
  <2> QED BY <2>4, <2>5
<1> HIDE DEF G
<1>9. \A i \in 0..n : i \in G BY <1>7, <1>8, UpToInduction
<1>10. n \in 0..n OBVIOUS
<1>11. s[n] >= Cardinality(Up(n)) * c BY <1>9, <1>10 DEF G
<1> HIDE DEF Up
<1> QED BY <1>2, <1>6, <1>11

-----------------------------------------------------------------------------
(* The strategies.                                                         *)

LEMMA Flattened ==
    ASSUME NEW S, NEW seqs \in Seq(Seq(S))
    PROVE  FlattenSeq(seqs) \in Seq(S)
<1> DEFINE last == Len(seqs)
           IsFlat(g) == g = [i \in 1..last |-> IF i = 1 THEN seqs[i] ELSE g[i - 1] \o seqs[i]]
           flat == CHOOSE g : IsFlat(g)
<1>1. last \in Nat /\ \A i \in 1..last : seqs[i] \in Seq(S) OBVIOUS
<1>2. CASE last = 0
  <2>1. seqs = <<>> BY <1>2
  <2>2. FlattenSeq(seqs) = seqs BY <1>2 DEF FlattenSeq
  <2>3. FlattenSeq(seqs) = <<>> /\ <<>> \in Seq(S) BY <2>1, <2>2
  <2> QED BY <2>3
<1>3. CASE last # 0
  <2>1. FlattenSeq(seqs) = flat[last] BY <1>3 DEF FlattenSeq
  <2> HIDE DEF last
  <2>2. PICK n \in Nat : last = n + 1
    <3>1. last - 1 \in Nat /\ last = (last - 1) + 1 BY <1>1, <1>3
    <3> QED BY <3>1
  <2> DEFINE step == [i \in 1..n |-> [x \in Seq(S) |-> x \o seqs[i + 1]]]
  <2>3. \A i \in 0..n : seqs[i + 1] \in Seq(S)
    <3>1. \A i \in 0..n : i + 1 \in 1..last BY <2>2
    <3> QED BY <3>1, <1>1
  <2>4. step \in [1..n -> [Seq(S) -> Seq(S)]]
    <3>1. ASSUME NEW i \in 1..n, NEW x \in Seq(S) PROVE x \o seqs[i + 1] \in Seq(S)
      <4>1. seqs[i + 1] \in Seq(S) BY <2>3
      <4> QED BY <4>1
    <3> QED BY <3>1
  <2>5. \A i \in 1..n, x \in Seq(S) : step[i][x] = x \o seqs[i + 1] OBVIOUS
  <2>6. seqs[1] \in Seq(S) BY <1>1, <2>2
  <2> HIDE DEF step
  <2>7. Recursive(n, Seq(S), seqs[1], step) BY <2>4, <2>6, RecursionExists
  <2>8. PICK g \in [0..n -> Seq(S)] :
            g[0] = seqs[1] /\ \A i \in 1..n : g[i] = step[i][g[i - 1]]
    BY <2>7 DEF Recursive
  <2> DEFINE h == [i \in 1..last |-> g[i - 1]]
  <2>9. IsFlat(h)
    <3>1. ASSUME NEW i \in 1..last
          PROVE  g[i - 1] = IF i = 1 THEN seqs[i] ELSE h[i - 1] \o seqs[i]
      <4>1. CASE i = 1 BY <2>8, <4>1
      <4>2. CASE i # 1
        <5>1. PICK j \in 1..n : i = j + 1
          <6>1. i - 1 \in 1..n /\ i = (i - 1) + 1 BY <2>2, <4>2
          <6> QED BY <6>1
        <5>2. h[j] = g[j - 1] /\ g[j - 1] \in Seq(S)
          <6>1. j \in 1..last /\ j - 1 \in 0..n BY <2>2
          <6> QED BY <6>1
        <5>3. g[j] = g[j - 1] \o seqs[j + 1] BY <2>5, <2>8, <5>2
        <5>4. i - 1 = j BY <5>1
        <5> QED BY <4>2, <5>1, <5>2, <5>3, <5>4
      <4> QED BY <4>1, <4>2
    <3> QED BY <3>1
  <2>10. IsFlat(flat) BY <2>9
  <2> HIDE DEF flat, h
  <2> DEFINE G == {i \in 0..n : flat[i + 1] \in Seq(S)}
  <2>11. 0 \in G
    <3>1. 1 \in 1..last /\ 0 \in 0..n /\ 0 + 1 = 1 BY <2>2
    <3>2. flat[1] = seqs[1] BY <2>10, <3>1
    <3> QED BY <2>6, <3>1, <3>2
  <2>12. ASSUME NEW i \in 1..n, i - 1 \in G PROVE i \in G
    <3>1. flat[(i - 1) + 1] \in Seq(S) /\ (i - 1) + 1 = i BY <2>12
    <3>2. i + 1 \in 1..last /\ i + 1 # 1 /\ (i + 1) - 1 = i /\ i \in 0..n BY <2>2
    <3>3. flat[i + 1] = flat[(i + 1) - 1] \o seqs[i + 1] BY <2>10, <3>2
    <3>4. seqs[i + 1] \in Seq(S) BY <2>3, <3>2
    <3>5. flat[i] \in Seq(S) BY <3>1
    <3>6. flat[i + 1] \in Seq(S) BY <3>2, <3>3, <3>4, <3>5
    <3> QED BY <3>2, <3>6
  <2> HIDE DEF G
  <2>13. \A i \in 0..n : i \in G BY <2>11, <2>12, UpToInduction
  <2>14. n \in 0..n OBVIOUS
  <2>15. flat[n + 1] \in Seq(S) BY <2>13, <2>14 DEF G
  <2>16. flat[last] \in Seq(S) BY <2>2, <2>15
  <2> QED BY <2>1, <2>16
<1> QED BY <1>2, <1>3

\* Strategies of some mode of hot water.
Made == {s \in Strategy : \E mode \in ToSet(DhwModes) : mode.name = s.mode}

\* Strategies that heat the hot water within a window.
Fitting(cosy) ==
    {s \in Strategy : \E mode \in ToSet(DhwModes) :
        /\ mode.name = s.mode
        /\ cosy.from <= s.dhw_start /\ s.dhw_start + mode.duration <= cosy.to}

LEMMA ModesTyped ==
    /\ Len(DhwModes) \in Nat /\ DOMAIN DhwModes = 1..Len(DhwModes)
    /\ \A mode \in ToSet(DhwModes) : mode \in DhwMode
    /\ \A a, b \in ToSet(DhwModes) : a.name = b.name => a = b
<1>1. DhwModes \in Seq(DhwMode) BY OvernightAssumption
<1>2. \A i \in DOMAIN DhwModes : DhwModes[i] \in DhwMode BY <1>1
<1>3. \A i, j \in DOMAIN DhwModes : DhwModes[i].name = DhwModes[j].name => i = j
  BY OvernightAssumption
<1> QED BY <1>1, <1>2, <1>3 DEF ToSet

LEMMA WindowTyped ==
    ASSUME NEW cosy \in Window
    PROVE  cosy.from \in Nat /\ cosy.to \in Nat
BY LastIsNat DEF Window, Offset

LEMMA ContinuousFits ==
    ASSUME NEW cosy \in Window, NEW mode \in ToSet(DhwModes)
    PROVE  Continuous(cosy, mode) \in Seq(Fitting(cosy))
<1>1. cosy.from \in Nat /\ cosy.to \in Nat BY WindowTyped
<1>2. mode.name \in Mode /\ mode.duration \in Nat BY ModesTyped DEF DhwMode
<1>3. PreferredDhw \in Int BY OvernightAssumption, LastIsNat DEF Offset
<1>4. CASE cosy.to - cosy.from < mode.duration BY <1>4 DEF Continuous
<1>5. CASE ~ (cosy.to - cosy.from < mode.duration)
  <2>1. PICK p \in Int : p = cosy.to - mode.duration BY <1>1, <1>2
  <2>2. PICK q : q = Min({p, PreferredDhw}) OBVIOUS
  <2>3. q \in Int /\ q <= p BY <1>3, <2>1, <2>2, PairIs
  <2>4. PICK x : x = Max({cosy.from, q}) OBVIOUS
  <2>5. x \in {cosy.from, q} /\ cosy.from <= x
    <3>1. PICK f \in Int : f = cosy.from BY <1>1
    <3>2. Max({f, q}) \in {f, q} /\ f <= Max({f, q}) BY <2>3, <3>1, PairIs
    <3> QED BY <2>4, <3>1, <3>2
  <2>6. Preferred(cosy, mode.duration) = x BY <2>1, <2>2, <2>4 DEF Preferred
  <2>7. x \in Int /\ x + mode.duration <= cosy.to BY <1>1, <1>2, <1>5, <2>1, <2>3, <2>5
  <2> DEFINE s == [shape |-> "continuous", mode |-> mode.name, off_at |-> -1,
                   dhw_start |-> x, heat_on |-> 0]
  <2>8. -1 \in Int /\ 0 \in Int /\ "continuous" \in Shape BY DEF Shape
  <2>9. s \in Strategy BY <1>2, <2>7, <2>8 DEF Strategy
  <2>10. s.mode = mode.name /\ s.dhw_start = x OBVIOUS
  <2>11. Continuous(cosy, mode) = <<s>> BY <1>5, <2>6 DEF Continuous
  <2> HIDE DEF s
  <2>12. s \in Fitting(cosy) BY <2>5, <2>7, <2>9, <2>10 DEF Fitting
  <2> QED BY <2>11, <2>12
<1> QED BY <1>4, <1>5

LEMMA OffFits ==
    ASSUME NEW cosy \in Window, NEW mode \in ToSet(DhwModes), NEW off \in Offset
    PROVE  OffSchedules(cosy, off, mode) \in Seq(Fitting(cosy))
<1>1. cosy.from \in Nat /\ cosy.to \in Nat /\ off \in Int BY WindowTyped, LastIsNat DEF Offset
<1>2. mode.name \in Mode /\ mode.duration \in Nat BY ModesTyped DEF DhwMode
<1>3. CASE cosy.from + mode.duration > cosy.to BY <1>3 DEF OffSchedules
<1>4. CASE ~ (cosy.from + mode.duration > cosy.to)
  <2> DEFINE a == [shape |-> "dhw_first", mode |-> mode.name, off_at |-> off,
                   dhw_start |-> cosy.from, heat_on |-> cosy.from + mode.duration]
             b == [shape |-> "heat_first", mode |-> mode.name, off_at |-> off,
                   dhw_start |-> cosy.to - mode.duration, heat_on |-> cosy.from]
  <2>1. /\ cosy.from + mode.duration \in Int /\ cosy.to - mode.duration \in Int
        /\ cosy.from + mode.duration <= cosy.to /\ cosy.from <= cosy.to - mode.duration
        /\ (cosy.to - mode.duration) + mode.duration <= cosy.to
    BY <1>1, <1>2, <1>4
  <2>2. "dhw_first" \in Shape /\ "heat_first" \in Shape BY DEF Shape
  <2>3. a \in Strategy /\ b \in Strategy BY <1>1, <1>2, <2>1, <2>2 DEF Strategy
  <2>4. /\ a.mode = mode.name /\ a.dhw_start = cosy.from
        /\ b.mode = mode.name /\ b.dhw_start = cosy.to - mode.duration
    OBVIOUS
  <2>5. OffSchedules(cosy, off, mode) = <<a, b>> BY <1>4 DEF OffSchedules
  <2> HIDE DEF a, b
  <2>6. cosy.from <= cosy.from BY <1>1
  <2>7. a \in Fitting(cosy) /\ b \in Fitting(cosy) BY <2>1, <2>3, <2>4, <2>6 DEF Fitting
  <2> QED BY <2>5, <2>7
<1> QED BY <1>3, <1>4

\* Whatever the window, every schedule heats the hot water inside it.
LEMMA GeneratedFit ==
    ASSUME NEW cosy \in Window
    PROVE  generate_schedules(cosy) \in Seq(Fitting(cosy))
<1> DEFINE S == Fitting(cosy)
           first == [m \in DOMAIN DhwModes |-> Continuous(cosy, DhwModes[m])]
           Of2(o) == [m \in DOMAIN DhwModes |-> OffSchedules(cosy, OffTimes[o], DhwModes[m])]
           rest == [o \in DOMAIN OffTimes |-> FlattenSeq(Of2(o))]
<1>1. generate_schedules(cosy) = FlattenSeq(first) \o FlattenSeq(rest) BY DEF generate_schedules
<1>2. \A m \in DOMAIN DhwModes : DhwModes[m] \in ToSet(DhwModes) BY DEF ToSet
<1>3. first \in Seq(Seq(S))
  <2>1. \A m \in DOMAIN DhwModes : Continuous(cosy, DhwModes[m]) \in Seq(S)
    BY <1>2, ContinuousFits
  <2> HIDE DEF S
  <2> QED BY <2>1, ModesTyped
<1>4. OffTimes \in Seq(Offset) BY OvernightAssumption
<1>5. ASSUME NEW o \in DOMAIN OffTimes PROVE FlattenSeq(Of2(o)) \in Seq(S)
  <2>1. OffTimes[o] \in Offset BY <1>4
  <2>2. \A m \in DOMAIN DhwModes : OffSchedules(cosy, OffTimes[o], DhwModes[m]) \in Seq(S)
    BY <1>2, <2>1, OffFits
  <2> HIDE DEF S
  <2>3. Of2(o) \in Seq(Seq(S)) BY <2>2, ModesTyped
  <2> HIDE DEF Of2
  <2> QED BY <2>3, Flattened
<1> HIDE DEF Of2, S
<1>6. rest \in Seq(Seq(S))
  <2>1. DOMAIN OffTimes = 1..Len(OffTimes) /\ Len(OffTimes) \in Nat BY <1>4
  <2> QED BY <1>5, <2>1
<1> HIDE DEF first, rest
<1>7. FlattenSeq(first) \in Seq(S) /\ FlattenSeq(rest) \in Seq(S) BY <1>3, <1>6, Flattened
<1> QED BY <1>1, <1>7 DEF S

-----------------------------------------------------------------------------
(* The nights of a record.                                                 *)

KnownNight(night) ==
    /\ DOMAIN night.rows \subseteq Offset /\ DOMAIN night.rows # {}
    /\ \A o \in DOMAIN night.rows : night.rows[o] \in Row
    /\ night.indoor_t_start \in Int /\ night.indoor_t_target \in Int

Entry == [track: UNION {Tracks[n] : n \in Night}, tariff: Tariffs]

LogOK == log \in Seq(Entry) /\ Len(log) <= Len(Tracks)

NightsOK ==
    /\ Len(nights) \in Nat /\ DOMAIN nights = 1..Len(nights)
    /\ \A i \in DOMAIN nights : KnownNight(nights[i]) /\ nights[i].of \in DOMAIN log

LEMMA LogTyped ==
    ASSUME LogOK, NEW n \in DOMAIN log
    PROVE  /\ log[n].tariff \in Window
           /\ DOMAIN log[n].track.rows \subseteq Offset
           /\ \A o \in DOMAIN log[n].track.rows : log[n].track.rows[o] \in Row
           /\ log[n].track.before \in Memory
<1>1. log[n] \in Entry BY DEF LogOK
<1>2. PICK m \in Night : log[n].track \in Tracks[m] BY <1>1 DEF Entry
<1>3. log[n].tariff \in Tariffs BY <1>1 DEF Entry
<1> QED BY <1>2, <1>3, OvernightAssumption

LEMMA PartOfNight ==
    ASSUME NEW S \in SUBSET Offset
    PROVE  S \in SUBSET Int /\ IsFiniteSet(S) /\ Cardinality(S) \in Nat
BY LastIsNat, PartOfInterval DEF Offset

LEMMA RowTyped ==
    ASSUME NEW night, KnownNight(night), NEW o \in DOMAIN night.rows
    PROVE  /\ night.rows[o].out \in Int /\ night.rows[o].in \in Int
           /\ night.rows[o].elec \in Nat /\ night.rows[o].heat \in Int
           /\ o \in 0..LastOffset
BY DEF KnownNight, Row, Offset

LEMMA ExtractedKnown ==
    ASSUME LogOK, NEW n \in DOMAIN log, DOMAIN log[n].track.rows # {}
    PROVE  KnownNight(Extracted(n)) /\ Extracted(n).of = n
<1> DEFINE rows == log[n].track.rows
           near == TargetReading(rows)
<1>1. DOMAIN rows \in SUBSET Offset /\ \A o \in DOMAIN rows : rows[o] \in Row BY LogTyped
<1>2. \A S \in SUBSET DOMAIN rows : S # {} => Min(S) \in DOMAIN rows
  <2> SUFFICES ASSUME NEW S \in SUBSET DOMAIN rows, S # {} PROVE Min(S) \in DOMAIN rows OBVIOUS
  <2>1. S \in SUBSET Offset BY <1>1
  <2>2. S \in SUBSET Int /\ IsFiniteSet(S) BY <2>1, PartOfNight
  <2> QED BY <2>2, FiniteMin
<1>3. near \in SUBSET DOMAIN rows BY DEF TargetReading
<1>4. rows[Min(DOMAIN rows)].in \in Int /\ (near # {} => rows[Min(near)].in \in Int)
  BY <1>1, <1>2, <1>3 DEF Row
<1>5. /\ Extracted(n).of = n /\ Extracted(n).rows = rows
      /\ Extracted(n).indoor_t_start = rows[Min(DOMAIN rows)].in
      /\ Extracted(n).indoor_t_target = IF near = {} THEN rows[Min(DOMAIN rows)].in
                                        ELSE rows[Min(near)].in
  BY DEF Extracted
<1> HIDE DEF near
<1> QED BY <1>1, <1>4, <1>5 DEF KnownNight

LEMMA NightsKnown ==
    ASSUME LogOK
    PROVE  /\ Len(Nights) \in Nat /\ DOMAIN Nights = 1..Len(Nights)
           /\ Len(Nights) = 0 => Nights = <<>>
           /\ \A i \in DOMAIN Nights : KnownNight(Nights[i]) /\ Nights[i].of \in DOMAIN log
<1> DEFINE kept == {n \in DOMAIN log :
                    /\ log[n].track.winter
                    /\ Cardinality(DOMAIN log[n].track.rows) >= MIN_NIGHT_SAMPLES
                    /\ Valid(Extracted(n))}
           Nth(i) == CHOOSE n \in kept : Cardinality({m \in kept : m < n}) = i - 1
<1>1. PICK n \in Nat : n = Len(log) /\ DOMAIN log = 1..n BY DEF LogOK
<1>2. kept \in SUBSET (1..n) /\ kept \in SUBSET (0..n) BY <1>1
<1>3. \A x \in kept : x \in DOMAIN log /\ DOMAIN log[x].track.rows # {}
  <2> SUFFICES ASSUME NEW x \in kept, DOMAIN log[x].track.rows = {} PROVE FALSE BY <1>1
  <2>1. Cardinality(DOMAIN log[x].track.rows) = 0 BY FS_EmptySet
  <2>2. MIN_NIGHT_SAMPLES \in Nat \ {0} BY OvernightAssumption
  <2>3. Cardinality(DOMAIN log[x].track.rows) >= MIN_NIGHT_SAMPLES OBVIOUS
  <2> QED BY <2>1, <2>2, <2>3
<1>4. Nights = [i \in 1..Cardinality(kept) |-> Extracted(Nth(i))] BY DEF Nights
<1> HIDE DEF kept
<1>5. ASSUME NEW i \in 1..Cardinality(kept) PROVE Nth(i) \in kept
  <2>1. \E x \in kept : Cardinality({y \in kept : y < x}) = i - 1 BY <1>2, NthExists
  <2> QED BY <2>1
<1>6. Cardinality(kept) \in Nat BY <1>2, PartOfInterval
<1> HIDE DEF Nth
<1>7. ASSUME NEW i \in 1..Cardinality(kept)
      PROVE  KnownNight(Extracted(Nth(i))) /\ Extracted(Nth(i)).of \in DOMAIN log
  BY <1>3, <1>5, ExtractedKnown
<1>8. Len(Nights) = 0 => Nights = <<>>
  <2>1. Len(Nights) = Cardinality(kept) BY <1>4, <1>6
  <2>2. Cardinality(kept) = 0 => Nights = <<>> BY <1>4
  <2> QED BY <2>1, <2>2
<1> QED BY <1>4, <1>6, <1>7, <1>8

-----------------------------------------------------------------------------
(* The calibration.                                                        *)

LEMMA SumOfNights ==
    ASSUME NightsOK, NEW v, \A i \in DOMAIN nights : \A o \in DOMAIN v[i] : v[i][o] \in Int
    PROVE  Summed([i \in DOMAIN nights |-> Summed(v[i], LastOffset)], Len(nights)) \in Int
<1> DEFINE f == [i \in DOMAIN nights |-> Summed(v[i], LastOffset)]
<1>1. ASSUME NEW i \in DOMAIN nights PROVE Summed(v[i], LastOffset) \in Int
  <2>1. \A o \in 0..LastOffset : Term(v[i], o) \in Int BY DEF Term
  <2> QED BY <2>1, LastIsNat, SummedIsInt
<1>2. \A i \in 0..Len(nights) : Term(f, i) \in Int BY <1>1 DEF Term
<1> HIDE DEF f
<1>3. Summed(f, Len(nights)) \in Int BY <1>2, SummedIsInt DEF NightsOK
<1> QED BY <1>3 DEF f

LEMMA NatSumOfNights ==
    ASSUME NightsOK, NEW v, \A i \in DOMAIN nights : \A o \in DOMAIN v[i] : v[i][o] \in Nat
    PROVE  Summed([i \in DOMAIN nights |-> Summed(v[i], LastOffset)], Len(nights)) \in Nat
<1> DEFINE f == [i \in DOMAIN nights |-> Summed(v[i], LastOffset)]
<1>1. ASSUME NEW i \in DOMAIN nights PROVE Summed(v[i], LastOffset) \in Nat
  <2>1. \A o \in 0..LastOffset : Term(v[i], o) \in Nat BY DEF Term
  <2> QED BY <2>1, LastIsNat, SummedIsNat
<1>2. \A i \in 0..Len(nights) : Term(f, i) \in Nat BY <1>1 DEF Term
<1> HIDE DEF f
<1>3. Summed(f, Len(nights)) \in Nat BY <1>2, SummedIsNat DEF NightsOK
<1> QED BY <1>3 DEF f

\* Whatever the record, the rate of cooling is within its bounds.
LEMMA CoolingBounded ==
    ASSUME NightsOK
    PROVE  calibrate_cooling \in KMin..KMax
<1> DEFINE D(i, o) == Dt2(nights[i].rows, o)
           C(i, o) == (nights[i].rows[o].in - nights[i].rows[o + 1].in) * D(i, o)
           u == [i \in DOMAIN nights |-> [o \in CoolingPairs(nights[i]) |-> D(i, o) * D(i, o)]]
           v == [i \in DOMAIN nights |-> [o \in CoolingPairs(nights[i]) |-> C(i, o)]]
           xx == Over(CoolingPairs, LAMBDA rows, o : Dt2(rows, o) * Dt2(rows, o))
           xy == Over(CoolingPairs, LAMBDA rows, o :
                            (rows[o].in - rows[o + 1].in) * Dt2(rows, o))
<1>1. ASSUME NEW i \in DOMAIN nights, NEW o \in CoolingPairs(nights[i])
      PROVE  D(i, o) \in Int /\ D(i, o) * D(i, o) \in Nat /\ C(i, o) \in Int
  <2>1. KnownNight(nights[i]) BY DEF NightsOK
  <2>2. o \in DOMAIN nights[i].rows /\ o + 1 \in DOMAIN nights[i].rows BY DEF CoolingPairs
  <2>3. PICK a, b, c, d \in Int :
            /\ a = nights[i].rows[o].in /\ b = nights[i].rows[o + 1].in
            /\ c = nights[i].rows[o].out /\ d = nights[i].rows[o + 1].out
    BY <2>1, <2>2, RowTyped
  <2>4. PICK e \in Int : e = a + b - c - d OBVIOUS
  <2>5. D(i, o) = e BY <2>3, <2>4 DEF Dt2
  <2>6. e * e \in Nat /\ (a - b) * e \in Int OBVIOUS
  <2> QED BY <2>3, <2>5, <2>6
<1>2. \A i \in DOMAIN nights : \A o \in DOMAIN u[i] : u[i][o] \in Nat BY <1>1
<1>3. \A i \in DOMAIN nights : \A o \in DOMAIN v[i] : v[i][o] \in Int BY <1>1
<1>4. /\ xx = Summed([i \in DOMAIN nights |-> Summed(u[i], LastOffset)], Len(nights))
      /\ xy = Summed([i \in DOMAIN nights |-> Summed(v[i], LastOffset)], Len(nights))
  BY DEF Over
<1>5. calibrate_cooling
        = IF xx = 0 THEN KDefault ELSE Max({KMin, Min({KMax, (2000 * xy) \div xx})})
  BY DEF calibrate_cooling
<1> HIDE DEF u, v, D, C, xx, xy
<1>6. xx \in Nat /\ xy \in Int BY <1>2, <1>3, <1>4, NatSumOfNights, SumOfNights
<1>7. KMin \in Nat /\ KMax \in Nat /\ KDefault \in KMin..KMax BY OvernightAssumption
<1>8. KMin <= KMax BY <1>7
<1>9. CASE xx = 0 BY <1>5, <1>7, <1>9
<1>10. CASE xx # 0
  <2>1. \A a \in Int, b \in Nat : b # 0 => (2000 * a) \div b \in Int OBVIOUS
  <2>2. PICK k \in Int : k = (2000 * xy) \div xx BY <1>6, <1>10, <2>1
  <2>3. PICK m : m = Min({KMax, k}) OBVIOUS
  <2>8. PICK hi \in Int : hi = KMax BY <1>7
  <2>4. m \in Int /\ m <= KMax
    <3>1. Min({hi, k}) \in {hi, k} /\ Min({hi, k}) <= hi BY PairIs
    <3> QED BY <2>2, <2>3, <2>8, <3>1
  <2>5. PICK x : x = Max({KMin, m}) OBVIOUS
  <2>9. PICK lo \in Int : lo = KMin BY <1>7
  <2>6. x \in {KMin, m} /\ KMin <= x
    <3>1. Max({lo, m}) \in {lo, m} /\ lo <= Max({lo, m}) BY <2>4, PairIs
    <3> QED BY <2>5, <2>9, <3>1
  <2>7. calibrate_cooling = x BY <1>5, <1>10, <2>2, <2>3, <2>5
  <2> QED BY <1>7, <1>8, <2>4, <2>6, <2>7
<1> QED BY <1>9, <1>10

BinsOK(bins) ==
    /\ DOMAIN bins \subseteq 0..Len(BinEdges)
    /\ \A e \in DOMAIN bins : bins[e] \in [low: Int, high: Int, heat: Int, elec: Nat]

LEMMA BinsCalibrated ==
    ASSUME NightsOK, NEW recovery
    PROVE  BinsOK(calibrate_heating(recovery))
<1> DEFINE Samples(e, night) == HeatingSamples(night, recovery, BinEdges[e], BinEdges[e + 1])
           Count(e) == Over(LAMBDA night : Samples(e, night), LAMBDA rows, o : 1)
           HeatOf(e) == Over(LAMBDA night : Samples(e, night), LAMBDA rows, o : rows[o].heat)
           ElecOf(e) == Over(LAMBDA night : Samples(e, night), LAMBDA rows, o : rows[o].elec)
           E == {e \in 1..Len(BinEdges) - 1 : Count(e) >= MinBin}
           Bin(e) == [low |-> BinEdges[e], high |-> BinEdges[e + 1],
                      heat |-> HeatOf(e) \div Count(e), elec |-> ElecOf(e) \div Count(e)]
<1>1. calibrate_heating(recovery) = [e \in E |-> Bin(e)] BY DEF calibrate_heating
<1>2. ASSUME NEW e PROVE Count(e) \in Nat /\ HeatOf(e) \in Int /\ ElecOf(e) \in Nat
  <2> DEFINE c == [i \in DOMAIN nights |-> [o \in Samples(e, nights[i]) |-> 1]]
             h == [i \in DOMAIN nights |->
                        [o \in Samples(e, nights[i]) |-> nights[i].rows[o].heat]]
             p == [i \in DOMAIN nights |->
                        [o \in Samples(e, nights[i]) |-> nights[i].rows[o].elec]]
  <2>1. ASSUME NEW i \in DOMAIN nights, NEW o \in Samples(e, nights[i])
        PROVE  nights[i].rows[o].heat \in Int /\ nights[i].rows[o].elec \in Nat
    <3>1. o \in DOMAIN nights[i].rows /\ KnownNight(nights[i]) BY DEF HeatingSamples, NightsOK
    <3> QED BY <3>1, RowTyped
  <2>2. /\ Count(e) = Summed([i \in DOMAIN nights |-> Summed(c[i], LastOffset)], Len(nights))
        /\ HeatOf(e) = Summed([i \in DOMAIN nights |-> Summed(h[i], LastOffset)], Len(nights))
        /\ ElecOf(e) = Summed([i \in DOMAIN nights |-> Summed(p[i], LastOffset)], Len(nights))
    BY DEF Over
  <2> HIDE DEF Samples
  <2>3. /\ \A i \in DOMAIN nights : \A o \in DOMAIN c[i] : c[i][o] \in Nat
        /\ \A i \in DOMAIN nights : \A o \in DOMAIN h[i] : h[i][o] \in Int
        /\ \A i \in DOMAIN nights : \A o \in DOMAIN p[i] : p[i][o] \in Nat
    BY <2>1
  <2> HIDE DEF c, h, p, Count, HeatOf, ElecOf
  <2> QED BY <2>2, <2>3, NatSumOfNights, SumOfNights
<1> HIDE DEF Count, HeatOf, ElecOf
<1>3. MinBin \in Nat \ {0} /\ BinEdges \in Seq(Int) BY OvernightAssumption
<1>4. ASSUME NEW e \in E PROVE Bin(e) \in [low: Int, high: Int, heat: Int, elec: Nat]
  <2>1. Count(e) \in Nat \ {0} BY <1>2, <1>3
  <2>2. e \in 1..Len(BinEdges) /\ e + 1 \in 1..Len(BinEdges) BY <1>3
  <2>3. BinEdges[e] \in Int /\ BinEdges[e + 1] \in Int BY <1>3, <2>2
  <2>4. \A b \in Nat \ {0} : /\ \A a \in Int : a \div b \in Int
                             /\ \A a \in Nat : a \div b \in Nat OBVIOUS
  <2> QED BY <1>2, <2>1, <2>3, <2>4
<1>5. E \subseteq 0..Len(BinEdges) BY <1>3
<1> HIDE DEF E, Bin
<1> QED BY <1>1, <1>4, <1>5 DEF BinsOK

LEMMA HeatingLookedUp ==
    ASSUME NEW bins, BinsOK(bins), NEW out
    PROVE  lookup_heating(bins, out).heat \in Int /\ lookup_heating(bins, out).elec \in Nat
<1> DEFINE in == {e \in DOMAIN bins : bins[e].low <= out /\ out < bins[e].high}
           Good(bin) == bin.heat \in Int /\ bin.elec \in Nat
           guess == [heat |-> 3500, elec |-> 700]
<1>1. Len(BinEdges) \in Nat BY OvernightAssumption
<1>2. ASSUME NEW S \in SUBSET DOMAIN bins, S # {}
      PROVE  Good(bins[Min(S)]) /\ Good(bins[Max(S)])
  <2>1. S \in SUBSET (0..Len(BinEdges)) BY DEF BinsOK
  <2>2. S \in SUBSET Int /\ IsFiniteSet(S) BY <1>1, <2>1, PartOfInterval
  <2>3. Min(S) \in S /\ Max(S) \in S BY <1>2, <2>2, FiniteMin, FiniteMax
  <2> QED BY <2>3 DEF BinsOK
<1>3. Good(guess) OBVIOUS
<1>4. in \in SUBSET DOMAIN bins OBVIOUS
<1>5. \/ in # {} /\ lookup_heating(bins, out) = bins[Min(in)]
      \/ DOMAIN bins # {} /\ lookup_heating(bins, out) = bins[Min(DOMAIN bins)]
      \/ DOMAIN bins # {} /\ lookup_heating(bins, out) = bins[Max(DOMAIN bins)]
      \/ lookup_heating(bins, out) = guess
  BY DEF lookup_heating
<1> HIDE DEF in, guess, Good
<1>6. Good(lookup_heating(bins, out)) BY <1>2, <1>3, <1>4, <1>5
<1> QED BY <1>6 DEF Good

-----------------------------------------------------------------------------
(* One night under one schedule.                                           *)

ModelOK == BinsOK(model.recovery) /\ BinsOK(model.maint) /\ model.k \in Int

LEMMA ModeOfMade ==
    ASSUME NEW s \in Made
    PROVE  /\ ModeOf(s) \in ToSet(DhwModes) /\ ModeOf(s).name = s.mode
           /\ ModeOf(s).duration \in Nat /\ ModeOf(s).elec \in Nat
           /\ s \in Strategy /\ s.dhw_start \in Int
<1>1. \E mode \in ToSet(DhwModes) : mode.name = s.mode BY DEF Made
<1>2. ModeOf(s) \in ToSet(DhwModes) /\ ModeOf(s).name = s.mode BY <1>1 DEF ModeOf
<1>3. ModeOf(s) \in DhwMode BY <1>2, ModesTyped
<1> QED BY <1>2, <1>3 DEF Made, Strategy, DhwMode

LEMMA ModeOfFitting ==
    ASSUME NEW cosy, NEW s \in Fitting(cosy)
    PROVE  /\ s \in Made
           /\ cosy.from <= s.dhw_start /\ s.dhw_start + ModeOf(s).duration <= cosy.to
<1>1. PICK mode \in ToSet(DhwModes) :
        /\ mode.name = s.mode
        /\ cosy.from <= s.dhw_start /\ s.dhw_start + mode.duration <= cosy.to
  BY DEF Fitting
<1>2. s \in Made BY <1>1 DEF Made, Fitting
<1>3. ModeOf(s) = mode BY <1>1, <1>2, ModeOfMade, ModesTyped
<1> QED BY <1>1, <1>2, <1>3

LEMMA MinutesTyped ==
    ASSUME NEW night, KnownNight(night)
    PROVE  \E lo, hi \in DOMAIN night.rows :
                /\ Minutes(night) = lo..hi /\ lo \in 0..LastOffset /\ hi \in 0..LastOffset
                /\ \A o \in DOMAIN night.rows : lo <= o /\ o <= hi
<1> DEFINE S == DOMAIN night.rows
<1>1. S \in SUBSET Offset /\ S # {} BY DEF KnownNight
<1>2. S \in SUBSET Int /\ IsFiniteSet(S) BY <1>1, PartOfNight
<1>3. /\ Min(S) \in S /\ \A o \in S : Min(S) <= o
      /\ Max(S) \in S /\ \A o \in S : o <= Max(S)
  BY <1>1, <1>2, FiniteMin, FiniteMax
<1> QED BY <1>1, <1>3 DEF Minutes, Offset

LEMMA OutsideTyped ==
    ASSUME NEW night, KnownNight(night), NEW o \in Minutes(night)
    PROVE  lookup_outside(night.rows, o) \in Int /\ o \in 0..LastOffset
<1> DEFINE rows == night.rows
           A == {p \in DOMAIN rows : p <= o}
           B == {p \in DOMAIN rows : p > o}
           a == Max(A)
           b == Min(B)
<1>1. PICK lo, hi \in DOMAIN rows :
            /\ Minutes(night) = lo..hi /\ lo \in 0..LastOffset /\ hi \in 0..LastOffset
            /\ \A p \in DOMAIN rows : lo <= p /\ p <= hi
  BY MinutesTyped
<1>2. o \in 0..LastOffset /\ lo <= o /\ o <= hi BY <1>1, LastIsNat
<1>3. DOMAIN rows \subseteq Offset BY DEF KnownNight
<1>4. A \in SUBSET Offset /\ B \in SUBSET Offset BY <1>3
<1>5. A # {} BY <1>2
<1>6. a \in A
  <2> HIDE DEF A
  <2> QED BY <1>4, <1>5, PartOfNight, FiniteMax
<1>7. a \in DOMAIN rows /\ a <= o /\ a \in Int /\ rows[a].out \in Int
  <2>1. a \in DOMAIN rows /\ a <= o BY <1>6
  <2> HIDE DEF a
  <2> QED BY <2>1, RowTyped, LastIsNat
<1>8. lookup_outside(rows, o) = IF a = o THEN rows[o].out
            ELSE rows[a].out + ((rows[b].out - rows[a].out) * (o - a)) \div (b - a)
  BY DEF lookup_outside
<1>9. CASE a = o
  <2> HIDE DEF a
  <2> QED BY <1>2, <1>7, <1>8, <1>9
<1>10. CASE a # o
  <2>1. hi # o
    <3> SUFFICES ASSUME hi = o PROVE FALSE OBVIOUS
    <3>1. o \in A BY <1>2
    <3>2. \A p \in A : p <= a
      <4> HIDE DEF A
      <4> QED BY <1>4, <1>5, PartOfNight, FiniteMax
    <3>3. o <= a BY <3>1, <3>2
    <3> HIDE DEF a
    <3> QED BY <1>2, <1>7, <1>10, <3>3
  <2>2. hi \in B BY <1>1, <1>2, <2>1
  <2>3. b \in B
    <3> HIDE DEF B
    <3> QED BY <1>4, <2>2, PartOfNight, FiniteMin
  <2>4. b > o /\ b \in Int /\ rows[b].out \in Int
    <3>1. b \in DOMAIN rows /\ b > o BY <2>3
    <3> HIDE DEF b
    <3> QED BY <3>1, RowTyped, LastIsNat
  <2> HIDE DEF a, b
  <2>5. PICK x, y, d \in Int, e \in Nat :
            x = rows[a].out /\ y = rows[b].out /\ d = o - a /\ e = b - a /\ e # 0
    BY <1>2, <1>7, <2>4
  <2>6. \A u, v, w \in Int, n \in Nat : n # 0 => u + ((v - u) * w) \div n \in Int OBVIOUS
  <2>7. x + ((y - x) * d) \div e \in Int BY <2>5, <2>6
  <2> QED BY <1>2, <1>8, <1>10, <2>5, <2>7
<1> QED BY <1>9, <1>10

LEMMA PowerTyped ==
    ASSUME ModelOK, NEW s \in Made, NEW o, NEW out
    PROVE  Power(s, o, out) \in Nat
<1>1. ModeOf(s).elec \in Nat BY ModeOfMade
<1>2. \A bins : BinsOK(bins) => lookup_heating(bins, out).elec \in Nat BY HeatingLookedUp
<1> QED BY <1>1, <1>2 DEF Power, ModelOK

LEMMA IndoorsTyped ==
    ASSUME ModelOK, NEW s, NEW o, NEW out \in Int, NEW t \in Int
    PROVE  Indoors(s, o, out, t) \in Int
<1>1. Htc \in Nat \ {0} /\ model.k \in Int BY OvernightAssumption DEF ModelOK
<1>2. PICK bins : bins = (IF s.off_at < 0 THEN model.maint ELSE model.recovery) OBVIOUS
<1>3. PICK h \in Int : h = lookup_heating(bins, out).heat BY <1>2, HeatingLookedUp DEF ModelOK
<1>4. \A x, y, k \in Int, n \in Nat \ {0} :
            /\ x + ((10 * y - n * (x - out)) * k) \div (1000 * n) \in Int
            /\ x - (k * (x - out)) \div 1000 \in Int
  <2> SUFFICES ASSUME NEW x \in Int, NEW y \in Int, NEW k \in Int, NEW n \in Nat \ {0}
               PROVE  /\ x + ((10 * y - n * (x - out)) * k) \div (1000 * n) \in Int
                      /\ x - (k * (x - out)) \div 1000 \in Int
    OBVIOUS
  <2>1. \A z \in Int, d \in Nat \ {0} : x + z \div d \in Int /\ x - z \div d \in Int OBVIOUS
  <2>2. 1000 * n \in Nat \ {0} /\ 1000 \in Nat \ {0} OBVIOUS
  <2>3. (10 * y - n * (x - out)) * k \in Int /\ k * (x - out) \in Int OBVIOUS
  <2> QED BY <2>1, <2>2, <2>3
<1>5. /\ t + ((10 * h - Htc * (t - out)) * model.k) \div (1000 * Htc) \in Int
      /\ t - (model.k * (t - out)) \div 1000 \in Int
  BY <1>1, <1>4
<1>6. Indoors(s, o, out, t) = IF HeatingOn(s, o)
            THEN t + ((10 * h - Htc * (t - out)) * model.k) \div (1000 * Htc)
            ELSE t - (model.k * (t - out)) \div 1000
  BY <1>2, <1>3 DEF Indoors
<1> QED BY <1>5, <1>6

LEMMA BillTyped ==
    ASSUME NEW night, NEW power, \A o \in DOMAIN power : power[o] \in Nat
    PROVE  /\ Bill(night, power).cost \in Nat /\ Bill(night, power).cosy \in Nat
           /\ Bill(night, power).total \in Nat
<1> DEFINE lowest == {o \in DOMAIN power : is_lowest_rate(night.of, o)}
           cost == [o \in DOMAIN power |-> power[o] * effective_rate(night.of, o)]
           cosy == [o \in lowest |-> power[o]]
<1>1. \A o : effective_rate(night.of, o) \in Nat BY OvernightAssumption DEF effective_rate
<1>2. \A x, y \in Nat : x * y \in Nat OBVIOUS
<1>3. \A o \in 0..LastOffset : Term(cost, o) \in Nat BY <1>1, <1>2 DEF Term
<1>4. \A o \in 0..LastOffset : Term(cosy, o) \in Nat BY DEF Term
<1>5. \A o \in 0..LastOffset : Term(power, o) \in Nat BY DEF Term
<1>6. /\ Bill(night, power).cost = Summed(cost, LastOffset)
      /\ Bill(night, power).cosy = Summed(cosy, LastOffset)
      /\ Bill(night, power).total = Summed(power, LastOffset)
  BY DEF Bill
<1> HIDE DEF cost, cosy
<1> QED BY <1>3, <1>4, <1>5, <1>6, LastIsNat, SummedIsNat

LEMMA ActualTyped ==
    ASSUME NEW night, KnownNight(night)
    PROVE  actual_cost(night) \in SimResult
<1> DEFINE power == [o \in DOMAIN night.rows |-> night.rows[o].elec]
<1>1. \A o \in DOMAIN power : power[o] \in Nat BY RowTyped
<1>2. night.indoor_t_target \in Int BY DEF KnownNight
<1>3. actual_cost(night) = [cost |-> Bill(night, power).cost, cosy |-> Bill(night, power).cosy,
            total |-> Bill(night, power).total, t07 |-> night.indoor_t_target]
  BY DEF actual_cost
<1> HIDE DEF power
<1>4. /\ Bill(night, power).cost \in Nat /\ Bill(night, power).cosy \in Nat
      /\ Bill(night, power).total \in Nat
  BY <1>1, BillTyped
<1> QED BY <1>2, <1>3, <1>4 DEF SimResult

LEMMA IndoorsAlong ==
    ASSUME ModelOK, NEW night, KnownNight(night), NEW s, NEW indoors,
           \E g : indoors = g /\ g = [o \in Minutes(night) |->
                Indoors(s, o, lookup_outside(night.rows, o),
                        IF o - 1 \in Minutes(night) THEN g[o - 1] ELSE night.indoor_t_start)]
    PROVE  \A o \in Minutes(night) : indoors[o] \in Int
<1>1. PICK lo, hi \in DOMAIN night.rows :
            Minutes(night) = lo..hi /\ lo \in 0..LastOffset /\ hi \in 0..LastOffset
            /\ \A o \in DOMAIN night.rows : lo <= o /\ o <= hi
  BY MinutesTyped
<1>2. lo <= hi /\ lo \in Nat /\ hi \in Nat BY <1>1, LastIsNat
<1>3. PICK n \in Nat : n = hi - lo BY <1>2
<1>4. \A i \in 0..n : lo + i \in lo..hi BY <1>2, <1>3
<1> DEFINE G == {i \in 0..n : indoors[lo + i] \in Int}
<1>5. night.indoor_t_start \in Int BY DEF KnownNight
<1>6. \A o \in lo..hi : lookup_outside(night.rows, o) \in Int BY <1>1, OutsideTyped
<1>7. \A o \in lo..hi : indoors[o] = Indoors(s, o, lookup_outside(night.rows, o),
            IF o - 1 \in lo..hi THEN indoors[o - 1] ELSE night.indoor_t_start)
  BY <1>1
<1>8. 0 \in G
  <2>1. lo \in lo..hi /\ lo + 0 = lo /\ lo - 1 \notin lo..hi /\ 0 \in 0..n BY <1>2, <1>3
  <2>2. indoors[lo] = Indoors(s, lo, lookup_outside(night.rows, lo), night.indoor_t_start)
    BY <1>7, <2>1
  <2>3. indoors[lo] \in Int BY <1>5, <1>6, <2>1, <2>2, IndoorsTyped
  <2> QED BY <2>1, <2>3
<1>9. ASSUME NEW i \in 1..n, i - 1 \in G PROVE i \in G
  <2>1. i \in 0..n /\ i - 1 \in 0..n /\ (lo + i) - 1 = lo + (i - 1) BY <1>2
  <2>2. PICK o \in lo..hi : o = lo + i /\ o - 1 = lo + (i - 1) BY <1>4, <2>1
  <2>3. o - 1 \in lo..hi BY <1>4, <2>1, <2>2
  <2>4. indoors[o - 1] \in Int BY <1>9, <2>2
  <2>5. indoors[o] = Indoors(s, o, lookup_outside(night.rows, o), indoors[o - 1])
    BY <1>7, <2>3
  <2>6. indoors[o] \in Int BY <1>6, <2>4, <2>5, IndoorsTyped
  <2> QED BY <2>1, <2>2, <2>6
<1> HIDE DEF G
<1>10. \A i \in 0..n : i \in G BY <1>8, <1>9, UpToInduction
<1>11. ASSUME NEW o \in lo..hi PROVE indoors[o] \in Int
  <2>1. o - lo \in 0..n /\ lo + (o - lo) = o BY <1>2, <1>3
  <2>2. o - lo \in G BY <1>10, <2>1
  <2> QED BY <2>1, <2>2 DEF G
<1> QED BY <1>1, <1>11

LEMMA SimulatedTyped ==
    ASSUME ModelOK, NEW night, KnownNight(night), NEW s \in Made
    PROVE  simulate_schedule(s, night) \in SimResult
<1> DEFINE M == Minutes(night)
           Out(o) == lookup_outside(night.rows, o)
           IsIn(g) == g = [o \in M |-> Indoors(s, o, Out(o), IF o - 1 \in M THEN g[o - 1]
                                                             ELSE night.indoor_t_start)]
           indoors == CHOOSE g : IsIn(g)
           power == [o \in M |-> Power(s, o, Out(o))]
           t07 == IF TARGET_HOUR \in M THEN indoors[TARGET_HOUR] ELSE night.indoor_t_start
<1>1. simulate_schedule(s, night)
        = [cost |-> Bill(night, power).cost, cosy |-> Bill(night, power).cosy,
           total |-> Bill(night, power).total, t07 |-> t07]
  BY DEF simulate_schedule
<1>2. \A o \in DOMAIN power : power[o] \in Nat BY PowerTyped
<1>3. PICK lo, hi \in DOMAIN night.rows :
            M = lo..hi /\ lo \in 0..LastOffset /\ hi \in 0..LastOffset
            /\ \A o \in DOMAIN night.rows : lo <= o /\ o <= hi
  BY MinutesTyped
<1>4. lo <= hi /\ lo \in Nat /\ hi \in Nat BY <1>3, LastIsNat
<1>5. PICK n \in Nat : n = hi - lo BY <1>4
<1>6. night.indoor_t_start \in Int BY DEF KnownNight
<1>7. \A o \in lo..hi : Out(o) \in Int BY <1>3, OutsideTyped
<1> HIDE DEF Out, power, M
<1>8. \E g : IsIn(g)
  <2> DEFINE Go(o, x) == Indoors(s, o, Out(o), x)
             step == [i \in 1..n |-> [x \in Int |-> Go(lo + i, x)]]
  <2>1. \A o \in lo..hi, x \in Int : Go(o, x) \in Int BY <1>7, IndoorsTyped
  <2>2. \A i \in 0..n : lo + i \in lo..hi BY <1>4, <1>5
  <2>3. Go(lo, night.indoor_t_start) \in Int
    <3>1. lo \in lo..hi BY <1>4
    <3> QED BY <1>6, <2>1, <3>1
  <2> HIDE DEF Go
  <2>4. step \in [1..n -> [Int -> Int]]
    <3>1. \A i \in 1..n : i \in 0..n OBVIOUS
    <3> QED BY <2>1, <2>2, <3>1
  <2>5. \A i \in 1..n, x \in Int : step[i][x] = Go(lo + i, x) OBVIOUS
  <2> HIDE DEF step
  <2>6. Recursive(n, Int, Go(lo, night.indoor_t_start), step) BY <2>3, <2>4, RecursionExists
  <2>7. PICK f \in [0..n -> Int] :
            /\ f[0] = Go(lo, night.indoor_t_start)
            /\ \A i \in 1..n : f[i] = step[i][f[i - 1]]
    BY <2>6 DEF Recursive
  <2> DEFINE h == [o \in M |-> f[o - lo]]
  <2>8. ASSUME NEW o \in M
        PROVE  f[o - lo] = Indoors(s, o, Out(o), IF o - 1 \in M THEN h[o - 1]
                                                 ELSE night.indoor_t_start)
    <3>1. CASE o = lo
      <4>1. o - lo = 0 /\ o - 1 \notin M BY <1>3, <1>4, <3>1
      <4> QED BY <2>7, <3>1, <4>1 DEF Go
    <3>2. CASE o # lo
      <4>1. PICK i \in 1..n : i = o - lo /\ o = lo + i /\ (o - 1) - lo = i - 1 /\ o - 1 \in M
        <5>1. o - lo \in 1..n /\ o = lo + (o - lo) /\ (o - 1) - lo = (o - lo) - 1 /\ o - 1 \in M
          BY <1>3, <1>4, <1>5, <3>2
        <5> QED BY <5>1
      <4>2. i - 1 \in 0..n OBVIOUS
      <4>3. f[i] = Go(o, f[i - 1]) BY <2>5, <2>7, <4>1, <4>2
      <4>4. h[o - 1] = f[i - 1] BY <4>1
      <4> QED BY <4>1, <4>3, <4>4 DEF Go
    <3> QED BY <3>1, <3>2
  <2>9. IsIn(h) BY <2>8
  <2> QED BY <2>9
<1>9. IsIn(indoors) BY <1>8
<1> HIDE DEF indoors
<1>10. \A o \in M : indoors[o] \in Int
  <2>1. \E g : indoors = g /\ g = [o \in Minutes(night) |->
                Indoors(s, o, lookup_outside(night.rows, o),
                        IF o - 1 \in Minutes(night) THEN g[o - 1] ELSE night.indoor_t_start)]
    BY <1>9 DEF Out, M
  <2>2. \A o \in Minutes(night) : indoors[o] \in Int BY <2>1, IndoorsAlong
  <2> QED BY <2>2 DEF M
<1>11. t07 \in Int BY <1>6, <1>10
<1> HIDE DEF t07
<1>12. /\ Bill(night, power).cost \in Nat /\ Bill(night, power).cosy \in Nat
       /\ Bill(night, power).total \in Nat
  BY <1>2, BillTyped
<1> QED BY <1>1, <1>11, <1>12 DEF SimResult

\* What the backtest of a night delivers.
LEMMA BacktestTyped ==
    ASSUME ModelOK, NEW night, KnownNight(night), schedules \in Seq(Made)
    PROVE  Backtest(night) \in NightResult /\ DOMAIN Backtest(night).sims = DOMAIN schedules
<1> DEFINE sims == [i \in DOMAIN schedules |-> simulate_schedule(schedules[i], night)]
<1>1. Backtest(night) = [actual |-> actual_cost(night), sims |-> sims] BY DEF Backtest
<1>2. actual_cost(night) \in SimResult BY ActualTyped
<1>3. \A i \in DOMAIN schedules : simulate_schedule(schedules[i], night) \in SimResult
  BY SimulatedTyped
<1>4. DOMAIN schedules = 1..Len(schedules) /\ Len(schedules) \in Nat OBVIOUS
<1>5. sims \in Seq(SimResult) BY <1>3, <1>4
<1>6. DOMAIN sims = DOMAIN schedules OBVIOUS
<1> HIDE DEF sims
<1> QED BY <1>1, <1>2, <1>5, <1>6 DEF NightResult

\* Hot water made in the window of a night whose lowest rate covers it is all paid at it.
LEMMA CosyCovers ==
    ASSUME ModelOK, NEW night, KnownNight(night),
           log[night.of].tariff \in Window, NEW s \in Fitting(log[night.of].tariff)
    PROVE  simulate_schedule(s, night).cosy
                >= Cardinality((s.dhw_start..s.dhw_start + ModeOf(s).duration - 1)
                                    \intersect Minutes(night)) * ModeOf(s).elec
<1> DEFINE M == Minutes(night)
           T == (s.dhw_start..s.dhw_start + ModeOf(s).duration - 1) \intersect M
           power == [o \in M |-> Power(s, o, lookup_outside(night.rows, o))]
           lowest == {o \in DOMAIN power : is_lowest_rate(night.of, o)}
           cosy == [o \in lowest |-> power[o]]
           w == log[night.of].tariff
<1>1. simulate_schedule(s, night).cosy = Summed(cosy, LastOffset)
  BY DEF simulate_schedule, Bill
<1>2. /\ s \in Made /\ w.from <= s.dhw_start /\ s.dhw_start + ModeOf(s).duration <= w.to
  BY ModeOfFitting
<1>3. /\ s.dhw_start \in Int /\ ModeOf(s).duration \in Nat /\ ModeOf(s).elec \in Nat
  BY <1>2, ModeOfMade
<1>4. w.from \in Nat /\ w.to \in Nat BY WindowTyped
<1>5. \A o \in M : o \in 0..LastOffset /\ power[o] \in Nat BY <1>2, OutsideTyped, PowerTyped
<1>6. ASSUME NEW o \in T PROVE o \in lowest /\ power[o] = ModeOf(s).elec /\ o \in 0..LastOffset
  <2>1. /\ o \in M /\ o \in Int /\ s.dhw_start <= o /\ o < s.dhw_start + ModeOf(s).duration
    BY <1>3
  <2>2. w.from <= o /\ o < w.to BY <1>2, <1>3, <1>4, <2>1
  <2>3. is_lowest_rate(night.of, o) BY <2>2 DEF is_lowest_rate
  <2>4. power[o] = ModeOf(s).elec BY <2>1 DEF Power, InDhw
  <2> QED BY <1>5, <2>1, <2>3, <2>4
<1>7. \A o \in 0..LastOffset : Term(cosy, o) \in Nat BY <1>5 DEF Term
<1>8. \A o \in T : Term(cosy, o) >= ModeOf(s).elec
  <2> SUFFICES ASSUME NEW o \in T PROVE Term(cosy, o) >= ModeOf(s).elec OBVIOUS
  <2>1. Term(cosy, o) = ModeOf(s).elec BY <1>6 DEF Term
  <2> QED BY <1>3, <2>1
<1>9. T \in SUBSET (0..LastOffset) BY <1>6
<1> HIDE DEF cosy, T
<1>10. Summed(cosy, LastOffset) >= Cardinality(T) * ModeOf(s).elec
  BY <1>3, <1>7, <1>8, <1>9, LastIsNat, SummedAtLeast
<1> QED BY <1>1, <1>10 DEF T

-----------------------------------------------------------------------------
(* The inductive invariant.                                                *)

Stage == {"idle", "extracted", "calibrated", "backtest"}
Outcome == {"none", "running", "printed", "panicked", "failed"}

ModelInv == ModelOK /\ model.k \in {0} \union KMin..KMax

\* A run has nights, and no results before its strategies are there.
RunInv ==
    /\ stage \in Stage /\ outcome \in Outcome
    /\ stage # "idle" => outcome = "running" /\ nights # <<>> /\ Len(nights) # 0
    /\ stage \in {"extracted", "calibrated"} => results = <<>> /\ tallied = 0

ResultsInv ==
    /\ schedules \in Seq(Made)
    /\ results \in Seq(NightResult) /\ Len(results) <= Len(nights)
    /\ tallied \in 0..Len(results) /\ breakdown \in [Counted -> 0..tallied]

\* What a schedule spends at the lowest rate covers its hot water.
CosyOf(result, night, s) ==
    result.sims[s].cosy >=
        Cardinality((schedules[s].dhw_start
                        ..schedules[s].dhw_start + ModeOf(schedules[s]).duration - 1)
                    \intersect Minutes(night)) * ModeOf(schedules[s]).elec

CoveredInv ==
    \A i \in DOMAIN results, s \in DOMAIN schedules :
        schedules = generate_schedules(log[nights[i].of].tariff) =>
            CosyOf(results[i], nights[i], s)

RunsInv == LogOK /\ NightsOK /\ ModelInv /\ RunInv /\ ResultsInv /\ CoveredInv

LEMMA InitRuns == Init => RunsInv
<1> SUFFICES ASSUME Init PROVE RunsInv OBVIOUS
<1> USE DEF Init, ChoiceInit, NoModel
<1>1. Len(Tracks) \in Nat BY OvernightAssumption
<1>2. LogOK BY <1>1 DEF LogOK
<1>3. NightsOK BY DEF NightsOK
<1>4. BinsOK(<<>>) BY DEF BinsOK
<1>5. ModelInv BY <1>4 DEF ModelInv, ModelOK
<1>6. RunInv BY DEF RunInv, Stage, Outcome
<1>7. ResultsInv BY DEF ResultsInv, Counted
<1>8. CoveredInv BY DEF CoveredInv
<1> QED BY <1>2, <1>3, <1>5, <1>6, <1>7, <1>8 DEF RunsInv

\* Another night in the record changes nothing that was taken from it.
LEMMA RecordRuns == RunsInv /\ Record => RunsInv'
<1> SUFFICES ASSUME RunsInv, Record PROVE RunsInv' OBVIOUS
<1> USE DEF RunsInv
<1>1. PICK track \in Tracks[Len(log) + 1], tariff \in Tariffs :
            log' = Append(log, [track |-> track, tariff |-> tariff])
  BY DEF Record
<1>2. /\ Len(log) < Len(Tracks)
      /\ UNCHANGED <<schedules, results, tallied, breakdown, outcome, stage, nights, model>>
  BY DEF Record, choiceVars
<1>3. log \in Seq(Entry) /\ Len(log) \in Nat BY DEF LogOK
<1>4. Len(Tracks) \in Nat /\ Night = 1..Len(Tracks) BY OvernightAssumption
<1>5. Len(log) + 1 \in Night BY <1>2, <1>3, <1>4
<1>6. [track |-> track, tariff |-> tariff] \in Entry BY <1>5 DEF Entry
<1>7. LogOK' BY <1>1, <1>2, <1>3, <1>4, <1>6 DEF LogOK
<1>8. \A n \in DOMAIN log : n \in DOMAIN log' /\ log'[n] = log[n] BY <1>1, <1>3, <1>6
<1>9. NightsOK' BY <1>2, <1>8 DEF NightsOK
<1>10. ModelInv' /\ RunInv' /\ ResultsInv'
  BY <1>2 DEF ModelInv, ModelOK, RunInv, ResultsInv
<1>11. CoveredInv'
  <2>1. \A i \in DOMAIN results : i \in DOMAIN nights /\ nights[i].of \in DOMAIN log
    BY DEF ResultsInv, NightsOK
  <2>2. \A i \in DOMAIN results : log'[nights[i].of] = log[nights[i].of] BY <1>8, <2>1
  <2> QED BY <1>2, <2>2 DEF CoveredInv, CosyOf
<1> QED BY <1>7, <1>9, <1>10, <1>11

LEMMA StartRuns == RunsInv /\ Start => RunsInv'
<1> SUFFICES ASSUME RunsInv, Start PROVE RunsInv' OBVIOUS
<1> USE DEF RunsInv
<1>1. /\ outcome' = "running" /\ schedules' = <<>> /\ results' = <<>> /\ tallied' = 0
      /\ breakdown' = [c \in Counted |-> 0]
      /\ nights' = Nights /\ model' = NoModel /\ log' = log
      /\ stage' = IF nights' = <<>> THEN "idle" ELSE "extracted"
  BY DEF Start, ChoiceBegin
<1>2. LogOK' BY <1>1 DEF LogOK
<1>3. NightsOK' BY <1>1, NightsKnown DEF NightsOK
<1>4. BinsOK(<<>>) BY DEF BinsOK
<1>5. ModelInv' BY <1>1, <1>4 DEF ModelInv, ModelOK, NoModel
<1>10. Len(nights') = 0 => nights' = <<>> BY <1>1, NightsKnown
<1>6. RunInv' BY <1>1, <1>10 DEF RunInv, Stage, Outcome
<1>7. Len(nights') \in Nat BY <1>3 DEF NightsOK
<1>8. ResultsInv' BY <1>1, <1>7 DEF ResultsInv, Counted
<1>9. CoveredInv' BY <1>1 DEF CoveredInv
<1> QED BY <1>2, <1>3, <1>5, <1>6, <1>8, <1>9

LEMMA FailRuns == RunsInv /\ TariffFails => RunsInv'
<1> SUFFICES ASSUME RunsInv, TariffFails PROVE RunsInv' OBVIOUS
<1>1. /\ outcome' = "failed" /\ stage' = "idle"
      /\ UNCHANGED <<schedules, results, tallied, breakdown, log, nights, model>>
  BY DEF TariffFails, ChoiceFail
<1>2. RunInv' BY <1>1 DEF RunInv, Stage, Outcome
<1> QED BY <1>1, <1>2 DEF RunsInv, LogOK, NightsOK, ModelInv, ModelOK, ResultsInv, CoveredInv,
                          CosyOf

LEMMA CalibrateRuns == RunsInv /\ Calibrate => RunsInv'
<1> SUFFICES ASSUME RunsInv, Calibrate PROVE RunsInv' OBVIOUS
<1> USE DEF RunsInv
<1>1. /\ stage = "extracted" /\ stage' = "calibrated"
      /\ model' = [k |-> calibrate_cooling, recovery |-> calibrate_heating(TRUE),
                   maint |-> calibrate_heating(FALSE)]
      /\ UNCHANGED <<schedules, results, tallied, breakdown, outcome, log, nights>>
  BY DEF Calibrate, choiceVars
<1>2. calibrate_cooling \in KMin..KMax BY CoolingBounded
<1>3. BinsOK(calibrate_heating(TRUE)) /\ BinsOK(calibrate_heating(FALSE)) BY BinsCalibrated
<1>4. KMin \in Int /\ KMax \in Int BY OvernightAssumption
<1>5. PICK k, rec, held : /\ model' = [k |-> k, recovery |-> rec, maint |-> held]
                          /\ k \in KMin..KMax /\ BinsOK(rec) /\ BinsOK(held)
  BY <1>1, <1>2, <1>3
<1>6. model'.k = k /\ model'.recovery = rec /\ model'.maint = held BY <1>5
<1>7. ModelInv' BY <1>4, <1>5, <1>6 DEF ModelInv, ModelOK
<1>8. RunInv' BY <1>1 DEF RunInv, Stage
<1>9. LogOK' /\ NightsOK' /\ ResultsInv' /\ CoveredInv'
  BY <1>1 DEF LogOK, NightsOK, ResultsInv, CoveredInv, CosyOf
<1> QED BY <1>7, <1>8, <1>9

LEMMA WindowsOffered ==
    ASSUME RunsInv, stage = "calibrated", NEW cosy \in {log[nights[1].of].tariff, Fallback}
    PROVE  cosy \in Window
<1>1. Len(nights) # 0 BY DEF RunsInv, RunInv
<1>2. 1 \in DOMAIN nights BY <1>1 DEF RunsInv, NightsOK
<1>3. log[nights[1].of].tariff \in Window BY <1>2, LogTyped DEF RunsInv, NightsOK
<1> QED BY <1>3, OvernightAssumption

LEMMA FittingAreMade ==
    ASSUME NEW cosy \in Window
    PROVE  generate_schedules(cosy) \in Seq(Made) /\ generate_schedules(cosy) \in Seq(Strategy)
<1>1. generate_schedules(cosy) \in Seq(Fitting(cosy)) BY GeneratedFit
<1>2. Fitting(cosy) \subseteq Made BY ModeOfFitting
<1>3. Fitting(cosy) \subseteq Strategy BY DEF Fitting
<1> QED BY <1>1, <1>2, <1>3

\* The first night's window, or the fallback, serves for every night.
LEMMA GenerateRuns == RunsInv /\ Generate => RunsInv'
<1> SUFFICES ASSUME RunsInv, Generate PROVE RunsInv' OBVIOUS
<1> USE DEF RunsInv
<1>1. PICK cosy \in {log[nights[1].of].tariff, Fallback} :
            ChoiceSchedules(generate_schedules(cosy))
  BY DEF Generate
<1>2. /\ stage = "calibrated" /\ stage' = "backtest" /\ results = <<>>
      /\ schedules' = generate_schedules(cosy)
      /\ UNCHANGED <<results, tallied, breakdown, outcome, log, nights, model>>
  BY <1>1 DEF Generate, ChoiceSchedules
<1>3. schedules' \in Seq(Made) BY <1>2, WindowsOffered, FittingAreMade
<1>4. ResultsInv' BY <1>2, <1>3 DEF ResultsInv
<1>5. RunInv' BY <1>2 DEF RunInv, Stage
<1>6. CoveredInv' BY <1>2 DEF CoveredInv
<1> QED BY <1>2, <1>4, <1>5, <1>6 DEF LogOK, NightsOK, ModelInv, ModelOK

LEMMA NextResult ==
    ASSUME RunsInv, BacktestNight
    PROVE  /\ Len(results) + 1 \in DOMAIN nights
           /\ Backtest(nights[Len(results) + 1]) \in NightResult
           /\ DOMAIN Backtest(nights[Len(results) + 1]).sims = DOMAIN schedules
<1>1. Len(results) \in Nat /\ Len(results) < Len(nights)
  BY DEF RunsInv, ResultsInv, BacktestNight
<1>2. Len(results) + 1 \in DOMAIN nights BY <1>1 DEF RunsInv, NightsOK
<1>3. KnownNight(nights[Len(results) + 1]) BY <1>2 DEF RunsInv, NightsOK
<1>4. ModelOK /\ schedules \in Seq(Made) BY DEF RunsInv, ModelInv, ResultsInv
<1> QED BY <1>2, <1>3, <1>4, BacktestTyped

LEMMA BacktestRuns == RunsInv /\ BacktestNight => RunsInv'
<1> SUFFICES ASSUME RunsInv, BacktestNight PROVE RunsInv' OBVIOUS
<1> DEFINE n == Len(results) + 1
           night == nights[n]
           r == Backtest(night)
<1> USE DEF RunsInv
<1>1. /\ results' = Append(results, r) /\ Len(results) < Len(nights) /\ stage = "backtest"
      /\ UNCHANGED <<schedules, tallied, breakdown, outcome, log, stage, nights, model>>
  BY DEF BacktestNight
<1>2. n \in DOMAIN nights /\ r \in NightResult BY NextResult
<1>3. results \in Seq(NightResult) /\ Len(results) \in Nat BY DEF ResultsInv
<1>4. KnownNight(night) /\ night.of \in DOMAIN log BY <1>2 DEF NightsOK
<1> DEFINE Cheap(s) == CosyOf(r, night, s)
<1>5. ASSUME NEW s \in DOMAIN schedules,
             schedules = generate_schedules(log[night.of].tariff)
      PROVE  Cheap(s)
  <2> DEFINE cosy == log[night.of].tariff
  <2>1. cosy \in Window BY <1>4, LogTyped
  <2>2. schedules \in Seq(Fitting(cosy)) BY <1>5, <2>1, GeneratedFit
  <2>3. schedules[s] \in Fitting(cosy) BY <2>2
  <2>4. ModelOK BY DEF ModelInv
  <2>5. r.sims[s] = simulate_schedule(schedules[s], night) BY DEF Backtest
  <2> HIDE DEF r, n, night
  <2> QED BY <1>4, <2>1, <2>3, <2>4, <2>5, CosyCovers DEF CosyOf
<1> HIDE DEF r
<1>6. \A i \in DOMAIN results' :
            \/ i \in DOMAIN results /\ results'[i] = results[i]
            \/ i = n /\ results'[i] = r
  BY <1>1, <1>2, <1>3
<1>7. ResultsInv'
  <2>1. results' \in Seq(NightResult) /\ Len(results') = Len(results) + 1
    BY <1>1, <1>2, <1>3
  <2>2. Len(nights) \in Nat BY DEF NightsOK
  <2>3. tallied \in 0..Len(results) /\ breakdown \in [Counted -> 0..tallied]
        /\ schedules \in Seq(Made)
    BY DEF ResultsInv
  <2>4. tallied \in 0..Len(results') BY <1>3, <2>1, <2>3
  <2> HIDE DEF night
  <2> QED BY <1>1, <1>3, <2>1, <2>2, <2>3, <2>4 DEF ResultsInv
<1>8. RunInv' BY <1>1 DEF RunInv
<1>9. CoveredInv'
  <2> SUFFICES ASSUME NEW i \in DOMAIN results', NEW s \in DOMAIN schedules,
                      schedules = generate_schedules(log[nights[i].of].tariff)
               PROVE  CosyOf(results'[i], nights[i], s)
    BY <1>1 DEF CoveredInv, CosyOf
  <2>1. CASE i \in DOMAIN results /\ results'[i] = results[i] BY <2>1 DEF CoveredInv
  <2>2. CASE i = n /\ results'[i] = r BY <1>5, <2>2
  <2> QED BY <1>6, <2>1, <2>2
<1>10. LogOK' /\ NightsOK' /\ ModelInv' BY <1>1 DEF LogOK, NightsOK, ModelInv, ModelOK
<1> QED BY <1>7, <1>8, <1>9, <1>10

LEMMA TallyRuns == RunsInv /\ TallyNext => RunsInv'
<1> SUFFICES ASSUME RunsInv, TallyNext PROVE RunsInv' OBVIOUS
<1> USE DEF RunsInv
<1>1. /\ stage = "backtest" /\ tallied < Len(results)
      /\ TallyNight(results[tallied + 1])
      /\ stage' = IF outcome' = "panicked" THEN "idle" ELSE stage
      /\ UNCHANGED <<log, nights, model, schedules, results>>
  BY DEF TallyNext, ChoiceTally, TallyNight
<1>2. /\ outcome = "running"
      /\ \/ outcome' = "panicked" /\ UNCHANGED <<tallied, breakdown>>
         \/ /\ tallied' = tallied + 1 /\ UNCHANGED outcome
            /\ \E K : breakdown' = [c \in Counted |-> breakdown[c] + IF c \in K THEN 1 ELSE 0]
  BY <1>1 DEF TallyNight
<1>3. LogOK' /\ NightsOK' /\ ModelInv' /\ CoveredInv'
  BY <1>1 DEF LogOK, NightsOK, ModelInv, ModelOK, CoveredInv, CosyOf
<1>4. RunInv' BY <1>1, <1>2 DEF RunInv, Stage, Outcome
<1>5. Len(results) \in Nat /\ tallied \in Nat /\ breakdown \in [Counted -> 0..tallied]
  BY DEF ResultsInv
<1>6. tallied' \in 0..Len(results') /\ breakdown' \in [Counted -> 0..tallied']
  <2>1. CASE outcome' = "panicked" /\ UNCHANGED <<tallied, breakdown>>
    BY <1>1, <2>1 DEF ResultsInv
  <2>2. CASE /\ tallied' = tallied + 1
             /\ \E K : breakdown' = [c \in Counted |-> breakdown[c] + IF c \in K THEN 1 ELSE 0]
    <3>1. PICK K : breakdown' = [c \in Counted |-> breakdown[c] + IF c \in K THEN 1 ELSE 0]
      BY <2>2
    <3>2. \A c \in Counted : breakdown[c] \in 0..tallied BY <1>5
    <3>3. \A c \in Counted : breakdown[c] + (IF c \in K THEN 1 ELSE 0) \in 0..(tallied + 1)
      BY <1>5, <3>2
    <3>4. breakdown' \in [Counted -> 0..(tallied + 1)] BY <3>1, <3>3
    <3> QED BY <1>1, <1>5, <2>2, <3>4
  <2> QED BY <1>2, <2>1, <2>2
<1>7. ResultsInv' BY <1>1, <1>6 DEF ResultsInv
<1> QED BY <1>3, <1>4, <1>7

LEMMA ReportRuns == RunsInv /\ Report => RunsInv'
<1> SUFFICES ASSUME RunsInv, Report PROVE RunsInv' OBVIOUS
<1>1. /\ outcome' \in {"panicked", "printed"} /\ stage' = "idle"
      /\ UNCHANGED <<schedules, results, tallied, breakdown, log, nights, model>>
  BY DEF Report, ChoiceReport
<1>2. RunInv' BY <1>1 DEF RunInv, Stage, Outcome
<1> QED BY <1>1, <1>2 DEF RunsInv, LogOK, NightsOK, ModelInv, ModelOK, ResultsInv, CoveredInv,
                          CosyOf

LEMMA RunsAreInductive == Spec => []RunsInv
<1>1. Init => RunsInv BY InitRuns
<1>2. RunsInv /\ [Next]_vars => RunsInv'
  <2> SUFFICES ASSUME RunsInv, [Next]_vars PROVE RunsInv' OBVIOUS
  <2>1. CASE UNCHANGED vars
    BY <2>1 DEF vars, choiceVars, RunsInv, LogOK, NightsOK, ModelInv, ModelOK, RunInv,
                ResultsInv, CoveredInv, CosyOf
  <2> QED BY <2>1, RecordRuns, StartRuns, FailRuns, CalibrateRuns, GenerateRuns, BacktestRuns,
             TallyRuns, ReportRuns DEF Next
<1> QED BY <1>1, <1>2, PTL DEF Spec

-----------------------------------------------------------------------------
(* What a run of the command does is what NightChoice promises of it, with *)
(* results that are those of the recorded nights: the rest of its steps    *)
(* leave the choice as it is.                                              *)
THEOREM BacktestIsAChoice == Spec => ChoiceSpec
<1>1. Init => ChoiceInit BY DEF Init
<1>2. RunsInv /\ [Next]_vars => [ChoiceNext]_choiceVars
  <2> SUFFICES ASSUME RunsInv, [Next]_vars PROVE [ChoiceNext]_choiceVars OBVIOUS
  <2>1. CASE Record \/ Calibrate \/ UNCHANGED vars BY <2>1 DEF Record, Calibrate, vars
  <2>2. CASE Start BY <2>2 DEF Start, ChoiceNext
  <2>3. CASE TariffFails BY <2>3 DEF TariffFails, ChoiceNext
  <2>4. CASE Generate
    <3>1. stage = "calibrated" BY <2>4 DEF Generate
    <3>2. PICK cosy \in {log[nights[1].of].tariff, Fallback} :
                ChoiceSchedules(generate_schedules(cosy))
      BY <2>4 DEF Generate
    <3>3. schedules' = generate_schedules(cosy) BY <3>2 DEF ChoiceSchedules
    <3>4. schedules' \in Seq(Strategy) BY <3>1, <3>3, WindowsOffered, FittingAreMade
    <3>5. ChoiceSchedules(schedules') BY <3>2, <3>3
    <3> QED BY <3>4, <3>5 DEF ChoiceNext
  <2>5. CASE BacktestNight
    <3>1. PICK r : r = Backtest(nights[Len(results) + 1]) OBVIOUS
    <3>2. r \in NightResult /\ DOMAIN r.sims = DOMAIN schedules BY <2>5, <3>1, NextResult
    <3>3. /\ results' = Append(results, r) /\ stage = "backtest"
          /\ UNCHANGED <<schedules, tallied, adaptive, actual, strat_accum, optimal, picks,
                         breakdown, outcome>>
      BY <2>5, <3>1 DEF BacktestNight
    <3>4. outcome = "running" /\ results \in Seq(NightResult)
      BY <3>3 DEF RunsInv, RunInv, ResultsInv
    <3>5. results' # <<>> /\ results'[Len(results')] = r BY <3>2, <3>3, <3>4
    <3>6. ChoiceDeliver(r) BY <3>2, <3>3, <3>4 DEF ChoiceDeliver
    <3> QED BY <3>5, <3>6 DEF ChoiceNext
  <2>6. CASE TallyNext BY <2>6 DEF TallyNext, ChoiceNext
  <2>7. CASE Report BY <2>7 DEF Report, ChoiceNext
  <2> QED BY <2>1, <2>2, <2>3, <2>4, <2>5, <2>6, <2>7 DEF Next
<1> QED BY <1>1, <1>2, RunsAreInductive, PTL DEF Spec, ChoiceSpec

(* And so the totals of every run are ordered, agree, and never wrap, with *)
(* the costs the optimiser computes.                                       *)
THEOREM RunsAddUp == Spec => [](TargetsMonotone /\ TotalsOrdered /\ PicksAddUp)
BY BacktestIsAChoice, SweepIsMonotone, PrintedTotalsOrdered, PicksAgree, PTL

(* The state stays within its types: in particular the fitted rate of      *)
(* cooling is within its bounds whatever was recorded, no night is counted *)
(* more often than it was simulated, and a run in progress has nights.     *)
THEOREM RunsTypeCorrect == Spec => []TypeOK
<1>1. RunsInv => TypeOK
  <2> SUFFICES ASSUME RunsInv PROVE TypeOK OBVIOUS
  <2>1. Len(log) <= Len(Tracks) BY DEF RunsInv, LogOK
  <2>2. RunInv /\ ModelInv /\ ResultsInv /\ Len(nights) \in Nat BY DEF RunsInv, NightsOK
  <2>3. \A i \in DOMAIN schedules : schedules[i].shape \in Shape /\ schedules[i].mode \in Mode
    BY <2>2 DEF ResultsInv, Made, Strategy
  <2>4. Len(results) \in Nat /\ tallied \in Nat /\ tallied <= Len(nights)
    BY <2>2 DEF ResultsInv
  <2>5. breakdown \in [Counted -> 0..Len(nights)]
    <3>1. breakdown \in [Counted -> 0..tallied] BY <2>2 DEF ResultsInv
    <3>2. 0..tallied \subseteq 0..Len(nights) BY <2>2, <2>4
    <3> QED BY <3>1, <3>2
  <2> QED BY <2>1, <2>2, <2>3, <2>5
          DEF TypeOK, RunInv, ModelInv, ResultsInv, Stage, Outcome
<1> QED BY <1>1, RunsAreInductive, PTL

(* Wherever the window the schedules were made for is the lowest rate of a *)
(* night, the simulation pays that rate for all its hot water; and no      *)
(* schedule heats the house while it heats the water.                      *)
THEOREM HotWaterIsCheap == Spec => []DhwAtLowestRate
<1>1. RunsInv => DhwAtLowestRate
  <2> SUFFICES ASSUME RunsInv, NEW i \in DOMAIN results, NEW s \in DOMAIN schedules
               PROVE  /\ schedules = generate_schedules(log[nights[i].of].tariff) =>
                            CosyOf(results[i], nights[i], s)
                      /\ \A o \in schedules[s].dhw_start
                              ..schedules[s].dhw_start + ModeOf(schedules[s]).duration - 1 :
                            ~HeatingOn(schedules[s], o)
    BY DEF DhwAtLowestRate, CosyOf
  <2>1. schedules = generate_schedules(log[nights[i].of].tariff) =>
            CosyOf(results[i], nights[i], s)
    BY DEF RunsInv, CoveredInv
  <2>2. schedules[s] \in Made BY DEF RunsInv, ResultsInv
  <2>3. schedules[s].dhw_start \in Int /\ ModeOf(schedules[s]).duration \in Nat
    BY <2>2, ModeOfMade
  <2>4. \A o \in schedules[s].dhw_start
                ..schedules[s].dhw_start + ModeOf(schedules[s]).duration - 1 :
            InDhw(schedules[s], o)
    BY <2>3 DEF InDhw
  <2> QED BY <2>1, <2>4 DEF HeatingOn
<1> QED BY <1>1, RunsAreInductive, PTL

(* The states of a recorded night do not depend on where its frame began,  *)
(* from the first decisive row on.                                         *)
THEOREM NightLabelsForgetTheStart == Spec => []FrameStartForgotten
<1>1. RunsInv => FrameStartForgotten
  <2> SUFFICES ASSUME RunsInv, log # <<>> PROVE FrameStartForgotten BY DEF FrameStartForgotten
  <2> DEFINE n == Len(log)
             track == log[n].track
             rows == track.rows
  <2>1. LogOK /\ log \in Seq(Entry) BY DEF RunsInv, LogOK
  <2>2. n \in DOMAIN log BY <2>1
  <2>3. /\ DOMAIN rows \subseteq Offset /\ track.before \in Memory
        /\ \A o \in DOMAIN rows : rows[o] \in Row
    BY <2>1, <2>2, LogTyped
  <2>4. \A o \in DOMAIN rows : rows[o].flow \in Int BY <2>3 DEF Row
  <2> HIDE DEF rows
  <2>5. ASSUME NEW before \in Memory, NEW o \in DOMAIN rows, Decisive(rows[o]),
               NEW p \in DOMAIN rows, p >= o
        PROVE  ClassifyStates(rows, before, LastOffset)[p]
                    = ClassifyStates(rows, track.before, LastOffset)[p]
    BY <2>3, <2>4, <2>5, FramesAgree
  <2>6. Last(log) = log[n] BY DEF Last
  <2> QED BY <2>5, <2>6 DEF FrameStartForgotten, States, rows
<1> QED BY <1>1, RunsAreInductive, PTL

=============================================================================
