---------------------------- MODULE JournalsProofs ----------------------------
(***************************************************************************)
(* The lots of a contract stay in the order of their purchase, the line of *)
(* a delivering option stays ongoing while its shares are held, the cover  *)
(* of the positions held never counts twice, and an instant in which no    *)
(* share leaves uncovers none of the Wheel's calls.                        *)
(*                                                                         *)
(* The first two follow from what one context keeps, Fine, whatever        *)
(* operation of the replay works on it: the order, the delivery and the    *)
(* figures of its lots.  The third needs no more of the lots than their    *)
(* figures: what the engine computes of any portfolio is Accounted.  The   *)
(* last relates two contexts: each operation leaves no more uncovered than *)
(* there was (LeavesBacked), told from what the lots of a ticker add up to *)
(* before and after it.  Most operations are folds, and each of them       *)
(* instantiates Folding with its own step.                                 *)
(***************************************************************************)
EXTENDS StrategyPages, DataLemmas

(***************************************************************************)
(* What a plan pours                                                       *)
(***************************************************************************)
Running(before, order, cap) ==
    before = [k \in 0 .. Len(order) |-> IF k = 0 THEN 0 ELSE before[k - 1] + cap[order[k]]]

TakenAt(before, order, cap, n, k) == Most(0, Least(cap[order[k]], n - before[k - 1]))

PouredAlong(before, order, cap, n) ==
    /\ before \in [0..Len(order) -> Int] /\ before[0] = 0
    /\ \A k \in 1..Len(order) : before[k] = before[k - 1] + cap[order[k]]
    /\ Pour(order, cap, n) =
            [i \in DOMAIN cap |->
                IF \E k \in DOMAIN order : order[k] = i
                THEN TakenAt(before, order, cap, n, CHOOSE k \in DOMAIN order : order[k] = i)
                ELSE 0]

\* What Pour takes, along the running total of what there is to take.
LEMMA PourRuns ==
    ASSUME NEW order, Len(order) \in Nat, NEW cap, NEW n,
           \A k \in 1..Len(order) : cap[order[k]] \in Int
    PROVE  \E before : PouredAlong(before, order, cap, n)
<1> DEFINE m == Len(order)
           moves == [k \in 1..m |-> cap[order[k]]]
           before == CHOOSE f : Running(f, order, cap)
<1>1. moves \in [1..m -> Int]
  OBVIOUS
<1> HIDE DEF moves
<1>2. PICK upTo : Runs(upTo, moves, m)
  BY <1>1, SomethingRuns
<1>3. /\ upTo \in [0..m -> Int] /\ upTo[0] = 0
      /\ \A k \in 1..m : upTo[k] = upTo[k - 1] + cap[order[k]]
  BY <1>2 DEF Runs, moves
<1>4. \A k \in 0..m : upTo[k] = IF k = 0 THEN 0 ELSE upTo[k - 1] + cap[order[k]]
  BY <1>3
<1>5. upTo = [k \in 0..m |-> IF k = 0 THEN 0 ELSE upTo[k - 1] + cap[order[k]]]
  BY <1>3, <1>4
<1>6. Running(before, order, cap)
  BY <1>5, Zenon DEF Running
<1>7. Pour(order, cap, n) =
            [i \in DOMAIN cap |->
                IF \E k \in DOMAIN order : order[k] = i
                THEN TakenAt(before, order, cap, n, CHOOSE k \in DOMAIN order : order[k] = i)
                ELSE 0]
  BY DEF Pour, TakenAt, Running
<1> HIDE DEF before
<1>8. \A k \in 0..m : before[k] = IF k = 0 THEN 0 ELSE before[k - 1] + cap[order[k]]
  BY <1>6, Zenon DEF Running
<1>9. \A k \in 0..m : before[k] = upTo[k]
  <2> DEFINE wrong == {k \in 0..m : before[k] # upTo[k]}
  <2> SUFFICES ASSUME wrong # {} PROVE FALSE
    OBVIOUS
  <2>1. wrong \subseteq Nat
    OBVIOUS
  <2>2. PICK k \in wrong : \A j \in wrong : k <= j
    BY <2>1, FirstOf
  <2>3. k \in 0..m /\ before[k] # upTo[k]
    OBVIOUS
  <2>4. k # 0
    BY <1>4, <1>8, <2>3
  <2>5. k - 1 \in 0..m /\ k - 1 < k
    BY <2>3, <2>4
  <2>6. k - 1 \notin wrong
    BY <2>2, <2>3, <2>5
  <2>7. before[k - 1] = upTo[k - 1]
    BY <2>5, <2>6
  <2> QED BY <1>4, <1>8, <2>3, <2>4, <2>7
<1>10. before \in [0..m -> Int]
  <2>1. before = [k \in 0..m |-> before[k]]
    BY <1>6, Zenon DEF Running
  <2>2. \A k \in 0..m : before[k] \in Int
    BY <1>3, <1>9
  <2> QED BY <2>1, <2>2
<1>11. m \in Nat /\ \A k \in 1..m : k \in 0..m /\ k # 0
  OBVIOUS
<1>12. PouredAlong(before, order, cap, n)
  BY <1>7, <1>8, <1>10, <1>11 DEF PouredAlong
<1> QED BY <1>12

\* A plan of numbers, within what there is to take.
LEMMA PourIs ==
    ASSUME NEW order, IsSeq(order), NEW cap, NEW n \in Int,
           \A k \in 1..Len(order) : cap[order[k]] \in Int
    PROVE  LET take == Pour(order, cap, n)
           IN  /\ take = [i \in DOMAIN cap |-> take[i]]
               /\ \A i \in DOMAIN cap :
                    /\ take[i] \in Nat
                    /\ take[i] # 0 => \E k \in 1..Len(order) : order[k] = i /\ take[i] <= cap[i]
<1> DEFINE take == Pour(order, cap, n)
           m == Len(order)
<1>1. m \in Nat /\ DOMAIN order = 1..m
  BY DEF IsSeq, Lists
<1>2. PICK before : PouredAlong(before, order, cap, n)
  BY <1>1, PourRuns
<1>20. /\ before \in [0..m -> Int] /\ before[0] = 0
       /\ \A k \in 1..m : before[k] = before[k - 1] + cap[order[k]]
       /\ take = [i \in DOMAIN cap |->
                    IF \E k \in DOMAIN order : order[k] = i
                    THEN TakenAt(before, order, cap, n, CHOOSE k \in DOMAIN order : order[k] = i)
                    ELSE 0]
  BY <1>2 DEF PouredAlong
<1> HIDE DEF take, m
<1>3. ASSUME NEW k \in 1..m
      PROVE  /\ TakenAt(before, order, cap, n, k) \in Nat
             /\ TakenAt(before, order, cap, n, k) # 0 => TakenAt(before, order, cap, n, k) <= cap[order[k]]
  <2>1. cap[order[k]] \in Int /\ before[k - 1] \in Int
    BY <1>1, <1>20 DEF m
  <2> QED BY <2>1 DEF TakenAt, Most, Least
<1>4. ASSUME NEW i \in DOMAIN cap
      PROVE  /\ take[i] \in Nat
             /\ take[i] # 0 => \E k \in 1..m : order[k] = i /\ take[i] <= cap[i]
  <2>1. CASE \E k \in DOMAIN order : order[k] = i
    <3> DEFINE k == CHOOSE k \in DOMAIN order : order[k] = i
    <3>1. k \in 1..m /\ order[k] = i
      BY <1>1, <2>1, Zenon
    <3>2. take[i] = TakenAt(before, order, cap, n, k)
      BY <1>20, <2>1
    <3> HIDE DEF k
    <3> QED BY <1>3, <3>1, <3>2
  <2>2. CASE ~\E k \in DOMAIN order : order[k] = i
    BY <1>20, <2>2
  <2> QED BY <2>1, <2>2
<1>5. take = [i \in DOMAIN cap |-> take[i]]
  BY <1>20, Zenon
<1> QED BY <1>4, <1>5 DEF take, m

Distinct(order) == \A k, l \in 1..Len(order) : order[k] = order[l] => k = l
Members(order) == {order[k] : k \in 1..Len(order)}

\* It takes all that is asked for, or all there is.
LEMMA PourTakes ==
    ASSUME NEW S, IsFiniteSet(S), NEW cap, DOMAIN cap = S, \A i \in S : cap[i] \in Nat,
           NEW order, IsSeq(order), Distinct(order), Members(order) \subseteq S, NEW n \in Nat
    PROVE  TotalOver(Pour(order, cap, n), S) = Least(n, TotalOver(cap, Members(order)))
<1> DEFINE take == Pour(order, cap, n)
           m == Len(order)
           upTo(k) == {order[j] : j \in 1..k}
<1>1. m \in Nat /\ DOMAIN order = 1..m
  BY DEF IsSeq, Lists
<1>2. \A k \in 1..m : order[k] \in S
  BY DEF Members
<1>3. \A k \in 1..m : cap[order[k]] \in Int
  BY <1>2
<1>4. PICK before : PouredAlong(before, order, cap, n)
  BY <1>1, <1>3, PourRuns
<1>40. /\ before \in [0..m -> Int] /\ before[0] = 0
       /\ \A k \in 1..m : before[k] = before[k - 1] + cap[order[k]]
       /\ take = [i \in DOMAIN cap |->
                    IF \E k \in DOMAIN order : order[k] = i
                    THEN TakenAt(before, order, cap, n, CHOOSE k \in DOMAIN order : order[k] = i)
                    ELSE 0]
  BY <1>4 DEF PouredAlong
<1>5. /\ take = [i \in S |-> take[i]]
      /\ \A i \in S : /\ take[i] \in Nat
                      /\ take[i] # 0 => \E k \in 1..m : order[k] = i
  BY <1>3, PourIs
<1> HIDE DEF take, m
<1>6. ASSUME NEW k \in 1..m PROVE take[order[k]] = TakenAt(before, order, cap, n, k)
  <2> DEFINE j == CHOOSE j \in DOMAIN order : order[j] = order[k]
  <2>1. j \in 1..m /\ order[j] = order[k]
    BY <1>1, Zenon
  <2>2. take[order[k]] = TakenAt(before, order, cap, n, j)
    BY <1>1, <1>2, <1>40
  <2> HIDE DEF j
  <2>3. j = k
    BY <2>1 DEF Distinct, m
  <2> QED BY <2>2, <2>3
<1>7. /\ IsFiniteSet(upTo(m)) /\ upTo(m) \subseteq S
      /\ \A k \in 0..m : IsFiniteSet(upTo(k)) /\ upTo(k) \subseteq S
  <2>1. \A k \in 0..m : upTo(k) \subseteq S
    BY <1>1, <1>2
  <2>2. m \in 0..m
    BY <1>1
  <2> QED BY <2>1, <2>2, FS_Subset
<1>8. \A k \in 0..m : /\ TotalOver(cap, upTo(k)) = before[k] /\ before[k] >= 0
                      /\ TotalOver(take, upTo(k)) = Least(n, before[k])
  <2> DEFINE wrong == {k \in 0..m : ~(/\ TotalOver(cap, upTo(k)) = before[k] /\ before[k] >= 0
                                      /\ TotalOver(take, upTo(k)) = Least(n, before[k]))}
  <2> SUFFICES ASSUME wrong # {} PROVE FALSE
    OBVIOUS
  <2>1. wrong \subseteq Nat
    OBVIOUS
  <2>2. PICK k \in wrong : \A j \in wrong : k <= j
    BY <2>1, FirstOf
  <2>3. k \in 0..m
    OBVIOUS
  <2>4. CASE k = 0
    <3>1. upTo(k) = {}
      BY <2>4
    <3>2. TotalOver(cap, {}) = 0 /\ TotalOver(take, {}) = 0
      <4>1. IsFiniteSet({}) /\ IntegersOn(cap, {}) /\ IntegersOn(take, {})
        BY FS_EmptySet DEF IntegersOn
      <4> QED BY <4>1, TotalOf
    <3>3. 0 = Least(n, before[k])
      BY <1>40, <2>4 DEF Least
    <3>4. k \notin wrong
      <4>1. /\ TotalOver(cap, upTo(k)) = before[k] /\ before[k] >= 0
            /\ TotalOver(take, upTo(k)) = Least(n, before[k])
        <5> HIDE DEF upTo, wrong
        <5>1. TotalOver(cap, upTo(k)) = 0 /\ TotalOver(take, upTo(k)) = 0
          BY <3>1, <3>2
        <5>2. before[k] = 0
          BY <1>40, <2>4
        <5> QED BY <3>3, <5>1, <5>2
      <4> HIDE DEF upTo
      <4> QED BY <4>1
    <3> QED BY <3>4
  <2>5. CASE k # 0
    <3>1. k \in 1..m /\ k - 1 \in 0..m /\ k - 1 < k
      BY <1>1, <2>3, <2>5
    <3>2. k - 1 \notin wrong
      <4> SUFFICES ASSUME k - 1 \in wrong PROVE FALSE
        OBVIOUS
      <4> HIDE DEF wrong
      <4>1. k <= k - 1
        BY <2>2
      <4> QED BY <3>1, <4>1
    <3>3. /\ TotalOver(cap, upTo(k - 1)) = before[k - 1] /\ before[k - 1] >= 0
          /\ TotalOver(take, upTo(k - 1)) = Least(n, before[k - 1])
      BY <3>1, <3>2
    <3>4. upTo(k) = upTo(k - 1) \cup {order[k]}
      <4>1. \A j \in 1..k : j \in 1..(k - 1) \/ j = k
        BY <3>1
      <4>2. \A j \in 1..(k - 1) : j \in 1..k
        BY <3>1
      <4>3. k \in 1..k
        BY <3>1
      <4> QED BY <4>1, <4>2, <4>3
    <3>5. order[k] \notin upTo(k - 1)
      <4>1. \A j \in 1..(k - 1) : j \in 1..m /\ j # k
        BY <1>1, <3>1
      <4> QED BY <3>1, <4>1 DEF Distinct, m
    <3>6. IntegersOn(cap, upTo(k)) /\ IntegersOn(take, upTo(k)) /\ IsFiniteSet(upTo(k - 1))
      <4>1. upTo(k) \subseteq S
        BY <1>7, <2>3
      <4> QED BY <1>5, <1>7, <3>1, <4>1 DEF IntegersOn
    <3> HIDE DEF upTo
    <3>7. /\ TotalOver(cap, upTo(k)) = cap[order[k]] + TotalOver(cap, upTo(k - 1))
          /\ TotalOver(take, upTo(k)) = take[order[k]] + TotalOver(take, upTo(k - 1))
      BY <3>4, <3>5, <3>6, TotalWith
    <3>8. /\ before[k] = before[k - 1] + cap[order[k]] /\ cap[order[k]] \in Nat
          /\ before[k - 1] \in Int
      BY <1>2, <1>40, <3>1
    <3>9. take[order[k]] = Most(0, Least(cap[order[k]], n - before[k - 1]))
      BY <1>6, <3>1 DEF TakenAt
    <3>10. TotalOver(cap, upTo(k)) = before[k] /\ before[k] >= 0
      BY <3>3, <3>7, <3>8
    <3>11. take[order[k]] + Least(n, before[k - 1]) = Least(n, before[k])
      BY <3>3, <3>8, <3>9 DEF Most, Least
    <3>12. k \notin wrong
      BY <3>3, <3>7, <3>10, <3>11
    <3> QED BY <3>12
  <2> QED BY <2>4, <2>5
<1>9. TotalOver(take, S) = TotalOver(take, upTo(m))
  <2>1. IntegersOn(take, S) /\ \A i \in S \ upTo(m) : take[i] = 0
    BY <1>5 DEF IntegersOn
  <2>2. upTo(m) \in SUBSET S
    BY <1>7
  <2> HIDE DEF upTo
  <2> QED BY <2>1, <2>2, TotalOfPart
<1>10. m \in 0..m /\ Members(order) = upTo(m)
  BY <1>1 DEF Members, m
<1> HIDE DEF upTo
<1> QED BY <1>8, <1>9, <1>10 DEF take

(***************************************************************************)
(* The members of a set, each once                                         *)
(***************************************************************************)
\* A sequence that has each member of a set, once.
Arranges(order, S) == IsSeq(order) /\ Distinct(order) /\ Members(order) = S

\* Before, by a, then b, then c.
Before(a, b, c, x, y) ==
    \/ a[x] < a[y]
    \/ a[x] = a[y] /\ b[x] < b[y]
    \/ a[x] = a[y] /\ b[x] = b[y] /\ c[x] < c[y]

Keyed(S, a, b, c) ==
    /\ \A x \in S : a[x] \in Int /\ b[x] \in Int /\ c[x] \in Int
    /\ \A x, y \in S : a[x] = a[y] /\ b[x] = b[y] /\ c[x] = c[y] => x = y

\* rank counts the members before, and at has each at its rank.
RankedAt(S, a, b, c, rank, at) ==
    /\ \A x \in S : rank[x] = Cardinality({y \in S : Before(a, b, c, y, x)})
    /\ at = [p \in 1..Cardinality(S) |-> CHOOSE x \in S : rank[x] = p - 1]

\* Ranks by keys that tell the members of S apart arrange them.
LEMMA RanksArrange ==
    ASSUME NEW S, IsFiniteSet(S), NEW a, NEW b, NEW c, Keyed(S, a, b, c),
           NEW rank, NEW at, RankedAt(S, a, b, c, rank, at)
    PROVE  Arranges(at, S)
<1> DEFINE below == [x \in S |-> {y \in S : Before(a, b, c, y, x)}]
           n == Cardinality(S)
<1>1. TotalOrder(S, below)
  <2>1. below \in [S -> SUBSET S]
    OBVIOUS
  <2>2. \A x, y \in S : x \in below[y] <=> Before(a, b, c, x, y)
    OBVIOUS
  <2> HIDE DEF below, n
  <2>3. \A x \in S : a[x] \in Int /\ b[x] \in Int /\ c[x] \in Int
    BY DEF Keyed
  <2>4. \A x, y, z \in S : Before(a, b, c, x, y) /\ Before(a, b, c, y, z) => Before(a, b, c, x, z)
    <3> TAKE x, y, z \in S
    <3>1. /\ a[x] \in Int /\ b[x] \in Int /\ c[x] \in Int /\ a[y] \in Int /\ b[y] \in Int /\ c[y] \in Int
          /\ a[z] \in Int /\ b[z] \in Int /\ c[z] \in Int
      BY <2>3
    <3> QED BY <3>1 DEF Before
  <2>5. \A x, y \in S : x \in below[y] => below[x] \subseteq below[y]
    BY <2>1, <2>2, <2>4
  <2>6. \A x \in S : x \notin below[x]
    BY <2>2, <2>3 DEF Before
  <2>7. \A x, y \in S : x # y => x \in below[y] \/ y \in below[x]
    <3> TAKE x, y \in S
    <3>1. /\ a[x] \in Int /\ b[x] \in Int /\ c[x] \in Int /\ a[y] \in Int /\ b[y] \in Int /\ c[y] \in Int
          /\ (a[x] = a[y] /\ b[x] = b[y] /\ c[x] = c[y] => x = y)
      BY <2>3 DEF Keyed
    <3>2. x # y => Before(a, b, c, x, y) \/ Before(a, b, c, y, x)
      BY <3>1 DEF Before
    <3> QED BY <2>2, <3>2
  <2> QED BY <2>1, <2>5, <2>6, <2>7, Zenon DEF TotalOrder
<1>2. \A x \in S : rank[x] = Cardinality(below[x])
  BY Zenon DEF RankedAt
<1> HIDE DEF below
<1>3. /\ n \in Nat
      /\ \A x \in S : Cardinality(below[x]) \in 0..(n - 1)
      /\ \A x, y \in S : Cardinality(below[x]) = Cardinality(below[y]) => x = y
      /\ \A k \in 0..(n - 1) : \E x \in S : Cardinality(below[x]) = k
  BY <1>1, PlacesAreTaken
<1> HIDE DEF n
<1>4. ASSUME NEW p \in 1..n PROVE at[p] \in S /\ rank[at[p]] = p - 1
  <2>1. p - 1 \in 0..(n - 1)
    BY <1>3
  <2>2. \E x \in S : rank[x] = p - 1
    BY <1>2, <1>3, <2>1
  <2>3. at[p] = CHOOSE x \in S : rank[x] = p - 1
    BY DEF n, RankedAt
  <2> QED BY <2>2, <2>3, Zenon
<1>5. Lists(at, n)
  <2>1. at = [p \in 1..n |-> CHOOSE x \in S : rank[x] = p - 1]
    BY DEF n, RankedAt
  <2>2. at = [p \in 1..n |-> at[p]]
    BY <2>1
  <2> QED BY <2>2 DEF Lists
<1>6. IsSeq(at) /\ Len(at) = n
  BY <1>3, <1>5, SeqFrom, Zenon
<1>7. Distinct(at)
  <2>1. \A p, q \in 1..n : at[p] = at[q] => p = q
    <3> TAKE p, q \in 1..n
    <3>1. at[p] = at[q] => p - 1 = q - 1
      BY <1>4
    <3> QED BY <1>3, <3>1
  <2> QED BY <1>6, <2>1 DEF Distinct
<1>8. Members(at) = S
  <2>1. ASSUME NEW x \in S PROVE \E p \in 1..n : at[p] = x
    <3>1. rank[x] \in 0..(n - 1)
      BY <1>2, <1>3
    <3>2. rank[x] + 1 \in 1..n /\ (rank[x] + 1) - 1 = rank[x]
      BY <1>3, <3>1
    <3>3. at[rank[x] + 1] \in S /\ rank[at[rank[x] + 1]] = rank[x]
      BY <1>4, <3>2
    <3>4. at[rank[x] + 1] = x
      BY <1>2, <1>3, <3>3
    <3> QED BY <3>2, <3>4
  <2>2. Members(at) = {at[p] : p \in 1..n}
    BY <1>6 DEF Members
  <2>3. \A x \in S : x \in {at[p] : p \in 1..n}
    BY <2>1
  <2>4. \A x \in {at[p] : p \in 1..n} : x \in S
    BY <1>4
  <2> QED BY <2>2, <2>3, <2>4
<1> QED BY <1>6, <1>7, <1>8 DEF Arranges

\* Any order.
LEMMA SetToSeqArranges ==
    ASSUME NEW S, IsFiniteSet(S)
    PROVE  Arranges(SetToSeq(S), S)
<1> DEFINE n == Cardinality(S)
           at == SetToSeq(S)
<1>1. n \in Nat
  BY FS_CardinalityType
<1>2. \E f \in Bijection(1..n, S) : TRUE
  BY FS_CardinalityType, FS_NatBijection, Zenon DEF ExistsBijection
<1>3. \E f \in [1..n -> S] : IsInjective(f)
  BY <1>2, Zenon DEF Bijection, Injection
<1>4. at \in [1..n -> S] /\ IsInjective(at)
  BY <1>3, Zenon DEF SetToSeq
<1> HIDE DEF at
<1>5. \A p, q \in 1..n : at[p] = at[q] => p = q
  BY <1>4, Zenon DEF IsInjective
<1>6. IsFiniteSet(1..n) /\ Cardinality(1..n) = n
  BY <1>1, FS_Interval
<1>7. at \in Surjection(1..n, S)
  <2>1. at \in Injection(1..n, S)
    BY <1>4, Zenon DEF Injection
  <2> QED BY <1>6, <2>1, FS_Injection, Zenon DEF n
<1>8. \A x \in S : \E p \in 1..n : at[p] = x
  BY <1>7, Zenon DEF Surjection
<1> HIDE DEF n
<1>9. Lists(at, n)
  BY <1>4, Zenon DEF Lists
<1>10. IsSeq(at) /\ Len(at) = n
  BY <1>1, <1>9, SeqFrom, Zenon
<1>11. Distinct(at) /\ Members(at) = S
  BY <1>4, <1>5, <1>8, <1>10 DEF Distinct, Members
<1> QED BY <1>10, <1>11 DEF Arranges, at

(***************************************************************************)
(* Quantities of allocations                                               *)
(***************************************************************************)
LEMMA TotalIs ==
    ASSUME NEW plan
    PROVE  Total(plan) = TotalOver(plan, DOMAIN plan)
BY DEF Total, FoldFunction, FoldFunctionOnSet, MapThenFoldSet, TotalOver

LEMMA AvailableIs ==
    ASSUME NEW state, NEW pool, IsFiniteSet(pool), IntegersOn(state.free, pool)
    PROVE  Available(state, pool) = TotalOver(state.free, pool)
<1> DEFINE given == [c \in pool |-> state.free[c]]
<1>1. DOMAIN given = pool /\ \A c \in pool : given[c] = state.free[c]
  OBVIOUS
<1>2. Available(state, pool) = Total(given)
  BY DEF Available
<1> HIDE DEF given
<1>3. Total(given) = TotalOver(given, pool)
  BY <1>1, TotalIs
<1>4. TotalOver(given, pool) = TotalOver(state.free, pool)
  BY <1>1, TotalsAgree
<1> QED BY <1>2, <1>3, <1>4

Counted(A) == IsFiniteSet(A) /\ \A a \in A : a.quantity \in Nat

\* The quantity of allocations, as a total of any function that tells it.
LEMMA QuantityIs ==
    ASSUME NEW A, Counted(A), NEW q, \A a \in A : q[a] = a.quantity
    PROVE  Quantity(A) = TotalOver(q, A) /\ IntegersOn(q, A)
<1> DEFINE own == [a \in A |-> a.quantity]
<1>1. DOMAIN own = A /\ \A a \in A : own[a] = q[a]
  OBVIOUS
<1>2. Quantity(A) = Total(own)
  BY DEF Quantity
<1> HIDE DEF own
<1>3. Total(own) = TotalOver(own, A)
  BY <1>1, TotalIs
<1>4. IntegersOn(q, A)
  BY DEF IntegersOn, Counted
<1>5. TotalOver(own, A) = TotalOver(q, A)
  BY <1>1, <1>4, TotalsAgree DEF Counted
<1> QED BY <1>2, <1>3, <1>4, <1>5

LEMMA QuantityOfNone == Quantity({}) = 0
<1> DEFINE q == [a \in {} |-> 0]
<1>1. Counted({}) /\ \A a \in {} : q[a] = a.quantity
  BY FS_EmptySet DEF Counted
<1> HIDE DEF q
<1>2. Quantity({}) = TotalOver(q, {}) /\ IntegersOn(q, {})
  BY <1>1, QuantityIs
<1> QED BY <1>2, FS_EmptySet, TotalOf

LEMMA QuantityOfBoth ==
    ASSUME NEW A, Counted(A), NEW B, Counted(B), A \cap B = {}
    PROVE  /\ Quantity(A \cup B) = Quantity(A) + Quantity(B)
           /\ Quantity(A) \in Nat /\ Quantity(B) \in Nat
<1> DEFINE q == [a \in A \cup B |-> a.quantity]
<1>1. /\ \A a \in A \cup B : q[a] = a.quantity
      /\ \A a \in A : q[a] = a.quantity /\ q[a] \in Nat
      /\ \A a \in B : q[a] = a.quantity /\ q[a] \in Nat
  BY DEF Counted
<1>2. Counted(A \cup B) /\ IsFiniteSet(A) /\ IsFiniteSet(B)
  BY FS_Union DEF Counted
<1> HIDE DEF q
<1>3. /\ Quantity(A) = TotalOver(q, A) /\ Quantity(B) = TotalOver(q, B)
      /\ Quantity(A \cup B) = TotalOver(q, A \cup B) /\ IntegersOn(q, A \cup B)
  BY <1>1, <1>2, QuantityIs
<1>4. TotalOver(q, A \cup B) = TotalOver(q, A) + TotalOver(q, B)
  BY <1>2, <1>3, TotalOfBoth
<1>5. TotalOver(q, A) \in Nat /\ TotalOver(q, B) \in Nat
  BY <1>1, <1>2, TotalIsNat
<1> QED BY <1>3, <1>4, <1>5

\* What one option sold is given by one source, from each contract of a set.
Given(short, source, q, G) ==
    {[short |-> short, source |-> source, from |-> c, quantity |-> q[c]] : c \in G}

LEMMA GivenIs ==
    ASSUME NEW short, NEW source, NEW G, IsFiniteSet(G), NEW q, \A c \in G : q[c] \in Nat
    PROVE  /\ Counted(Given(short, source, q, G))
           /\ Quantity(Given(short, source, q, G)) = TotalOver(q, G)
           /\ \A a \in Given(short, source, q, G) :
                a.short = short /\ a.source = source /\ a.from \in G /\ a.quantity = q[a.from]
<1> DEFINE p == [c \in G |-> [short |-> short, source |-> source, from |-> c, quantity |-> q[c]]]
           new == Given(short, source, q, G)
           g == [a \in new |-> a.quantity]
<1>1. new = {p[c] : c \in G}
  BY DEF Given
<1>2. \A c \in G : p[c].from = c /\ p[c].quantity = q[c] /\ p[c].short = short /\ p[c].source = source
  OBVIOUS
<1> HIDE DEF p
<1>3. \A x, y \in G : p[x] = p[y] => x = y
  BY <1>2
<1>4. IsFiniteSet(new)
  <2>1. IsFiniteSet({p[c] : c \in G})
    BY FiniteImage
  <2> QED BY <1>1, <2>1
<1>5. \A a \in new : a.short = short /\ a.source = source /\ a.from \in G /\ a.quantity = q[a.from]
  <2> SUFFICES ASSUME NEW c \in G
               PROVE  /\ p[c].short = short /\ p[c].source = source /\ p[c].from \in G
                      /\ p[c].quantity = q[p[c].from]
    BY <1>1
  <2> QED BY <1>2
<1>6. Counted(new)
  BY <1>4, <1>5 DEF Counted
<1>7. \A a \in new : g[a] = a.quantity
  OBVIOUS
<1>8. \A c \in G : g[p[c]] = q[c]
  <2> TAKE c \in G
  <2>1. p[c] \in new
    BY <1>1
  <2> QED BY <1>2, <1>7, <2>1
<1> HIDE DEF g, new
<1>9. Quantity(new) = TotalOver(g, new)
  BY <1>6, <1>7, QuantityIs
<1>10. IntegersOn(q, G)
  BY DEF IntegersOn
<1>11. TotalOver(g, {p[c] : c \in G}) = TotalOver(q, G)
  BY <1>3, <1>8, <1>10, TotalRenamed
<1> QED BY <1>1, <1>5, <1>6, <1>9, <1>11 DEF new

LEMMA GivenByOne ==
    ASSUME NEW a, a.quantity \in Nat
    PROVE  Counted({a}) /\ Quantity({a}) = a.quantity
<1> DEFINE q == [x \in {a} |-> x.quantity]
<1>1. /\ Counted({a}) /\ \A x \in {a} : q[x] = x.quantity
      /\ q[a] = a.quantity
  BY FS_Singleton DEF Counted
<1> HIDE DEF q
<1>2. Quantity({a}) = TotalOver(q, {a}) /\ IntegersOn(q, {a})
  BY <1>1, QuantityIs
<1>3. TotalOver(q, {a}) = q[a] + TotalOver(q, {a} \ {a}) /\ TotalOver(q, {}) = 0
  BY <1>2, FS_Singleton, TotalOf
<1>4. {a} \ {a} = {} /\ a.quantity + 0 = a.quantity
  OBVIOUS
<1> QED BY <1>1, <1>2, <1>3, <1>4

(***************************************************************************)
(* Lots in numbers                                                         *)
(***************************************************************************)
LotFields ==
    {"contract", "strategy", "quantity", "remaining", "price", "amount", "openWhen", "rankWhen",
     "openIds", "cover", "orphan", "parent", "delivered"}

IsLot(lot) == lot = [field \in LotFields |-> lot[field]]

\* A part of a signed whole.
Between(part, whole) == (0 <= part /\ part <= whole) \/ (whole <= part /\ part <= 0)

Measured(lot) ==
    /\ IsLot(lot) /\ IsContract(lot.contract)
    /\ lot.quantity \in Int /\ lot.remaining \in Int /\ lot.price \in Int /\ lot.amount \in Int
    /\ Between(lot.remaining, lot.quantity)

AllMeasured(book) == IsSeq(book) /\ \A i \in 1..Len(book) : Measured(book[i])

\* A plan over so many lots, of what each may give at most.
Within(plan, cap, m) == Lists(plan, m) /\ \A i \in 1..m : plan[i] \in Nat /\ plan[i] <= cap[i]

\* A plan that takes no more of a lot than remains of it.
Fits(plan, book) ==
    /\ Lists(plan, Len(book))
    /\ \A i \in 1..Len(book) : plan[i] \in Nat /\ plan[i] <= Mag(book[i].remaining)

LEMMA SortedArranges ==
    ASSUME NEW S, IsFiniteSet(S), S \subseteq Int, NEW keys, \A i \in S : keys[i] \in Int
    PROVE  Arranges(SortedOn(S, keys), S)
<1> DEFINE before(i, j) == keys[i] < keys[j] \/ (keys[i] = keys[j] /\ i < j)
           own == [i \in S |-> i]
           nil == [i \in S |-> 0]
           rank == [x \in S |-> Cardinality({y \in S : before(y, x)})]
           at == SortedOn(S, keys)
<1>1. at = [p \in 1..Cardinality(S) |-> CHOOSE x \in S : rank[x] = p - 1]
  BY Zenon DEF SortedOn, Ranked
<1>2. \A i \in S : own[i] = i /\ nil[i] = 0 /\ i \in Int
  OBVIOUS
<1> HIDE DEF own, nil
<1>3. \A x, y \in S : before(y, x) <=> Before(keys, own, nil, y, x)
  BY <1>2 DEF Before
<1>4. \A x \in S : rank[x] = Cardinality({y \in S : Before(keys, own, nil, y, x)})
  <2> TAKE x \in S
  <2>1. {y \in S : before(y, x)} = {y \in S : Before(keys, own, nil, y, x)}
    <3> HIDE DEF before
    <3> QED BY <1>3
  <2>2. rank[x] = Cardinality({y \in S : before(y, x)})
    BY Zenon
  <2> HIDE DEF rank, before
  <2> QED BY <2>1, <2>2
<1>5. Keyed(S, keys, own, nil)
  BY <1>2 DEF Keyed
<1> HIDE DEF at, rank, before
<1>6. RankedAt(S, keys, own, nil, rank, at)
  BY <1>1, <1>4, Zenon DEF RankedAt
<1>7. Arranges(at, S)
  BY <1>5, <1>6, RanksArrange, Zenon
<1> QED BY <1>7 DEF at

LEMMA PourWithin ==
    ASSUME NEW m \in Nat, NEW cap, Lists(cap, m), \A i \in 1..m : cap[i] \in Nat,
           NEW order, IsSeq(order), Members(order) \subseteq 1..m, NEW n \in Int
    PROVE  /\ Within(Pour(order, cap, n), cap, m)
           /\ \A i \in 1..m : Pour(order, cap, n)[i] # 0 => i \in Members(order)
<1> DEFINE take == Pour(order, cap, n)
<1>1. DOMAIN cap = 1..m
  BY DEF Lists
<1>2. \A k \in 1..Len(order) : order[k] \in 1..m /\ order[k] \in Members(order)
  BY DEF Members
<1>3. \A k \in 1..Len(order) : cap[order[k]] \in Int
  BY <1>2
<1>4. /\ take = [i \in DOMAIN cap |-> take[i]]
      /\ \A i \in DOMAIN cap :
            /\ take[i] \in Nat
            /\ take[i] # 0 => \E k \in 1..Len(order) : order[k] = i /\ take[i] <= cap[i]
  BY <1>3, PourIs
<1> HIDE DEF take
<1>5. Lists(take, m)
  BY <1>1, <1>4, Zenon DEF Lists
<1>6. \A i \in 1..m : take[i] \in Nat /\ take[i] <= cap[i] /\ (take[i] # 0 => i \in Members(order))
  BY <1>1, <1>2, <1>4
<1> QED BY <1>5, <1>6 DEF take, Within

LEMMA PlanTotal ==
    ASSUME NEW m \in Nat, NEW plan, Lists(plan, m), \A i \in 1..m : plan[i] \in Nat
    PROVE  Total(plan) \in Nat
<1>1. DOMAIN plan = 1..m /\ IsFiniteSet(1..m)
  BY FS_Interval DEF Lists
<1>2. Total(plan) = TotalOver(plan, 1..m)
  BY <1>1, TotalIs
<1> QED BY <1>1, <1>2, TotalIsNat

\* The positions of a book at which something holds, in an order.
LEMMA PlacesArranged ==
    ASSUME NEW m \in Nat, NEW S \in SUBSET (1..m), NEW keys, \A i \in S : keys[i] \in Int
    PROVE  IsSeq(SortedOn(S, keys)) /\ Members(SortedOn(S, keys)) = S
<1>1. IsFiniteSet(S) /\ S \subseteq Int
  <2>1. IsFiniteSet(1..m)
    BY FS_Interval
  <2>2. IsFiniteSet(S)
    BY <2>1, FS_Subset, Zenon
  <2> QED BY <2>2
<1> QED BY <1>1, SortedArranges DEF Arranges

(***************************************************************************)
(* Plans that fit                                                          *)
(***************************************************************************)
LEMMA FifoFits ==
    ASSUME NEW book, AllMeasured(book), NEW contract, NEW quantity \in Int
    PROVE  Fits(FifoPlan(book, contract, quantity), book)
<1> DEFINE m == Len(book)
           cap == [i \in DOMAIN book |->
                    IF /\ book[i].contract = contract
                       /\ Sgn(book[i].remaining) = -Sgn(quantity)
                    THEN Mag(book[i].remaining) ELSE 0]
           S == {i \in DOMAIN book : cap[i] > 0}
           own == [i \in S |-> i]
           order == SortedOn(S, own)
           plan == FifoPlan(book, contract, quantity)
<1>1. m \in Nat /\ DOMAIN book = 1..m
  BY DEF AllMeasured, IsSeq, Lists
<1>2. plan = Pour(order, cap, Mag(quantity))
  BY Zenon DEF FifoPlan, SortedBy
<1>3. Lists(cap, m)
  BY <1>1 DEF Lists
<1>4. \A i \in 1..m : cap[i] \in Nat /\ cap[i] <= Mag(book[i].remaining) /\ Mag(book[i].remaining) \in Nat
  <2> TAKE i \in 1..m
  <2>1. book[i].remaining \in Int
    BY DEF AllMeasured, Measured
  <2>2. cap[i] = IF book[i].contract = contract /\ Sgn(book[i].remaining) = -Sgn(quantity)
                 THEN Mag(book[i].remaining) ELSE 0
    BY <1>1
  <2> HIDE DEF cap
  <2> QED BY <2>1, <2>2 DEF Mag
<1>5. S \in SUBSET (1..m) /\ \A i \in S : own[i] \in Int
  BY <1>1
<1> HIDE DEF cap, plan, own, S, m
<1>6. IsSeq(order) /\ Members(order) = S
  BY <1>1, <1>5, PlacesArranged
<1>7. Mag(quantity) \in Int
  BY DEF Mag
<1> HIDE DEF order
<1>8. Within(plan, cap, m)
  BY <1>1, <1>2, <1>3, <1>4, <1>5, <1>6, <1>7, PourWithin
<1>9. \A i \in 1..m : plan[i] \in Nat /\ plan[i] <= Mag(book[i].remaining)
  BY <1>4, <1>8 DEF Within
<1> QED BY <1>8, <1>9 DEF Fits, Within, plan, m

LEMMA NothingFits ==
    ASSUME NEW book, AllMeasured(book)
    PROVE  Fits(Nothing(book), book)
<1>1. Len(book) \in Nat /\ DOMAIN book = 1..Len(book)
  BY DEF AllMeasured, IsSeq, Lists
<1>2. \A i \in 1..Len(book) : Mag(book[i].remaining) \in Nat
  BY DEF AllMeasured, Measured, Mag
<1>3. Lists(Nothing(book), Len(book)) /\ \A i \in 1..Len(book) : Nothing(book)[i] = 0
  BY <1>1 DEF Nothing, Lists
<1> QED BY <1>2, <1>3 DEF Fits

\* A plan of Wheel shares a strike hands over, beside what is reserved.
LEMMA StrikeFits ==
    ASSUME NEW book, AllMeasured(book), NEW ticker, NEW strike \in Int, NEW reserved,
           Fits(reserved, book), NEW shares \in Int
    PROVE  LET plan == StrikePlan(book, ticker, strike, reserved, shares)
           IN  /\ Fits(plan, book) /\ Fits(Both(reserved, plan), book)
               /\ \A i \in 1..Len(book) : plan[i] # 0 => IsWheelShares(book[i], ticker)
<1> DEFINE m == Len(book)
           cap == [i \in DOMAIN book |->
                    IF IsWheelShares(book[i], ticker)
                    THEN book[i].remaining - reserved[i] ELSE 0]
           key(i) == IF book[i].price <= strike THEN strike - book[i].price
                     ELSE strike + book[i].price
           S == {i \in DOMAIN book : cap[i] > 0}
           keys == [i \in S |-> key(i)]
           order == SortedOn(S, keys)
           plan == StrikePlan(book, ticker, strike, reserved, shares)
<1>1. m \in Nat /\ DOMAIN book = 1..m
  BY DEF AllMeasured, IsSeq, Lists
<1>2. plan = Pour(order, cap, shares)
  BY Zenon DEF StrikePlan, SortedBy
<1>3. Lists(cap, m)
  BY <1>1 DEF Lists
<1>4. ASSUME NEW i \in 1..m
      PROVE  /\ cap[i] \in Nat /\ cap[i] + reserved[i] <= Mag(book[i].remaining) /\ reserved[i] \in Nat
             /\ cap[i] # 0 => IsWheelShares(book[i], ticker)
             /\ Mag(book[i].remaining) \in Nat
  <2>1. book[i].remaining \in Int /\ reserved[i] \in Nat /\ reserved[i] <= Mag(book[i].remaining)
    BY DEF AllMeasured, Measured, Fits
  <2>2. cap[i] = IF IsWheelShares(book[i], ticker) THEN book[i].remaining - reserved[i] ELSE 0
    BY <1>1
  <2>3. IsWheelShares(book[i], ticker) => book[i].remaining > 0
    BY DEF IsWheelShares, IsShares
  <2> HIDE DEF cap
  <2> QED BY <2>1, <2>2, <2>3 DEF Mag
<1>5. S \in SUBSET (1..m)
  BY <1>1
<1>6. \A i \in S : keys[i] \in Int
  <2> TAKE i \in S
  <2>1. book[i].price \in Int
    BY <1>5 DEF AllMeasured, Measured
  <2>2. keys[i] = key(i)
    OBVIOUS
  <2> HIDE DEF keys, S
  <2> QED BY <2>1, <2>2
<1> HIDE DEF cap, plan, keys, S, m
<1>7. IsSeq(order) /\ Members(order) = S
  BY <1>1, <1>5, <1>6, PlacesArranged
<1> HIDE DEF order
<1>8. Within(plan, cap, m) /\ \A i \in 1..m : cap[i] \in Nat
  BY <1>1, <1>2, <1>3, <1>4, <1>5, <1>7, PourWithin
<1>9. \A i \in 1..m : /\ plan[i] \in Nat /\ plan[i] + reserved[i] <= Mag(book[i].remaining)
                      /\ plan[i] <= Mag(book[i].remaining) /\ reserved[i] \in Nat
                      /\ plan[i] # 0 => IsWheelShares(book[i], ticker)
  <2> TAKE i \in 1..m
  <2>1. plan[i] \in Nat /\ plan[i] <= cap[i]
    BY <1>8 DEF Within
  <2>2. plan[i] + reserved[i] <= Mag(book[i].remaining) /\ plan[i] <= Mag(book[i].remaining)
    BY <1>4, <2>1
  <2>3. plan[i] # 0 => cap[i] # 0
    BY <1>4, <2>1
  <2> QED BY <1>4, <2>1, <2>2, <2>3
<1>10. Fits(plan, book)
  BY <1>8, <1>9 DEF Fits, Within, m
<1>11. Fits(Both(reserved, plan), book)
  <2>1. DOMAIN reserved = 1..m
    BY DEF Fits, Lists, m
  <2>2. Lists(Both(reserved, plan), m) /\ \A i \in 1..m : Both(reserved, plan)[i] = reserved[i] + plan[i]
    BY <2>1 DEF Both, Lists
  <2>3. \A i \in 1..m : Both(reserved, plan)[i] \in Nat /\ Both(reserved, plan)[i] <= Mag(book[i].remaining)
    BY <1>9, <2>2
  <2> QED BY <2>2, <2>3 DEF Fits, m
<1> QED BY <1>9, <1>10, <1>11 DEF m, plan

CoverStep(book, ticker, nil, none, covered, i) ==
    Both(covered, StrikePlan(book, ticker, book[i].contract.strike, covered,
                             Mag(book[i].remaining) * PerContract))
CoverGood(book, ticker, nil, none, k, covered) ==
    Fits(covered, book) /\ \A i \in 1..Len(book) : covered[i] # 0 => IsWheelShares(book[i], ticker)
CoverFold == INSTANCE Folding WITH Op <- CoverStep, Good <- CoverGood

LEMMA AttributionFits ==
    ASSUME NEW book, AllMeasured(book), NEW ticker
    PROVE  LET covered == CoverAttribution(book, ticker)
           IN  /\ Fits(covered, book)
               /\ \A i \in 1..Len(book) : covered[i] # 0 => IsWheelShares(book[i], ticker)
<1> DEFINE calls == {i \in DOMAIN book : IsShortCall(book[i], ticker) /\ IsWheelCoveredCall(book[i])}
           keys == [i \in calls |-> book[i].contract.strike]
           order == SortedOn(calls, keys)
           n == Len(order)
           base == Nothing(book)
           covered == CoverAttribution(book, ticker)
<1>1. Len(book) \in Nat /\ DOMAIN book = 1..Len(book)
  BY DEF AllMeasured, IsSeq, Lists
<1>2. covered = CoverFold!Folded(book, ticker, 0, 0, base, order)
  BY DEF CoverAttribution, SortedBy, FoldLeft, MapThenFoldSet, Max, CoverFold!Folded, CoverStep
<1>3. calls \in SUBSET (1..Len(book)) /\ \A i \in calls : keys[i] \in Int
  <2>1. \A i \in calls : i \in 1..Len(book) /\ keys[i] = book[i].contract.strike
    BY <1>1
  <2> HIDE DEF calls, keys
  <2> QED BY <2>1 DEF AllMeasured, Measured, IsContract
<1> HIDE DEF covered, calls, keys
<1>4. IsSeq(order) /\ Members(order) = calls
  BY <1>1, <1>3, PlacesArranged
<1>5. n \in Nat /\ DOMAIN order = 1..n /\ \A k \in 1..n : order[k] \in 1..Len(book)
  BY <1>3, <1>4 DEF IsSeq, Lists, Members
<1> HIDE DEF order, n
<1>6. CoverGood(book, ticker, 0, 0, 0, base)
  <2>1. Fits(base, book)
    BY NothingFits
  <2>2. \A i \in 1..Len(book) : base[i] = 0
    BY <1>1 DEF Nothing
  <2> HIDE DEF base
  <2> QED BY <2>1, <2>2 DEF CoverGood
<1> HIDE DEF base
<1>7. ASSUME NEW acc, NEW k \in 1..n, CoverGood(book, ticker, 0, 0, k - 1, acc)
      PROVE  CoverGood(book, ticker, 0, 0, k, CoverStep(book, ticker, 0, 0, acc, order[k]))
  <2> DEFINE i == order[k]
             strike == book[i].contract.strike
             shares == Mag(book[i].remaining) * PerContract
             plan == StrikePlan(book, ticker, strike, acc, shares)
             next == Both(acc, plan)
  <2>1. i \in 1..Len(book)
    BY <1>5
  <2>2. strike \in Int /\ shares \in Int
    <3>1. strike \in Int /\ book[i].remaining \in Int
      BY <2>1 DEF AllMeasured, Measured, IsContract
    <3>2. Mag(book[i].remaining) \in Int
      BY <3>1 DEF Mag
    <3>3. \A x \in Int : x * PerContract \in Int
      BY PerContractAssumption
    <3> QED BY <3>1, <3>2, <3>3
  <2>3. Fits(acc, book) /\ \A j \in 1..Len(book) : acc[j] # 0 => IsWheelShares(book[j], ticker)
    BY <1>7 DEF CoverGood
  <2>4. CoverStep(book, ticker, 0, 0, acc, order[k]) = next
    BY DEF CoverStep
  <2> HIDE DEF i, strike, shares
  <2>5. /\ Fits(plan, book) /\ Fits(next, book)
        /\ \A j \in 1..Len(book) : plan[j] # 0 => IsWheelShares(book[j], ticker)
    BY <2>2, <2>3, StrikeFits
  <2>6. DOMAIN acc = 1..Len(book)
    BY <2>3 DEF Fits, Lists
  <2>7. \A j \in 1..Len(book) : next[j] = acc[j] + plan[j]
    BY <2>6 DEF Both
  <2> HIDE DEF plan, next
  <2>8. \A j \in 1..Len(book) : next[j] # 0 => IsWheelShares(book[j], ticker)
    <3> TAKE j \in 1..Len(book)
    <3>1. next[j] # 0 => acc[j] # 0 \/ plan[j] # 0
      BY <2>7
    <3> QED BY <2>3, <2>5, <3>1
  <2> QED BY <2>4, <2>5, <2>8 DEF CoverGood
<1>8. CoverGood(book, ticker, 0, 0, n, CoverFold!Folded(book, ticker, 0, 0, base, order))
  BY <1>5, <1>6, <1>7, CoverFold!FoldKeeps, LeastNatural, Zenon
<1> QED BY <1>2, <1>8 DEF CoverGood, covered

ByRankStep(book, ticker, long, nil, seq, r) ==
    seq \o SortedBy({i \in long : SaleRank(book[i].strategy) = r}, LAMBDA i : book[i].price)
ByRankGood(book, ticker, long, nil, k, seq) == IsSeq(seq) /\ Members(seq) \subseteq long
ByRankFold == INSTANCE Folding WITH Op <- ByRankStep, Good <- ByRankGood

LEMMA SaleFits ==
    ASSUME NEW book, AllMeasured(book), NEW ticker, NEW shares \in Int
    PROVE  Fits(SalePlan(book, ticker, shares), book)
<1> DEFINE m == Len(book)
           covered == CoverAttribution(book, ticker)
           long == {i \in DOMAIN book : IsShares(book[i], ticker)}
           free == [i \in DOMAIN book |->
                    IF i \in long THEN book[i].remaining - covered[i] ELSE 0]
           byStrategy == FoldLeft(LAMBDA seq, r :
                            seq \o SortedBy({i \in long : SaleRank(book[i].strategy) = r},
                                            LAMBDA i : book[i].price),
                         <<>>, <<1, 2, 3, 4>>)
           first == Pour(byStrategy, free, shares)
           prices == [i \in long |-> book[i].price]
           byPrice == SortedOn(long, prices)
           second == Pour(byPrice, covered, shares - Total(first))
           plan == SalePlan(book, ticker, shares)
<1>1. m \in Nat /\ DOMAIN book = 1..m
  BY DEF AllMeasured, IsSeq, Lists
<1>2. plan = Both(first, second)
  BY Zenon DEF SalePlan, SortedBy
<1>3. byStrategy = ByRankFold!Folded(book, ticker, long, 0, <<>>, <<1, 2, 3, 4>>)
  BY DEF FoldLeft, MapThenFoldSet, Max, ByRankFold!Folded, ByRankStep
<1>4. Fits(covered, book)
  BY AttributionFits
<1>5. long \in SUBSET (1..m) /\ \A i \in long : IsShares(book[i], ticker)
  BY <1>1
<1>6. \A i \in 1..m : free[i] = IF i \in long THEN book[i].remaining - covered[i] ELSE 0
  BY <1>1
<1>7. Lists(free, m)
  BY <1>1 DEF Lists
<1>70. \A i \in long : prices[i] = book[i].price
  OBVIOUS
<1> HIDE DEF plan, covered, long, free, byStrategy, prices
<1>8. \A i \in 1..m : book[i].remaining \in Int /\ book[i].price \in Int
  BY DEF AllMeasured, Measured
<1>9. IsSeq(byStrategy) /\ Members(byStrategy) \subseteq 1..m
  <2> DEFINE ranks == <<1, 2, 3, 4>>
  <2>1. DOMAIN ranks = 1..4
    OBVIOUS
  <2>2. ByRankGood(book, ticker, long, 0, 0, <<>>)
    <3>1. Lists(<<>>, 0)
      BY DEF Lists
    <3>2. IsSeq(<<>>) /\ Len(<<>>) = 0
      BY <3>1, SeqFrom
    <3>3. Members(<<>>) = {}
      BY <3>2 DEF Members
    <3> QED BY <3>2, <3>3 DEF ByRankGood
  <2> HIDE DEF ranks
  <2>3. ASSUME NEW acc, NEW k \in 1..4, ByRankGood(book, ticker, long, 0, k - 1, acc)
        PROVE  ByRankGood(book, ticker, long, 0, k, ByRankStep(book, ticker, long, 0, acc, ranks[k]))
    <3> DEFINE these == {i \in long : SaleRank(book[i].strategy) = ranks[k]}
               keys == [i \in these |-> book[i].price]
               more == SortedOn(these, keys)
               next == acc \o more
    <3>1. ByRankStep(book, ticker, long, 0, acc, ranks[k]) = next
      BY DEF ByRankStep, SortedBy
    <3>2. these \in SUBSET (1..m) /\ these \subseteq long /\ \A i \in these : keys[i] \in Int
      <4>1. these \subseteq long /\ \A i \in these : keys[i] = book[i].price
        OBVIOUS
      <4> HIDE DEF these, keys
      <4> QED BY <1>5, <1>8, <4>1
    <3> HIDE DEF these, keys
    <3>3. IsSeq(more) /\ Members(more) = these
      BY <1>1, <3>2, PlacesArranged
    <3>4. IsSeq(acc) /\ Members(acc) \subseteq long
      BY <2>3 DEF ByRankGood
    <3> HIDE DEF more
    <3>5. /\ IsSeq(next) /\ Len(next) = Len(acc) + Len(more)
          /\ \A x \in 1..Len(acc) : next[x] = acc[x]
          /\ \A x \in 1..Len(more) : next[Len(acc) + x] = more[x]
      BY <3>3, <3>4, ConcatOf
    <3>6. Len(acc) \in Nat /\ Len(more) \in Nat
      BY <3>3, <3>4 DEF IsSeq
    <3> HIDE DEF next
    <3>7. \A y \in 1..Len(next) : next[y] \in long
      <4> TAKE y \in 1..Len(next)
      <4>1. CASE y \in 1..Len(acc)
        BY <3>4, <3>5, <4>1 DEF Members
      <4>2. CASE y \notin 1..Len(acc)
        <5>1. y - Len(acc) \in 1..Len(more) /\ Len(acc) + (y - Len(acc)) = y
          BY <3>5, <3>6, <4>2
        <5>2. next[y] = more[y - Len(acc)]
          BY <3>5, <5>1
        <5> QED BY <3>2, <3>3, <5>1, <5>2 DEF Members
      <4> QED BY <4>1, <4>2
    <3> QED BY <3>1, <3>5, <3>7 DEF ByRankGood, Members
  <2>4. ByRankGood(book, ticker, long, 0, 4, ByRankFold!Folded(book, ticker, long, 0, <<>>, ranks))
    <3>1. 4 \in Nat
      OBVIOUS
    <3> QED BY <2>1, <2>2, <2>3, <3>1, ByRankFold!FoldKeeps, LeastNatural, Zenon
  <2>5. ByRankGood(book, ticker, long, 0, 4, byStrategy)
    BY <1>3, <2>4, Zenon DEF ranks
  <2> QED BY <1>5, <2>5 DEF ByRankGood
<1>10. IsSeq(byPrice) /\ Members(byPrice) \subseteq 1..m
  <2>1. \A i \in long : prices[i] \in Int
    BY <1>5, <1>8, <1>70
  <2> QED BY <1>1, <1>5, <2>1, PlacesArranged
<1> HIDE DEF byPrice
<1>11. \A i \in 1..m : /\ covered[i] \in Nat /\ covered[i] <= Mag(book[i].remaining)
                       /\ free[i] \in Nat
                       /\ free[i] = IF i \in long THEN Mag(book[i].remaining) - covered[i] ELSE 0
                       /\ Mag(book[i].remaining) \in Nat
  <2> TAKE i \in 1..m
  <2>1. covered[i] \in Nat /\ covered[i] <= Mag(book[i].remaining)
    BY <1>4 DEF Fits, m
  <2>2. i \in long => book[i].remaining > 0
    BY <1>5 DEF IsShares
  <2> QED BY <1>6, <1>8, <2>1, <2>2 DEF Mag
<1>12. Within(first, free, m) /\ \A i \in 1..m : first[i] # 0 => i \in Members(byStrategy)
  BY <1>1, <1>7, <1>9, <1>11, PourWithin
<1>120. \A i \in 1..m : first[i] \in Nat /\ first[i] <= free[i]
  BY <1>12 DEF Within
<1>13. Total(first) \in Nat
  BY <1>1, <1>12, PlanTotal DEF Within
<1>14. Lists(covered, m) /\ shares - Total(first) \in Int
  BY <1>4, <1>13 DEF Fits, m
<1>15. Within(second, covered, m) /\ \A i \in 1..m : second[i] # 0 => i \in Members(byPrice)
  BY <1>1, <1>10, <1>11, <1>14, PourWithin
<1>16. \A i \in 1..m : second[i] \in Nat /\ second[i] <= covered[i] /\ (second[i] # 0 => i \in long)
  <2>1. Members(byPrice) = long
    <3>1. \A i \in long : prices[i] \in Int
      BY <1>5, <1>8, <1>70
    <3> QED BY <1>1, <1>5, <3>1, PlacesArranged DEF byPrice
  <2> QED BY <1>15, <2>1 DEF Within
<1>17. DOMAIN first = 1..m
  BY <1>12 DEF Within, Lists
<1> HIDE DEF first, second
<1>18. Lists(plan, m) /\ \A i \in 1..m : plan[i] = first[i] + second[i]
  BY <1>2, <1>17 DEF Both, Lists
<1>19. \A i \in 1..m : plan[i] \in Nat /\ plan[i] <= Mag(book[i].remaining)
  <2> TAKE i \in 1..m
  <2>1. CASE i \in long
    BY <1>11, <1>120, <1>16, <1>18, <2>1, SMTT(30)
  <2>2. CASE i \notin long
    BY <1>11, <1>120, <1>16, <1>18, <2>2
  <2> QED BY <2>1, <2>2
<1> QED BY <1>18, <1>19 DEF Fits, plan, m

\* A takeover draws on open lots of shares.
LEMMA TakeoverFits ==
    ASSUME NEW book, AllMeasured(book), NEW ticker, NEW contracts \in Int, NEW backed \in Int,
           WheelShares(book, ticker) \in Int
    PROVE  LET plan == TakeoverPlan(book, ticker, contracts, backed)
           IN  Fits(plan, book) /\ \A i \in 1..Len(book) : plan[i] # 0 => book[i].remaining > 0
<1> DEFINE m == Len(book)
           lacking == contracts * PerContract
                     - Most(0, WheelShares(book, ticker) - backed * PerContract)
           cap == [i \in DOMAIN book |->
                    IF IsShares(book[i], ticker) /\ book[i].strategy # "wheel"
                    THEN book[i].remaining ELSE 0]
           S == {i \in DOMAIN book : cap[i] > 0}
           own == [i \in S |-> i]
           order == SortedOn(S, own)
           plan == TakeoverPlan(book, ticker, contracts, backed)
<1>1. m \in Nat /\ DOMAIN book = 1..m
  BY DEF AllMeasured, IsSeq, Lists
<1>2. plan = Pour(order, cap, lacking)
  BY Zenon DEF TakeoverPlan, SortedBy
<1>3. lacking \in Int
  <2>1. \A x \in Int : x * PerContract \in Int
    BY PerContractAssumption
  <2>2. contracts * PerContract \in Int /\ backed * PerContract \in Int
    BY <2>1
  <2> DEFINE a == contracts * PerContract
             b == backed * PerContract
             w == WheelShares(book, ticker)
  <2>3. a - Most(0, w - b) \in Int
    <3>1. a \in Int /\ b \in Int /\ w \in Int
      BY <2>2
    <3> HIDE DEF a, b, w
    <3> QED BY <3>1 DEF Most
  <2> QED BY <2>3
<1>4. Lists(cap, m)
  BY <1>1 DEF Lists
<1>5. \A i \in 1..m : /\ cap[i] \in Nat /\ cap[i] <= Mag(book[i].remaining)
                      /\ Mag(book[i].remaining) \in Nat /\ (cap[i] # 0 => book[i].remaining > 0)
  <2> TAKE i \in 1..m
  <2>1. book[i].remaining \in Int
    BY DEF AllMeasured, Measured
  <2>2. cap[i] = IF IsShares(book[i], ticker) /\ book[i].strategy # "wheel"
                 THEN book[i].remaining ELSE 0
    BY <1>1
  <2>3. IsShares(book[i], ticker) => book[i].remaining > 0
    BY DEF IsShares
  <2> HIDE DEF cap
  <2> QED BY <2>1, <2>2, <2>3 DEF Mag
<1>6. S \in SUBSET (1..m) /\ \A i \in S : own[i] \in Int
  BY <1>1
<1> HIDE DEF cap, plan, own, S, m, lacking
<1>7. IsSeq(order) /\ Members(order) = S
  BY <1>1, <1>6, PlacesArranged
<1> HIDE DEF order
<1>8. Within(plan, cap, m)
  BY <1>1, <1>2, <1>3, <1>4, <1>5, <1>6, <1>7, PourWithin
<1>9. \A i \in 1..m : /\ plan[i] \in Nat /\ plan[i] <= Mag(book[i].remaining)
                      /\ plan[i] # 0 => book[i].remaining > 0
  <2> TAKE i \in 1..m
  <2>1. plan[i] \in Nat /\ plan[i] <= cap[i]
    BY <1>8 DEF Within
  <2> QED BY <1>5, <2>1
<1> QED BY <1>8, <1>9 DEF Fits, Within, plan, m

(***************************************************************************)
(* Plans closed on a book                                                  *)
(***************************************************************************)
LEMMA ShareIs ==
    ASSUME NEW value \in Int, NEW part \in Int, NEW whole \in Nat \ {0}
    PROVE  Share(value, part, whole) \in Int
<1> DEFINE x == value * part
<1>1. x \in Int
  OBVIOUS
<1> HIDE DEF x
<1>2. x \div whole \in Int
  BY <1>1
<1> QED BY <1>2 DEF Share, x

\* What is closed leaves what remains of each lot.
LEMMA ClosedIs ==
    ASSUME NEW book, AllMeasured(book), NEW plan, Fits(plan, book)
    PROVE  LET b == Closed(book, plan)
           IN  /\ AllMeasured(b) /\ Len(b) = Len(book)
               /\ \A i \in 1..Len(book) : Mag(b[i].remaining) = Mag(book[i].remaining) - plan[i]
<1> DEFINE m == Len(book)
           b == Closed(book, plan)
           less(i) == [book[i] EXCEPT !.remaining = @ - Sgn(@) * plan[i]]
<1>1. m \in Nat /\ DOMAIN book = 1..m
  BY DEF AllMeasured, IsSeq, Lists
<1>2. b = [i \in 1..m |-> IF IsOpen(book[i]) THEN less(i) ELSE book[i]]
  BY <1>1, Zenon DEF Closed
<1>3. Lists(b, m)
  BY <1>2 DEF Lists
<1> HIDE DEF m
<1>4. IsSeq(b) /\ Len(b) = m
  BY <1>1, <1>3, SeqFrom, Zenon
<1>5. ASSUME NEW i \in 1..m
      PROVE  Measured(b[i]) /\ Mag(b[i].remaining) = Mag(book[i].remaining) - plan[i]
  <2>1. Measured(book[i]) /\ plan[i] \in Nat /\ plan[i] <= Mag(book[i].remaining)
    BY DEF AllMeasured, Fits, m
  <2>2. b[i] = IF IsOpen(book[i]) THEN less(i) ELSE book[i]
    BY <1>2, Zenon
  <2>3. CASE ~IsOpen(book[i])
    BY <2>1, <2>2, <2>3 DEF Mag, IsOpen
  <2>4. CASE IsOpen(book[i])
    <3> DEFINE lot == book[i]
               r == lot.remaining
               q == lot.quantity
               v == r - Sgn(r) * plan[i]
    <3>1. less(i) = [lot EXCEPT !.remaining = v]
      OBVIOUS
    <3>2. b[i] = less(i)
      BY <2>2, <2>4, Zenon
    <3>3. r \in Int /\ q \in Int /\ r # 0 /\ Between(r, q)
      BY <2>1, <2>4 DEF Measured, IsOpen
    <3>4. v \in Int /\ Between(v, q) /\ Mag(v) = Mag(r) - plan[i]
      <4>1. plan[i] \in Nat /\ plan[i] <= Mag(r)
        BY <2>1
      <4> HIDE DEF r, q
      <4>2. CASE r > 0
        <5>1. Sgn(r) * plan[i] = plan[i]
          BY <3>3, <4>1, <4>2 DEF Sgn
        <5>2. v = r - plan[i]
          BY <5>1
        <5> HIDE DEF v
        <5> QED BY <3>3, <4>1, <4>2, <5>2 DEF Between, Mag
      <4>3. CASE r < 0
        <5>1. Sgn(r) * plan[i] = -plan[i]
          BY <3>3, <4>1, <4>3 DEF Sgn
        <5>2. v = r + plan[i]
          BY <3>3, <4>1, <5>1
        <5> HIDE DEF v
        <5> QED BY <3>3, <4>1, <4>3, <5>2 DEF Between, Mag
      <4> QED BY <3>3, <4>2, <4>3
    <3>5. IsLot(lot) /\ IsContract(lot.contract) /\ lot.price \in Int /\ lot.amount \in Int
      BY <2>1 DEF Measured
    <3> HIDE DEF v, less
    <3>6. [lot EXCEPT !.remaining = v].remaining = v /\ IsLot([lot EXCEPT !.remaining = v])
      BY <3>5 DEF IsLot, LotFields
    <3>7. /\ b[i].contract = lot.contract /\ b[i].quantity = q /\ b[i].price = lot.price
          /\ b[i].amount = lot.amount /\ b[i].remaining = v /\ IsLot(b[i])
      BY <3>1, <3>2, <3>6
    <3> QED BY <3>3, <3>4, <3>5, <3>7 DEF Measured
  <2> QED BY <2>3, <2>4
<1>6. AllMeasured(b)
  BY <1>4, <1>5 DEF AllMeasured
<1> QED BY <1>4, <1>5, <1>6 DEF b, m

\* One plan after another fits as one.
LEMMA FitsTwice ==
    ASSUME NEW book, AllMeasured(book), NEW plan, Fits(plan, book), NEW other,
           Fits(other, Closed(book, plan))
    PROVE  Fits(Both(plan, other), book)
<1>1. /\ Len(Closed(book, plan)) = Len(book)
      /\ \A i \in 1..Len(book) : Mag(Closed(book, plan)[i].remaining) = Mag(book[i].remaining) - plan[i]
  BY ClosedIs
<1>2. \A i \in 1..Len(book) : /\ plan[i] \in Nat /\ other[i] \in Nat /\ Mag(book[i].remaining) \in Int
                              /\ other[i] <= Mag(book[i].remaining) - plan[i]
  BY <1>1 DEF Fits, AllMeasured, Measured, Mag
<1>3. DOMAIN plan = 1..Len(book)
  BY DEF Fits, Lists
<1>4. Lists(Both(plan, other), Len(book)) /\ \A i \in 1..Len(book) : Both(plan, other)[i] = plan[i] + other[i]
  BY <1>3 DEF Both, Lists
<1> QED BY <1>2, <1>4 DEF Fits

(***************************************************************************)
(* Sums over a book                                                        *)
(***************************************************************************)
NumberGood(p, q, r, s, k, sum) == sum \in Int

HeldStep(ticker, nil, none, void, sum, lot) == IF IsShares(lot, ticker) THEN sum + lot.remaining ELSE sum
HeldFold == INSTANCE Folding WITH Op <- HeldStep, Good <- NumberGood

LEMMA SharesHeldIs ==
    ASSUME NEW book, AllMeasured(book), NEW ticker
    PROVE  SharesHeld(book, ticker) \in Int
<1> DEFINE n == Len(book)
<1>1. n \in Nat /\ DOMAIN book = 1..n
  BY DEF AllMeasured, IsSeq, Lists
<1>2. SharesHeld(book, ticker) = HeldFold!Folded(ticker, 0, 0, 0, 0, book)
  BY DEF SharesHeld, SumOver, FoldLeft, MapThenFoldSet, Max, HeldFold!Folded, HeldStep
<1>3. NumberGood(ticker, 0, 0, 0, 0, 0)
  BY DEF NumberGood
<1>4. ASSUME NEW acc, NEW k \in 1..n, NumberGood(ticker, 0, 0, 0, k - 1, acc)
      PROVE  NumberGood(ticker, 0, 0, 0, k, HeldStep(ticker, 0, 0, 0, acc, book[k]))
  <2>1. book[k].remaining \in Int /\ acc \in Int
    BY <1>4 DEF AllMeasured, Measured, NumberGood
  <2> QED BY <2>1 DEF HeldStep, NumberGood, Mag
<1> HIDE DEF n
<1>5. NumberGood(ticker, 0, 0, 0, n, HeldFold!Folded(ticker, 0, 0, 0, 0, book))
  BY <1>1, <1>3, <1>4, HeldFold!FoldKeeps, LeastNatural, Zenon
<1> QED BY <1>2, <1>5 DEF NumberGood

OfWheelStep(ticker, nil, none, void, sum, lot) == IF IsWheelShares(lot, ticker) THEN sum + lot.remaining ELSE sum
OfWheelFold == INSTANCE Folding WITH Op <- OfWheelStep, Good <- NumberGood

LEMMA WheelSharesIs ==
    ASSUME NEW book, AllMeasured(book), NEW ticker
    PROVE  WheelShares(book, ticker) \in Int
<1> DEFINE n == Len(book)
<1>1. n \in Nat /\ DOMAIN book = 1..n
  BY DEF AllMeasured, IsSeq, Lists
<1>2. WheelShares(book, ticker) = OfWheelFold!Folded(ticker, 0, 0, 0, 0, book)
  BY DEF WheelShares, SumOver, FoldLeft, MapThenFoldSet, Max, OfWheelFold!Folded, OfWheelStep
<1>3. NumberGood(ticker, 0, 0, 0, 0, 0)
  BY DEF NumberGood
<1>4. ASSUME NEW acc, NEW k \in 1..n, NumberGood(ticker, 0, 0, 0, k - 1, acc)
      PROVE  NumberGood(ticker, 0, 0, 0, k, OfWheelStep(ticker, 0, 0, 0, acc, book[k]))
  <2>1. book[k].remaining \in Int /\ acc \in Int
    BY <1>4 DEF AllMeasured, Measured, NumberGood
  <2> QED BY <2>1 DEF OfWheelStep, NumberGood, Mag
<1> HIDE DEF n
<1>5. NumberGood(ticker, 0, 0, 0, n, OfWheelFold!Folded(ticker, 0, 0, 0, 0, book))
  BY <1>1, <1>3, <1>4, OfWheelFold!FoldKeeps, LeastNatural, Zenon
<1> QED BY <1>2, <1>5 DEF NumberGood

BackedStep(ticker, cover, nil, none, sum, lot) == IF IsShortCall(lot, ticker) /\ lot.cover = cover THEN sum + Mag(lot.remaining) ELSE sum
BackedFold == INSTANCE Folding WITH Op <- BackedStep, Good <- NumberGood

LEMMA CallsCoveredIs ==
    ASSUME NEW book, AllMeasured(book), NEW ticker, NEW cover
    PROVE  CallsCoveredBy(book, ticker, cover) \in Int
<1> DEFINE n == Len(book)
<1>1. n \in Nat /\ DOMAIN book = 1..n
  BY DEF AllMeasured, IsSeq, Lists
<1>2. CallsCoveredBy(book, ticker, cover) = BackedFold!Folded(ticker, cover, 0, 0, 0, book)
  BY DEF CallsCoveredBy, SumOver, FoldLeft, MapThenFoldSet, Max, BackedFold!Folded, BackedStep
<1>3. NumberGood(ticker, cover, 0, 0, 0, 0)
  BY DEF NumberGood
<1>4. ASSUME NEW acc, NEW k \in 1..n, NumberGood(ticker, cover, 0, 0, k - 1, acc)
      PROVE  NumberGood(ticker, cover, 0, 0, k, BackedStep(ticker, cover, 0, 0, acc, book[k]))
  <2>1. book[k].remaining \in Int /\ acc \in Int
    BY <1>4 DEF AllMeasured, Measured, NumberGood
  <2> QED BY <2>1 DEF BackedStep, NumberGood, Mag
<1> HIDE DEF n
<1>5. NumberGood(ticker, cover, 0, 0, n, BackedFold!Folded(ticker, cover, 0, 0, 0, book))
  BY <1>1, <1>3, <1>4, BackedFold!FoldKeeps, LeastNatural, Zenon
<1> QED BY <1>2, <1>5 DEF NumberGood

LongLeaps(book, ticker) ==
    SumOver(book, LAMBDA lot :
                    /\ lot.contract.right = "C" /\ lot.contract.ticker = ticker
                    /\ lot.quantity > 0 /\ lot.strategy = "leaps",
            LAMBDA lot : lot.remaining)

LeapsStep(ticker, nil, none, void, sum, lot) == IF /\ lot.contract.right = "C" /\ lot.contract.ticker = ticker
                                                        /\ lot.quantity > 0 /\ lot.strategy = "leaps" THEN sum + lot.remaining ELSE sum
LeapsFold == INSTANCE Folding WITH Op <- LeapsStep, Good <- NumberGood

LEMMA LongLeapsIs ==
    ASSUME NEW book, AllMeasured(book), NEW ticker
    PROVE  LongLeaps(book, ticker) \in Int
<1> DEFINE n == Len(book)
<1>1. n \in Nat /\ DOMAIN book = 1..n
  BY DEF AllMeasured, IsSeq, Lists
<1>2. LongLeaps(book, ticker) = LeapsFold!Folded(ticker, 0, 0, 0, 0, book)
  BY DEF LongLeaps, SumOver, FoldLeft, MapThenFoldSet, Max, LeapsFold!Folded, LeapsStep
<1>3. NumberGood(ticker, 0, 0, 0, 0, 0)
  BY DEF NumberGood
<1>4. ASSUME NEW acc, NEW k \in 1..n, NumberGood(ticker, 0, 0, 0, k - 1, acc)
      PROVE  NumberGood(ticker, 0, 0, 0, k, LeapsStep(ticker, 0, 0, 0, acc, book[k]))
  <2>1. book[k].remaining \in Int /\ acc \in Int
    BY <1>4 DEF AllMeasured, Measured, NumberGood
  <2> QED BY <2>1 DEF LeapsStep, NumberGood, Mag
<1> HIDE DEF n
<1>5. NumberGood(ticker, 0, 0, 0, n, LeapsFold!Folded(ticker, 0, 0, 0, 0, book))
  BY <1>1, <1>3, <1>4, LeapsFold!FoldKeeps, LeastNatural, Zenon
<1> QED BY <1>2, <1>5 DEF NumberGood

PlaceStep(contract, nil, none, void, sum, lot) == IF lot.contract = contract THEN sum + lot.remaining ELSE sum
PlaceFold == INSTANCE Folding WITH Op <- PlaceStep, Good <- NumberGood

LEMMA PositionIs ==
    ASSUME NEW book, AllMeasured(book), NEW contract
    PROVE  Position(book, contract) \in Int
<1> DEFINE n == Len(book)
<1>1. n \in Nat /\ DOMAIN book = 1..n
  BY DEF AllMeasured, IsSeq, Lists
<1>2. Position(book, contract) = PlaceFold!Folded(contract, 0, 0, 0, 0, book)
  BY DEF Position, FoldLeft, MapThenFoldSet, Max, PlaceFold!Folded, PlaceStep
<1>3. NumberGood(contract, 0, 0, 0, 0, 0)
  BY DEF NumberGood
<1>4. ASSUME NEW acc, NEW k \in 1..n, NumberGood(contract, 0, 0, 0, k - 1, acc)
      PROVE  NumberGood(contract, 0, 0, 0, k, PlaceStep(contract, 0, 0, 0, acc, book[k]))
  <2>1. book[k].remaining \in Int /\ acc \in Int
    BY <1>4 DEF AllMeasured, Measured, NumberGood
  <2> QED BY <2>1 DEF PlaceStep, NumberGood, Mag
<1> HIDE DEF n
<1>5. NumberGood(contract, 0, 0, 0, n, PlaceFold!Folded(contract, 0, 0, 0, 0, book))
  BY <1>1, <1>3, <1>4, PlaceFold!FoldKeeps, LeastNatural, Zenon
<1> QED BY <1>2, <1>5 DEF NumberGood

LEMMA CapacitiesAre ==
    ASSUME NEW book, AllMeasured(book), NEW ticker
    PROVE  WheelCapacity(book, ticker) \in Int /\ LeapsCapacity(book, ticker) \in Int
<1>1. \A x \in Int : x \div PerContract \in Int
  BY PerContractAssumption
<1>2. /\ SharesHeld(book, ticker) \in Int /\ CallsCoveredBy(book, ticker, "shares") \in Int
      /\ CallsCoveredBy(book, ticker, "leaps") \in Int /\ LongLeaps(book, ticker) \in Int
  BY SharesHeldIs, CallsCoveredIs, LongLeapsIs
<1>3. \A x, y \in Int : Most(0, x - y) \in Int
  BY DEF Most
<1>4. WheelCapacity(book, ticker) \in Int
  BY <1>1, <1>2, <1>3 DEF WheelCapacity
<1>5. LeapsCapacity(book, ticker) = Most(0, LongLeaps(book, ticker) - CallsCoveredBy(book, ticker, "leaps"))
  BY DEF LeapsCapacity, LongLeaps
<1> QED BY <1>2, <1>3, <1>4, <1>5

(***************************************************************************)
(* Lots cut and scaled                                                     *)
(***************************************************************************)
LEMMA NewLotMeasured ==
    ASSUME NEW contract, IsContract(contract), NEW strategy, NEW quantity \in Int, NEW price \in Int,
           NEW amount \in Int, NEW when
    PROVE  Measured(NewLot(contract, strategy, quantity, price, amount, when))
<1> DEFINE l == NewLot(contract, strategy, quantity, price, amount, when)
<1>1. /\ IsLot(l) /\ l.contract = contract /\ l.quantity = quantity /\ l.remaining = quantity
      /\ l.price = price /\ l.amount = amount
  BY DEF NewLot, IsLot, LotFields
<1> HIDE DEF l
<1>2. Between(quantity, quantity)
  BY DEF Between
<1> QED BY <1>1, <1>2 DEF Measured, l

\* Parts of a whole divide in order.
LEMMA DividedInOrder ==
    ASSUME NEW a \in Int, NEW b \in Int, a <= b, NEW in \in Nat \ {0}, NEW out \in Nat \ {0}
    PROVE  /\ (a * in) \div out \in Int /\ (b * in) \div out \in Int
           /\ (a * in) \div out <= (b * in) \div out
           /\ 0 <= a => 0 <= (a * in) \div out
           /\ b <= 0 => (b * in) \div out <= 0
<1> DEFINE x == a * in
           y == b * in
<1>1. x \in Int /\ y \in Int
  OBVIOUS
<1>2. x <= y
  <2>1. (b - a) * in >= 0
    OBVIOUS
  <2>2. (b - a) * in = y - x
    OBVIOUS
  <2> HIDE DEF x, y
  <2> QED BY <1>1, <2>1, <2>2
<1>3. (0 <= a => 0 <= x) /\ (b <= 0 => y <= 0)
  OBVIOUS
<1> HIDE DEF x, y
<1> DEFINE u == x \div out
           v == y \div out
<1>4. u \in Int /\ v \in Int /\ x = out * u + (x % out) /\ y = out * v + (y % out)
      /\ x % out \in 0..(out - 1) /\ y % out \in 0..(out - 1)
  BY <1>1
<1> HIDE DEF u, v
<1>5. u <= v
  <2> SUFFICES ASSUME u > v PROVE FALSE
    BY <1>4
  <2>1. out * u >= out * (v + 1)
    <3>1. out * (u - (v + 1)) >= 0
      BY <1>4
    <3>2. out * (u - (v + 1)) = out * u - out * (v + 1)
      BY <1>4
    <3>3. out * u \in Int /\ out * (v + 1) \in Int
      BY <1>4
    <3> QED BY <3>1, <3>2, <3>3
  <2>2. out * (v + 1) = out * v + out
    BY <1>4
  <2>3. out * u \in Int /\ out * v \in Int
    BY <1>4
  <2> QED BY <1>1, <1>2, <1>4, <2>1, <2>2, <2>3
<1>6. (0 <= a => 0 <= u) /\ (b <= 0 => v <= 0)
  <2>1. u < 0 => out * u <= -out
    <3>1. u < 0 => out * (u + 1) <= 0
      BY <1>4
    <3>2. out * (u + 1) = out * u + out /\ out * u \in Int
      BY <1>4
    <3> QED BY <3>1, <3>2
  <2>2. v > 0 => out * v >= out
    <3>1. v > 0 => out * (v - 1) >= 0
      BY <1>4
    <3>2. out * (v - 1) = out * v - out /\ out * v \in Int
      BY <1>4
    <3> QED BY <3>1, <3>2
  <2>3. u < 0 => x < 0
    BY <1>1, <1>4, <2>1
  <2>4. v > 0 => y > 0
    BY <1>1, <1>4, <2>2
  <2> QED BY <1>1, <1>3, <1>4, <2>3, <2>4
<1> QED BY <1>4, <1>5, <1>6 DEF u, v, x, y

LEMMA ScaledMeasured ==
    ASSUME NEW lot, Measured(lot), NEW to, IsContract(to), NEW out \in Nat \ {0}, NEW in \in Nat \ {0}
    PROVE  Measured(Scaled(lot, to, out, in))
<1> DEFINE l == Scaled(lot, to, out, in)
           q == (lot.quantity * in) \div out
           r == (lot.remaining * in) \div out
           p == (lot.price * out) \div in
<1>1. l = [lot EXCEPT !.contract = to, !.quantity = q, !.remaining = r, !.price = p]
  BY DEF Scaled
<1>2. /\ IsLot(lot) /\ lot.quantity \in Int /\ lot.remaining \in Int /\ lot.price \in Int
      /\ lot.amount \in Int /\ Between(lot.remaining, lot.quantity)
  BY DEF Measured
<1>3. q \in Int /\ r \in Int /\ p \in Int
  <2>1. /\ \A x \in Int : x * in \in Int /\ x * out \in Int
        /\ \A x \in Int : x \div in \in Int /\ x \div out \in Int
    OBVIOUS
  <2> QED BY <1>2, <2>1
<1>4. Between(r, q)
  <2>1. CASE 0 <= lot.remaining /\ lot.remaining <= lot.quantity
    <3>1. 0 <= r /\ r <= q
      BY <1>2, <2>1, DividedInOrder
    <3> HIDE DEF q, r
    <3> QED BY <3>1 DEF Between
  <2>2. CASE lot.quantity <= lot.remaining /\ lot.remaining <= 0
    <3>1. q <= r /\ r <= 0
      BY <1>2, <2>2, DividedInOrder
    <3> HIDE DEF q, r
    <3> QED BY <3>1 DEF Between
  <2> QED BY <1>2, <2>1, <2>2 DEF Between
<1> HIDE DEF q, r, p, l
<1>5. /\ IsLot(l) /\ l.contract = to /\ l.quantity = q /\ l.remaining = r /\ l.price = p
      /\ l.amount = lot.amount
  BY <1>1, <1>2 DEF IsLot, LotFields
<1> QED BY <1>2, <1>3, <1>4, <1>5 DEF Measured, l

\* The shares of a ticker are a contract.
LEMMA StockIs ==
    ASSUME NEW ticker
    PROVE  IsContract(Stock(ticker))
<1> DEFINE s == Stock(ticker)
<1>1. s = Option(ticker, "", 0, 0)
  BY DEF Stock, Option
<1>2. s.ticker = ticker /\ s.right = "" /\ s.strike = 0 /\ s.expiry = 0
  BY DEF Stock
<1> HIDE DEF s
<1>3. s = Option(s.ticker, s.right, s.strike, s.expiry)
  BY <1>1, <1>2, Zenon
<1>4. 0 \in Int
  OBVIOUS
<1>5. s.strike \in Int /\ s.expiry \in Int
  BY <1>2, <1>4, Zenon
<1>6. s.right \in {"", "C", "P"}
  BY <1>2, Zenon
<1> QED BY <1>3, <1>5, <1>6, Zenon DEF IsContract, s

(***************************************************************************)
(* What every step of the coverage keeps                                   *)
(***************************************************************************)
IsPortfolio(P) == IsFiniteSet(DOMAIN P) /\ \A c \in DOMAIN P : IsContract(c) /\ P[c] \in Int

Sources == {"cash", "stock", "leaps", "spread"}
Naked(P, c) == c \in DOMAIN P /\ P[c] < 0 /\ ~IsStock(c)

CoverTypes(P, s) ==
    /\ s = [field \in {"free", "need", "allocations", "structures"} |-> s[field]]
    /\ s.free \in [DOMAIN P -> Nat] /\ s.need \in [DOMAIN P -> Nat]
    /\ Counted(s.allocations)
    /\ \A a \in s.allocations : a.short \in DOMAIN P /\ P[a.short] < 0

\* What is held is free or used; what was sold is covered or lacks its cover.
FreeOrUsed(P, s, c) == IF P[c] > 0 THEN s.free[c] + UsedQuantity(s, c) = P[c] ELSE s.free[c] = 0
CoveredOrLacking(P, s, c) == P[c] <= 0 /\ ~IsStock(c) => CoveredBy(s, c, Sources) + s.need[c] = -P[c]

Accounted(P, s) == CoverTypes(P, s) /\ \A c \in DOMAIN P : FreeOrUsed(P, s, c) /\ CoveredOrLacking(P, s, c)

Fresh(s, short, source) == \A a \in s.allocations : ~(a.short = short /\ a.source = source)

\* A step that gives an option sold w contracts of cover, q[c] of each contract of G.
Gives(P, s, t, short, source, q, G, w) ==
    /\ t = [field \in {"free", "need", "allocations", "structures"} |-> t[field]]
    /\ t.free \in [DOMAIN P -> Nat] /\ t.need \in [DOMAIN P -> Nat]
    /\ t.allocations = s.allocations \cup Given(short, source, q, G)
    /\ \A c \in DOMAIN P : t.free[c] = s.free[c] - (IF c \in G /\ P[c] > 0 THEN q[c] ELSE 0)
    /\ \A c \in DOMAIN P \ {short} : t.need[c] = s.need[c]
    /\ t.need[short] = s.need[short] - w

LEMMA MultipleDivided ==
    ASSUME NEW w \in Nat, NEW m \in Nat \ {0}
    PROVE  (w * m) \div m = w /\ 0 \div m = 0
OBVIOUS

LEMMA GivesKeeps ==
    ASSUME NEW P, IsPortfolio(P), NEW s, Accounted(P, s),
           NEW short, Naked(P, short), NEW source \in Sources, Fresh(s, short, source),
           NEW G \in SUBSET DOMAIN P, NEW q, \A c \in G : q[c] \in Nat, NEW w \in Nat,
           TotalOver(q, G) = IF source = "stock" THEN w * PerContract ELSE w,
           NEW t, Gives(P, s, t, short, source, q, G, w)
    PROVE  Accounted(P, t)
<1> DEFINE new == Given(short, source, q, G)
<1>1. IsFiniteSet(G) /\ Counted(s.allocations)
  BY FS_Subset DEF IsPortfolio, Accounted, CoverTypes
<1>2. /\ Counted(new) /\ Quantity(new) = TotalOver(q, G)
      /\ \A a \in new : a.short = short /\ a.source = source /\ a.from \in G /\ a.quantity = q[a.from]
  BY <1>1, GivenIs
<1>3. t.allocations = s.allocations \cup new
  BY DEF Gives
<1>4. \A c \in G : [short |-> short, source |-> source, from |-> c, quantity |-> q[c]] \in new
  BY DEF Given
<1>40. \A a \in new : a = [short |-> short, source |-> source, from |-> a.from, quantity |-> q[a.from]]
  BY DEF Given
<1> HIDE DEF new
<1>5. CoverTypes(P, t)
  <2>1. Counted(t.allocations)
    <3>1. IsFiniteSet(s.allocations) /\ IsFiniteSet(new)
      BY <1>1, <1>2 DEF Counted
    <3>2. IsFiniteSet(s.allocations \cup new)
      BY <3>1, FS_Union
    <3>3. \A a \in s.allocations \cup new : a.quantity \in Nat
      BY <1>1, <1>2 DEF Counted
    <3> QED BY <1>3, <3>2, <3>3 DEF Counted
  <2>2. \A a \in t.allocations : a.short \in DOMAIN P /\ P[a.short] < 0
    BY <1>2, <1>3 DEF Accounted, CoverTypes, Naked
  <2> QED BY <2>1, <2>2 DEF CoverTypes, Gives
<1>6. ASSUME NEW A \in SUBSET s.allocations, NEW B \in SUBSET new
      PROVE  /\ Counted(A) /\ Counted(B) /\ Quantity(A) \in Nat /\ Quantity(B) \in Nat
             /\ A \cap B = {} => Quantity(A \cup B) = Quantity(A) + Quantity(B)
  <2>1. Counted(A) /\ Counted(B)
    BY <1>1, <1>2, FS_Subset DEF Counted
  <2>2. Counted({}) /\ A \cap {} = {} /\ B \cap {} = {}
    BY FS_EmptySet DEF Counted
  <2>3. Quantity(A) \in Nat /\ Quantity(B) \in Nat
    BY <2>1, <2>2, QuantityOfBoth
  <2> QED BY <2>1, <2>3, QuantityOfBoth
<1>7. s.allocations \cap new = {}
  BY <1>2 DEF Fresh
<1>8. ASSUME NEW c \in DOMAIN P PROVE FreeOrUsed(P, t, c)
  <2>0. t.free[c] = s.free[c] - (IF c \in G /\ P[c] > 0 THEN q[c] ELSE 0)
    BY DEF Gives
  <2>00. P[c] \in Int /\ s.free[c] \in Nat
    BY DEF Accounted, CoverTypes, IsPortfolio
  <2>1. CASE ~(P[c] > 0)
    BY <2>0, <2>00, <2>1 DEF FreeOrUsed, Accounted
  <2>2. CASE P[c] > 0
    <3> DEFINE A == {a \in s.allocations : a.from = c /\ a.short # c}
               B == {a \in new : a.from = c}
               C == {a \in t.allocations : a.from = c /\ a.short # c}
    <3>1. c # short
      BY <2>00, <2>2 DEF Naked
    <3>2. C = A \cup B /\ A \cap B = {} /\ A \in SUBSET s.allocations /\ B \in SUBSET new
      BY <1>2, <1>3, <1>7, <3>1
    <3>3. UsedQuantity(s, c) = Quantity(A) /\ UsedQuantity(t, c) = Quantity(C)
      BY DEF UsedQuantity
    <3>4. Quantity(B) = IF c \in G THEN q[c] ELSE 0
      <4>1. CASE c \in G
        <5> DEFINE a == [short |-> short, source |-> source, from |-> c, quantity |-> q[c]]
        <5>1. B = {a}
          BY <1>4, <1>40, <4>1
        <5>2. a.quantity = q[c] /\ q[c] \in Nat
          BY <4>1
        <5> HIDE DEF a, B
        <5> QED BY <4>1, <5>1, <5>2, GivenByOne
      <4>2. CASE c \notin G
        <5>1. B = {}
          BY <1>2, <4>2
        <5> HIDE DEF B
        <5> QED BY <4>2, <5>1, QuantityOfNone
      <4> QED BY <4>1, <4>2
    <3> HIDE DEF A, B, C
    <3>5. Quantity(C) = Quantity(A) + Quantity(B) /\ Quantity(A) \in Nat /\ Quantity(B) \in Nat
      BY <1>6, <3>2
    <3>6. s.free[c] + Quantity(A) = P[c]
      BY <2>2, <3>3 DEF Accounted, FreeOrUsed
    <3>7. t.free[c] = s.free[c] - Quantity(B)
      BY <2>0, <2>2, <3>4
    <3>8. t.free[c] + Quantity(C) = P[c]
      BY <2>00, <3>5, <3>6, <3>7
    <3> QED BY <2>2, <3>3, <3>8 DEF FreeOrUsed
  <2> QED BY <2>1, <2>2
<1>9. ASSUME NEW c \in DOMAIN P, P[c] <= 0, ~IsStock(c)
      PROVE  CoveredBy(t, c, Sources) + t.need[c] = -P[c]
  <2> DEFINE bare == Sources \ {"stock"}
             shares == Sources \cap {"stock"}
             A == AllocationsOf(s, c, bare)
             B == AllocationsOf(s, c, shares)
             A1 == AllocationsOf(t, c, bare)
             B1 == AllocationsOf(t, c, shares)
  <2>1. /\ P[c] \in Int /\ s.need[c] \in Nat
        /\ Quantity(A) + Quantity(B) \div PerContract + s.need[c] = -P[c]
    <3>1. CoveredOrLacking(P, s, c) /\ P[c] \in Int /\ s.need[c] \in Nat
      BY DEF Accounted, CoverTypes, IsPortfolio
    <3> QED BY <1>9, <3>1 DEF CoveredOrLacking, CoveredBy
  <2>2. A \in SUBSET s.allocations /\ B \in SUBSET s.allocations
    BY DEF AllocationsOf
  <2>3. CoveredBy(t, c, Sources) = Quantity(A1) + Quantity(B1) \div PerContract
    BY DEF CoveredBy
  <2>4. CASE c # short
    <3>1. A1 = A /\ B1 = B
      BY <1>2, <1>3, <2>4 DEF AllocationsOf
    <3>2. t.need[c] = s.need[c]
      BY <2>4 DEF Gives
    <3> HIDE DEF A, B, A1, B1
    <3> QED BY <2>1, <2>3, <3>1, <3>2
  <2>5. CASE c = short
    <3>1. t.need[c] = s.need[c] - w
      BY <2>5 DEF Gives
    <3>2. CASE source # "stock"
      <4>1. A1 = A \cup new /\ B1 = B
        BY <1>2, <1>3, <2>5, <3>2 DEF AllocationsOf, Sources
      <4>2. A \cap new = {}
        BY <1>7, <2>2
      <4>3. Quantity(new) = w
        BY <1>2, <3>2
      <4> HIDE DEF A, B, A1, B1
      <4>4. Quantity(A1) = Quantity(A) + w /\ Quantity(A) \in Nat /\ Quantity(B) \in Nat
        BY <1>6, <2>2, <4>1, <4>2, <4>3
      <4> DEFINE b == Quantity(B) \div PerContract
      <4>5. b \in Int
        BY <4>4, PerContractAssumption
      <4>6. Quantity(A) + b + s.need[c] = -P[c] /\ CoveredBy(t, c, Sources) = Quantity(A1) + b
        BY <2>1, <2>3, <4>1
      <4> HIDE DEF b
      <4> QED BY <2>1, <3>1, <4>4, <4>5, <4>6
    <3>3. CASE source = "stock"
      <4>1. A1 = A /\ B1 = new /\ B = {}
        BY <1>2, <1>3, <2>5, <3>3 DEF AllocationsOf, Sources, Fresh
      <4>2. Quantity(new) = w * PerContract
        BY <1>2, <3>3
      <4>3. Quantity(B1) \div PerContract = w /\ Quantity(B) \div PerContract = 0
        <5> HIDE DEF A, B, A1, B1
        <5>1. (w * PerContract) \div PerContract = w /\ 0 \div PerContract = 0
          BY PerContractAssumption, MultipleDivided
        <5> QED BY <4>1, <4>2, <5>1, QuantityOfNone
      <4> HIDE DEF A, B, A1, B1
      <4>4. Quantity(A) \in Nat
        BY <1>6, <2>2
      <4> QED BY <2>1, <2>3, <3>1, <4>1, <4>3, <4>4
    <3> QED BY <3>2, <3>3
  <2> QED BY <2>4, <2>5
<1> QED BY <1>5, <1>8, <1>9 DEF Accounted, CoveredOrLacking

\* What a pass adds is given to some options sold, by some sources.
Adds(s, t, shorts, sources) ==
    /\ s.allocations \subseteq t.allocations
    /\ \A a \in t.allocations \ s.allocations : a.short \in shorts /\ a.source \in sources

LEMMA AddsOn ==
    ASSUME NEW s, NEW t, NEW u, NEW S1, NEW S2, NEW T1, NEW T2, NEW S, NEW T,
           Adds(s, t, S1, T1), Adds(t, u, S2, T2), S1 \cup S2 \subseteq S, T1 \cup T2 \subseteq T
    PROVE  Adds(s, u, S, T)
BY DEF Adds

LEMMA DrawKeeps ==
    ASSUME NEW P, IsPortfolio(P), NEW s, Accounted(P, s),
           NEW short, Naked(P, short), NEW source \in Sources, Fresh(s, short, source),
           NEW pool \in SUBSET DOMAIN P, NEW order, Arranges(order, pool),
           NEW wanted \in Nat, wanted <= s.need[short],
           NEW ratio, ratio = IF source = "stock" THEN PerContract ELSE 1,
           wanted * ratio <= TotalOver(s.free, pool)
    PROVE  /\ Accounted(P, Draw(s, short, order, source, wanted, ratio))
           /\ Adds(s, Draw(s, short, order, source, wanted, ratio), {short}, {source})
<1> DEFINE n == wanted * ratio
           take == Pour(order, s.free, n)
           t == Draw(s, short, order, source, wanted, ratio)
           G == {x \in DOMAIN P : take[x] > 0}
<1>1. n \in Nat
  BY PerContractAssumption
<1>2. CoverTypes(P, s) /\ IsFiniteSet(DOMAIN P)
  BY DEF Accounted, IsPortfolio
<1>3. /\ DOMAIN s.free = DOMAIN P /\ \A c \in DOMAIN P : s.free[c] \in Nat /\ s.need[c] \in Nat
      /\ short \in DOMAIN P
  BY <1>2 DEF CoverTypes, Naked
<1>4. IsSeq(order) /\ Distinct(order) /\ Members(order) = pool
  BY DEF Arranges
<1>5. \A k \in 1..Len(order) : order[k] \in pool /\ s.free[order[k]] \in Int
  BY <1>3, <1>4 DEF Members
<1>6. /\ take = [i \in DOMAIN P |-> take[i]]
      /\ \A i \in DOMAIN P : /\ take[i] \in Nat
                             /\ take[i] # 0 => take[i] <= s.free[i]
  BY <1>1, <1>3, <1>4, <1>5, PourIs
<1>7. TotalOver(take, DOMAIN P) = Least(n, TotalOver(s.free, Members(order)))
  BY <1>1, <1>2, <1>3, <1>4, PourTakes
<1>8. TotalOver(s.free, pool) \in Nat
  BY <1>2, <1>3, TotalIsNat, FS_Subset
<1>9. t = [s EXCEPT
            !.free = [c \in DOMAIN s.free |-> s.free[c] - take[c]],
            !.need[short] = s.need[short] - wanted,
            !.allocations = s.allocations \cup
                {[short |-> short, source |-> source, from |-> c, quantity |-> take[c]] :
                    c \in {x \in DOMAIN take : take[x] > 0}}]
  BY DEF Draw
<1> HIDE DEF t, take
<1>10. DOMAIN take = DOMAIN P
  BY <1>6
<1>11. TotalOver(take, DOMAIN P) = n
  BY <1>1, <1>4, <1>7, <1>8 DEF Least
<1>12. TotalOver(take, G) = n
  <2>1. IntegersOn(take, DOMAIN P) /\ G \in SUBSET DOMAIN P /\ \A x \in DOMAIN P \ G : take[x] = 0
    BY <1>6 DEF IntegersOn
  <2> HIDE DEF G, n
  <2>2. TotalOver(take, DOMAIN P) = TotalOver(take, G)
    BY <1>2, <2>1, TotalOfPart
  <2> QED BY <1>11, <2>2
<1>13. t.allocations = s.allocations \cup Given(short, source, take, G)
  BY <1>2, <1>9, <1>10 DEF CoverTypes, Given
<1>14. Gives(P, s, t, short, source, take, G, wanted)
  <2>1. t = [field \in {"free", "need", "allocations", "structures"} |-> t[field]]
    BY <1>2, <1>9 DEF CoverTypes
  <2>2. t.free = [c \in DOMAIN P |-> s.free[c] - take[c]]
    BY <1>2, <1>3, <1>9 DEF CoverTypes
  <2>3. \A c \in DOMAIN P : s.free[c] - take[c] \in Nat
    BY <1>3, <1>6
  <2>4. t.free \in [DOMAIN P -> Nat] /\ \A c \in DOMAIN P : t.free[c] = s.free[c] - take[c]
    BY <2>2, <2>3
  <2>5. t.need = [s.need EXCEPT ![short] = s.need[short] - wanted]
    BY <1>2, <1>9 DEF CoverTypes
  <2>6. /\ t.need \in [DOMAIN P -> Nat] /\ t.need[short] = s.need[short] - wanted
        /\ \A c \in DOMAIN P \ {short} : t.need[c] = s.need[c]
    <3>1. s.need[short] - wanted \in Nat /\ s.need \in [DOMAIN P -> Nat]
      BY <1>2, <1>3 DEF CoverTypes
    <3> QED BY <1>3, <2>5, <3>1
  <2>7. \A c \in DOMAIN P : take[c] = IF c \in G /\ P[c] > 0 THEN take[c] ELSE 0
    <3> TAKE c \in DOMAIN P
    <3>1. take[c] \in Nat /\ (take[c] # 0 => take[c] <= s.free[c]) /\ s.free[c] \in Nat
      BY <1>3, <1>6
    <3>2. ~(P[c] > 0) => s.free[c] = 0
      BY DEF Accounted, FreeOrUsed
    <3>3. c \in G <=> take[c] > 0
      OBVIOUS
    <3> QED BY <3>1, <3>2, <3>3
  <2> HIDE DEF G
  <2> QED BY <1>13, <2>1, <2>4, <2>6, <2>7 DEF Gives
<1>15. Accounted(P, t)
  <2>1. G \in SUBSET DOMAIN P /\ \A c \in G : take[c] \in Nat
    BY <1>6
  <2>2. TotalOver(take, G) = IF source = "stock" THEN wanted * PerContract ELSE wanted
    <3>1. n = IF source = "stock" THEN wanted * PerContract ELSE wanted
      OBVIOUS
    <3> QED BY <1>12, <3>1
  <2> HIDE DEF G, n
  <2> QED BY <1>14, <2>1, <2>2, GivesKeeps
<1>16. Adds(s, t, {short}, {source})
  BY <1>13 DEF Adds, Given
<1> QED BY <1>15, <1>16 DEF t

LEMMA CashKeeps ==
    ASSUME NEW P, IsPortfolio(P), NEW s, Accounted(P, s),
           NEW short, Naked(P, short), Fresh(s, short, "cash")
    PROVE  /\ Accounted(P, SecureShortPut(s, short))
           /\ Adds(s, SecureShortPut(s, short), {short}, {"cash"})
<1> DEFINE t == SecureShortPut(s, short)
           q == [c \in {short} |-> s.need[short]]
<1>1. CASE s.need[short] = 0
  BY <1>1 DEF SecureShortPut, Adds
<1>2. CASE s.need[short] # 0
  <2>1. CoverTypes(P, s) /\ short \in DOMAIN P
    BY DEF Accounted, Naked
  <2>2. s.need \in [DOMAIN P -> Nat] /\ s.need[short] \in Nat
    BY <2>1 DEF CoverTypes
  <2>3. t = [s EXCEPT !.need = [s.need EXCEPT ![short] = 0],
                      !.allocations = s.allocations \cup
                        {[short |-> short, source |-> "cash", from |-> short, quantity |-> s.need[short]]}]
    BY <1>2 DEF SecureShortPut
  <2> HIDE DEF t
  <2>4. t.allocations = s.allocations \cup Given(short, "cash", q, {short})
    BY <2>1, <2>3 DEF CoverTypes, Given
  <2>5. TotalOver(q, {short}) = s.need[short]
    <3>1. q[short] = s.need[short] /\ IntegersOn(q, {short})
      BY <2>2 DEF IntegersOn
    <3> HIDE DEF q
    <3>2. TotalOver(q, {short}) = q[short] + TotalOver(q, {short} \ {short}) /\ TotalOver(q, {}) = 0
      BY <3>1, FS_Singleton, TotalOf
    <3>3. {short} \ {short} = {}
      OBVIOUS
    <3> QED BY <2>2, <3>1, <3>2, <3>3
  <2>6. Gives(P, s, t, short, "cash", q, {short}, s.need[short])
    <3>1. /\ t = [field \in {"free", "need", "allocations", "structures"} |-> t[field]]
          /\ t.free = s.free /\ t.need = [s.need EXCEPT ![short] = 0]
      BY <2>1, <2>3 DEF CoverTypes
    <3>2. t.free \in [DOMAIN P -> Nat] /\ \A c \in DOMAIN P : s.free[c] \in Nat
      BY <2>1, <3>1 DEF CoverTypes
    <3>3. /\ t.need \in [DOMAIN P -> Nat] /\ t.need[short] = s.need[short] - s.need[short]
          /\ \A c \in DOMAIN P \ {short} : t.need[c] = s.need[c]
      BY <2>1, <2>2, <3>1
    <3>4. \A c \in DOMAIN P : ~(c \in {short} /\ P[c] > 0)
      BY DEF Naked, IsPortfolio
    <3> HIDE DEF q
    <3>5. \A c \in DOMAIN P : t.free[c] = s.free[c] - (IF c \in {short} /\ P[c] > 0 THEN q[c] ELSE 0)
      BY <3>1, <3>2, <3>4
    <3> QED BY <2>4, <3>1, <3>2, <3>3, <3>5 DEF Gives
  <2>7. {short} \in SUBSET DOMAIN P /\ (\A c \in {short} : q[c] \in Nat) /\ "cash" \in Sources
    BY <2>1, <2>2 DEF Sources
  <2> HIDE DEF q
  <2>8. TotalOver(q, {short}) = IF "cash" = "stock" THEN s.need[short] * PerContract ELSE s.need[short]
    BY <2>5
  <2>9. Accounted(P, t)
    BY <2>2, <2>6, <2>7, <2>8, GivesKeeps
  <2>10. Adds(s, t, {short}, {"cash"})
    BY <2>4 DEF Adds, Given
  <2> QED BY <2>9, <2>10 DEF t
<1> QED BY <1>1, <1>2

(***************************************************************************)
(* The orders of the coverage                                              *)
(***************************************************************************)
LEMMA SameContract ==
    ASSUME NEW c, IsContract(c), NEW d, IsContract(d), c.ticker = d.ticker, c.right = d.right,
           c.strike = d.strike, c.expiry = d.expiry
    PROVE  c = d
BY DEF IsContract, Option

\* Options of one underlying and one right.
Alike(S) == /\ IsFiniteSet(S) /\ \A c \in S : IsContract(c)
            /\ \A c, d \in S : c.ticker = d.ticker /\ c.right = d.right

LEMMA PairCostArranges ==
    ASSUME NEW short, IsContract(short), NEW longs, Alike(longs)
    PROVE  Arranges(ByPairCost(short, longs), longs)
<1> DEFINE nearness(l) == IF short.right = "C" THEN -l.strike ELSE l.strike
           before(a, b) ==
                LET wa == StrikeWidth(short, a)
                    wb == StrikeWidth(short, b)
                IN  \/ wa < wb
                    \/ wa = wb /\ nearness(a) < nearness(b)
                    \/ wa = wb /\ nearness(a) = nearness(b) /\ a.expiry < b.expiry
           w == [l \in longs |-> StrikeWidth(short, l)]
           near == [l \in longs |-> nearness(l)]
           late == [l \in longs |-> l.expiry]
           rank == [x \in longs |-> Cardinality({y \in longs : before(y, x)})]
           at == ByPairCost(short, longs)
<1>1. at = [p \in 1..Cardinality(longs) |-> CHOOSE x \in longs : rank[x] = p - 1]
  BY Zenon DEF ByPairCost, Ranked
<1>2. \A x, y \in longs : before(y, x) <=> Before(w, near, late, y, x)
  BY DEF Before
<1>3. \A x \in longs : rank[x] = Cardinality({y \in longs : Before(w, near, late, y, x)})
  <2> TAKE x \in longs
  <2>1. {y \in longs : before(y, x)} = {y \in longs : Before(w, near, late, y, x)}
    <3> HIDE DEF before, w, near, late
    <3> QED BY <1>2
  <2>2. rank[x] = Cardinality({y \in longs : before(y, x)})
    BY Zenon
  <2> HIDE DEF rank, before, w, near, late
  <2> QED BY <2>1, <2>2
<1>4. \A l \in longs : l.strike \in Int /\ l.expiry \in Int /\ IsContract(l)
  BY DEF Alike, IsContract
<1>5. short.strike \in Int
  BY DEF IsContract
<1>6. Keyed(longs, w, near, late)
  <2>1. \A l \in longs : w[l] \in Int /\ near[l] \in Int /\ late[l] \in Int
    BY <1>4, <1>5 DEF StrikeWidth, Most
  <2>2. ASSUME NEW x \in longs, NEW y \in longs, near[x] = near[y], late[x] = late[y]
        PROVE  x = y
    <3>1. x.strike = y.strike /\ x.expiry = y.expiry
      BY <1>4, <2>2
    <3>2. x.ticker = y.ticker /\ x.right = y.right
      BY DEF Alike
    <3> HIDE DEF near, late
    <3> QED BY <1>4, <3>1, <3>2, SameContract
  <2> HIDE DEF w, near, late
  <2> QED BY <2>1, <2>2 DEF Keyed
<1>7. IsFiniteSet(longs)
  BY DEF Alike
<1> HIDE DEF at, rank, w, near, late, before
<1>80. RankedAt(longs, w, near, late, rank, at)
  BY <1>1, <1>3, Zenon DEF RankedAt
<1>8. Arranges(at, longs)
  BY <1>80, <1>6, <1>7, RanksArrange, Zenon
<1> QED BY <1>8 DEF at

LEMMA ClosestArranges ==
    ASSUME NEW shorts, Alike(shorts), \A c, d \in shorts : c.expiry = d.expiry
    PROVE  Arranges(ClosestFirst(shorts), shorts)
<1> DEFINE before(a, b) == IF a.right = "C" THEN a.strike < b.strike ELSE a.strike > b.strike
           near == [c \in shorts |-> IF c.right = "C" THEN c.strike ELSE -c.strike]
           nil == [c \in shorts |-> 0]
           rank == [x \in shorts |-> Cardinality({y \in shorts : before(y, x)})]
           at == ClosestFirst(shorts)
<1>1. at = [p \in 1..Cardinality(shorts) |-> CHOOSE x \in shorts : rank[x] = p - 1]
  BY Zenon DEF ClosestFirst, Ranked
<1>2. \A c \in shorts : c.strike \in Int /\ IsContract(c)
  BY DEF Alike, IsContract
<1>3. \A x, y \in shorts : before(y, x) <=> Before(near, nil, nil, y, x)
  <2> TAKE x, y \in shorts
  <2>1. x.right = y.right /\ x.strike \in Int /\ y.strike \in Int
    BY <1>2 DEF Alike
  <2>2. /\ near[x] = IF x.right = "C" THEN x.strike ELSE -x.strike
        /\ near[y] = IF y.right = "C" THEN y.strike ELSE -y.strike
        /\ nil[x] = 0 /\ nil[y] = 0
    OBVIOUS
  <2> HIDE DEF near, nil
  <2> QED BY <2>1, <2>2 DEF Before
<1>4. \A x \in shorts : rank[x] = Cardinality({y \in shorts : Before(near, nil, nil, y, x)})
  <2> TAKE x \in shorts
  <2>1. {y \in shorts : before(y, x)} = {y \in shorts : Before(near, nil, nil, y, x)}
    <3> HIDE DEF before, near, nil
    <3> QED BY <1>3
  <2>2. rank[x] = Cardinality({y \in shorts : before(y, x)})
    BY Zenon
  <2> HIDE DEF rank, before, near, nil
  <2> QED BY <2>1, <2>2
<1>5. Keyed(shorts, near, nil, nil)
  <2>1. \A c \in shorts : near[c] \in Int /\ nil[c] \in Int
    BY <1>2
  <2>2. ASSUME NEW x \in shorts, NEW y \in shorts, near[x] = near[y] PROVE x = y
    <3>1. x.right = y.right /\ x.ticker = y.ticker /\ x.expiry = y.expiry
      BY DEF Alike
    <3>2. x.strike = y.strike
      BY <1>2, <2>2, <3>1
    <3> HIDE DEF near
    <3> QED BY <1>2, <3>1, <3>2, SameContract
  <2> HIDE DEF near, nil
  <2> QED BY <2>1, <2>2 DEF Keyed
<1>6. IsFiniteSet(shorts)
  BY DEF Alike
<1> HIDE DEF at, rank, near, nil, before
<1>70. RankedAt(shorts, near, nil, nil, rank, at)
  BY <1>1, <1>4, Zenon DEF RankedAt
<1>7. Arranges(at, shorts)
  BY <1>70, <1>5, <1>6, RanksArrange, Zenon
<1> QED BY <1>7 DEF at

LEMMA SoonestArranges ==
    ASSUME NEW shorts, Alike(shorts)
    PROVE  Arranges(SoonestFirst(shorts), shorts)
<1> DEFINE before(a, b) == \/ a.expiry < b.expiry
                           \/ a.expiry = b.expiry /\ a.strike < b.strike
           soon == [c \in shorts |-> c.expiry]
           low == [c \in shorts |-> c.strike]
           nil == [c \in shorts |-> 0]
           rank == [x \in shorts |-> Cardinality({y \in shorts : before(y, x)})]
           at == SoonestFirst(shorts)
<1>1. at = [p \in 1..Cardinality(shorts) |-> CHOOSE x \in shorts : rank[x] = p - 1]
  BY Zenon DEF SoonestFirst, Ranked
<1>2. \A c \in shorts : c.strike \in Int /\ c.expiry \in Int /\ IsContract(c)
  BY DEF Alike, IsContract
<1>3. \A x, y \in shorts : before(y, x) <=> Before(soon, low, nil, y, x)
  BY DEF Before
<1>4. \A x \in shorts : rank[x] = Cardinality({y \in shorts : Before(soon, low, nil, y, x)})
  <2> TAKE x \in shorts
  <2>1. {y \in shorts : before(y, x)} = {y \in shorts : Before(soon, low, nil, y, x)}
    <3> HIDE DEF before, soon, low, nil
    <3> QED BY <1>3
  <2>2. rank[x] = Cardinality({y \in shorts : before(y, x)})
    BY Zenon
  <2> HIDE DEF rank, before, soon, low, nil
  <2> QED BY <2>1, <2>2
<1>5. Keyed(shorts, soon, low, nil)
  <2>1. \A c \in shorts : soon[c] \in Int /\ low[c] \in Int /\ nil[c] \in Int
    BY <1>2
  <2>2. ASSUME NEW x \in shorts, NEW y \in shorts, soon[x] = soon[y], low[x] = low[y] PROVE x = y
    <3>1. x.right = y.right /\ x.ticker = y.ticker
      BY DEF Alike
    <3>2. x.strike = y.strike /\ x.expiry = y.expiry
      BY <2>2
    <3> HIDE DEF soon, low
    <3> QED BY <1>2, <3>1, <3>2, SameContract
  <2> HIDE DEF soon, low, nil
  <2> QED BY <2>1, <2>2 DEF Keyed
<1>6. IsFiniteSet(shorts)
  BY DEF Alike
<1> HIDE DEF at, rank, soon, low, nil, before
<1>70. RankedAt(shorts, soon, low, nil, rank, at)
  BY <1>1, <1>4, Zenon DEF RankedAt
<1>7. Arranges(at, shorts)
  BY <1>70, <1>5, <1>6, RanksArrange, Zenon
<1> QED BY <1>7 DEF at

LEMMA NumbersArrange ==
    ASSUME NEW S, IsFiniteSet(S), \A i \in S : i \in Int
    PROVE  Arranges(Ranked(S, LAMBDA a, b : a < b), S)
<1> DEFINE before(a, b) == a < b
           own == [i \in S |-> i]
           nil == [i \in S |-> 0]
           rank == [x \in S |-> Cardinality({y \in S : before(y, x)})]
           at == Ranked(S, LAMBDA a, b : a < b)
<1>1. at = [p \in 1..Cardinality(S) |-> CHOOSE x \in S : rank[x] = p - 1]
  BY Zenon DEF Ranked
<1>2. \A x, y \in S : before(y, x) <=> Before(own, nil, nil, y, x)
  BY DEF Before
<1>3. \A x \in S : rank[x] = Cardinality({y \in S : Before(own, nil, nil, y, x)})
  <2> TAKE x \in S
  <2>1. {y \in S : before(y, x)} = {y \in S : Before(own, nil, nil, y, x)}
    <3> HIDE DEF before, own, nil
    <3> QED BY <1>2
  <2>2. rank[x] = Cardinality({y \in S : before(y, x)})
    BY Zenon
  <2> HIDE DEF rank, before, own, nil
  <2> QED BY <2>1, <2>2
<1>4. Keyed(S, own, nil, nil)
  BY DEF Keyed
<1> HIDE DEF at, rank, own, nil, before
<1>50. RankedAt(S, own, nil, nil, rank, at)
  BY <1>1, <1>3, Zenon DEF RankedAt
<1>5. Arranges(at, S)
  BY <1>50, <1>4, RanksArrange, Zenon
<1> QED BY <1>5 DEF at

(***************************************************************************)
(* What comes first in an order                                            *)
(***************************************************************************)
FirstOnes(order, k) == {order[j] : j \in 1..k}

LEMMA FirstOnesAre ==
    ASSUME NEW order, IsSeq(order), Distinct(order)
    PROVE  /\ FirstOnes(order, 0) = {} /\ FirstOnes(order, Len(order)) = Members(order)
           /\ \A k \in 1..Len(order) :
                /\ k - 1 \in 0..Len(order) /\ order[k] \in Members(order)
                /\ order[k] \notin FirstOnes(order, k - 1)
                /\ FirstOnes(order, k) = FirstOnes(order, k - 1) \cup {order[k]}
<1>0. Len(order) \in Nat
  BY DEF IsSeq
<1>1. FirstOnes(order, 0) = {} /\ FirstOnes(order, Len(order)) = Members(order)
  BY DEF FirstOnes, Members
<1>2. ASSUME NEW k \in 1..Len(order)
      PROVE  /\ k - 1 \in 0..Len(order) /\ order[k] \in Members(order)
             /\ order[k] \notin FirstOnes(order, k - 1)
             /\ FirstOnes(order, k) = FirstOnes(order, k - 1) \cup {order[k]}
  <2>1. k \in Nat /\ k >= 1 /\ k <= Len(order) /\ k - 1 \in 0..Len(order)
    BY <1>0
  <2>2. \A j \in 1..(k - 1) : j \in 1..Len(order) /\ j # k /\ j \in 1..k
    BY <1>0, <2>1
  <2>3. order[k] \notin FirstOnes(order, k - 1)
    BY <2>2 DEF FirstOnes, Distinct
  <2>4. \A j \in 1..k : j \in 1..(k - 1) \/ j = k
    BY <2>1
  <2>5. k \in 1..k
    BY <2>1
  <2>6. FirstOnes(order, k) = FirstOnes(order, k - 1) \cup {order[k]}
    BY <2>2, <2>4, <2>5 DEF FirstOnes
  <2>7. order[k] \in Members(order)
    BY DEF Members
  <2> QED BY <2>1, <2>3, <2>6, <2>7
<1> QED BY <1>1, <1>2

\* What is still fresh after what has been added.
LEMMA StaysFresh ==
    ASSUME NEW s, NEW t, NEW S, NEW T, Adds(s, t, S, T), NEW short, NEW source,
           Fresh(s, short, source), short \notin S \/ source \notin T
    PROVE  Fresh(t, short, source)
BY DEF Adds, Fresh

LEMMA AddsNothing == ASSUME NEW s, NEW T PROVE Adds(s, s, {}, T)
BY DEF Adds

(***************************************************************************)
(* Legs paired                                                             *)
(***************************************************************************)
PairStep(order, longs, P, start, acc, short) ==
    Draw(acc, short, ByPairCost(short, {l \in longs : acc.free[l] > 0}), "spread",
         Least(acc.need[short], Available(acc, longs)), 1)
PairGood(order, longs, P, start, k, acc) ==
    Accounted(P, acc) /\ Adds(start, acc, FirstOnes(order, k), {"spread"})
PairFold == INSTANCE Folding WITH Op <- PairStep, Good <- PairGood

LEMMA PairStepKeeps ==
    ASSUME NEW P, IsPortfolio(P), NEW s, Accounted(P, s), NEW longs \in SUBSET DOMAIN P, Alike(longs),
           NEW short, Naked(P, short), IsContract(short), Fresh(s, short, "spread"), NEW order, NEW start
    PROVE  /\ Accounted(P, PairStep(order, longs, P, start, s, short))
           /\ Adds(s, PairStep(order, longs, P, start, s, short), {short}, {"spread"})
<1> DEFINE pool == {l \in longs : s.free[l] > 0}
           by == ByPairCost(short, pool)
           wanted == Least(s.need[short], Available(s, longs))
<1>1. CoverTypes(P, s) /\ IsFiniteSet(longs) /\ IsFiniteSet(DOMAIN P)
  BY DEF Accounted, IsPortfolio, Alike
<1>2. (\A c \in DOMAIN P : s.free[c] \in Nat /\ s.need[c] \in Nat) /\ short \in DOMAIN P
  BY <1>1 DEF CoverTypes, Naked
<1>3. \A l \in longs : s.free[l] \in Nat
  BY <1>2
<1>4. Available(s, longs) = TotalOver(s.free, longs)
  BY <1>1, <1>3, AvailableIs DEF IntegersOn
<1>5. TotalOver(s.free, longs) \in Nat
  BY <1>1, <1>3, TotalIsNat
<1>6. TotalOver(s.free, longs) = TotalOver(s.free, pool)
  <2>1. pool \in SUBSET longs /\ IntegersOn(s.free, longs) /\ \A l \in longs \ pool : s.free[l] = 0
    BY <1>3 DEF IntegersOn
  <2> HIDE DEF pool
  <2> QED BY <1>1, <2>1, TotalOfPart
<1>7. Arranges(by, pool)
  <2>1. Alike(pool)
    BY <1>1, FS_Subset DEF Alike
  <2> HIDE DEF pool
  <2> QED BY <2>1, PairCostArranges
<1>8. wanted \in Nat /\ wanted <= s.need[short] /\ wanted * 1 <= TotalOver(s.free, pool)
  <2> HIDE DEF pool
  <2> QED BY <1>2, <1>4, <1>5, <1>6 DEF Least
<1>9. pool \in SUBSET DOMAIN P /\ "spread" \in Sources
  BY DEF Sources
<1>10. 1 = IF "spread" = "stock" THEN PerContract ELSE 1
  OBVIOUS
<1>11. PairStep(order, longs, P, start, s, short) = Draw(s, short, by, "spread", wanted, 1)
  BY DEF PairStep
<1> HIDE DEF pool, by, wanted
<1>12. /\ Accounted(P, Draw(s, short, by, "spread", wanted, 1))
       /\ Adds(s, Draw(s, short, by, "spread", wanted, 1), {short}, {"spread"})
  BY <1>7, <1>8, <1>9, <1>10, DrawKeeps
<1> QED BY <1>11, <1>12

LEMMA PairLegsKeeps ==
    ASSUME NEW P, IsPortfolio(P), NEW s, Accounted(P, s), NEW longs \in SUBSET DOMAIN P, Alike(longs),
           NEW shorts, Alike(shorts), \A c, d \in shorts : c.expiry = d.expiry,
           \A c \in shorts : Naked(P, c) /\ Fresh(s, c, "spread")
    PROVE  /\ Accounted(P, PairLegs(s, shorts, longs))
           /\ Adds(s, PairLegs(s, shorts, longs), shorts, {"spread"})
<1> DEFINE order == ClosestFirst(shorts)
           n == Len(order)
           d == PairLegs(s, shorts, longs)
<1>1. Arranges(order, shorts)
  BY ClosestArranges
<1>2. d = PairFold!Folded(order, longs, P, s, s, order)
  BY DEF PairLegs, FoldLeft, MapThenFoldSet, Max, PairFold!Folded, PairStep
<1> HIDE DEF order, d
<1>3. IsSeq(order) /\ Distinct(order) /\ Members(order) = shorts
  BY <1>1 DEF Arranges
<1>4. n \in Nat /\ DOMAIN order = 1..n
  BY <1>3 DEF IsSeq, Lists
<1> HIDE DEF n
<1>5. PairGood(order, longs, P, s, 0, s)
  <2>1. FirstOnes(order, 0) = {}
    BY <1>3, FirstOnesAre
  <2> QED BY <2>1, AddsNothing DEF PairGood
<1>6. ASSUME NEW acc, NEW k \in 1..n, PairGood(order, longs, P, s, k - 1, acc)
      PROVE  PairGood(order, longs, P, s, k, PairStep(order, longs, P, s, acc, order[k]))
  <2> DEFINE short == order[k]
             next == PairStep(order, longs, P, s, acc, short)
  <2>1. Accounted(P, acc) /\ Adds(s, acc, FirstOnes(order, k - 1), {"spread"})
    BY <1>6 DEF PairGood
  <2>2. /\ short \in shorts /\ short \notin FirstOnes(order, k - 1)
        /\ FirstOnes(order, k) = FirstOnes(order, k - 1) \cup {short}
    BY <1>3, FirstOnesAre DEF n
  <2>3. Naked(P, short) /\ IsContract(short) /\ Fresh(s, short, "spread")
    BY <2>2 DEF Alike
  <2> HIDE DEF short, next
  <2>4. Fresh(acc, short, "spread")
    BY <2>1, <2>2, <2>3, StaysFresh
  <2>5. Accounted(P, next) /\ Adds(acc, next, {short}, {"spread"})
    BY <2>1, <2>3, <2>4, PairStepKeeps DEF next
  <2>6. Adds(s, next, FirstOnes(order, k), {"spread"})
    BY <2>1, <2>2, <2>5 DEF Adds
  <2> QED BY <2>5, <2>6, Zenon DEF PairGood, next, short
<1>7. PairGood(order, longs, P, s, n, PairFold!Folded(order, longs, P, s, s, order))
  BY <1>4, <1>5, <1>6, PairFold!FoldKeeps, LeastNatural, Zenon
<1>8. FirstOnes(order, n) = shorts
  BY <1>3, FirstOnesAre DEF n
<1> QED BY <1>2, <1>7, <1>8 DEF PairGood, d

(***************************************************************************)
(* The options of an underlying by kind                                    *)
(***************************************************************************)
LEMMA KindIs ==
    ASSUME NEW c, IsContract(c), NEW n \in Int
    PROVE  /\ Kind(c, n) = "short_call" <=> c.right = "C" /\ n < 0
           /\ Kind(c, n) = "long_call" <=> c.right = "C" /\ ~(n < 0)
           /\ Kind(c, n) = "short_put" <=> c.right = "P" /\ n < 0
           /\ Kind(c, n) = "long_put" <=> c.right = "P" /\ ~(n < 0)
           /\ Kind(c, n) = "long_stock" => c.right = ""
<1>1. c.right \in {"", "C", "P"}
  BY DEF IsContract
<1>2. CASE c.right = ""
  BY <1>2 DEF Kind, IsStock
<1>3. CASE c.right = "C"
  BY <1>3 DEF Kind, IsStock
<1>4. CASE c.right = "P"
  BY <1>4 DEF Kind, IsStock
<1> QED BY <1>1, <1>2, <1>3, <1>4

\* The contracts of one underlying.
PartOf(P, ticker) == [c \in {x \in DOMAIN P : x.ticker = ticker} |-> P[c]]

LEMMA KindsArePart ==
    ASSUME NEW P, IsPortfolio(P), NEW ticker,
           NEW kind \in {"short_call", "short_put", "long_call", "long_put", "long_stock"}
    PROVE  LET S == OfKind(PartOf(P, ticker), kind)
           IN  /\ S \in SUBSET DOMAIN P /\ Alike(S) /\ \A c \in S : c.ticker = ticker
               /\ kind \in {"short_call", "short_put"} =>
                    \A c \in S : Naked(P, c) /\ c.right = IF kind = "short_call" THEN "C" ELSE "P"
<1> DEFINE S == OfKind(PartOf(P, ticker), kind)
<1>1. S = {c \in DOMAIN P : c.ticker = ticker /\ Kind(c, P[c]) = kind}
  BY DEF OfKind, PartOf
<1> HIDE DEF S
<1>2. \A c \in S : c \in DOMAIN P /\ c.ticker = ticker /\ Kind(c, P[c]) = kind /\ IsContract(c) /\ P[c] \in Int
  BY <1>1 DEF IsPortfolio
<1>3. IsFiniteSet(S) /\ S \in SUBSET DOMAIN P
  BY <1>1, FS_Subset DEF IsPortfolio
<1>4. \E right : \A c \in S : c.right = right /\
         (kind \in {"short_call", "short_put"} => P[c] < 0 /\ right = IF kind = "short_call" THEN "C" ELSE "P")
  <2>1. CASE kind = "short_call"
    <3>1. \A c \in S : c.right = "C" /\ P[c] < 0
      BY <1>2, <2>1, KindIs
    <3> QED BY <2>1, <3>1
  <2>2. CASE kind = "short_put"
    <3>1. \A c \in S : c.right = "P" /\ P[c] < 0
      BY <1>2, <2>2, KindIs
    <3> QED BY <2>2, <3>1
  <2>3. CASE kind = "long_call"
    <3>1. \A c \in S : c.right = "C"
      BY <1>2, <2>3, KindIs
    <3> QED BY <2>3, <3>1
  <2>4. CASE kind = "long_put"
    <3>1. \A c \in S : c.right = "P"
      BY <1>2, <2>4, KindIs
    <3> QED BY <2>4, <3>1
  <2>5. CASE kind = "long_stock"
    <3>1. \A c \in S : c.right = ""
      BY <1>2, <2>5, KindIs
    <3> QED BY <2>5, <3>1
  <2> QED BY <2>1, <2>2, <2>3, <2>4, <2>5
<1>5. Alike(S)
  BY <1>2, <1>3, <1>4 DEF Alike
<1>6. kind \in {"short_call", "short_put"} =>
         \A c \in S : Naked(P, c) /\ c.right = IF kind = "short_call" THEN "C" ELSE "P"
  BY <1>2, <1>4 DEF Naked, IsStock
<1> QED BY <1>2, <1>3, <1>5, <1>6 DEF S

LEMMA DividedFits ==
    ASSUME NEW w \in Nat, NEW a \in Nat, NEW m \in Nat \ {0}, w <= a \div m
    PROVE  w * m <= a
OBVIOUS

(***************************************************************************)
(* The steps of each pass                                                  *)
(***************************************************************************)
\* Structures are told beside what is covered.
LEMMA StructuresApart ==
    ASSUME NEW P, NEW s, Accounted(P, s), NEW more
    PROVE  LET t == [s EXCEPT !.structures = s.structures \cup more]
           IN  Accounted(P, t) /\ t.allocations = s.allocations
<1> DEFINE t == [s EXCEPT !.structures = s.structures \cup more]
<1>1. CoverTypes(P, s)
  BY DEF Accounted
<1>2. /\ t = [field \in {"free", "need", "allocations", "structures"} |-> t[field]]
      /\ t.free = s.free /\ t.need = s.need /\ t.allocations = s.allocations
  BY <1>1 DEF CoverTypes
<1> HIDE DEF t
<1>3. CoverTypes(P, t)
  BY <1>1, <1>2 DEF CoverTypes
<1>4. ASSUME NEW c \in DOMAIN P PROVE FreeOrUsed(P, t, c) /\ CoveredOrLacking(P, t, c)
  <2>1. FreeOrUsed(P, s, c) /\ CoveredOrLacking(P, s, c)
    BY DEF Accounted
  <2>2. UsedQuantity(t, c) = UsedQuantity(s, c) /\ CoveredBy(t, c, Sources) = CoveredBy(s, c, Sources)
    BY <1>2 DEF UsedQuantity, CoveredBy, AllocationsOf
  <2> QED BY <1>2, <2>1, <2>2 DEF FreeOrUsed, CoveredOrLacking
<1> QED BY <1>2, <1>3, <1>4 DEF Accounted, t

LEMMA BuildStructureKeeps ==
    ASSUME NEW P, IsPortfolio(P), NEW s, Accounted(P, s), NEW ticker, NEW expiry,
           \A c \in DOMAIN P : c.ticker = ticker /\ c.expiry = expiry => Fresh(s, c, "spread")
    PROVE  LET t == BuildStructure(PartOf(P, ticker), s, ticker, expiry)
           IN  /\ Accounted(P, t)
               /\ Adds(s, t, {c \in DOMAIN P : c.ticker = ticker /\ c.expiry = expiry}, {"spread"})
<1> DEFINE part == PartOf(P, ticker)
           of(kind) == {c \in OfKind(part, kind) : c.ticker = ticker /\ c.expiry = expiry}
           shorts == {c \in DOMAIN P : c.ticker = ticker /\ c.expiry = expiry}
           calls == PairLegs(s, of("short_call"), of("long_call"))
           both == PairLegs(calls, of("short_put"), of("long_put"))
           t == BuildStructure(part, s, ticker, expiry)
<1>1. ASSUME NEW kind \in {"short_call", "short_put", "long_call", "long_put"}
      PROVE  /\ of(kind) \in SUBSET DOMAIN P /\ Alike(of(kind)) /\ of(kind) \subseteq shorts
             /\ \A c, d \in of(kind) : c.expiry = d.expiry
             /\ kind \in {"short_call", "short_put"} =>
                    \A c \in of(kind) : Naked(P, c) /\ Fresh(s, c, "spread")
                                        /\ c.right = IF kind = "short_call" THEN "C" ELSE "P"
  <2> DEFINE S == OfKind(part, kind)
  <2>1. /\ S \in SUBSET DOMAIN P /\ Alike(S) /\ \A c \in S : c.ticker = ticker
        /\ kind \in {"short_call", "short_put"} =>
              \A c \in S : Naked(P, c) /\ c.right = IF kind = "short_call" THEN "C" ELSE "P"
    BY KindsArePart
  <2>2. of(kind) = {c \in S : c.ticker = ticker /\ c.expiry = expiry}
    OBVIOUS
  <2> HIDE DEF S, of, part
  <2>3. of(kind) \in SUBSET S /\ \A c \in of(kind) : c.ticker = ticker /\ c.expiry = expiry
    BY <2>2
  <2>4. Alike(of(kind))
    BY <2>1, <2>3, FS_Subset DEF Alike
  <2> QED BY <2>1, <2>3, <2>4
<1> HIDE DEF of, part
<1>2. /\ Accounted(P, calls) /\ Adds(s, calls, of("short_call"), {"spread"})
  BY <1>1, PairLegsKeeps
<1>3. \A c \in of("short_put") : Fresh(calls, c, "spread")
  <2> TAKE c \in of("short_put")
  <2>1. c \notin of("short_call") /\ Fresh(s, c, "spread")
    BY <1>1
  <2> HIDE DEF calls
  <2> QED BY <1>2, <2>1, StaysFresh
<1> HIDE DEF calls
<1>4. Accounted(P, both) /\ Adds(calls, both, of("short_put"), {"spread"})
  BY <1>1, <1>2, <1>3, PairLegsKeeps
<1> HIDE DEF both
<1>5. Adds(s, both, shorts, {"spread"})
  <2>1. of("short_call") \cup of("short_put") \subseteq shorts
    BY <1>1
  <2> HIDE DEF shorts
  <2> QED BY <1>2, <1>4, <2>1 DEF Adds
<1>6. t = both \/ \E more : t = [both EXCEPT !.structures = both.structures \cup more]
  BY Zenon DEF BuildStructure, both, calls, of, part
<1> HIDE DEF t, shorts
<1>7. Accounted(P, t) /\ t.allocations = both.allocations
  <2>1. CASE t = both
    BY <1>4, <2>1
  <2>2. CASE \E more : t = [both EXCEPT !.structures = both.structures \cup more]
    BY <1>4, <2>2, StructuresApart
  <2> QED BY <1>6, <2>1, <2>2
<1>8. Adds(s, t, shorts, {"spread"})
  BY <1>5, <1>7 DEF Adds
<1> QED BY <1>7, <1>8 DEF t, shorts, part

LEMMA CoverShortCallKeeps ==
    ASSUME NEW P, IsPortfolio(P), NEW s, Accounted(P, s), NEW ticker, NEW short, Naked(P, short),
           IsContract(short), Fresh(s, short, "stock"), Fresh(s, short, "leaps")
    PROVE  LET t == CoverShortCall(PartOf(P, ticker), s, short)
           IN  Accounted(P, t) /\ Adds(s, t, {short}, {"stock", "leaps"})
<1> DEFINE part == PartOf(P, ticker)
           shares == OfKind(part, "long_stock")
           byShares == Least(s.need[short], Available(s, shares) \div PerContract)
           stocked == Draw(s, short, SetToSeq(shares), "stock", byShares, PerContract)
           longer == {l \in OfKind(part, "long_call") : stocked.free[l] > 0 /\ l.expiry > short.expiry}
           byCalls == Least(stocked.need[short], Available(stocked, longer))
           t == Draw(stocked, short, ByPairCost(short, longer), "leaps", byCalls, 1)
<1>1. CoverShortCall(part, s, short) = t
  BY DEF CoverShortCall
<1>2. /\ shares \in SUBSET DOMAIN P /\ Alike(shares)
      /\ OfKind(part, "long_call") \in SUBSET DOMAIN P /\ Alike(OfKind(part, "long_call"))
  BY KindsArePart
<1>3. longer \in SUBSET DOMAIN P /\ Alike(longer)
  <2> DEFINE S == OfKind(part, "long_call")
  <2>1. longer \in SUBSET S /\ S \in SUBSET DOMAIN P /\ Alike(S)
    BY <1>2
  <2> HIDE DEF S, longer
  <2> QED BY <2>1, FS_Subset DEF Alike
<1> HIDE DEF shares, part
<1>4. short \in DOMAIN P
  BY DEF Naked
<1>5. ASSUME NEW u, Accounted(P, u), NEW pool \in SUBSET DOMAIN P
      PROVE  /\ u.need[short] \in Nat /\ Available(u, pool) = TotalOver(u.free, pool)
             /\ TotalOver(u.free, pool) \in Nat
  <2>1. CoverTypes(P, u) /\ IsFiniteSet(pool)
    BY <1>5, FS_Subset DEF Accounted, IsPortfolio
  <2>2. u.need[short] \in Nat /\ \A c \in pool : u.free[c] \in Nat
    BY <1>4, <2>1 DEF CoverTypes
  <2>3. IntegersOn(u.free, pool)
    BY <2>2 DEF IntegersOn
  <2> QED BY <2>1, <2>2, <2>3, AvailableIs, TotalIsNat
<1>6. Arranges(SetToSeq(shares), shares)
  BY <1>2, SetToSeqArranges DEF Alike
<1>7. byShares \in Nat /\ byShares <= s.need[short] /\ byShares * PerContract <= TotalOver(s.free, shares)
  <2> DEFINE a == TotalOver(s.free, shares)
  <2>1. s.need[short] \in Nat /\ Available(s, shares) = a /\ a \in Nat
    BY <1>2, <1>5
  <2> HIDE DEF a
  <2>2. a \div PerContract \in Nat
    BY <2>1, PerContractAssumption
  <2>3. byShares = Least(s.need[short], a \div PerContract)
    BY <2>1
  <2> HIDE DEF byShares
  <2>4. byShares \in Nat /\ byShares <= s.need[short] /\ byShares <= a \div PerContract
    BY <2>1, <2>2, <2>3 DEF Least
  <2>5. byShares * PerContract <= a
    BY <2>1, <2>4, PerContractAssumption, DividedFits
  <2> QED BY <2>4, <2>5 DEF a
<1>8. "stock" \in Sources /\ "leaps" \in Sources /\ "leaps" # "stock"
      /\ PerContract = IF "stock" = "stock" THEN PerContract ELSE 1
      /\ 1 = IF "leaps" = "stock" THEN PerContract ELSE 1
  BY DEF Sources
<1> HIDE DEF byShares
<1>9. Accounted(P, stocked) /\ Adds(s, stocked, {short}, {"stock"})
  BY <1>2, <1>6, <1>7, <1>8, DrawKeeps
<1> HIDE DEF stocked
<1>10. Arranges(ByPairCost(short, longer), longer)
  BY <1>3, PairCostArranges
<1> HIDE DEF longer
<1>11. byCalls \in Nat /\ byCalls <= stocked.need[short] /\ byCalls * 1 <= TotalOver(stocked.free, longer)
  <2> DEFINE a == TotalOver(stocked.free, longer)
  <2>1. stocked.need[short] \in Nat /\ Available(stocked, longer) = a /\ a \in Nat
    BY <1>3, <1>5, <1>9
  <2> HIDE DEF a
  <2>2. byCalls \in Nat /\ byCalls <= stocked.need[short] /\ byCalls * 1 <= a
    BY <2>1 DEF Least
  <2> QED BY <2>2 DEF a
<1>12. Fresh(stocked, short, "leaps")
  BY <1>9, StaysFresh
<1> HIDE DEF byCalls
<1>13. Accounted(P, t) /\ Adds(stocked, t, {short}, {"leaps"})
  BY <1>3, <1>8, <1>9, <1>10, <1>11, <1>12, DrawKeeps
<1> HIDE DEF t
<1>14. Adds(s, t, {short}, {"stock", "leaps"})
  BY <1>9, <1>13 DEF Adds
<1> QED BY <1>1, <1>13, <1>14 DEF part

(***************************************************************************)
(* The passes, and every underlying                                        *)
(***************************************************************************)
StructureStep(part, ticker, kept, nil, acc, expiry) == BuildStructure(part, acc, ticker, expiry)
StructureGood(part, ticker, kept, nil, k, acc) ==
    /\ Accounted(kept.P, acc)
    /\ Adds(kept.start, acc,
            {c \in DOMAIN kept.P : c.ticker = ticker /\ c.expiry \in FirstOnes(kept.order, k)}, {"spread"})
StructureFold == INSTANCE Folding WITH Op <- StructureStep, Good <- StructureGood

CallStep(part, order, P, start, acc, short) == CoverShortCall(part, acc, short)
CallGood(part, order, P, start, k, acc) ==
    Accounted(P, acc) /\ Adds(start, acc, FirstOnes(order, k), {"stock", "leaps"})
CallFold == INSTANCE Folding WITH Op <- CallStep, Good <- CallGood

CashStep(part, order, P, start, acc, short) == SecureShortPut(acc, short)
CashGood(part, order, P, start, k, acc) ==
    Accounted(P, acc) /\ Adds(start, acc, FirstOnes(order, k), {"cash"})
CashFold == INSTANCE Folding WITH Op <- CashStep, Good <- CashGood

StructuresOf(part, s, ticker, expiries) ==
    FoldLeft(LAMBDA acc, e : BuildStructure(part, acc, ticker, e), s, Ranked(expiries, LAMBDA a, b : a < b))
CallsOf(part, s, shorts) ==
    FoldLeft(LAMBDA acc, short : CoverShortCall(part, acc, short), s, SoonestFirst(shorts))
PutsOf(s, shorts) == FoldLeft(SecureShortPut, s, SetToSeq(shorts))

\* No option of an underlying has been given anything.
Untouched(P, s, ticker) == \A a \in s.allocations : a.short.ticker # ticker

LEMMA StructuresKeep ==
    ASSUME NEW P, IsPortfolio(P), NEW s, Accounted(P, s), NEW ticker, Untouched(P, s, ticker),
           NEW expiries, IsFiniteSet(expiries), \A e \in expiries : e \in Int
    PROVE  LET t == StructuresOf(PartOf(P, ticker), s, ticker, expiries)
           IN  Accounted(P, t) /\ Adds(s, t, {c \in DOMAIN P : c.ticker = ticker}, {"spread"})
<1> DEFINE part == PartOf(P, ticker)
           order == Ranked(expiries, LAMBDA a, b : a < b)
           n == Len(order)
           kept == [P |-> P, start |-> s, order |-> order]
           t == StructuresOf(part, s, ticker, expiries)
           those(k) == {c \in DOMAIN P : c.ticker = ticker /\ c.expiry \in FirstOnes(order, k)}
<1>1. Arranges(order, expiries)
  BY NumbersArrange
<1>2. t = StructureFold!Folded(part, ticker, kept, 0, s, order)
  BY DEF StructuresOf, FoldLeft, MapThenFoldSet, Max, StructureFold!Folded, StructureStep
<1>3. kept.P = P /\ kept.start = s /\ kept.order = order
  OBVIOUS
<1> HIDE DEF order, t, kept
<1>4. IsSeq(order) /\ Distinct(order)
  BY <1>1 DEF Arranges
<1>5. n \in Nat /\ DOMAIN order = 1..n
  BY <1>4 DEF IsSeq, Lists
<1> HIDE DEF n
<1>6. \A k : \A acc : StructureGood(part, ticker, kept, 0, k, acc)
                        <=> Accounted(P, acc) /\ Adds(s, acc, those(k), {"spread"})
  BY <1>3 DEF StructureGood
<1>7. StructureGood(part, ticker, kept, 0, 0, s)
  <2>1. those(0) = {}
    BY <1>4, FirstOnesAre
  <2> HIDE DEF those
  <2> QED BY <1>6, <2>1, AddsNothing
<1>8. ASSUME NEW acc, NEW k \in 1..n, StructureGood(part, ticker, kept, 0, k - 1, acc)
      PROVE  StructureGood(part, ticker, kept, 0, k, StructureStep(part, ticker, kept, 0, acc, order[k]))
  <2> DEFINE e == order[k]
             its == {c \in DOMAIN P : c.ticker = ticker /\ c.expiry = e}
             next == BuildStructure(part, acc, ticker, e)
  <2>1. Accounted(P, acc) /\ Adds(s, acc, those(k - 1), {"spread"})
    BY <1>6, <1>8
  <2>2. e \notin FirstOnes(order, k - 1) /\ FirstOnes(order, k) = FirstOnes(order, k - 1) \cup {e}
    BY <1>4, FirstOnesAre DEF n
  <2>3. those(k) = those(k - 1) \cup its
    BY <2>2
  <2>4. \A c \in DOMAIN P : c.ticker = ticker /\ c.expiry = e => Fresh(acc, c, "spread")
    <3> TAKE c \in DOMAIN P
    <3> HAVE c.ticker = ticker /\ c.expiry = e
    <3>1. Fresh(s, c, "spread")
      BY DEF Untouched, Fresh
    <3>2. c \notin those(k - 1)
      BY <2>2
    <3> HIDE DEF those, e
    <3> QED BY <2>1, <3>1, <3>2, StaysFresh
  <2> HIDE DEF e, those
  <2>5. Accounted(P, next) /\ Adds(acc, next, its, {"spread"})
    BY <2>1, <2>4, BuildStructureKeeps
  <2> HIDE DEF its, next
  <2>6. Adds(s, next, those(k), {"spread"})
    BY <2>1, <2>3, <2>5 DEF Adds
  <2>7. StructureGood(part, ticker, kept, 0, k, next)
    BY <1>6, <2>5, <2>6
  <2> QED BY <2>7, Zenon DEF StructureStep, next, e
<1>9. StructureGood(part, ticker, kept, 0, n, StructureFold!Folded(part, ticker, kept, 0, s, order))
  BY <1>5, <1>7, <1>8, StructureFold!FoldKeeps, LeastNatural, Zenon
<1>10. Accounted(P, t) /\ Adds(s, t, those(n), {"spread"})
  BY <1>2, <1>6, <1>9
<1>11. Adds(s, t, {c \in DOMAIN P : c.ticker = ticker}, {"spread"})
  BY <1>10 DEF Adds
<1> QED BY <1>10, <1>11 DEF t, part

LEMMA CallsKeep ==
    ASSUME NEW P, IsPortfolio(P), NEW s, Accounted(P, s), NEW ticker, NEW shorts, Alike(shorts),
           \A c \in shorts : Naked(P, c) /\ Fresh(s, c, "stock") /\ Fresh(s, c, "leaps")
    PROVE  LET t == CallsOf(PartOf(P, ticker), s, shorts)
           IN  Accounted(P, t) /\ Adds(s, t, shorts, {"stock", "leaps"})
<1> DEFINE part == PartOf(P, ticker)
           order == SoonestFirst(shorts)
           n == Len(order)
           t == CallsOf(part, s, shorts)
<1>1. Arranges(order, shorts)
  BY SoonestArranges
<1>2. t = CallFold!Folded(part, order, P, s, s, order)
  BY DEF CallsOf, FoldLeft, MapThenFoldSet, Max, CallFold!Folded, CallStep
<1> HIDE DEF order, t
<1>3. IsSeq(order) /\ Distinct(order) /\ Members(order) = shorts
  BY <1>1 DEF Arranges
<1>4. n \in Nat /\ DOMAIN order = 1..n
  BY <1>3 DEF IsSeq, Lists
<1> HIDE DEF n
<1>5. CallGood(part, order, P, s, 0, s)
  <2>1. FirstOnes(order, 0) = {}
    BY <1>3, FirstOnesAre
  <2> QED BY <2>1, AddsNothing DEF CallGood
<1>6. ASSUME NEW acc, NEW k \in 1..n, CallGood(part, order, P, s, k - 1, acc)
      PROVE  CallGood(part, order, P, s, k, CallStep(part, order, P, s, acc, order[k]))
  <2> DEFINE short == order[k]
             next == CoverShortCall(part, acc, short)
  <2>1. Accounted(P, acc) /\ Adds(s, acc, FirstOnes(order, k - 1), {"stock", "leaps"})
    BY <1>6 DEF CallGood
  <2>2. /\ short \in shorts /\ short \notin FirstOnes(order, k - 1)
        /\ FirstOnes(order, k) = FirstOnes(order, k - 1) \cup {short}
    BY <1>3, FirstOnesAre DEF n
  <2>3. Naked(P, short) /\ IsContract(short) /\ Fresh(s, short, "stock") /\ Fresh(s, short, "leaps")
    BY <2>2 DEF Alike
  <2> HIDE DEF short
  <2>4. Fresh(acc, short, "stock") /\ Fresh(acc, short, "leaps")
    BY <2>1, <2>2, <2>3, StaysFresh
  <2>5. Accounted(P, next) /\ Adds(acc, next, {short}, {"stock", "leaps"})
    BY <2>1, <2>3, <2>4, CoverShortCallKeeps
  <2> HIDE DEF next
  <2>6. Adds(s, next, FirstOnes(order, k), {"stock", "leaps"})
    BY <2>1, <2>2, <2>5 DEF Adds
  <2>7. CallGood(part, order, P, s, k, next)
    BY <2>5, <2>6 DEF CallGood
  <2> QED BY <2>7, Zenon DEF CallStep, next, short
<1>7. CallGood(part, order, P, s, n, CallFold!Folded(part, order, P, s, s, order))
  BY <1>4, <1>5, <1>6, CallFold!FoldKeeps, LeastNatural, Zenon
<1>8. FirstOnes(order, n) = shorts
  BY <1>3, FirstOnesAre DEF n
<1> QED BY <1>2, <1>7, <1>8 DEF CallGood, t, part

LEMMA PutsKeep ==
    ASSUME NEW P, IsPortfolio(P), NEW s, Accounted(P, s), NEW shorts, IsFiniteSet(shorts),
           \A c \in shorts : Naked(P, c) /\ Fresh(s, c, "cash")
    PROVE  LET t == PutsOf(s, shorts)
           IN  Accounted(P, t) /\ Adds(s, t, shorts, {"cash"})
<1> DEFINE order == SetToSeq(shorts)
           n == Len(order)
           t == PutsOf(s, shorts)
<1>1. Arranges(order, shorts)
  BY SetToSeqArranges
<1>2. t = CashFold!Folded(0, order, P, s, s, order)
  BY DEF PutsOf, FoldLeft, MapThenFoldSet, Max, CashFold!Folded, CashStep
<1> HIDE DEF order, t
<1>3. IsSeq(order) /\ Distinct(order) /\ Members(order) = shorts
  BY <1>1 DEF Arranges
<1>4. n \in Nat /\ DOMAIN order = 1..n
  BY <1>3 DEF IsSeq, Lists
<1> HIDE DEF n
<1>5. CashGood(0, order, P, s, 0, s)
  <2>1. FirstOnes(order, 0) = {}
    BY <1>3, FirstOnesAre
  <2> QED BY <2>1, AddsNothing DEF CashGood
<1>6. ASSUME NEW acc, NEW k \in 1..n, CashGood(0, order, P, s, k - 1, acc)
      PROVE  CashGood(0, order, P, s, k, CashStep(0, order, P, s, acc, order[k]))
  <2> DEFINE short == order[k]
             next == SecureShortPut(acc, short)
  <2>1. Accounted(P, acc) /\ Adds(s, acc, FirstOnes(order, k - 1), {"cash"})
    BY <1>6 DEF CashGood
  <2>2. /\ short \in shorts /\ short \notin FirstOnes(order, k - 1)
        /\ FirstOnes(order, k) = FirstOnes(order, k - 1) \cup {short}
    BY <1>3, FirstOnesAre DEF n
  <2>3. Naked(P, short) /\ Fresh(s, short, "cash")
    BY <2>2
  <2> HIDE DEF short
  <2>4. Fresh(acc, short, "cash")
    BY <2>1, <2>2, <2>3, StaysFresh
  <2>5. Accounted(P, next) /\ Adds(acc, next, {short}, {"cash"})
    BY <2>1, <2>3, <2>4, CashKeeps
  <2> HIDE DEF next
  <2>6. Adds(s, next, FirstOnes(order, k), {"cash"})
    BY <2>1, <2>2, <2>5 DEF Adds
  <2>7. CashGood(0, order, P, s, k, next)
    BY <2>5, <2>6 DEF CashGood
  <2> QED BY <2>7, Zenon DEF CashStep, next, short
<1>7. CashGood(0, order, P, s, n, CashFold!Folded(0, order, P, s, s, order))
  BY <1>4, <1>5, <1>6, CashFold!FoldKeeps, LeastNatural, Zenon
<1>8. FirstOnes(order, n) = shorts
  BY <1>3, FirstOnesAre DEF n
<1> QED BY <1>2, <1>7, <1>8 DEF CashGood, t

LEMMA CoverSymbolKeeps ==
    ASSUME NEW P, IsPortfolio(P), NEW s, Accounted(P, s), NEW ticker, Untouched(P, s, ticker)
    PROVE  LET t == CoverSymbol(P, s, ticker)
           IN  Accounted(P, t) /\ Adds(s, t, {c \in DOMAIN P : c.ticker = ticker}, Sources)
<1> DEFINE part == PartOf(P, ticker)
           calls == OfKind(part, "short_call")
           puts == OfKind(part, "short_put")
           sold == calls \cup puts
           expiries == {c.expiry : c \in sold}
           its == {c \in DOMAIN P : c.ticker = ticker}
           paired == StructuresOf(part, s, ticker, expiries)
           called == CallsOf(part, paired, calls)
           t == PutsOf(called, puts)
<1>1. CoverSymbol(P, s, ticker) = t
  BY DEF CoverSymbol, PartOf, StructuresOf, CallsOf, PutsOf
<1>2. /\ calls \subseteq its /\ Alike(calls) /\ \A c \in calls : Naked(P, c) /\ Fresh(s, c, "stock") /\ Fresh(s, c, "leaps")
      /\ puts \subseteq its /\ Alike(puts) /\ \A c \in puts : Naked(P, c) /\ Fresh(s, c, "cash")
  <2>1. calls \in SUBSET DOMAIN P /\ Alike(calls) /\ \A c \in calls : c.ticker = ticker /\ Naked(P, c)
    BY KindsArePart
  <2>2. puts \in SUBSET DOMAIN P /\ Alike(puts) /\ \A c \in puts : c.ticker = ticker /\ Naked(P, c)
    BY KindsArePart
  <2>3. ASSUME NEW c \in DOMAIN P, c.ticker = ticker, NEW source PROVE Fresh(s, c, source)
    BY <2>3 DEF Untouched, Fresh
  <2> HIDE DEF calls, puts
  <2> QED BY <2>1, <2>2, <2>3
<1> HIDE DEF calls, puts
<1>3. IsFiniteSet(expiries) /\ \A e \in expiries : e \in Int
  <2> DEFINE f == [c \in sold |-> c.expiry]
  <2>1. IsFiniteSet(sold)
    BY <1>2, FS_Union DEF Alike
  <2>2. expiries = {f[c] : c \in sold}
    OBVIOUS
  <2> HIDE DEF f
  <2>3. IsFiniteSet(expiries)
    BY <2>1, <2>2, FiniteImage
  <2>4. \A c \in sold : c.expiry \in Int
    BY <1>2 DEF Alike, IsContract
  <2> QED BY <2>3, <2>4
<1> HIDE DEF expiries
<1>4. Accounted(P, paired) /\ Adds(s, paired, its, {"spread"})
  BY <1>3, StructuresKeep
<1> HIDE DEF paired, its
<1>5. \A c \in calls : Fresh(paired, c, "stock") /\ Fresh(paired, c, "leaps")
  BY <1>2, <1>4, StaysFresh
<1>6. Accounted(P, called) /\ Adds(paired, called, calls, {"stock", "leaps"})
  BY <1>2, <1>4, <1>5, CallsKeep
<1> HIDE DEF called
<1>7. \A c \in puts : Fresh(called, c, "cash")
  BY <1>2, <1>4, <1>6, StaysFresh
<1>8. Accounted(P, t) /\ Adds(called, t, puts, {"cash"})
  BY <1>2, <1>6, <1>7, PutsKeep DEF Alike
<1> HIDE DEF t
<1>9. Adds(s, t, its, Sources)
  BY <1>2, <1>4, <1>6, <1>8 DEF Adds, Sources
<1> QED BY <1>1, <1>8, <1>9 DEF its

SymbolStep(P, order, start, x, acc, ticker) == CoverSymbol(P, acc, ticker)
SymbolGood(P, order, start, x, k, acc) ==
    Accounted(P, acc) /\ \A a \in acc.allocations : a.short.ticker \in FirstOnes(order, k)
SymbolFold == INSTANCE Folding WITH Op <- SymbolStep, Good <- SymbolGood

LEMMA NoneCovers ==
    ASSUME NEW s, s.allocations = {}, NEW c
    PROVE  UsedQuantity(s, c) = 0 /\ CoveredBy(s, c, Sources) = 0
<1>1. UsedQuantity(s, c) = Quantity({})
  BY DEF UsedQuantity
<1>2. AllocationsOf(s, c, Sources \ {"stock"}) = {} /\ AllocationsOf(s, c, Sources \cap {"stock"}) = {}
  BY DEF AllocationsOf
<1>3. 0 \div PerContract = 0 /\ 0 + 0 = 0
  BY PerContractAssumption
<1> QED BY <1>1, <1>2, <1>3, QuantityOfNone DEF CoveredBy

LEMMA ReadyAccounted ==
    ASSUME NEW P, IsPortfolio(P)
    PROVE  Accounted(P, Ready(P)) /\ Ready(P).allocations = {}
<1> DEFINE s == Ready(P)
<1>1. \A c \in DOMAIN P : P[c] \in Int
  BY DEF IsPortfolio
<1>2. /\ s = [field \in {"free", "need", "allocations", "structures"} |-> s[field]]
      /\ s.allocations = {}
      /\ s.free = [c \in DOMAIN P |-> Most(0, P[c])]
      /\ s.need = [c \in DOMAIN P |-> IF IsStock(c) THEN 0 ELSE Most(0, -P[c])]
  BY DEF Ready
<1> HIDE DEF s
<1>3. s.free \in [DOMAIN P -> Nat] /\ s.need \in [DOMAIN P -> Nat]
  BY <1>1, <1>2 DEF Most
<1>4. CoverTypes(P, s)
  BY <1>2, <1>3, FS_EmptySet DEF CoverTypes, Counted
<1>5. ASSUME NEW c \in DOMAIN P PROVE FreeOrUsed(P, s, c) /\ CoveredOrLacking(P, s, c)
  <2>1. UsedQuantity(s, c) = 0 /\ CoveredBy(s, c, Sources) = 0
    BY <1>2, NoneCovers
  <2>2. s.free[c] = Most(0, P[c]) /\ s.need[c] = IF IsStock(c) THEN 0 ELSE Most(0, -P[c])
    BY <1>2
  <2> HIDE DEF s
  <2>3. FreeOrUsed(P, s, c)
    BY <1>1, <2>1, <2>2 DEF FreeOrUsed, Most
  <2>4. CoveredOrLacking(P, s, c)
    BY <1>1, <2>1, <2>2 DEF CoveredOrLacking, Most
  <2> QED BY <2>3, <2>4
<1> QED BY <1>2, <1>4, <1>5 DEF Accounted, s

LEMMA ComputeCoverageKeeps ==
    ASSUME NEW P, IsPortfolio(P)
    PROVE  Accounted(P, ComputeCoverage(P))
<1> DEFINE tickers == {c.ticker : c \in DOMAIN P}
           order == SetToSeq(tickers)
           n == Len(order)
           s == Ready(P)
           t == ComputeCoverage(P)
<1>1. IsFiniteSet(tickers)
  <2> DEFINE f == [c \in DOMAIN P |-> c.ticker]
  <2>1. tickers = {f[c] : c \in DOMAIN P}
    OBVIOUS
  <2> HIDE DEF f
  <2> QED BY <2>1, FiniteImage DEF IsPortfolio
<1> HIDE DEF tickers
<1>2. Arranges(order, tickers)
  BY <1>1, SetToSeqArranges
<1>3. t = SymbolFold!Folded(P, order, s, 0, s, order)
  BY DEF ComputeCoverage, FoldLeft, MapThenFoldSet, Max, SymbolFold!Folded, SymbolStep, tickers
<1>4. Accounted(P, s) /\ s.allocations = {}
  BY ReadyAccounted
<1> HIDE DEF order, t, s
<1>5. IsSeq(order) /\ Distinct(order)
  BY <1>2 DEF Arranges
<1>6. n \in Nat /\ DOMAIN order = 1..n
  BY <1>5 DEF IsSeq, Lists
<1> HIDE DEF n
<1>7. SymbolGood(P, order, s, 0, 0, s)
  BY <1>4 DEF SymbolGood
<1>8. ASSUME NEW acc, NEW k \in 1..n, SymbolGood(P, order, s, 0, k - 1, acc)
      PROVE  SymbolGood(P, order, s, 0, k, SymbolStep(P, order, s, 0, acc, order[k]))
  <2> DEFINE ticker == order[k]
             its == {c \in DOMAIN P : c.ticker = ticker}
             next == CoverSymbol(P, acc, ticker)
  <2>1. Accounted(P, acc) /\ \A a \in acc.allocations : a.short.ticker \in FirstOnes(order, k - 1)
    BY <1>8 DEF SymbolGood
  <2>2. /\ ticker \notin FirstOnes(order, k - 1)
        /\ FirstOnes(order, k) = FirstOnes(order, k - 1) \cup {ticker}
    BY <1>5, FirstOnesAre DEF n
  <2> HIDE DEF ticker
  <2>3. Untouched(P, acc, ticker)
    BY <2>1, <2>2 DEF Untouched
  <2>4. Accounted(P, next) /\ Adds(acc, next, its, Sources)
    BY <2>1, <2>3, CoverSymbolKeeps
  <2> HIDE DEF next
  <2>5. \A a \in next.allocations : a.short.ticker \in FirstOnes(order, k)
    BY <2>1, <2>2, <2>4 DEF Adds
  <2>6. SymbolGood(P, order, s, 0, k, next)
    BY <2>4, <2>5 DEF SymbolGood
  <2> QED BY <2>6, Zenon DEF SymbolStep, next, ticker
<1>9. SymbolGood(P, order, s, 0, n, SymbolFold!Folded(P, order, s, 0, s, order))
  BY <1>6, <1>7, <1>8, SymbolFold!FoldKeeps, LeastNatural, Zenon
<1> QED BY <1>3, <1>9 DEF SymbolGood, t

(***************************************************************************)
(* What a context keeps                                                    *)
(***************************************************************************)
ContextFields ==
    {"book", "rows", "exitLog", "composites", "settlements", "budget", "closed", "active"}

IsContext(c) == c = [field \in ContextFields |-> c[field]]

\* The open lots of each contract are in the order of their purchase.
Purchased(book) ==
    \A i, j \in 1..Len(book) :
        (/\ i < j /\ IsOpen(book[i]) /\ IsOpen(book[j])
         /\ book[i].contract = book[j].contract)
            => book[i].rankWhen <= book[j].rankWhen

\* A condor's leg was assigned or exercised at that instant.
LegAt(log, when) ==
    \E x \in 1..Len(log) : Settled(log[x].exit.event) /\ log[x].exit.when = when

\* What a lot says of its delivery is what the rows say.
Told(rows, log, lot) ==
    /\ \A r \in lot.delivered :
            r \in 1..Len(rows) /\ <<rows[r].endWhen, "delivery">> \in lot.openIds
    /\ \A when : <<when, "delivery">> \in lot.openIds =>
            \/ LegAt(log, when)
            \/ \E r \in lot.delivered : Settled(rows[r].event) /\ rows[r].endWhen = when

\* A lot of a context, bought by then.
LotOf(c, lot, now) ==
    /\ Measured(lot) /\ lot.rankWhen \in Int /\ lot.rankWhen <= now
    /\ Told(c.rows, c.exitLog, lot)

\* What the buybacks may still hand over is counted.
IsBudget(b) == b = [announced |-> b.announced, left |-> b.left] /\ b.left \in Int

Budgeted(c) ==
    /\ \A key \in DOMAIN c.budget : IsBudget(c.budget[key])
    /\ \A key \in DOMAIN c.closed : c.closed[key] \in Int

Fine(c, now) ==
    /\ IsContext(c) /\ Budgeted(c)
    /\ IsSeq(c.book) /\ IsSeq(c.rows) /\ IsSeq(c.exitLog)
    /\ \A i \in 1..Len(c.book) : LotOf(c, c.book[i], now)
    /\ Purchased(c.book)

\* A sequence only grows.
Extends(s, t) == Len(s) <= Len(t) /\ \A i \in 1..Len(s) : t[i] = s[i]

Grown(c, d) == Extends(c.rows, d.rows) /\ Extends(c.exitLog, d.exitLog)

(***************************************************************************)
(* Positions in their order                                                *)
(***************************************************************************)
\* Positions sorted as they come: each once, rising.
LEMMA PositionsInOrder ==
    ASSUME NEW S, IsFiniteSet(S), S \subseteq Int
    PROVE  LET at == SortedBy(S, LAMBDA i : i)
               n == Cardinality(S)
           IN  /\ n \in Nat /\ DOMAIN at = 1..n /\ \A p \in 1..n : at[p] \in S
               /\ \A p, q \in 1..n : p < q => at[p] < at[q]
<1> DEFINE below == [i \in S |-> {j \in S : j < i}]
           n == Cardinality(S)
           at == SortedBy(S, LAMBDA i : i)
<1>1. TotalOrder(S, below)
  <2>1. below \in [S -> SUBSET S]
    OBVIOUS
  <2>2. \A i, j \in S : i \in below[j] <=> i < j
    OBVIOUS
  <2> HIDE DEF below, at, n
  <2>3. \A i \in S : i \in Int
    OBVIOUS
  <2>4. \A i, j, k \in S : i < j /\ j < k => i < k
    BY <2>3
  <2>5. \A i, j \in S : i \in below[j] => below[i] \subseteq below[j]
    BY <2>1, <2>2, <2>4
  <2>6. (\A i \in S : ~(i < i)) /\ \A i, j \in S : i # j => i < j \/ j < i
    BY <2>3
  <2>7. (\A i \in S : i \notin below[i]) /\ \A i, j \in S : i # j => i \in below[j] \/ j \in below[i]
    BY <2>2, <2>6
  <2> QED BY <2>1, <2>5, <2>7, Zenon DEF TotalOrder
<1> DEFINE own == [i \in S |-> i]
           rank == [x \in S |-> Cardinality({y \in S : own[y] < own[x] \/ (own[y] = own[x] /\ y < x)})]
<1>2. \A x \in S : below[x] = {y \in S : own[y] < own[x] \/ (own[y] = own[x] /\ y < x)}
  <2> TAKE x \in S
  <2>1. \A y \in S : own[y] = y
    OBVIOUS
  <2>2. below[x] = {y \in S : y < x}
    OBVIOUS
  <2> HIDE DEF below, own
  <2> QED BY <2>1, <2>2
<1>3. \A x \in S : rank[x] = Cardinality(below[x])
  BY <1>2, Zenon
<1>4. at = [p \in 1..n |-> CHOOSE x \in S : rank[x] = p - 1]
  BY Zenon DEF SortedBy, SortedOn, Ranked
<1> HIDE DEF below, rank, at, own
<1>5. /\ n \in Nat
      /\ \A i, j \in S : Cardinality(below[i]) < Cardinality(below[j]) => i \in below[j]
      /\ \A k \in 0..(n - 1) : \E i \in S : Cardinality(below[i]) = k
  <2>1. n \in Nat /\ \A i, j \in S : Cardinality(below[i]) < Cardinality(below[j]) => i \in below[j]
    BY <1>1, PlacesAreTaken, Zenon
  <2>2. \A k \in 0..(n - 1) : \E i \in S : Cardinality(below[i]) = k
    BY <1>1, PlacesAreTaken, ZenonT(40)
  <2> QED BY <2>1, <2>2
<1>6. ASSUME NEW p \in 1..n PROVE at[p] \in S /\ rank[at[p]] = p - 1
  <2>1. p - 1 \in 0..(n - 1)
    BY <1>5
  <2>2. \E x \in S : rank[x] = p - 1
    BY <1>3, <1>5, <2>1
  <2>3. at[p] = CHOOSE x \in S : rank[x] = p - 1
    BY <1>4
  <2> QED BY <2>2, <2>3, Zenon
<1>7. ASSUME NEW p \in 1..n, NEW q \in 1..n, p < q PROVE at[p] < at[q]
  <2>1. at[p] \in S /\ at[q] \in S /\ rank[at[p]] < rank[at[q]]
    BY <1>5, <1>6, <1>7
  <2>2. at[p] \in below[at[q]]
    BY <1>3, <1>5, <2>1
  <2> QED BY <2>1, <2>2 DEF below
<1>8. DOMAIN at = 1..n
  BY <1>4
<1> QED BY <1>5, <1>6, <1>7, <1>8 DEF at

\* What is picked from a sequence comes in its order.
InOrderOf(t, s, S) ==
    /\ IsSeq(t)
    /\ \A p \in 1..Len(t) : \E i \in S : t[p] = s[i]
    /\ \A p, q \in 1..Len(t) :
            p < q => \E i, j \in S : i < j /\ t[p] = s[i] /\ t[q] = s[j]

LEMMA PickedInOrder ==
    ASSUME NEW s, NEW m \in Nat, NEW S \in SUBSET (1..m)
    PROVE  InOrderOf(Picked(s, S), s, S)
<1> DEFINE at == SortedBy(S, LAMBDA i : i)
           n == Cardinality(S)
           t == Picked(s, S)
<1>1. IsFiniteSet(S) /\ S \subseteq Int
  <2>1. IsFiniteSet(1..m)
    BY FS_Interval
  <2>2. IsFiniteSet(S)
    BY <2>1, FS_Subset, Zenon
  <2> QED BY <2>2
<1>2. /\ n \in Nat /\ DOMAIN at = 1..n /\ \A p \in 1..n : at[p] \in S
      /\ \A p, q \in 1..n : p < q => at[p] < at[q]
  BY <1>1, PositionsInOrder
<1>3. t = [p \in DOMAIN at |-> s[at[p]]]
  BY Zenon DEF Picked
<1> HIDE DEF at
<1>4. t = [p \in 1..n |-> s[at[p]]]
  BY <1>2, <1>3
<1> HIDE DEF t, n
<1>5. Lists(t, n)
  BY <1>4, Zenon DEF Lists
<1>6. IsSeq(t) /\ Len(t) = n
  BY <1>2, <1>5, SeqFrom, Zenon
<1>7. \A p \in 1..n : t[p] = s[at[p]]
  BY <1>4
<1> QED BY <1>2, <1>6, <1>7 DEF t, InOrderOf

(***************************************************************************)
(* Lots and contexts                                                       *)
(***************************************************************************)
LEMMA NewLotIs ==
    ASSUME NEW contract, NEW strategy, NEW quantity, NEW price, NEW amount, NEW when
    PROVE  LET l == NewLot(contract, strategy, quantity, price, amount, when)
           IN  /\ IsLot(l) /\ l.rankWhen = when /\ l.contract = contract
               /\ l.openIds = {<<when, "trade">>} /\ l.delivered = {}
BY DEF IsLot, LotFields, NewLot

\* What a lot says stays told while the rows and the log grow.
LEMMA ToldLater ==
    ASSUME NEW rows, NEW log, NEW rows2, NEW log2, NEW lot,
           Len(rows) \in Nat, Len(rows2) \in Nat, Len(log) \in Nat, Len(log2) \in Nat,
           Extends(rows, rows2), Extends(log, log2), Told(rows, log, lot)
    PROVE  Told(rows2, log2, lot)
<1>1. \A r \in 1..Len(rows) : r \in 1..Len(rows2) /\ rows2[r] = rows[r]
  BY DEF Extends
<1>2. \A x \in 1..Len(log) : x \in 1..Len(log2) /\ log2[x] = log[x]
  BY DEF Extends
<1>3. \A when : LegAt(log, when) => LegAt(log2, when)
  BY <1>2, Zenon DEF LegAt
<1>4. \A r \in lot.delivered : r \in 1..Len(rows)
  BY DEF Told
<1>5. \A r \in lot.delivered :
            r \in 1..Len(rows2) /\ <<rows2[r].endWhen, "delivery">> \in lot.openIds
  BY <1>1, <1>4 DEF Told
<1>6. ASSUME NEW when, <<when, "delivery">> \in lot.openIds
      PROVE  \/ LegAt(log2, when)
             \/ \E r \in lot.delivered : Settled(rows2[r].event) /\ rows2[r].endWhen = when
  <2>1. CASE LegAt(log, when)
    BY <1>3, <2>1, Zenon
  <2>2. CASE \E r \in lot.delivered : Settled(rows[r].event) /\ rows[r].endWhen = when
    BY <1>1, <1>4, <2>2, Zenon
  <2> QED BY <1>6, <2>1, <2>2, Zenon DEF Told
<1> QED BY <1>5, <1>6, Zenon DEF Told

LEMMA FineLater ==
    ASSUME NEW c, NEW d, NEW now, Fine(c, now), IsContext(d), Budgeted(d), d.book = c.book,
           Grown(c, d), IsSeq(d.rows), IsSeq(d.exitLog)
    PROVE  Fine(d, now)
<1>1. /\ Len(c.rows) \in Nat /\ Len(d.rows) \in Nat /\ Len(c.exitLog) \in Nat
      /\ Len(d.exitLog) \in Nat
  BY DEF Fine, IsSeq
<1>2. \A lot : Told(c.rows, c.exitLog, lot) => Told(d.rows, d.exitLog, lot)
  BY <1>1, ToldLater, Zenon DEF Grown
<1>3. \A i \in 1..Len(d.book) : LotOf(d, d.book[i], now)
  BY <1>2, Zenon DEF Fine, LotOf
<1> QED BY <1>3, Zenon DEF Fine

LEMMA FineMeasured ==
    ASSUME NEW c, NEW now, Fine(c, now)
    PROVE  AllMeasured(c.book)
BY Zenon DEF Fine, LotOf, AllMeasured

\* Another book on the same rows.
LEMMA FineBook ==
    ASSUME NEW c, NEW d, NEW now, Fine(c, now), IsContext(d), Budgeted(d), d.rows = c.rows,
           d.exitLog = c.exitLog, IsSeq(d.book), Purchased(d.book),
           \A i \in 1..Len(d.book) : LotOf(c, d.book[i], now)
    PROVE  Fine(d, now) /\ Grown(c, d)
<1>1. \A i \in 1..Len(d.book) : LotOf(d, d.book[i], now)
  BY Zenon DEF LotOf
<1>2. Fine(d, now)
  BY <1>1, Zenon DEF Fine
<1>3. Len(c.rows) \in Nat /\ Len(c.exitLog) \in Nat
  BY DEF Fine, IsSeq
<1> QED BY <1>2, <1>3 DEF Grown, Extends

LEMMA GrownTwice ==
    ASSUME NEW c, NEW d, NEW e, Grown(c, d), Grown(d, e),
           IsSeq(c.rows), IsSeq(d.rows), IsSeq(e.rows),
           IsSeq(c.exitLog), IsSeq(d.exitLog), IsSeq(e.exitLog)
    PROVE  Grown(c, e)
<1>1. Len(c.rows) <= Len(e.rows) /\ \A i \in 1..Len(c.rows) : e.rows[i] = c.rows[i]
  BY DEF Grown, Extends, IsSeq
<1>2. Len(c.exitLog) <= Len(e.exitLog) /\ \A i \in 1..Len(c.exitLog) : e.exitLog[i] = c.exitLog[i]
  BY DEF Grown, Extends, IsSeq
<1> QED BY <1>1, <1>2, Zenon DEF Grown, Extends

\* Time passes.
LEMMA FineSince ==
    ASSUME NEW c, NEW now \in Int, NEW then \in Int, Fine(c, now), now <= then
    PROVE  Fine(c, then)
<1>1. ASSUME NEW i \in 1..Len(c.book) PROVE LotOf(c, c.book[i], then)
  <2>1. LotOf(c, c.book[i], now)
    BY Zenon DEF Fine
  <2> QED BY <2>1 DEF LotOf
<1> QED BY <1>1, Zenon DEF Fine

(***************************************************************************)
(* Books                                                                   *)
(***************************************************************************)
\* Lots changed where they stand, on the same contract and of the same rank,
\* none of them opened.
LEMMA PurchasedInPlace ==
    ASSUME NEW book, NEW other, Purchased(book), Len(other) = Len(book),
           \A i \in 1..Len(book) :
                /\ other[i].contract = book[i].contract /\ other[i].rankWhen = book[i].rankWhen
                /\ IsOpen(other[i]) => IsOpen(book[i])
    PROVE  Purchased(other)
BY DEF Purchased

\* A lot bought now goes last.
LEMMA PurchasedLast ==
    ASSUME NEW book, NEW lot, NEW now \in Int, IsSeq(book), Purchased(book), lot.rankWhen = now,
           \A i \in 1..Len(book) : book[i].rankWhen \in Int /\ book[i].rankWhen <= now
    PROVE  Purchased(Append(book, lot))
<1> DEFINE b == Append(book, lot)
           n == Len(book)
<1>1. /\ n \in Nat /\ Len(b) = n + 1 /\ (\A i \in 1..n : b[i] = book[i]) /\ b[n + 1] = lot
  BY AppendOf DEF IsSeq
<1> HIDE DEF b, n
<1>2. ASSUME NEW i \in 1..Len(b), NEW j \in 1..Len(b), i < j, IsOpen(b[i]), IsOpen(b[j]),
             b[i].contract = b[j].contract
      PROVE  b[i].rankWhen <= b[j].rankWhen
  <2>1. i \in 1..n /\ b[i] = book[i]
    BY <1>1, <1>2
  <2>2. CASE j = n + 1
    BY <1>1, <2>1, <2>2 DEF n
  <2>3. CASE j \in 1..n
    BY <1>1, <1>2, <2>1, <2>3 DEF Purchased, n
  <2> QED BY <1>1, <2>2, <2>3
<1>3. Purchased(b)
  BY <1>2, Zenon DEF Purchased
<1> QED BY <1>3 DEF b

LEMMA FineAppend ==
    ASSUME NEW c, NEW d, NEW now \in Int, NEW lot, Fine(c, now), IsContext(d), Budgeted(d), d.rows = c.rows,
           d.exitLog = c.exitLog, d.book = Append(c.book, lot), lot.rankWhen = now,
           LotOf(c, lot, now)
    PROVE  Fine(d, now) /\ Grown(c, d)
<1>1. /\ IsSeq(c.book) /\ Purchased(c.book)
      /\ \A i \in 1..Len(c.book) : LotOf(c, c.book[i], now)
  BY Zenon DEF Fine
<1>2. \A i \in 1..Len(c.book) : c.book[i].rankWhen \in Int /\ c.book[i].rankWhen <= now
  BY <1>1, Zenon DEF LotOf
<1>3. Purchased(d.book)
  BY <1>1, <1>2, PurchasedLast
<1> DEFINE b == c.book
           n == Len(c.book)
<1>4. /\ n \in Nat /\ IsSeq(d.book) /\ Len(d.book) = n + 1
      /\ (\A i \in 1..n : d.book[i] = b[i]) /\ d.book[n + 1] = lot
  BY <1>1, AppendOf DEF IsSeq
<1>5. \A i \in 1..n : LotOf(c, b[i], now)
  BY <1>1
<1> HIDE DEF n, b
<1>6. \A i \in 1..Len(d.book) : LotOf(c, d.book[i], now)
  <2> TAKE i \in 1..Len(d.book)
  <2>1. i \in 1..n \/ i = n + 1
    BY <1>4
  <2> QED BY <1>4, <1>5, <2>1, Zenon
<1> QED BY <1>3, <1>4, <1>6, FineBook, Zenon

\* Lots changed where they stand.
SameLot(lot, other) ==
    /\ Measured(other) /\ other.contract = lot.contract /\ other.rankWhen = lot.rankWhen
    /\ other.openIds = lot.openIds /\ other.delivered = lot.delivered
    /\ IsOpen(other) => IsOpen(lot)

LEMMA FineInPlace ==
    ASSUME NEW c, NEW d, NEW now, Fine(c, now), IsContext(d), Budgeted(d), d.rows = c.rows,
           d.exitLog = c.exitLog, Lists(d.book, Len(c.book)),
           \A i \in 1..Len(c.book) : SameLot(c.book[i], d.book[i])
    PROVE  Fine(d, now) /\ Grown(c, d)
<1>1. Len(c.book) \in Nat /\ Purchased(c.book)
  BY DEF Fine, IsSeq
<1>2. IsSeq(d.book) /\ Len(d.book) = Len(c.book)
  BY <1>1, SeqFrom
<1>3. ASSUME NEW i \in 1..Len(c.book) PROVE LotOf(c, d.book[i], now)
  <2>1. LotOf(c, c.book[i], now) /\ SameLot(c.book[i], d.book[i])
    BY Zenon DEF Fine
  <2> QED BY <2>1, Zenon DEF LotOf, SameLot, Told
<1>4. Purchased(d.book)
  BY <1>1, <1>2, PurchasedInPlace, Zenon DEF SameLot
<1> QED BY <1>2, <1>3, <1>4, FineBook, Zenon

(***************************************************************************)
(* Closes                                                                  *)
(***************************************************************************)
\* The close of a lot leaves the book alone and writes one row, or one line of
\* the log for a condor's leg.
LEMMA CloseLotFine ==
    ASSUME NEW c, NEW now, Fine(c, now), NEW lot, NEW n, NEW exit
    PROVE  LET d == CloseLot(c, lot, n, exit)
           IN  /\ Fine(d, now) /\ Grown(c, d) /\ d.book = c.book
               /\ lot.parent = 0 => /\ Len(d.rows) > 0
                                    /\ d.rows[Len(d.rows)].endWhen = exit.when
                                    /\ d.rows[Len(d.rows)].event = exit.event
               /\ lot.parent # 0 => \E x \in 1..Len(d.exitLog) : d.exitLog[x].exit = exit
<1> DEFINE d == CloseLot(c, lot, n, exit)
<1>1. IsContext(c) /\ IsSeq(c.rows) /\ IsSeq(c.exitLog) /\ Len(c.rows) \in Nat /\ Len(c.exitLog) \in Nat
  BY DEF Fine, IsSeq
<1>2. CASE lot.parent # 0
  <2> DEFINE line == [parent |-> lot.parent, contract |-> lot.contract, quantity |-> n, exit |-> exit]
             log == Append(c.exitLog, line)
  <2>1. d = [c EXCEPT !.exitLog = log]
    BY <1>2 DEF CloseLot
  <2>2. /\ IsSeq(log) /\ Len(log) = Len(c.exitLog) + 1
        /\ \A i \in 1..Len(c.exitLog) : log[i] = c.exitLog[i]
        /\ log[Len(c.exitLog) + 1] = line
    BY <1>1, AppendOf
  <2>3. line.exit = exit
    OBVIOUS
  <2> HIDE DEF d, log, line
  <2>4. /\ IsContext(d) /\ d.book = c.book /\ d.rows = c.rows /\ d.exitLog = log
        /\ d.budget = c.budget /\ d.closed = c.closed
    BY <1>1, <2>1 DEF IsContext, ContextFields
  <2>40. Budgeted(d)
    BY <2>4 DEF Fine, Budgeted
  <2>5. Grown(c, d)
    BY <1>1, <2>2, <2>4 DEF Grown, Extends
  <2>6. Fine(d, now)
    BY <1>1, <2>2, <2>4, <2>40, <2>5, FineLater
  <2>7. Len(c.exitLog) + 1 \in 1..Len(d.exitLog) /\ d.exitLog[Len(c.exitLog) + 1].exit = exit
    BY <1>1, <2>2, <2>3, <2>4
  <2> QED BY <1>2, <2>4, <2>5, <2>6, <2>7 DEF d
<1>3. CASE lot.parent = 0
  <2> DEFINE row == BuildRow(lot, n, exit)
             rows == Append(c.rows, row)
  <2>1. d = [c EXCEPT !.rows = rows]
    BY <1>3 DEF CloseLot
  <2>2. /\ IsSeq(rows) /\ Len(rows) = Len(c.rows) + 1
        /\ \A i \in 1..Len(c.rows) : rows[i] = c.rows[i]
        /\ rows[Len(c.rows) + 1] = row
    BY <1>1, AppendOf
  <2>3. row.endWhen = exit.when /\ row.event = exit.event
    BY DEF BuildRow
  <2> HIDE DEF d, rows, row
  <2>4. /\ IsContext(d) /\ d.book = c.book /\ d.rows = rows /\ d.exitLog = c.exitLog
        /\ d.budget = c.budget /\ d.closed = c.closed
    BY <1>1, <2>1 DEF IsContext, ContextFields
  <2>40. Budgeted(d)
    BY <2>4 DEF Fine, Budgeted
  <2>5. Grown(c, d)
    BY <1>1, <2>2, <2>4 DEF Grown, Extends
  <2>6. Fine(d, now)
    BY <1>1, <2>2, <2>4, <2>40, <2>5, FineLater
  <2>7. /\ Len(d.rows) > 0 /\ d.rows[Len(d.rows)].endWhen = exit.when
        /\ d.rows[Len(d.rows)].event = exit.event
    BY <1>1, <2>2, <2>3, <2>4
  <2> QED BY <1>3, <2>4, <2>5, <2>6, <2>7 DEF d
<1> QED BY <1>2, <1>3

\* The positions a plan draws on, as many as there are.
LEMMA DrawnIs ==
    ASSUME NEW m \in Nat, NEW lots, DOMAIN lots = 1..m, NEW plan
    PROVE  LET at == Drawn(lots, plan)
           IN  \E n \in Nat : DOMAIN at = 1..n /\ \A p \in 1..n : at[p] \in 1..m /\ plan[at[p]] > 0
<1> DEFINE S == {i \in DOMAIN lots : plan[i] > 0}
<1>1. S \in SUBSET (1..m)
  OBVIOUS
<1>2. IsFiniteSet(1..m)
  BY FS_Interval
<1>3. IsFiniteSet(S)
  BY <1>1, <1>2, FS_Subset, Zenon
<1>4. \A i \in S : i \in 1..m /\ plan[i] > 0
  OBVIOUS
<1>5. Drawn(lots, plan) = SortedBy(S, LAMBDA i : i)
  BY Zenon DEF Drawn
<1>6. S \subseteq Int
  BY <1>1
<1> HIDE DEF S
<1> DEFINE at == SortedBy(S, LAMBDA i : i)
           n == Cardinality(S)
<1>7. n \in Nat /\ DOMAIN at = 1..n /\ \A p \in 1..n : at[p] \in S
  BY <1>3, <1>6, PositionsInOrder
<1> HIDE DEF at, n
<1>8. DOMAIN at = 1..n /\ \A p \in 1..n : at[p] \in 1..m /\ plan[at[p]] > 0
  BY <1>4, <1>7
<1> QED BY <1>5, <1>7, <1>8, Zenon DEF at

CloseStep(lots, plan, exits, kept, acc, i) == CloseLot(acc, lots[i], plan[i], exits[i])
CloseGood(lots, plan, exits, kept, k, acc) ==
    Fine(acc, kept.now) /\ Grown(kept.ctx, acc) /\ acc.book = kept.ctx.book
CloseFold == INSTANCE Folding WITH Op <- CloseStep, Good <- CloseGood

LEMMA GrownSame ==
    ASSUME NEW c, NEW now, Fine(c, now)
    PROVE  Grown(c, c)
BY DEF Grown, Extends, Fine, IsSeq

LEMMA GrownOn ==
    ASSUME NEW c, NEW d, NEW e, NEW now, NEW then, NEW last, Grown(c, d), Grown(d, e),
           Fine(c, now), Fine(d, then), Fine(e, last)
    PROVE  Grown(c, e)
BY GrownTwice, Zenon DEF Fine

LEMMA CloseLotsFine ==
    ASSUME NEW c, NEW now, Fine(c, now), NEW m \in Nat, NEW lots, DOMAIN lots = 1..m,
           NEW plan, NEW exits
    PROVE  LET d == CloseLots(c, lots, plan, exits)
           IN  Fine(d, now) /\ Grown(c, d) /\ d.book = c.book
<1> DEFINE kept == [ctx |-> c, now |-> now]
           at == Drawn(lots, plan)
           d == CloseLots(c, lots, plan, exits)
<1>1. PICK n \in Nat : DOMAIN at = 1..n
  BY DrawnIs
<1>2. kept.ctx = c /\ kept.now = now
  OBVIOUS
<1> HIDE DEF kept, at
<1>3. CloseGood(lots, plan, exits, kept, 0, c)
  BY <1>2, GrownSame DEF CloseGood
<1>4. ASSUME NEW acc, NEW k \in 1..n, CloseGood(lots, plan, exits, kept, k - 1, acc)
      PROVE  CloseGood(lots, plan, exits, kept, k, CloseStep(lots, plan, exits, kept, acc, at[k]))
  <2> DEFINE i == at[k]
             next == CloseLot(acc, lots[i], plan[i], exits[i])
  <2>1. Fine(acc, now) /\ Grown(c, acc) /\ acc.book = c.book
    BY <1>2, <1>4, Zenon DEF CloseGood
  <2>2. Fine(next, now) /\ Grown(acc, next) /\ next.book = acc.book
    BY <2>1, CloseLotFine
  <2> HIDE DEF next, i
  <2>3. Grown(c, next)
    BY <2>1, <2>2, GrownOn, Zenon
  <2>4. CloseGood(lots, plan, exits, kept, k, next)
    BY <1>2, <2>1, <2>2, <2>3, Zenon DEF CloseGood
  <2> QED BY <2>4, Zenon DEF CloseStep, next, i
<1>5. CloseGood(lots, plan, exits, kept, n, CloseFold!Folded(lots, plan, exits, kept, c, at))
  BY <1>1, <1>3, <1>4, CloseFold!FoldKeeps, LeastNatural, Zenon
<1>6. d = CloseFold!Folded(lots, plan, exits, kept, c, at)
  BY DEF CloseLots, FoldLeft, MapThenFoldSet, Max, CloseFold!Folded, CloseStep, at
<1> HIDE DEF d
<1>7. CloseGood(lots, plan, exits, kept, n, d)
  BY <1>5, <1>6, Zenon
<1> QED BY <1>2, <1>7, Zenon DEF CloseGood, d

\* What a plan closes of a book stays where it is.
LEMMA ClosedFine ==
    ASSUME NEW c, NEW d, NEW now, Fine(c, now), IsContext(d), Budgeted(d), d.rows = c.rows,
           d.exitLog = c.exitLog, NEW plan, Fits(plan, c.book), d.book = Closed(c.book, plan)
    PROVE  Fine(d, now) /\ Grown(c, d)
<1> DEFINE n == Len(c.book)
           lot(i) == c.book[i]
           less(i) == [lot(i) EXCEPT !.remaining = @ - Sgn(@) * plan[i]]
<1>1. n \in Nat /\ DOMAIN c.book = 1..n
  BY DEF Fine, IsSeq, Lists
<1>10. AllMeasured(c.book)
  BY FineMeasured, Zenon
<1>11. \A i \in 1..n : Measured(lot(i)) /\ Measured(d.book[i])
  BY <1>10, ClosedIs, Zenon DEF AllMeasured
<1>2. d.book = [i \in 1..n |-> IF IsOpen(lot(i)) THEN less(i) ELSE lot(i)]
  BY <1>1, Zenon DEF Closed
<1>3. ASSUME NEW i \in 1..n PROVE SameLot(lot(i), d.book[i])
  <2>1. IsLot(lot(i)) /\ Measured(d.book[i])
    BY <1>11, Zenon DEF Measured
  <2>2. d.book[i] = IF IsOpen(lot(i)) THEN less(i) ELSE lot(i)
    BY <1>2, Zenon
  <2> DEFINE l == lot(i)
             v == l.remaining - Sgn(l.remaining) * plan[i]
  <2>3. less(i) = [l EXCEPT !.remaining = v]
    OBVIOUS
  <2> HIDE DEF lot, less, l, v
  <2>4. l = lot(i)
    BY DEF l
  <2>5. IsLot([l EXCEPT !.remaining = v]) /\ [l EXCEPT !.remaining = v].contract = l.contract
        /\ [l EXCEPT !.remaining = v].rankWhen = l.rankWhen
        /\ [l EXCEPT !.remaining = v].openIds = l.openIds
        /\ [l EXCEPT !.remaining = v].delivered = l.delivered
    BY <2>1, <2>4 DEF IsLot, LotFields
  <2>6. CASE IsOpen(lot(i))
    BY <2>1, <2>2, <2>3, <2>4, <2>5, <2>6, Zenon DEF SameLot
  <2>7. CASE ~IsOpen(lot(i))
    BY <2>1, <2>2, <2>7, Zenon DEF SameLot
  <2> QED BY <2>6, <2>7
<1>4. Lists(d.book, n)
  <2> HIDE DEF lot, less
  <2>1. \A i \in 1..n : d.book[i] = IF IsOpen(lot(i)) THEN less(i) ELSE lot(i)
    BY <1>2, Zenon
  <2> QED BY <1>2, <2>1, Zenon DEF Lists
<1> QED BY <1>3, <1>4, FineInPlace, Zenon

\* A plan closed on the book, and the rows of it.
LEMMA CloseSharesFine ==
    ASSUME NEW c, NEW now, Fine(c, now), NEW plan, Fits(plan, c.book),
           NEW amount, NEW whole, NEW when, NEW ids
    PROVE  LET d == CloseShares(c, plan, amount, whole, when, ids)
           IN  Fine(d, now) /\ Grown(c, d)
<1> DEFINE exits == [i \in DOMAIN c.book |->
                        [when |-> when, amount |-> Share(amount, plan[i], whole), ids |-> ids,
                         event |-> IF c.book[i].quantity > 0 THEN "sold" ELSE "buyback"]]
           b == Closed(c.book, plan)
           shut == [c EXCEPT !.book = b]
           d == CloseShares(c, plan, amount, whole, when, ids)
<1>1. d = CloseLots(shut, c.book, plan, exits)
  BY Zenon DEF CloseShares
<1>2. IsContext(c) /\ Len(c.book) \in Nat /\ DOMAIN c.book = 1..Len(c.book)
  BY DEF Fine, IsSeq, Lists
<1> HIDE DEF exits, b, d
<1>3. /\ IsContext(shut) /\ shut.book = b /\ shut.rows = c.rows /\ shut.exitLog = c.exitLog
      /\ shut.budget = c.budget /\ shut.closed = c.closed
  BY <1>2 DEF IsContext, ContextFields
<1> HIDE DEF shut
<1>30. Budgeted(shut)
  BY <1>3 DEF Fine, Budgeted
<1>4. Fine(shut, now) /\ Grown(c, shut)
  BY <1>3, <1>30, ClosedFine, Zenon DEF b
<1>5. Fine(d, now) /\ Grown(shut, d)
  <2>1. LET e == CloseLots(shut, c.book, plan, exits)
        IN  Fine(e, now) /\ Grown(shut, e) /\ e.book = shut.book
    BY <1>2, <1>4, CloseLotsFine
  <2> QED BY <1>1, <2>1, Zenon
<1>6. Grown(c, d)
  BY <1>4, <1>5, GrownOn, Zenon
<1> QED BY <1>5, <1>6 DEF d

(***************************************************************************)
(* Sales                                                                   *)
(***************************************************************************)
\* The trades of an instant are a sequence.
Traded(g) ==
    /\ Len(g.txs) \in Nat /\ DOMAIN g.txs = 1..Len(g.txs)
    /\ \A k \in 1..Len(g.txs) : IsTrade(g.txs[k])

Known ==
    /\ IsSeq(played) /\ IsSeq(tape)
    /\ \A x \in 1..Len(played) : Traded(played[x]) /\ played[x].when \in Int
    /\ \A x \in 1..Len(tape) : Traded(tape[x]) /\ tape[x].when \in Int

Bought(b) == IsContract(b.contract) /\ b.quantity \in Int

\* The buybacks beside a sale are finitely many.
LEMMA PairedAre ==
    ASSUME Known, NEW g, g.when \in Int, NEW ticker
    PROVE  \E n \in Nat : /\ DOMAIN PairedBuybacks(g, ticker) = 1..n
                          /\ \A p \in 1..n : Bought(PairedBuybacks(g, ticker)[p])
<1> DEFINE known == played \o tape
           gap(x) == Mag(known[x].when - g.when)
           found(x) == {k \in DOMAIN known[x].txs :
                            /\ IsCallBuyback(known[x].txs[k])
                            /\ known[x].txs[k].contract.ticker = ticker}
           beside == {y \in DOMAIN known : gap(y) <= BuybackWindow}
           ofOne == [x \in beside |-> {<<x, k>> : k \in found(x)}]
           near == UNION {{<<x, k>> : k \in found(x)} : x \in beside}
<1>1. /\ IsSeq(known) /\ Len(known) = Len(played) + Len(tape)
      /\ Len(played) \in Nat /\ Len(tape) \in Nat
      /\ \A i \in 1..Len(played) : known[i] = played[i]
      /\ \A i \in 1..Len(tape) : known[Len(played) + i] = tape[i]
  BY ConcatOf DEF Known, IsSeq
<1>2. Len(known) \in Nat /\ DOMAIN known = 1..Len(known)
  BY <1>1 DEF IsSeq, Lists
<1>3. ASSUME NEW x \in 1..Len(known) PROVE Traded(known[x]) /\ known[x].when \in Int
  <2> HIDE DEF known
  <2>1. x \in 1..Len(played) \/ (x - Len(played) \in 1..Len(tape) /\ x = Len(played) + (x - Len(played)))
    BY <1>1, <1>2
  <2>2. CASE x \in 1..Len(played)
    BY <1>1, <2>2, Zenon DEF Known
  <2>3. CASE x - Len(played) \in 1..Len(tape) /\ x = Len(played) + (x - Len(played))
    BY <1>1, <2>3, Zenon DEF Known
  <2> QED BY <2>1, <2>2, <2>3
<1>4. IsFiniteSet(beside)
  <2>1. IsFiniteSet(1..Len(known))
    BY <1>2, FS_Interval
  <2>2. beside \in SUBSET (1..Len(known))
    BY <1>2, Zenon
  <2> HIDE DEF beside
  <2> QED BY <2>1, <2>2, FS_Subset, Zenon
<1>5. ASSUME NEW x \in beside PROVE IsFiniteSet({<<x, k>> : k \in found(x)})
  <2>1. x \in 1..Len(known)
    BY <1>2
  <2>2. Len(known[x].txs) \in Nat /\ DOMAIN known[x].txs = 1..Len(known[x].txs)
    BY <1>3, <2>1, Zenon DEF Traded
  <2> DEFINE m == Len(known[x].txs)
  <2>3. IsFiniteSet(1..m)
    <3>1. m \in Nat
      BY <2>2, Zenon
    <3> HIDE DEF m
    <3> QED BY <3>1, FS_Interval
  <2>4. found(x) \in SUBSET (1..Len(known[x].txs))
    BY <2>2, Zenon
  <2> DEFINE S == found(x)
  <2>5. IsFiniteSet(S)
    <3> HIDE DEF found
    <3> QED BY <2>3, <2>4, FS_Subset, Zenon
  <2> HIDE DEF S
  <2> DEFINE pair == [k \in S |-> <<x, k>>]
  <2>6. IsFiniteSet({pair[k] : k \in S})
    <3> HIDE DEF pair
    <3> QED BY <2>5, FiniteImage
  <2>7. {pair[k] : k \in S} = {<<x, k>> : k \in S}
    BY Zenon
  <2> QED BY <2>6, <2>7 DEF S
<1>6. IsFiniteSet(near)
  <2> DEFINE family == {ofOne[x] : x \in beside}
  <2>1. near = UNION family
    <3> DEFINE P(x) == {<<x, k>> : k \in found(x)}
    <3>1. near = UNION {P(x) : x \in beside} /\ ofOne = [x \in beside |-> P(x)]
      OBVIOUS
    <3> HIDE DEF P, near, ofOne, beside
    <3>2. family = {P(x) : x \in beside}
      BY <3>1
    <3> QED BY <3>1, <3>2, Zenon
  <2>2. IsFiniteSet(family)
    <3> HIDE DEF ofOne, beside
    <3> QED BY <1>4, FiniteImage
  <2>3. \A T \in family : IsFiniteSet(T)
    BY <1>5, Zenon
  <2> HIDE DEF family, near
  <2> QED BY <2>1, <2>2, <2>3, FS_UNION
<1> DEFINE n == Cardinality(near)
           away == [at \in near |-> gap(at[1])]
           place == [at \in near |-> at[1]]
           rank == [at \in near |-> Cardinality({a \in near :
                        \/ gap(a[1]) < gap(at[1])
                        \/ gap(a[1]) = gap(at[1])
                            /\ (a[1] < at[1] \/ (a[1] = at[1] /\ a[2] < at[2]))})]
           order == [p \in 1..n |-> CHOOSE at \in near : rank[at] = p - 1]
           of(at) == [when |-> known[at[1]].when, contract |-> known[at[1]].txs[at[2]].contract,
                      quantity |-> known[at[1]].txs[at[2]].q]
           trade == [at \in near |-> at[2]]
<1>7. n \in Nat
  <2> HIDE DEF near
  <2> QED BY <1>6, FS_CardinalityType
<1>8. PairedBuybacks(g, ticker) = [p \in DOMAIN order |-> of(order[p])]
  BY Zenon DEF PairedBuybacks, Ranked
<1>9. ASSUME NEW at \in near
      PROVE  /\ at = <<at[1], at[2]>> /\ at[1] \in 1..Len(known)
             /\ at[2] \in 1..Len(known[at[1]].txs) /\ at[1] \in Int /\ at[2] \in Int
             /\ gap(at[1]) \in Int
  <2>1. PICK x \in beside : at \in {<<x, k>> : k \in found(x)}
    BY Zenon
  <2>2. PICK k \in found(x) : at = <<x, k>>
    BY <2>1, Zenon
  <2>3. x \in 1..Len(known)
    BY <1>2
  <2>4. Traded(known[x]) /\ known[x].when \in Int
    BY <1>3, <2>3, Zenon
  <2>5. k \in 1..Len(known[x].txs)
    BY <2>4, Zenon DEF Traded
  <2>6. at[1] = x /\ at[2] = k /\ at = <<at[1], at[2]>>
    BY <2>2
  <2>7. gap(x) \in Int
    BY <2>4 DEF Mag
  <2>8. Len(known[x].txs) \in Nat
    BY <2>4 DEF Traded
  <2> HIDE DEF known, gap
  <2> QED BY <1>2, <2>3, <2>5, <2>6, <2>7, <2>8
<1>10. Keyed(near, away, place, trade)
  <2>1. \A x \in near : away[x] \in Int /\ place[x] \in Int /\ trade[x] \in Int
    BY <1>9, Zenon
  <2>2. \A x, y \in near : place[x] = place[y] /\ trade[x] = trade[y] => x = y
    <3> HIDE DEF near
    <3> TAKE x, y \in near
    <3>1. x = <<x[1], x[2]>> /\ y = <<y[1], y[2]>>
      BY <1>9, Zenon
    <3>2. place[x] = x[1] /\ place[y] = y[1] /\ trade[x] = x[2] /\ trade[y] = y[2]
      BY Zenon
    <3> QED BY <3>1, <3>2, Zenon
  <2> HIDE DEF near, away, place, trade
  <2> QED BY <2>1, <2>2, Zenon DEF Keyed
<1>11. RankedAt(near, away, place, trade, rank, order)
  <2> HIDE DEF near, gap
  <2>1. \A x \in near : away[x] = gap(x[1]) /\ place[x] = x[1] /\ trade[x] = x[2]
    OBVIOUS
  <2>2. ASSUME NEW x \in near PROVE rank[x] = Cardinality({y \in near : Before(away, place, trade, y, x)})
    <3> DEFINE later == {a \in near : \/ gap(a[1]) < gap(x[1])
                                      \/ gap(a[1]) = gap(x[1])
                                           /\ (a[1] < x[1] \/ (a[1] = x[1] /\ a[2] < x[2]))}
    <3>1. rank[x] = Cardinality(later)
      BY Zenon
    <3> HIDE DEF away, place, trade
    <3>2. later = {y \in near : Before(away, place, trade, y, x)}
      BY <2>1 DEF Before
    <3> QED BY <3>1, <3>2, Zenon
  <2> HIDE DEF rank
  <2>3. order = [p \in 1..Cardinality(near) |-> CHOOSE x \in near : rank[x] = p - 1]
    BY Zenon
  <2> QED BY <2>2, <2>3, Zenon DEF RankedAt
<1>12. Arranges(order, near)
  <2> HIDE DEF near, away, place, trade, rank, order
  <2> QED BY <1>6, <1>10, <1>11, RanksArrange, Zenon
<1>13. DOMAIN order = 1..n
  BY Zenon
<1>14. \A p \in 1..n : order[p] \in near
  <2> HIDE DEF near, order, n
  <2>1. Len(order) = n
    BY <1>7, <1>12, <1>13 DEF Arranges, IsSeq, Lists
  <2> QED BY <1>12, <2>1, Zenon DEF Arranges, Members
<1>15. ASSUME NEW p \in 1..n PROVE Bought(PairedBuybacks(g, ticker)[p])
  <2> DEFINE at == order[p]
             x == at[1]
             k == at[2]
             tx == known[x].txs[k]
  <2>1. x \in 1..Len(known) /\ k \in 1..Len(known[x].txs)
    <3> HIDE DEF near, order, gap
    <3> QED BY <1>9, <1>14, Zenon
  <2>2. IsTrade(tx)
    <3>1. Traded(known[x])
      BY <1>3, <2>1, Zenon
    <3> QED BY <2>1, <3>1, Zenon DEF Traded
  <2>3. PairedBuybacks(g, ticker)[p] = of(at)
    <3> HIDE DEF order, of
    <3> QED BY <1>8, <1>13, Zenon
  <2>4. of(at).contract = tx.contract /\ of(at).quantity = tx.q
    <3> HIDE DEF known
    <3> QED OBVIOUS
  <2> HIDE DEF of, at, tx
  <2> QED BY <2>2, <2>3, <2>4, Zenon DEF Bought, IsTrade
<1>16. DOMAIN PairedBuybacks(g, ticker) = 1..n
  <2> HIDE DEF order, of, n
  <2> QED BY <1>8, <1>13
<1> HIDE DEF n
<1> QED BY <1>7, <1>15, <1>16, Zenon

\* What a plan closes of the lots a test keeps.
LEMMA PartIs ==
    ASSUME NEW book, NEW plan, Fits(plan, book), IsSeq(book), NEW kept
    PROVE  Total([i \in DOMAIN book |-> IF kept[i] THEN plan[i] ELSE 0]) \in Nat
<1> DEFINE m == Len(book)
           part == [i \in DOMAIN book |-> IF kept[i] THEN plan[i] ELSE 0]
<1>1. m \in Nat /\ DOMAIN book = 1..m
  BY DEF IsSeq, Lists
<1>2. \A i \in 1..m : plan[i] \in Nat
  BY DEF Fits
<1> HIDE DEF m
<1>3. Lists(part, m) /\ \A i \in 1..m : part[i] \in Nat
  BY <1>1, <1>2 DEF Lists
<1> HIDE DEF part
<1>4. Total(part) \in Nat
  BY <1>1, <1>3, PlanTotal, Zenon
<1> QED BY <1>4 DEF part

\* What a buyback may still hand over is counted.
LEMMA BudgetIs ==
    ASSUME NEW c, NEW now, Fine(c, now), NEW b, Bought(b)
    PROVE  IsBudget(BudgetOf(c, b))
<1> DEFINE plan == FifoPlan(c.book, b.contract, b.quantity)
           kept == [i \in DOMAIN c.book |-> IsWheelCoveredCall(c.book[i])]
           closing == WheelContractsClosedBy(c.book, b)
           contracts == IF KeyOf(b) \in DOMAIN c.closed THEN c.closed[KeyOf(b)] ELSE closing
<1>1. AllMeasured(c.book) /\ b.quantity \in Int
  BY FineMeasured, Zenon DEF Bought
<1>2. Fits(plan, c.book) /\ IsSeq(c.book)
  BY <1>1, FifoFits, Zenon DEF AllMeasured
<1>3. closing \in Nat
  <2>1. Total([i \in DOMAIN c.book |-> IF kept[i] THEN plan[i] ELSE 0]) \in Nat
    <3> HIDE DEF plan, kept
    <3> QED BY <1>2, PartIs, Zenon
  <2>2. \A i \in DOMAIN c.book : kept[i] = IsWheelCoveredCall(c.book[i])
    BY Zenon
  <2>3. [i \in DOMAIN c.book |-> IF kept[i] THEN plan[i] ELSE 0]
        = [i \in DOMAIN c.book |-> IF IsWheelCoveredCall(c.book[i]) THEN plan[i] ELSE 0]
    <3> HIDE DEF kept
    <3> QED BY <2>2, Zenon
  <2>4. closing = Total([i \in DOMAIN c.book |-> IF IsWheelCoveredCall(c.book[i]) THEN plan[i] ELSE 0])
    BY Zenon DEF WheelContractsClosedBy
  <2> HIDE DEF closing, plan, kept
  <2> QED BY <2>1, <2>3, <2>4, Zenon
<1>4. contracts \in Int
  <2> HIDE DEF closing
  <2>1. closing \in Int
    BY <1>3
  <2> QED BY <2>1, Zenon DEF Fine, Budgeted
<1>5. BudgetOf(c, b) = IF KeyOf(b) \in DOMAIN c.budget THEN c.budget[KeyOf(b)]
                       ELSE [announced |-> contracts, left |-> contracts * PerContract]
  BY Zenon DEF BudgetOf
<1> HIDE DEF contracts
<1>6. PerContract \in Int
  BY PerContractAssumption
<1>7. contracts * PerContract \in Int
  BY <1>4, <1>6
<1>8. IsBudget([announced |-> contracts, left |-> contracts * PerContract])
  BY <1>7 DEF IsBudget
<1>9. \A key \in DOMAIN c.budget : IsBudget(c.budget[key])
  BY Zenon DEF Fine, Budgeted
<1> QED BY <1>5, <1>8, <1>9, Zenon

SellStep(ticker, kept, nil, none, acc, b) == SellBeside(acc, b, ticker)
SellGood(ticker, kept, nil, none, k, acc) ==
    /\ Fine(kept.ctx, kept.now) /\ Fine(acc.ctx, kept.now) /\ Grown(kept.ctx, acc.ctx)
    /\ acc.ctx.book = kept.ctx.book
    /\ Fits(acc.plan, acc.ctx.book) /\ acc.left \in Int
SellFold == INSTANCE Folding WITH Op <- SellStep, Good <- SellGood

LEMMA SellBesideFine ==
    ASSUME NEW acc, NEW kept, NEW ticker, NEW b, Bought(b), SellGood(ticker, kept, 0, 0, 0, acc)
    PROVE  SellGood(ticker, kept, 0, 0, 0, SellBeside(acc, b, ticker))
<1> DEFINE c == acc.ctx
           budget == BudgetOf(c, b)
           after == Closed(c.book, acc.plan)
           plan == StrikePlan(after, ticker, b.contract.strike, Nothing(c.book),
                              Least(budget.left, acc.left))
           v == Mapped(c.budget, KeyOf(b), [budget EXCEPT !.left = @ - Total(plan)])
           e == [c EXCEPT !.budget = v]
<1>1. /\ Fine(kept.ctx, kept.now) /\ Fine(c, kept.now) /\ Grown(kept.ctx, c) /\ c.book = kept.ctx.book
      /\ Fits(acc.plan, c.book) /\ acc.left \in Int
  BY Zenon DEF SellGood
<1>2. SellBeside(acc, b, ticker)
        = IF acc.left = 0 THEN acc
          ELSE [ctx |-> e, plan |-> Both(acc.plan, plan), left |-> acc.left - Total(plan)]
  BY Zenon DEF SellBeside
<1>3. AllMeasured(c.book) /\ AllMeasured(after) /\ Len(after) = Len(c.book)
  BY <1>1, FineMeasured, ClosedIs, Zenon
<1>4. IsBudget(budget) /\ b.contract.strike \in Int
  BY <1>1, BudgetIs, Zenon DEF Bought, IsContract
<1> DEFINE order == Least(budget.left, acc.left)
<1>5. order \in Int
  <2> HIDE DEF budget
  <2> QED BY <1>1, <1>4 DEF Least, IsBudget
<1>6. Nothing(c.book) = Nothing(after)
  <2>1. DOMAIN c.book = 1..Len(c.book) /\ DOMAIN after = 1..Len(after)
    <3> HIDE DEF c, after
    <3> QED BY <1>3 DEF AllMeasured, IsSeq, Lists
  <2> HIDE DEF after, c
  <2> QED BY <1>3, <2>1 DEF Nothing
<1>7. Fits(plan, after)
  <2>1. Fits(Nothing(after), after)
    <3> HIDE DEF after
    <3> QED BY <1>3, NothingFits, Zenon
  <2> HIDE DEF after, order
  <2>2. plan = StrikePlan(after, ticker, b.contract.strike, Nothing(after), order)
    BY <1>6, Zenon DEF order
  <2> HIDE DEF plan
  <2> QED BY <1>3, <1>4, <1>5, <2>1, <2>2, StrikeFits, Zenon
<1>8. Total(plan) \in Nat
  <2>1. Lists(plan, Len(after)) /\ Len(after) \in Nat /\ \A i \in 1..Len(after) : plan[i] \in Nat
    <3> HIDE DEF plan, after
    <3> QED BY <1>3, <1>7, Zenon DEF Fits, AllMeasured, IsSeq
  <2> HIDE DEF plan, after
  <2> QED BY <2>1, PlanTotal, Zenon
<1>9. Fits(Both(acc.plan, plan), c.book)
  <2> HIDE DEF plan
  <2> QED BY <1>1, <1>3, <1>7, FitsTwice, Zenon
<1> HIDE DEF plan, order, after
<1> DEFINE less == [budget EXCEPT !.left = @ - Total(plan)]
<1>10. IsBudget(less)
  <2> HIDE DEF budget
  <2>1. budget = [announced |-> budget.announced, left |-> budget.left] /\ budget.left \in Int
    BY <1>4, Zenon DEF IsBudget
  <2> DEFINE n == budget.left - Total(plan)
  <2>2. n \in Int
    BY <1>8, <2>1
  <2>3. less = [budget EXCEPT !.left = n]
    OBVIOUS
  <2> HIDE DEF n
  <2>4. less = [announced |-> budget.announced, left |-> n]
    BY <2>1, <2>3
  <2> HIDE DEF less
  <2> QED BY <2>2, <2>4 DEF IsBudget
<1> HIDE DEF budget, less
<1>11. \A key \in DOMAIN v : IsBudget(v[key])
  <2>1. v = Mapped(c.budget, KeyOf(b), less)
    BY DEF less
  <2> HIDE DEF v
  <2>2. \A key \in DOMAIN v : v[key] = less \/ (key \in DOMAIN c.budget /\ v[key] = c.budget[key])
    BY <2>1 DEF Mapped
  <2>3. \A key \in DOMAIN c.budget : IsBudget(c.budget[key])
    BY <1>1, Zenon DEF Fine, Budgeted
  <2> QED BY <1>10, <2>2, <2>3, Zenon
<1> HIDE DEF v
<1>12. IsContext(c)
  BY <1>1, Zenon DEF Fine
<1>13. /\ IsContext(e) /\ e.book = c.book /\ e.rows = c.rows /\ e.exitLog = c.exitLog
       /\ e.budget = v /\ e.closed = c.closed
  <2> HIDE DEF c
  <2> QED BY <1>12 DEF IsContext, ContextFields
<1> HIDE DEF e
<1>14. Budgeted(e)
  BY <1>1, <1>11, <1>13, Zenon DEF Fine, Budgeted
<1>15. Grown(c, e) /\ IsSeq(e.rows) /\ IsSeq(e.exitLog)
  <2> HIDE DEF c
  <2> QED BY <1>1, <1>13 DEF Fine, Grown, Extends, IsSeq
<1>150. Fine(e, kept.now)
  BY <1>1, <1>13, <1>14, <1>15, FineLater, Zenon
<1>151. Grown(kept.ctx, e)
  BY <1>1, <1>15, <1>150, GrownTwice, Zenon DEF Fine, SellGood
<1>16. CASE acc.left = 0
  BY <1>2, <1>16, Zenon
<1>17. CASE acc.left # 0
  <2> DEFINE next == SellBeside(acc, b, ticker)
  <2>1. next.ctx = e /\ next.plan = Both(acc.plan, plan) /\ next.left = acc.left - Total(plan)
    BY <1>2, <1>17
  <2>2. next.left \in Int
    BY <1>1, <1>8, <2>1
  <2> HIDE DEF next, c
  <2>3. /\ Fine(next.ctx, kept.now) /\ Grown(kept.ctx, next.ctx) /\ next.ctx.book = kept.ctx.book
        /\ Fits(next.plan, next.ctx.book)
    BY <1>1, <1>9, <1>13, <1>150, <1>151, <2>1
  <2> QED BY <2>2, <2>3, Zenon DEF SellGood, next
<1> QED BY <1>16, <1>17

LEMMA SellSharesFine ==
    ASSUME Known, NEW c, NEW now, Fine(c, now), NEW g, g.when \in Int, NEW ticker,
           NEW quantity \in Int
    PROVE  LET d == SellShares(c, g, ticker, quantity)
           IN  Fine(d.ctx, now) /\ Grown(c, d.ctx) /\ Fits(d.plan, d.ctx.book)
<1> DEFINE kept == [ctx |-> c, now |-> now]
           base == [ctx |-> c, plan |-> Nothing(c.book), left |-> quantity]
           by == PairedBuybacks(g, ticker)
           beside == FoldLeft(LAMBDA acc, b : SellBeside(acc, b, ticker), base, by)
           after == Closed(c.book, beside.plan)
           rest == SalePlan(after, ticker, beside.left)
           d == SellShares(c, g, ticker, quantity)
<1>1. PICK n \in Nat : DOMAIN by = 1..n /\ \A p \in 1..n : Bought(by[p])
  BY PairedAre, Zenon
<1>2. /\ kept.ctx = c /\ kept.now = now
      /\ base.ctx = c /\ base.plan = Nothing(c.book) /\ base.left = quantity
  OBVIOUS
<1>3. beside = SellFold!Folded(ticker, kept, 0, 0, base, by)
  <2> HIDE DEF by, base, kept
  <2> QED BY DEF FoldLeft, MapThenFoldSet, Max, SellFold!Folded, SellStep
<1>4. d = [ctx |-> beside.ctx, plan |-> Both(beside.plan, rest)]
  BY Zenon DEF SellShares
<1>40. AllMeasured(c.book)
  BY FineMeasured, Zenon
<1> HIDE DEF kept, base, by, beside, d
<1>5. SellGood(ticker, kept, 0, 0, 0, base)
  BY <1>2, <1>40, GrownSame, NothingFits, Zenon DEF SellGood
<1>6. ASSUME NEW acc, NEW b, Bought(b), SellGood(ticker, kept, 0, 0, 0, acc)
      PROVE  SellGood(ticker, kept, 0, 0, 0, SellBeside(acc, b, ticker))
  BY <1>6, SellBesideFine, Zenon
<1>7. \A acc : \A k \in 1..n : SellGood(ticker, kept, 0, 0, k - 1, acc)
                => SellGood(ticker, kept, 0, 0, k, SellStep(ticker, kept, 0, 0, acc, by[k]))
  BY <1>1, <1>6, Zenon DEF SellGood, SellStep
<1>8. SellGood(ticker, kept, 0, 0, n, SellFold!Folded(ticker, kept, 0, 0, base, by))
  BY <1>1, <1>5, <1>7, SellFold!FoldKeeps, LeastNatural, Zenon
<1>9. /\ Fine(beside.ctx, now) /\ Grown(c, beside.ctx) /\ beside.ctx.book = c.book
      /\ Fits(beside.plan, c.book) /\ beside.left \in Int
  BY <1>2, <1>3, <1>8, Zenon DEF SellGood
<1>10. AllMeasured(after)
  BY <1>9, <1>40, ClosedIs, Zenon
<1>11. Fits(rest, after)
  <2> HIDE DEF after
  <2> QED BY <1>9, <1>10, SaleFits, Zenon
<1>12. Fits(Both(beside.plan, rest), c.book)
  <2> HIDE DEF rest
  <2> QED BY <1>9, <1>11, <1>40, FitsTwice, Zenon
<1> HIDE DEF rest
<1>13. d.ctx = beside.ctx /\ d.plan = Both(beside.plan, rest)
  BY <1>4
<1>14. Fine(d.ctx, now) /\ Grown(c, d.ctx) /\ Fits(d.plan, d.ctx.book)
  BY <1>9, <1>12, <1>13, Zenon
<1> QED BY <1>14 DEF d

(***************************************************************************)
(* Lots opened by a trade                                                  *)
(***************************************************************************)
\* Bought now, and delivered by nothing.
Plain(lot, now) ==
    /\ Measured(lot) /\ lot.rankWhen = now /\ lot.openIds = {<<now, "trade">>}
    /\ lot.delivered = {}

LEMMA FitsTotal ==
    ASSUME NEW book, AllMeasured(book), NEW plan, Fits(plan, book)
    PROVE  Total(plan) \in Nat
<1>1. Lists(plan, Len(book)) /\ Len(book) \in Nat /\ \A i \in 1..Len(book) : plan[i] \in Nat
  BY DEF Fits, AllMeasured, IsSeq
<1> QED BY <1>1, PlanTotal, Zenon

LEMMA PlainFine ==
    ASSUME NEW c, NEW now \in Int, Fine(c, now), NEW lot, Plain(lot, now)
    PROVE  LET d == [c EXCEPT !.book = Append(@, lot)]
           IN  Fine(d, now) /\ Grown(c, d)
<1> DEFINE b == Append(c.book, lot)
           d == [c EXCEPT !.book = b]
<1>1. \A when : <<when, "delivery">> \notin lot.openIds
  BY DEF Plain
<1>2. Told(c.rows, c.exitLog, lot)
  BY <1>1, Zenon DEF Told, Plain
<1>3. lot.rankWhen <= now /\ lot.rankWhen \in Int
  BY DEF Plain
<1>4. LotOf(c, lot, now) /\ lot.rankWhen = now
  BY <1>2, <1>3, Zenon DEF LotOf, Plain
<1>5. IsContext(c)
  BY DEF Fine
<1> HIDE DEF b
<1>6. /\ IsContext(d) /\ d.book = b /\ d.rows = c.rows /\ d.exitLog = c.exitLog
      /\ d.budget = c.budget /\ d.closed = c.closed
  BY <1>5 DEF IsContext, ContextFields
<1> HIDE DEF d
<1>60. Budgeted(d)
  BY <1>6 DEF Fine, Budgeted
<1>7. Fine(d, now) /\ Grown(c, d)
  BY <1>4, <1>6, <1>60, FineAppend, Zenon DEF b
<1> QED BY <1>7, Zenon DEF d, b

LEMMA BookedFine ==
    ASSUME NEW sale, NEW g, g.when \in Int, Fine(sale.ctx, g.when), NEW tx, IsTrade(tx),
           Fits(sale.plan, sale.ctx.book)
    PROVE  LET d == Booked(sale, g, tx)
           IN  Fine(d, g.when) /\ Grown(sale.ctx, d)
<1> DEFINE c == sale.ctx
           now == g.when
           after == CloseShares(c, sale.plan, Amount(tx), Mag(tx.q), now, {now})
           rest == tx.q - Sgn(tx.q) * Total(sale.plan)
           bought == NewLot(tx.contract, "others", rest, tx.price, -rest * tx.price, now)
           u == IsUnclaimedDelivery(g, tx)
           lot == [bought EXCEPT !.orphan = u]
           d == Booked(sale, g, tx)
<1>1. d = IF rest = 0 THEN after ELSE [after EXCEPT !.book = Append(@, lot)]
  BY Zenon DEF Booked
<1>2. Fine(after, now) /\ Grown(c, after)
  BY CloseSharesFine, Zenon
<1>20. Total(sale.plan) \in Nat
  BY FineMeasured, FitsTotal, Zenon
<1>21. IsContract(tx.contract) /\ tx.q \in Int /\ tx.price \in Int
  BY Zenon DEF IsTrade
<1>22. rest \in Int
  BY <1>20, <1>21 DEF Sgn
<1> HIDE DEF after, rest, u
<1> DEFINE paid == -rest * tx.price
<1>23. paid \in Int
  BY <1>21, <1>22
<1>24. bought = NewLot(tx.contract, "others", rest, tx.price, paid, now)
  BY Zenon
<1> HIDE DEF paid
<1>3. /\ Measured(bought) /\ bought.rankWhen = now /\ bought.openIds = {<<now, "trade">>}
      /\ bought.delivered = {}
  <2>1. Measured(bought)
    BY <1>21, <1>22, <1>23, <1>24, NewLotMeasured, Zenon
  <2>2. bought.rankWhen = now /\ bought.openIds = {<<now, "trade">>} /\ bought.delivered = {}
    BY NewLotIs
  <2> QED BY <2>1, <2>2
<1> HIDE DEF bought
<1>4. Plain(lot, now)
  <2>1. /\ IsLot(lot) /\ lot.rankWhen = bought.rankWhen /\ lot.openIds = bought.openIds
        /\ lot.delivered = bought.delivered /\ lot.contract = bought.contract
        /\ lot.quantity = bought.quantity /\ lot.remaining = bought.remaining
        /\ lot.price = bought.price /\ lot.amount = bought.amount
    BY <1>3 DEF Measured, IsLot, LotFields
  <2> HIDE DEF lot
  <2>2. Measured(lot)
    BY <1>3, <2>1, Zenon DEF Measured
  <2> QED BY <1>3, <2>1, <2>2, Zenon DEF Plain
<1> HIDE DEF lot
<1> DEFINE e == [after EXCEPT !.book = Append(@, lot)]
<1>5. Fine(e, now) /\ Grown(after, e)
  BY <1>2, <1>4, PlainFine, Zenon
<1> HIDE DEF e
<1>6. Grown(c, e)
  BY <1>2, <1>5, GrownOn, Zenon
<1>7. d = IF rest = 0 THEN after ELSE e
  BY <1>1, Zenon DEF e
<1> HIDE DEF d
<1>8. Fine(d, now) /\ Grown(c, d)
  BY <1>2, <1>5, <1>6, <1>7, Zenon
<1> QED BY <1>8 DEF d

LEMMA ReplayStockFine ==
    ASSUME Known, NEW g, g.when \in Int, Traded(g), NEW c, Fine(c, g.when),
           NEW k \in 1..Len(g.txs), NEW claims
    PROVE  LET d == ReplayStock(c, g, k, claims)
           IN  Fine(d, g.when) /\ Grown(c, d)
<1> DEFINE tx == g.txs[k]
           sale == SaleOf(c, g, tx)
           d == Booked(sale, g, tx)
<1>0. IsTrade(tx) /\ tx.q \in Int
  BY Zenon DEF Traded, IsTrade
<1>1. Fine(sale.ctx, g.when) /\ Grown(c, sale.ctx) /\ Fits(sale.plan, sale.ctx.book)
  <2>1. CASE tx.q < 0
    <3> DEFINE n == -tx.q
    <3>1. sale = SellShares(c, g, tx.contract.ticker, n)
      BY <2>1 DEF SaleOf
    <3>2. n \in Int
      BY <1>0
    <3> HIDE DEF n, sale, tx
    <3> QED BY <3>1, <3>2, SellSharesFine, Zenon
  <2>2. CASE ~(tx.q < 0)
    <3>1. sale = [ctx |-> c, plan |-> FifoPlan(c.book, tx.contract, tx.q)]
      BY <2>2 DEF SaleOf
    <3>2. sale.ctx = c /\ sale.plan = FifoPlan(c.book, tx.contract, tx.q)
      BY <3>1
    <3>3. Fits(FifoPlan(c.book, tx.contract, tx.q), c.book)
      BY <1>0, FineMeasured, FifoFits, Zenon
    <3> HIDE DEF sale
    <3> QED BY <3>2, <3>3, GrownSame, Zenon
  <2> QED BY <2>1, <2>2
<1>2. Fine(d, g.when) /\ Grown(sale.ctx, d)
  BY <1>0, <1>1, BookedFine, Zenon
<1>3. Grown(c, d)
  BY <1>1, <1>2, GrownOn, Zenon
<1>4. Fine(c, g.when) /\ Grown(c, c)
  BY GrownSame
<1>5. ReplayStock(c, g, k, claims) = IF Consumed(g, claims, k) THEN c ELSE d
  BY Zenon DEF ReplayStock
<1> QED BY <1>2, <1>3, <1>4, <1>5, Zenon

\* The trades of an instant that pass a test, in order.
LEMMA TradesAre ==
    ASSUME NEW g, Traded(g)
    PROVE  /\ \E n \in Nat : /\ DOMAIN Options(g) = 1..n
                             /\ \A p \in 1..n : Options(g)[p] \in 1..Len(g.txs)
                                                /\ g.txs[Options(g)[p]].q # 0
           /\ \E n \in Nat : /\ DOMAIN Stocks(g) = 1..n
                             /\ \A p \in 1..n : Stocks(g)[p] \in 1..Len(g.txs)
<1> DEFINE m == Len(g.txs)
           S == {k \in DOMAIN g.txs : IsOption(g.txs[k]) /\ g.txs[k].q # 0}
           T == {k \in DOMAIN g.txs : ~IsOption(g.txs[k])}
<1>1. S \in SUBSET (1..m) /\ T \in SUBSET (1..m) /\ m \in Nat
  BY DEF Traded
<1>2. Options(g) = SortedBy(S, LAMBDA k : k) /\ Stocks(g) = SortedBy(T, LAMBDA k : k)
  BY DEF Options, Stocks, TradesOf
<1>20. \A k \in S : g.txs[k].q # 0
  OBVIOUS
<1> HIDE DEF S, T, m
<1>3. IsFiniteSet(1..m)
  BY <1>1, FS_Interval
<1>4. IsFiniteSet(S) /\ IsFiniteSet(T)
  BY <1>1, <1>3, FS_Subset, Zenon
<1>5. S \subseteq Int /\ T \subseteq Int
  BY <1>1
<1>6. /\ Cardinality(S) \in Nat /\ DOMAIN Options(g) = 1..Cardinality(S)
      /\ \A p \in 1..Cardinality(S) : Options(g)[p] \in S
  <2>1. LET at == SortedBy(S, LAMBDA i : i)
            n == Cardinality(S)
        IN  n \in Nat /\ DOMAIN at = 1..n /\ \A p \in 1..n : at[p] \in S
    BY <1>4, <1>5, PositionsInOrder
  <2> QED BY <1>2, <2>1
<1>7. /\ Cardinality(T) \in Nat /\ DOMAIN Stocks(g) = 1..Cardinality(T)
      /\ \A p \in 1..Cardinality(T) : Stocks(g)[p] \in T
  <2>1. LET at == SortedBy(T, LAMBDA i : i)
            n == Cardinality(T)
        IN  n \in Nat /\ DOMAIN at = 1..n /\ \A p \in 1..n : at[p] \in T
    BY <1>4, <1>5, PositionsInOrder
  <2> QED BY <1>2, <2>1
<1>8. \E n \in Nat : /\ DOMAIN Options(g) = 1..n
                     /\ \A p \in 1..n : Options(g)[p] \in 1..m /\ g.txs[Options(g)[p]].q # 0
  BY <1>1, <1>6, <1>20, Zenon
<1>9. \E n \in Nat : DOMAIN Stocks(g) = 1..n /\ \A p \in 1..n : Stocks(g)[p] \in 1..m
  BY <1>1, <1>7, Zenon
<1> QED BY <1>8, <1>9, Zenon DEF m

StockStep(g, claims, kept, nil, acc, k) == ReplayStock(acc, g, k, claims)
StockGood(g, claims, kept, nil, k, acc) == Fine(acc, g.when)
StockFold == INSTANCE Folding WITH Op <- StockStep, Good <- StockGood

LEMMA StocksFine ==
    ASSUME Known, NEW g, g.when \in Int, Traded(g), NEW c, Fine(c, g.when), NEW claims
    PROVE  Fine(StocksReplayed(c, g, claims), g.when)
<1> DEFINE ks == Stocks(g)
           d == StocksReplayed(c, g, claims)
<1>1. PICK n \in Nat : DOMAIN ks = 1..n /\ \A p \in 1..n : ks[p] \in 1..Len(g.txs)
  BY TradesAre, Zenon
<1>2. d = StockFold!Folded(g, claims, 0, 0, c, ks)
  <2> HIDE DEF ks
  <2> QED BY DEF StocksReplayed, FoldLeft, MapThenFoldSet, Max, StockFold!Folded, StockStep, ks
<1> HIDE DEF ks, d
<1>3. \A acc : \A k \in 1..n : StockGood(g, claims, 0, 0, k - 1, acc)
                => StockGood(g, claims, 0, 0, k, StockStep(g, claims, 0, 0, acc, ks[k]))
  BY <1>1, ReplayStockFine, Zenon DEF StockGood, StockStep
<1>4. StockGood(g, claims, 0, 0, 0, c)
  BY Zenon DEF StockGood
<1>5. StockGood(g, claims, 0, 0, n, StockFold!Folded(g, claims, 0, 0, c, ks))
  BY <1>1, <1>3, <1>4, StockFold!FoldKeeps, LeastNatural, Zenon
<1> QED BY <1>2, <1>5, Zenon DEF StockGood, d

(***************************************************************************)
(* Option closes and what they deliver                                     *)
(***************************************************************************)
\* The option closed just now has its row, or its line of the log.
Recorded(c, lot, when) ==
    /\ lot.parent = 0 => /\ Len(c.rows) > 0 /\ c.rows[Len(c.rows)].endWhen = when
                         /\ Settled(c.rows[Len(c.rows)].event)
    /\ lot.parent # 0 => LegAt(c.exitLog, when)

LEMMA DeliverPlanFits ==
    ASSUME NEW book, AllMeasured(book), NEW lot, IsContract(lot.contract), NEW sign,
           NEW shares \in Int
    PROVE  Fits(DeliverPlan(book, lot, sign, shares), book)
<1> DEFINE ticker == lot.contract.ticker
           none == Nothing(book)
           first == IF IsWheelCoveredCall(lot)
                    THEN StrikePlan(book, ticker, lot.contract.strike, none, shares)
                    ELSE none
           left == shares - Total(first)
           then == SalePlan(Closed(book, first), ticker, left)
           bought == FifoPlan(book, Stock(ticker), shares)
<1>1. DeliverPlan(book, lot, sign, shares) = IF sign > 0 THEN bought ELSE Both(first, then)
  BY Zenon DEF DeliverPlan
<1>2. lot.contract.strike \in Int /\ Fits(none, book)
  BY NothingFits, Zenon DEF IsContract
<1>3. Fits(StrikePlan(book, ticker, lot.contract.strike, none, shares), book)
  <2> HIDE DEF none, ticker
  <2> QED BY <1>2, StrikeFits, Zenon
<1>4. Fits(first, book)
  BY <1>2, <1>3, Zenon
<1> HIDE DEF first, none
<1>5. Total(first) \in Nat
  BY <1>4, FitsTotal, Zenon
<1>6. left \in Int
  BY <1>5
<1> HIDE DEF left
<1>7. AllMeasured(Closed(book, first))
  BY <1>4, ClosedIs, Zenon
<1>8. Fits(then, Closed(book, first))
  BY <1>6, <1>7, SaleFits, Zenon
<1> HIDE DEF then
<1>9. Fits(Both(first, then), book)
  BY <1>4, <1>8, FitsTwice, Zenon
<1>10. Fits(bought, book)
  BY FifoFits, Zenon
<1> HIDE DEF bought
<1> QED BY <1>1, <1>9, <1>10, Zenon

LEMMA DeliverSharesFine ==
    ASSUME NEW c, NEW when \in Int, Fine(c, when), NEW lot, Recorded(c, lot, when),
           IsContract(lot.contract), NEW sign \in Int, NEW shares \in Int
    PROVE  Fine(DeliverShares(c, lot, sign, shares, when), when)
<1> DEFINE plan == DeliverPlan(c.book, lot, sign, shares)
           after == CloseShares(c, plan, -sign * shares * lot.contract.strike, shares, when, {when})
           rest == shares - Total(plan)
           inherited == sign > 0 /\ lot.parent = 0 /\ ~lot.orphan
           bought == NewLot(Stock(lot.contract.ticker),
                            IF inherited THEN lot.strategy ELSE "others",
                            sign * rest, lot.contract.strike,
                            -sign * rest * lot.contract.strike, when)
           by == IF lot.parent = 0 THEN {Len(c.rows)} ELSE {}
           opened == [bought EXCEPT !.openIds = {<<when, "delivery">>}, !.delivered = by]
           d == DeliverShares(c, lot, sign, shares, when)
           b == Append(after.book, opened)
           e == [after EXCEPT !.book = b]
<1>1. d = IF rest = 0 THEN after ELSE e
  BY Zenon DEF DeliverShares
<1>20. AllMeasured(c.book) /\ Fits(plan, c.book)
  BY FineMeasured, DeliverPlanFits, Zenon
<1>2. Fine(after, when) /\ Grown(c, after)
  <2> HIDE DEF plan
  <2> QED BY <1>20, CloseSharesFine, Zenon
<1>21. Total(plan) \in Nat
  <2> HIDE DEF plan
  <2> QED BY <1>20, FitsTotal, Zenon
<1> DEFINE n == sign * rest
           paid == -sign * rest * lot.contract.strike
<1>22. rest \in Int /\ lot.contract.strike \in Int
  <2>1. lot.contract.strike \in Int
    BY Zenon DEF IsContract
  <2>2. rest \in Int
    <3> HIDE DEF plan
    <3> QED BY <1>21
  <2> QED BY <2>1, <2>2
<1> HIDE DEF rest
<1>23. n \in Int /\ paid \in Int
  <2>1. \A x \in Int : -x \in Int
    OBVIOUS
  <2>2. \A x, y \in Int : x * y \in Int
    OBVIOUS
  <2>3. sign * rest \in Int
    BY <1>22, <2>2, Zenon
  <2>4. sign * rest * lot.contract.strike \in Int
    BY <1>22, <2>2, <2>3, Zenon
  <2>5. -sign * rest * lot.contract.strike = -(sign * rest * lot.contract.strike)
           \/ -sign * rest * lot.contract.strike = (-sign) * rest * lot.contract.strike
    OBVIOUS
  <2>6. (-sign) * rest * lot.contract.strike \in Int
    BY <1>22, <2>1, <2>2, Zenon
  <2> QED BY <2>1, <2>3, <2>4, <2>5, <2>6, Zenon
<1> DEFINE strategy == IF inherited THEN lot.strategy ELSE "others"
<1>24. bought = NewLot(Stock(lot.contract.ticker), strategy, n, lot.contract.strike, paid, when)
  BY Zenon
<1> HIDE DEF n, paid, strategy
<1>25. IsContract(Stock(lot.contract.ticker))
  BY StockIs
<1>3. Measured(bought) /\ bought.rankWhen = when
  <2>1. Measured(bought)
    <3> HIDE DEF bought
    <3> QED BY <1>22, <1>23, <1>24, <1>25, NewLotMeasured, Zenon
  <2>2. bought.rankWhen = when
    BY NewLotIs
  <2> QED BY <2>1, <2>2
<1> HIDE DEF bought, after, d, plan
<1>4. /\ Measured(opened) /\ opened.rankWhen = when /\ opened.openIds = {<<when, "delivery">>}
      /\ opened.delivered = by
  <2>1. /\ IsLot(opened) /\ opened.rankWhen = bought.rankWhen
        /\ opened.openIds = {<<when, "delivery">>}
        /\ opened.delivered = by /\ opened.contract = bought.contract
        /\ opened.quantity = bought.quantity /\ opened.remaining = bought.remaining
        /\ opened.price = bought.price /\ opened.amount = bought.amount
    BY <1>3 DEF Measured, IsLot, LotFields
  <2> HIDE DEF opened, by
  <2> QED BY <1>3, <2>1, Zenon DEF Measured
<1> HIDE DEF opened
<1>5. Told(c.rows, c.exitLog, opened)
  <2>1. Len(c.rows) \in Nat
    BY DEF Fine, IsSeq
  <2>2. ASSUME NEW r \in opened.delivered
        PROVE  /\ r \in 1..Len(c.rows) /\ c.rows[r].endWhen = when
    BY <1>4, <2>1 DEF Recorded
  <2>3. ASSUME NEW w, <<w, "delivery">> \in opened.openIds
        PROVE  \/ LegAt(c.exitLog, w)
               \/ \E r \in opened.delivered : Settled(c.rows[r].event) /\ c.rows[r].endWhen = w
    <3>1. w = when
      BY <1>4, <2>3
    <3>2. CASE lot.parent = 0
      <4>1. Len(c.rows) \in opened.delivered
        BY <1>4, <3>2
      <4> QED BY <3>1, <3>2, <4>1, Zenon DEF Recorded
    <3>3. CASE lot.parent # 0
      BY <3>1, <3>3, Zenon DEF Recorded
    <3> QED BY <3>2, <3>3
  <2>4. \A r \in opened.delivered : r \in 1..Len(c.rows) /\ <<c.rows[r].endWhen, "delivery">> \in opened.openIds
    BY <1>4, <2>2
  <2> QED BY <2>3, <2>4, Zenon DEF Told
<1>6. LotOf(after, opened, when)
  <2>1. /\ Len(c.rows) \in Nat /\ Len(c.exitLog) \in Nat
        /\ Len(after.rows) \in Nat /\ Len(after.exitLog) \in Nat
    BY <1>2 DEF Fine, IsSeq
  <2>2. Told(after.rows, after.exitLog, opened)
    BY <1>2, <1>5, <2>1, ToldLater, Zenon DEF Grown
  <2>3. opened.rankWhen <= when /\ opened.rankWhen \in Int
    BY <1>4
  <2> QED BY <1>4, <2>2, <2>3, Zenon DEF LotOf
<1>7. IsContext(after)
  BY <1>2 DEF Fine
<1> HIDE DEF b
<1>8. /\ IsContext(e) /\ e.book = b /\ e.rows = after.rows /\ e.exitLog = after.exitLog
      /\ e.budget = after.budget /\ e.closed = after.closed
  BY <1>7 DEF IsContext, ContextFields
<1> HIDE DEF e
<1>80. Budgeted(e)
  BY <1>2, <1>8 DEF Fine, Budgeted
<1>9. Fine(e, when)
  BY <1>2, <1>4, <1>6, <1>8, <1>80, FineAppend, Zenon DEF b
<1>10. Fine(d, when)
  BY <1>1, <1>2, <1>9, Zenon
<1> QED BY <1>10 DEF d

\* The shares a settlement hands over, and how they are divided.
Delivering(delivery) ==
    delivery.shares \in Nat /\ delivery.sign \in Int /\ delivery.contracts \in Nat \ {0}

LEMMA ClosePortionFine ==
    ASSUME NEW c, NEW lot, IsContract(lot.contract), NEW n \in Int,
           NEW exit, exit.when \in Int, Fine(c, exit.when),
           NEW delivery, Delivering(delivery), delivery.shares > 0 => Settled(exit.event)
    PROVE  Fine(ClosePortion(c, lot, n, exit, delivery), exit.when)
<1> DEFINE row == CloseLot(c, lot, n, exit)
           handed == (delivery.shares * n) \div delivery.contracts
           d == DeliverShares(row, lot, delivery.sign, handed, exit.when)
<1>1. ClosePortion(c, lot, n, exit, delivery) = IF delivery.shares > 0 THEN d ELSE row
  BY Zenon DEF ClosePortion
<1>2. /\ Fine(row, exit.when)
      /\ lot.parent = 0 => /\ Len(row.rows) > 0
                           /\ row.rows[Len(row.rows)].endWhen = exit.when
                           /\ row.rows[Len(row.rows)].event = exit.event
      /\ lot.parent # 0 => \E x \in 1..Len(row.exitLog) : row.exitLog[x].exit = exit
  BY CloseLotFine
<1>20. delivery.sign \in Int /\ handed \in Int
  <2>1. \A x \in Int : x * n \in Int
    OBVIOUS
  <2>2. delivery.shares * n \in Int
    BY <2>1 DEF Delivering
  <2> QED BY <2>2 DEF Delivering
<1> HIDE DEF row, handed
<1>3. CASE delivery.shares > 0
  <2>1. Recorded(row, lot, exit.when)
    BY <1>2, <1>3, Zenon DEF Recorded, LegAt
  <2>2. Fine(d, exit.when)
    BY <1>2, <1>20, <2>1, DeliverSharesFine, Zenon
  <2> QED BY <1>1, <1>3, <2>2, Zenon
<1> QED BY <1>1, <1>2, <1>3, Zenon

PortionStep(lots, plan, exits, delivery, acc, i) ==
    ClosePortion(acc, lots[i], plan[i], exits[i], delivery)
PortionGood(lots, plan, exits, delivery, k, acc) ==
    \A now : (\A i \in DOMAIN lots : exits[i].when = now) => Fine(acc, now)
PortionFold == INSTANCE Folding WITH Op <- PortionStep, Good <- PortionGood

LEMMA CloseOptionsFine ==
    ASSUME NEW g, g.when \in Int, NEW c, Fine(c, g.when), NEW tx,
           NEW plan, Fits(plan, c.book), NEW delivery, Delivering(delivery),
           delivery.shares > 0 => IsSettlementShape(tx)
    PROVE  Fine(CloseOptions(c, g, tx, plan, delivery), g.when)
<1> DEFINE closed == Total(plan)
           cash == IF IsSettlementShape(tx) THEN Settlement(c, tx.contract, g.when) ELSE {}
           event == CloseEventOf(tx, delivery.shares > 0 \/ cash # {})
           exits == [i \in DOMAIN c.book |->
                      [when |-> g.when, event |-> CloseEventOf(tx, delivery.shares > 0 \/ cash # {}),
                       amount |-> IF cash # {}
                                  THEN Share(c.settlements[Min(cash)].amount, plan[i], closed)
                                  ELSE Share(Amount(tx), plan[i], Mag(tx.q)),
                       ids |-> {g.when}]]
           b == Closed(c.book, plan)
           v == IF cash = {} THEN c.settlements ELSE RemoveAt(c.settlements, Min(cash))
           shut == [c EXCEPT !.book = b, !.settlements = v]
           at == Drawn(c.book, plan)
           d == CloseOptions(c, g, tx, plan, delivery)
           m == Len(c.book)
<1>1. d = FoldLeft(LAMBDA acc, i : ClosePortion(acc, c.book[i], plan[i], exits[i], delivery), shut, at)
  BY DEF CloseOptions
<1>2. m \in Nat /\ DOMAIN c.book = 1..m
  BY DEF Fine, IsSeq, Lists
<1>3. \A i \in DOMAIN c.book : exits[i].when = g.when /\ exits[i].event = event
  <2> HIDE DEF cash, closed
  <2> QED OBVIOUS
<1>4. delivery.shares > 0 => Settled(event)
  <2> SUFFICES ASSUME delivery.shares > 0 PROVE Settled(event)
    OBVIOUS
  <2>1. event = IF tx.q > 0 THEN "assigned" ELSE "exercised"
    BY Zenon DEF CloseEventOf
  <2> HIDE DEF event
  <2> QED BY <2>1 DEF Settled
<1>40. \A i \in 1..m : IsContract(c.book[i].contract) /\ plan[i] \in Int
  <2>1. \A i \in 1..m : Measured(c.book[i])
    BY FineMeasured, Zenon DEF AllMeasured
  <2>2. \A i \in 1..m : plan[i] \in Int
    BY DEF Fits
  <2> QED BY <2>1, <2>2, Zenon DEF Measured
<1> HIDE DEF exits, event, b, v, d, m
<1>5. d = PortionFold!Folded(c.book, plan, exits, delivery, shut, at)
  <2> HIDE DEF at, shut
  <2> QED BY <1>1 DEF FoldLeft, MapThenFoldSet, Max, PortionFold!Folded, PortionStep
<1>6. PICK n \in Nat : DOMAIN at = 1..n /\ \A p \in 1..n : at[p] \in 1..m
  BY <1>2, DrawnIs
<1>7. IsContext(c)
  BY DEF Fine
<1>8. /\ IsContext(shut) /\ shut.book = b /\ shut.rows = c.rows /\ shut.exitLog = c.exitLog
      /\ shut.budget = c.budget /\ shut.closed = c.closed
  BY <1>7 DEF IsContext, ContextFields
<1> HIDE DEF at, shut
<1>80. Budgeted(shut)
  BY <1>8 DEF Fine, Budgeted
<1>9. Fine(shut, g.when)
  BY <1>8, <1>80, ClosedFine, Zenon DEF b
<1>10. PortionGood(c.book, plan, exits, delivery, 0, shut)
  <2> SUFFICES ASSUME NEW now, \A i \in DOMAIN c.book : exits[i].when = now
               PROVE  Fine(shut, now)
    BY Zenon DEF PortionGood
  <2>1. CASE m = 0
    <3>1. DOMAIN shut.book = {}
      BY <1>2, <1>8, <2>1 DEF b, Closed
    <3>2. Len(shut.book) \in Nat /\ DOMAIN shut.book = 1..Len(shut.book)
      BY <1>9 DEF Fine, IsSeq, Lists
    <3>3. \A i \in 1..Len(shut.book) : FALSE
      BY <3>1, <3>2
    <3> QED BY <1>9, <3>3, Zenon DEF Fine
  <2>2. CASE m # 0
    <3>1. 1 \in DOMAIN c.book
      BY <1>2, <2>2
    <3>2. now = g.when
      BY <1>3, <3>1
    <3> QED BY <1>9, <3>2
  <2> QED BY <2>1, <2>2
<1>11. ASSUME NEW acc, NEW k \in 1..n, PortionGood(c.book, plan, exits, delivery, k - 1, acc)
       PROVE  PortionGood(c.book, plan, exits, delivery, k,
                          PortionStep(c.book, plan, exits, delivery, acc, at[k]))
  <2> SUFFICES ASSUME NEW now, \A i \in DOMAIN c.book : exits[i].when = now
               PROVE  Fine(PortionStep(c.book, plan, exits, delivery, acc, at[k]), now)
    BY Zenon DEF PortionGood
  <2> DEFINE i == at[k]
  <2>1. i \in DOMAIN c.book
    BY <1>2, <1>6
  <2>2. exits[i].when = now /\ now = g.when /\ exits[i].event = event
    BY <1>3, <2>1
  <2>3. Fine(acc, now)
    BY <1>11, Zenon DEF PortionGood
  <2>30. IsContract(c.book[i].contract) /\ plan[i] \in Int
    BY <1>6, <1>40, Zenon
  <2> HIDE DEF i
  <2>4. delivery.shares > 0 => Settled(exits[i].event)
    BY <1>4, <2>2, Zenon
  <2>5. Fine(ClosePortion(acc, c.book[i], plan[i], exits[i], delivery), exits[i].when)
    BY <2>2, <2>3, <2>30, <2>4, ClosePortionFine
  <2> QED BY <2>2, <2>5, Zenon DEF PortionStep, i
<1>12. PortionGood(c.book, plan, exits, delivery, n,
                   PortionFold!Folded(c.book, plan, exits, delivery, shut, at))
  BY <1>6, <1>10, <1>11, PortionFold!FoldKeeps, LeastNatural, Zenon
<1>13. Fine(d, g.when)
  BY <1>3, <1>5, <1>12, Zenon DEF PortionGood
<1> QED BY <1>13 DEF d

(***************************************************************************)
(* Option trades                                                           *)
(***************************************************************************)
\* The claims on deliveries are made by settlements.
Claiming(g, cl) ==
    /\ IsSettlementShape(g.txs[cl.tx]) /\ cl.contracts \in Nat \ {0}
    /\ cl.side \in Int /\ cl.key[3] \in Int
Shaped(g, claims) == IsSeq(claims) /\ \A x \in 1..Len(claims) : Claiming(g, claims[x])

AheadStep(g, contract, nil, none, n, cl) ==
    IF g.txs[cl.tx].contract = contract THEN n - cl.side * cl.contracts ELSE n
AheadFold == INSTANCE Folding WITH Op <- AheadStep, Good <- NumberGood

LEMMA AheadIs ==
    ASSUME NEW g, NEW acc, Shaped(g, acc), NEW contract, NEW base \in Int
    PROVE  AheadFold!Folded(g, contract, 0, 0, base, acc) \in Int
<1> DEFINE n == Len(acc)
<1>1. n \in Nat /\ DOMAIN acc = 1..n
  BY DEF Shaped, IsSeq, Lists
<1>2. ASSUME NEW sum, NEW k \in 1..n, NumberGood(g, contract, 0, 0, k - 1, sum)
      PROVE  NumberGood(g, contract, 0, 0, k, AheadStep(g, contract, 0, 0, sum, acc[k]))
  <2> DEFINE cl == acc[k]
             part == cl.side * cl.contracts
  <2>1. sum \in Int
    BY <1>2, Zenon DEF NumberGood
  <2>2. Claiming(g, cl)
    BY Zenon DEF Shaped
  <2> HIDE DEF cl
  <2>3. part \in Int
    <3>1. cl.side \in Int /\ cl.contracts \in Int
      BY <2>2 DEF Claiming
    <3>2. \A x, y \in Int : x * y \in Int
      OBVIOUS
    <3> QED BY <3>1, <3>2, Zenon
  <2>4. AheadStep(g, contract, 0, 0, sum, cl)
          = IF g.txs[cl.tx].contract = contract THEN sum - part ELSE sum
    BY Zenon DEF AheadStep
  <2> HIDE DEF part
  <2>5. AheadStep(g, contract, 0, 0, sum, cl) \in Int
    BY <2>1, <2>3, <2>4
  <2> QED BY <2>5, Zenon DEF NumberGood, cl
<1>3. NumberGood(g, contract, 0, 0, 0, base)
  BY Zenon DEF NumberGood
<1> HIDE DEF n
<1>4. NumberGood(g, contract, 0, 0, n, AheadFold!Folded(g, contract, 0, 0, base, acc))
  BY <1>1, <1>2, <1>3, AheadFold!FoldKeeps, LeastNatural, Zenon
<1> QED BY <1>4, Zenon DEF NumberGood

ClaimStep(book, g, nil, none, acc, k) == Claim(book, g, acc, k)
ClaimGood(book, g, nil, none, k, acc) == Shaped(g, acc)
ClaimFold == INSTANCE Folding WITH Op <- ClaimStep, Good <- ClaimGood

LEMMA ClaimShaped ==
    ASSUME NEW g, NEW book, AllMeasured(book), NEW acc, Shaped(g, acc), NEW k,
           IsTrade(g.txs[k]), g.txs[k].q # 0
    PROVE  Shaped(g, Claim(book, g, acc, k))
<1> DEFINE tx == g.txs[k]
           base == Position(book, tx.contract)
           pos == FoldLeft(LAMBDA n, cl :
                              IF g.txs[cl.tx].contract = tx.contract
                              THEN n - cl.side * cl.contracts ELSE n, base, acc)
           cl == [tx |-> k, contracts |-> Least(Mag(tx.q), Mag(pos)), side |-> Sgn(pos),
                  key |-> <<tx.contract.ticker, tx.contract.strike,
                            DeliverySign(tx.contract.right, Sgn(pos))>>]
           more == Append(acc, cl)
<1>1. Claim(book, g, acc, k)
        = IF IsSettlementShape(tx) /\ Sgn(pos) = -Sgn(tx.q) THEN more ELSE acc
  BY DEF Claim
<1>2. pos \in Int
  <2>1. base \in Int
    BY PositionIs, Zenon
  <2>2. pos = AheadFold!Folded(g, tx.contract, 0, 0, base, acc)
    <3> HIDE DEF base, tx
    <3> QED BY DEF FoldLeft, MapThenFoldSet, Max, AheadFold!Folded, AheadStep, tx
  <2> HIDE DEF pos, base
  <2> QED BY <2>1, <2>2, AheadIs, Zenon
<1>20. tx.q \in Int /\ tx.q # 0
  BY Zenon DEF IsTrade
<1> HIDE DEF pos, tx
<1>3. /\ cl.tx = k /\ cl.contracts = Least(Mag(tx.q), Mag(pos)) /\ cl.side = Sgn(pos)
      /\ cl.key[3] = DeliverySign(tx.contract.right, Sgn(pos))
  OBVIOUS
<1> HIDE DEF cl
<1>4. /\ IsSeq(more) /\ Len(more) = Len(acc) + 1 /\ Len(acc) \in Nat
      /\ \A x \in 1..Len(acc) : more[x] = acc[x]
      /\ more[Len(acc) + 1] = cl
  BY AppendOf DEF Shaped, IsSeq
<1> HIDE DEF more
<1>5. CASE IsSettlementShape(tx) /\ Sgn(pos) = -Sgn(tx.q)
  <2>1. Claiming(g, cl)
    <3>1. IsSettlementShape(g.txs[cl.tx])
      BY <1>3, <1>5, Zenon DEF tx
    <3>2. pos # 0
      BY <1>2, <1>20, <1>5 DEF Sgn
    <3>3. cl.contracts \in Nat \ {0}
      BY <1>2, <1>20, <1>3, <3>2 DEF Least, Mag
    <3>4. Sgn(pos) \in Int
      BY <1>2 DEF Sgn
    <3>5. cl.side \in Int /\ cl.key[3] \in Int
      BY <1>3, <3>4 DEF DeliverySign
    <3> QED BY <3>1, <3>3, <3>5, Zenon DEF Claiming
  <2>2. ASSUME NEW x \in 1..Len(more) PROVE Claiming(g, more[x])
    <3>1. x \in 1..Len(acc) \/ x = Len(acc) + 1
      BY <1>4
    <3>2. CASE x \in 1..Len(acc)
      BY <1>4, <3>2, Zenon DEF Shaped
    <3>3. CASE x = Len(acc) + 1
      BY <1>4, <2>1, <3>3, Zenon
    <3> QED BY <3>1, <3>2, <3>3
  <2> QED BY <1>1, <1>4, <1>5, <2>2, Zenon DEF Shaped
<1>6. CASE ~(IsSettlementShape(tx) /\ Sgn(pos) = -Sgn(tx.q))
  BY <1>1, <1>6, Zenon
<1> QED BY <1>5, <1>6

LEMMA ClaimsShaped ==
    ASSUME NEW g, Traded(g), NEW book, AllMeasured(book)
    PROVE  Shaped(g, Claims(book, g))
<1> DEFINE ks == Options(g)
           claims == Claims(book, g)
<1>1. PICK n \in Nat : /\ DOMAIN ks = 1..n
                       /\ \A p \in 1..n : ks[p] \in 1..Len(g.txs) /\ g.txs[ks[p]].q # 0
  BY TradesAre, Zenon
<1>2. claims = ClaimFold!Folded(book, g, 0, 0, <<>>, ks)
  <2> HIDE DEF ks
  <2> QED BY DEF Claims, FoldLeft, MapThenFoldSet, Max, ClaimFold!Folded, ClaimStep, ks
<1> HIDE DEF ks, claims
<1>3. \A p \in 1..n : IsTrade(g.txs[ks[p]]) /\ g.txs[ks[p]].q # 0
  BY <1>1, Zenon DEF Traded
<1>4. Shaped(g, <<>>)
  <2>1. Lists(<<>>, 0)
    BY DEF Lists
  <2>2. IsSeq(<<>>) /\ Len(<<>>) = 0
    BY <2>1, SeqFrom
  <2> QED BY <2>2 DEF Shaped
<1>5. \A acc : \A k \in 1..n : ClaimGood(book, g, 0, 0, k - 1, acc)
                => ClaimGood(book, g, 0, 0, k, ClaimStep(book, g, 0, 0, acc, ks[k]))
  BY <1>3, ClaimShaped, Zenon DEF ClaimGood, ClaimStep
<1>6. ClaimGood(book, g, 0, 0, 0, <<>>)
  BY <1>4, Zenon DEF ClaimGood
<1>7. ClaimGood(book, g, 0, 0, n, ClaimFold!Folded(book, g, 0, 0, <<>>, ks))
  BY <1>1, <1>5, <1>6, ClaimFold!FoldKeeps, LeastNatural, Zenon
<1> QED BY <1>2, <1>7, Zenon DEF ClaimGood, claims

\* The shares of a pool are counted.
LEMMA PoolIs ==
    ASSUME NEW g, Traded(g), NEW key
    PROVE  Total([p \in Pool(g, key) |-> Mag(g.txs[p].q)]) \in Nat
<1> DEFINE pool == Pool(g, key)
           held == [p \in pool |-> Mag(g.txs[p].q)]
<1>1. pool \in SUBSET (1..Len(g.txs)) /\ Len(g.txs) \in Nat
  BY DEF Pool, Traded
<1>2. IsFiniteSet(1..Len(g.txs))
  BY <1>1, FS_Interval
<1>3. IsFiniteSet(pool)
  BY <1>1, <1>2, FS_Subset, Zenon
<1>4. \A p \in pool : g.txs[p].q \in Int
  BY <1>1, Zenon DEF Traded, IsTrade
<1> HIDE DEF pool
<1>5. \A p \in pool : held[p] \in Nat
  BY <1>4 DEF Mag
<1>6. DOMAIN held = pool
  OBVIOUS
<1> HIDE DEF held
<1>7. Total(held) = TotalOver(held, pool)
  BY <1>6, TotalIs
<1>8. TotalOver(held, pool) \in Nat
  BY <1>3, <1>5, TotalIsNat, Zenon
<1>9. Total(held) \in Nat
  BY <1>7, <1>8
<1> QED BY <1>9 DEF held, pool

\* Only a settlement delivers.
LEMMA SettlementsDeliver ==
    ASSUME NEW g, Traded(g), NEW claims, Shaped(g, claims), NEW k
    PROVE  /\ Delivering(DeliveryOf(g, claims, k))
           /\ DeliveryOf(g, claims, k).shares > 0 => IsSettlementShape(g.txs[k])
<1> DEFINE mine == {x \in DOMAIN claims : claims[x].tx = k /\ Served(claims, x)}
           first == CHOOSE x \in mine : TRUE
           pool == Pool(g, claims[first].key)
           shares == Total([p \in pool |-> Mag(g.txs[p].q)])
           of == [shares |-> shares, sign |-> claims[first].key[3],
                  contracts |-> claims[first].contracts]
<1>0. DeliveryOf(g, claims, k)
        = IF mine = {} THEN [shares |-> 0, sign |-> 1, contracts |-> 1] ELSE of
  BY Zenon DEF DeliveryOf
<1>1. CASE mine = {}
  <2>1. DeliveryOf(g, claims, k) = [shares |-> 0, sign |-> 1, contracts |-> 1]
    BY <1>0, <1>1, Zenon
  <2> QED BY <2>1 DEF Delivering
<1>2. CASE mine # {}
  <2>1. first \in mine
    BY <1>2, Zenon
  <2>2. first \in 1..Len(claims) /\ claims[first].tx = k
    BY <2>1 DEF Shaped, IsSeq, Lists
  <2>3. Claiming(g, claims[first])
    BY <2>2, Zenon DEF Shaped
  <2>4. shares \in Nat
    BY PoolIs, Zenon
  <2> HIDE DEF mine, first, shares, pool
  <2>5. of.shares = shares /\ of.sign = claims[first].key[3] /\ of.contracts = claims[first].contracts
    OBVIOUS
  <2>6. DeliveryOf(g, claims, k) = of
    BY <1>0, <1>2, Zenon
  <2> HIDE DEF of
  <2>7. Delivering(of)
    BY <2>3, <2>4, <2>5, Zenon DEF Delivering, Claiming
  <2>8. IsSettlementShape(g.txs[k])
    BY <2>2, <2>3, Zenon DEF Claiming
  <2> QED BY <2>6, <2>7, <2>8, Zenon
<1> QED BY <1>1, <1>2

LEMMA NotedFine ==
    ASSUME NEW c, NEW now, Fine(c, now), NEW when, NEW tx, NEW wheel \in Int
    PROVE  Fine(Noted(c, when, tx, wheel), now)
<1> DEFINE v == Mapped(c.closed, <<when, tx.contract>>, wheel)
           d == [c EXCEPT !.closed = v]
<1>1. Noted(c, when, tx, wheel) = IF IsSettlementShape(tx) \/ tx.q < 0 THEN c ELSE d
  BY Zenon DEF Noted
<1>2. IsContext(c)
  BY DEF Fine
<1>20. \A key \in DOMAIN v : v[key] \in Int
  <2>1. \A key \in DOMAIN c.closed : c.closed[key] \in Int
    BY Zenon DEF Fine, Budgeted
  <2> DEFINE new == <<when, tx.contract>>
  <2> HIDE DEF new
  <2>2. \A key \in DOMAIN v : v[key] = wheel \/ (key \in DOMAIN c.closed /\ v[key] = c.closed[key])
    BY DEF Mapped, new
  <2> HIDE DEF v
  <2> QED BY <2>1, <2>2
<1> HIDE DEF v
<1>3. /\ IsContext(d) /\ d.book = c.book /\ d.rows = c.rows /\ d.exitLog = c.exitLog
      /\ d.budget = c.budget /\ d.closed = v
  BY <1>2 DEF IsContext, ContextFields
<1> HIDE DEF d
<1>30. Budgeted(d)
  BY <1>3, <1>20, Zenon DEF Fine, Budgeted
<1>4. Grown(c, d) /\ IsSeq(d.rows) /\ IsSeq(d.exitLog)
  BY <1>3 DEF Fine, Grown, Extends, IsSeq
<1>5. Fine(d, now)
  BY <1>3, <1>30, <1>4, FineLater, Zenon
<1> QED BY <1>1, <1>5, Zenon

\* What an option trade opens.
IsOpening(o) == IsTrade(o.tx) /\ o.tx.q # 0 /\ o.quantity \in Int
AreOpenings(s) == IsSeq(s) /\ \A i \in 1..Len(s) : IsOpening(s[i])

LEMMA ReplayOptionFine ==
    ASSUME NEW g, g.when \in Int, Traded(g), NEW claims, Shaped(g, claims), NEW acc, NEW k,
           IsTrade(g.txs[k]), g.txs[k].q # 0,
           Fine(acc.ctx, g.when), AreOpenings(acc.openings)
    PROVE  LET next == ReplayOption(acc, g, k, claims)
           IN  Fine(next.ctx, g.when) /\ AreOpenings(next.openings)
<1> DEFINE tx == g.txs[k]
           plan == FifoPlan(acc.ctx.book, tx.contract, tx.q)
           closed == Total(plan)
           wheel == Total([i \in DOMAIN plan |->
                            IF IsWheelCoveredCall(acc.ctx.book[i]) THEN plan[i] ELSE 0])
           rest == tx.q - Sgn(tx.q) * closed
           delivery == DeliveryOf(g, claims, k)
           shut == IF closed = 0 THEN acc.ctx ELSE CloseOptions(acc.ctx, g, tx, plan, delivery)
           c == Noted(shut, g.when, tx, wheel)
           o == [tx |-> tx, quantity |-> rest, orphan |-> closed = 0 /\ IsSettlementShape(tx)]
           more == Append(acc.openings, o)
           os == IF rest = 0 THEN acc.openings ELSE more
           next == ReplayOption(acc, g, k, claims)
<1>1. next = [ctx |-> c, openings |-> os]
  BY Zenon DEF ReplayOption
<1>2. Delivering(delivery) /\ (delivery.shares > 0 => IsSettlementShape(tx))
  BY SettlementsDeliver, Zenon
<1>20. AllMeasured(acc.ctx.book) /\ tx.q \in Int /\ tx.q # 0 /\ IsTrade(tx)
  BY FineMeasured, Zenon DEF IsTrade
<1>21. Fits(plan, acc.ctx.book)
  BY <1>20, FifoFits, Zenon
<1>22. closed \in Nat
  <2> HIDE DEF plan
  <2> QED BY <1>20, <1>21, FitsTotal, Zenon
<1>23. wheel \in Int
  <2> DEFINE book == acc.ctx.book
             kept == [i \in DOMAIN book |-> IsWheelCoveredCall(book[i])]
  <2>1. IsSeq(book) /\ DOMAIN plan = DOMAIN book
    <3> HIDE DEF plan
    <3> QED BY <1>20, <1>21 DEF AllMeasured, Fits, IsSeq, Lists
  <2>2. Total([i \in DOMAIN book |-> IF kept[i] THEN plan[i] ELSE 0]) \in Nat
    <3> HIDE DEF plan, kept
    <3> QED BY <1>21, <2>1, PartIs, Zenon
  <2>3. \A i \in DOMAIN book : kept[i] = IsWheelCoveredCall(book[i])
    BY Zenon
  <2>4. [i \in DOMAIN book |-> IF kept[i] THEN plan[i] ELSE 0]
        = [i \in DOMAIN plan |-> IF IsWheelCoveredCall(acc.ctx.book[i]) THEN plan[i] ELSE 0]
    <3> HIDE DEF kept, plan
    <3> QED BY <2>1, <2>3, Zenon
  <2>5. wheel \in Nat
    <3> HIDE DEF kept, plan
    <3> QED BY <2>2, <2>4, Zenon
  <2> HIDE DEF wheel
  <2> QED BY <2>5
<1>24. rest \in Int
  <2> HIDE DEF closed
  <2> QED BY <1>20, <1>22 DEF Sgn
<1>25. IsOpening(o)
  <2>1. o.tx = tx /\ o.quantity = rest
    <3> HIDE DEF tx, rest, closed
    <3> QED OBVIOUS
  <2> HIDE DEF o, rest
  <2> QED BY <1>20, <1>24, <2>1, Zenon DEF IsOpening
<1> HIDE DEF plan, closed, delivery, o
<1>3. Fine(CloseOptions(acc.ctx, g, tx, plan, delivery), g.when)
  BY <1>2, <1>21, CloseOptionsFine, Zenon
<1>4. Fine(shut, g.when)
  BY <1>3, Zenon
<1> HIDE DEF shut, wheel
<1>5. Fine(c, g.when)
  BY <1>4, <1>23, NotedFine, Zenon
<1>6. AreOpenings(os)
  <2> DEFINE old == acc.openings
             n == Len(old)
  <2>1. IsSeq(old) /\ n \in Nat /\ \A i \in 1..n : IsOpening(old[i])
    BY DEF AreOpenings, IsSeq
  <2>2. IsSeq(more) /\ Len(more) = n + 1 /\ more[n + 1] = o /\ \A i \in 1..n : more[i] = old[i]
    BY <2>1, AppendOf
  <2> HIDE DEF more, old, n
  <2>3. \A i \in 1..Len(more) : i \in 1..n \/ i = n + 1
    BY <2>1, <2>2
  <2>4. AreOpenings(more)
    BY <1>25, <2>1, <2>2, <2>3, Zenon DEF AreOpenings
  <2> QED BY <2>4, Zenon
<1> HIDE DEF c, os
<1>7. next.ctx = c /\ next.openings = os
  BY <1>1
<1> QED BY <1>5, <1>6, <1>7, Zenon

OptionStep(g, claims, nil, none, acc, k) == ReplayOption(acc, g, k, claims)
OptionGood(g, claims, nil, none, k, acc) == Fine(acc.ctx, g.when) /\ AreOpenings(acc.openings)
OptionFold == INSTANCE Folding WITH Op <- OptionStep, Good <- OptionGood

LEMMA OptionsFine ==
    ASSUME NEW g, g.when \in Int, Traded(g), NEW c, Fine(c, g.when), NEW claims, Shaped(g, claims)
    PROVE  LET d == OptionsReplayed(c, g, claims)
           IN  Fine(d.ctx, g.when) /\ AreOpenings(d.openings)
<1> DEFINE ks == Options(g)
           base == [ctx |-> c, openings |-> <<>>]
           d == OptionsReplayed(c, g, claims)
<1>1. PICK n \in Nat : /\ DOMAIN ks = 1..n
                       /\ \A p \in 1..n : ks[p] \in 1..Len(g.txs) /\ g.txs[ks[p]].q # 0
  BY TradesAre, Zenon
<1>10. \A p \in 1..n : IsTrade(g.txs[ks[p]]) /\ g.txs[ks[p]].q # 0
  BY <1>1, Zenon DEF Traded
<1>2. d = OptionFold!Folded(g, claims, 0, 0, base, ks)
  <2> HIDE DEF ks
  <2> QED BY DEF OptionsReplayed, FoldLeft, MapThenFoldSet, Max, OptionFold!Folded, OptionStep, ks
<1>3. base.ctx = c /\ base.openings = <<>>
  OBVIOUS
<1> HIDE DEF ks, d, base
<1>4. \A acc : \A k \in 1..n : OptionGood(g, claims, 0, 0, k - 1, acc)
                => OptionGood(g, claims, 0, 0, k, OptionStep(g, claims, 0, 0, acc, ks[k]))
  BY <1>10, ReplayOptionFine, Zenon DEF OptionGood, OptionStep
<1>5. AreOpenings(<<>>)
  <2>1. Lists(<<>>, 0)
    BY DEF Lists
  <2>2. IsSeq(<<>>) /\ Len(<<>>) = 0
    BY <2>1, SeqFrom
  <2> QED BY <2>2 DEF AreOpenings
<1>6. OptionGood(g, claims, 0, 0, 0, base)
  BY <1>3, <1>5, Zenon DEF OptionGood
<1>7. OptionGood(g, claims, 0, 0, n, OptionFold!Folded(g, claims, 0, 0, base, ks))
  BY <1>1, <1>4, <1>6, OptionFold!FoldKeeps, LeastNatural, Zenon
<1> QED BY <1>2, <1>7, Zenon DEF OptionGood, d

(***************************************************************************)
(* Openings                                                                *)
(***************************************************************************)
LEMMA OpenLotFine ==
    ASSUME NEW c, NEW when \in Int, Fine(c, when), NEW o, IsOpening(o), NEW strategy, NEW cover,
           NEW quantity \in Int
    PROVE  Fine(OpenLot(c, o, strategy, cover, quantity, when), when)
<1> DEFINE bought == NewLot(o.tx.contract, IF o.orphan THEN "others" ELSE strategy, quantity,
                            o.tx.price, Share(Amount(o.tx), Mag(quantity), Mag(o.tx.q)), when)
           lot == [bought EXCEPT !.cover = cover, !.orphan = o.orphan]
           d == [c EXCEPT !.book = Append(@, lot)]
<1>1. OpenLot(c, o, strategy, cover, quantity, when) = d
  BY Zenon DEF OpenLot
<1> DEFINE amount == Share(Amount(o.tx), Mag(quantity), Mag(o.tx.q))
           filed == IF o.orphan THEN "others" ELSE strategy
<1>10. IsContract(o.tx.contract) /\ o.tx.price \in Int /\ o.tx.q \in Int /\ o.tx.q # 0
  BY Zenon DEF IsOpening, IsTrade
<1>11. amount \in Int
  <2> DEFINE value == Amount(o.tx)
             part == Mag(quantity)
             whole == Mag(o.tx.q)
  <2>1. value \in Int
    BY <1>10 DEF Amount
  <2>2. part \in Int /\ whole \in Nat \ {0}
    BY <1>10 DEF Mag
  <2> HIDE DEF value, part, whole
  <2>3. Share(value, part, whole) \in Int
    BY <2>1, <2>2, ShareIs, Zenon
  <2> QED BY <2>3 DEF value, part, whole
<1>12. bought = NewLot(o.tx.contract, filed, quantity, o.tx.price, amount, when)
  BY Zenon
<1> HIDE DEF amount, filed
<1>2. /\ Measured(bought) /\ bought.rankWhen = when /\ bought.openIds = {<<when, "trade">>}
      /\ bought.delivered = {}
  <2>1. Measured(bought)
    <3> HIDE DEF bought
    <3> QED BY <1>10, <1>11, <1>12, NewLotMeasured, Zenon
  <2>2. bought.rankWhen = when /\ bought.openIds = {<<when, "trade">>} /\ bought.delivered = {}
    BY NewLotIs
  <2> QED BY <2>1, <2>2
<1> HIDE DEF bought
<1>3. Plain(lot, when)
  <2>1. /\ IsLot(lot) /\ lot.rankWhen = bought.rankWhen /\ lot.openIds = bought.openIds
        /\ lot.delivered = bought.delivered /\ lot.contract = bought.contract
        /\ lot.quantity = bought.quantity /\ lot.remaining = bought.remaining
        /\ lot.price = bought.price /\ lot.amount = bought.amount
    BY <1>2 DEF Measured, IsLot, LotFields
  <2> HIDE DEF lot
  <2>2. Measured(lot)
    BY <1>2, <2>1, Zenon DEF Measured
  <2> QED BY <1>2, <2>1, <2>2, Zenon DEF Plain
<1> HIDE DEF lot
<1>4. Fine(d, when)
  BY <1>3, PlainFine, Zenon
<1> QED BY <1>1, <1>4, Zenon

EachStep(strategy, when, nil, none, acc, o) == OpenLot(acc, o, strategy, "none", o.quantity, when)
EachGood(strategy, when, nil, none, k, acc) == Fine(acc, when)
EachFold == INSTANCE Folding WITH Op <- EachStep, Good <- EachGood

LEMMA OpenEachFine ==
    ASSUME NEW c, NEW when \in Int, Fine(c, when), NEW strategy,
           NEW n \in Nat, NEW group, DOMAIN group = 1..n, \A k \in 1..n : IsOpening(group[k])
    PROVE  Fine(OpenEach(c, group, strategy, when), when)
<1> DEFINE d == OpenEach(c, group, strategy, when)
<1>1. d = EachFold!Folded(strategy, when, 0, 0, c, group)
  BY DEF OpenEach, FoldLeft, MapThenFoldSet, Max, EachFold!Folded, EachStep
<1> HIDE DEF d
<1>2. \A acc : \A k \in 1..n : EachGood(strategy, when, 0, 0, k - 1, acc)
                => EachGood(strategy, when, 0, 0, k, EachStep(strategy, when, 0, 0, acc, group[k]))
  BY OpenLotFine, Zenon DEF EachGood, EachStep, IsOpening
<1>3. EachGood(strategy, when, 0, 0, 0, c)
  BY Zenon DEF EachGood
<1>4. EachGood(strategy, when, 0, 0, n, EachFold!Folded(strategy, when, 0, 0, c, group))
  BY <1>2, <1>3, EachFold!FoldKeeps, LeastNatural, Zenon
<1> QED BY <1>1, <1>4, Zenon DEF EachGood, d

(***************************************************************************)
(* Takeovers                                                               *)
(***************************************************************************)
\* The pieces of a lot taken over are of its contract, its rank, its delivery.
LEMMA PiecesAreSame ==
    ASSUME NEW lot, Measured(lot), NEW shares \in Nat, 0 < shares, shares <= lot.remaining,
           NEW strike \in Int, NEW when
    PROVE  LET t == TakeOverLot(lot, shares, strike, when)
           IN  IsSeq(t) /\ \A j \in 1..Len(t) : SameLot(lot, t[j])
<1> DEFINE new == NewLot(lot.contract, "wheel", shares, strike, -strike * shares, when)
           taken == [new EXCEPT !.rankWhen = lot.rankWhen, !.openIds = lot.openIds,
                                !.delivered = lot.delivered]
           rest == lot.remaining - shares
           amount == Share(lot.amount, rest, Mag(lot.quantity))
           left == [lot EXCEPT !.quantity = rest, !.remaining = rest, !.amount = amount]
           shut == [lot EXCEPT !.remaining = 0]
           behind == IF rest > 0 THEN <<left>> ELSE <<>>
           ahead == <<shut, taken>>
           t == ahead \o behind
<1>1. TakeOverLot(lot, shares, strike, when) = t
  BY Zenon DEF TakeOverLot
<1> DEFINE paid == -strike * shares
<1>20. /\ IsLot(lot) /\ IsContract(lot.contract) /\ Between(lot.remaining, lot.quantity)
       /\ lot.quantity \in Int /\ lot.remaining \in Int /\ lot.price \in Int /\ lot.amount \in Int
  BY Zenon DEF Measured
<1>21. paid \in Int
  <2>1. \A x \in Int : x * shares \in Int
    OBVIOUS
  <2>2. strike * shares \in Int /\ (-strike) * shares \in Int
    BY <2>1
  <2>3. paid = -(strike * shares) \/ paid = (-strike) * shares
    OBVIOUS
  <2> HIDE DEF paid
  <2> QED BY <2>2, <2>3
<1>22. new = NewLot(lot.contract, "wheel", shares, strike, paid, when)
  BY Zenon
<1>23. rest \in Int /\ Mag(lot.quantity) \in Nat \ {0}
  BY <1>20 DEF Between, Mag
<1>24. amount \in Int
  <2> HIDE DEF rest
  <2> QED BY <1>20, <1>23, ShareIs
<1>25. IsOpen(lot)
  BY <1>20 DEF IsOpen
<1> HIDE DEF paid
<1>2. /\ Measured(new) /\ new.contract = lot.contract
  <2>1. shares \in Int
    OBVIOUS
  <2>2. Measured(new)
    <3> HIDE DEF new
    <3> QED BY <1>20, <1>21, <1>22, <2>1, NewLotMeasured, Zenon
  <2>3. new.contract = lot.contract
    BY NewLotIs
  <2> QED BY <2>2, <2>3
<1> HIDE DEF new, amount, rest
<1>3. Measured(taken) /\ taken.contract = lot.contract /\ taken.rankWhen = lot.rankWhen
      /\ taken.openIds = lot.openIds /\ taken.delivered = lot.delivered
  <2>1. /\ IsLot(taken) /\ taken.contract = new.contract /\ taken.rankWhen = lot.rankWhen
        /\ taken.openIds = lot.openIds /\ taken.delivered = lot.delivered
        /\ taken.quantity = new.quantity /\ taken.remaining = new.remaining
        /\ taken.price = new.price /\ taken.amount = new.amount
    BY <1>2 DEF Measured, IsLot, LotFields
  <2> HIDE DEF taken
  <2> QED BY <1>2, <2>1, Zenon DEF Measured
<1>4. /\ IsLot(left) /\ left.contract = lot.contract /\ left.rankWhen = lot.rankWhen
      /\ left.openIds = lot.openIds /\ left.delivered = lot.delivered
      /\ left.quantity = rest /\ left.remaining = rest
      /\ left.price = lot.price /\ left.amount = amount
  BY <1>20 DEF IsLot, LotFields
<1>5. /\ IsLot(shut) /\ shut.contract = lot.contract /\ shut.rankWhen = lot.rankWhen
      /\ shut.openIds = lot.openIds /\ shut.delivered = lot.delivered
      /\ shut.quantity = lot.quantity /\ shut.remaining = 0
      /\ shut.price = lot.price /\ shut.amount = lot.amount
  BY <1>20 DEF IsLot, LotFields
<1> HIDE DEF taken, left, shut
<1>50. Between(rest, rest) /\ Between(0, lot.quantity) /\ 0 \in Int
  BY <1>20, <1>23 DEF Between
<1>51. Measured(left)
  BY <1>4, <1>20, <1>23, <1>24, <1>50, Zenon DEF Measured
<1>52. Measured(shut)
  BY <1>5, <1>20, <1>50, Zenon DEF Measured
<1>6. SameLot(lot, taken) /\ SameLot(lot, left) /\ SameLot(lot, shut)
  BY <1>25, <1>3, <1>4, <1>5, <1>51, <1>52, Zenon DEF SameLot
<1>7. IsSeq(ahead) /\ Len(ahead) = 2 /\ ahead[1] = shut /\ ahead[2] = taken
  <2>1. Lists(ahead, 2)
    BY DEF Lists
  <2>2. IsSeq(ahead) /\ Len(ahead) = 2
    BY <2>1, SeqFrom
  <2> QED BY <2>2
<1>8. IsSeq(behind) /\ \A j \in 1..Len(behind) : SameLot(lot, behind[j])
  <2>1. Lists(<<left>>, 1) /\ Lists(<<>>, 0) /\ <<left>>[1] = left
    BY DEF Lists
  <2>2. IsSeq(<<left>>) /\ Len(<<left>>) = 1 /\ IsSeq(<<>>) /\ Len(<<>>) = 0
    BY <2>1, SeqFrom
  <2>3. CASE rest > 0
    <3>1. behind = <<left>>
      BY <2>3
    <3>2. \A j \in 1..1 : <<left>>[j] = left
      OBVIOUS
    <3> HIDE DEF behind
    <3> QED BY <1>6, <2>2, <3>1, <3>2
  <2>4. CASE ~(rest > 0)
    <3>1. behind = <<>>
      BY <2>4
    <3> HIDE DEF behind
    <3> QED BY <2>2, <3>1
  <2> QED BY <2>3, <2>4
<1> HIDE DEF ahead, behind
<1>9. /\ IsSeq(t) /\ Len(t) = Len(ahead) + Len(behind)
      /\ \A i \in 1..Len(ahead) : t[i] = ahead[i]
      /\ \A i \in 1..Len(behind) : t[Len(ahead) + i] = behind[i]
  <2>1. /\ IsSeq(ahead \o behind) /\ Len(ahead \o behind) = Len(ahead) + Len(behind)
        /\ \A i \in 1..Len(ahead) : (ahead \o behind)[i] = ahead[i]
        /\ \A i \in 1..Len(behind) : (ahead \o behind)[Len(ahead) + i] = behind[i]
    <3>1. IsSeq(ahead) /\ IsSeq(behind)
      BY <1>7, <1>8
    <3> QED BY <3>1, ConcatOf
  <2> QED BY <2>1
<1> HIDE DEF t
<1>10. ASSUME NEW j \in 1..Len(t) PROVE SameLot(lot, t[j])
  <2>1. Len(behind) \in Nat
    BY <1>8 DEF IsSeq
  <2>2. j = 1 \/ j = 2 \/ (j - 2 \in 1..Len(behind) /\ j = 2 + (j - 2))
    BY <1>7, <1>9, <2>1
  <2>3. CASE j = 1
    BY <1>6, <1>7, <1>9, <2>3
  <2>4. CASE j = 2
    BY <1>6, <1>7, <1>9, <2>4
  <2>5. CASE j - 2 \in 1..Len(behind) /\ j = 2 + (j - 2)
    <3>1. t[j] = behind[j - 2]
      BY <1>7, <1>9, <2>5
    <3> QED BY <1>8, <2>5, <3>1
  <2> QED BY <2>2, <2>3, <2>4, <2>5
<1> QED BY <1>1, <1>9, <1>10

TakeStep(book, plan, strike, when, acc, i) ==
    acc \o (IF plan[i] > 0 THEN TakeOverLot(book[i], plan[i], strike, when) ELSE <<book[i]>>)
TakeGood(book, plan, strike, when, k, acc) ==
    /\ IsSeq(acc) /\ Purchased(acc)
    /\ \A j \in 1..Len(acc) : \E i \in 1..k : SameLot(book[i], acc[j])
TakeFold == INSTANCE Folding WITH Op <- TakeStep, Good <- TakeGood
Taken(book, plan) ==
    \A i \in 1..Len(book) : /\ Measured(book[i]) /\ book[i].rankWhen \in Int /\ plan[i] \in Nat
                            /\ plan[i] > 0 => plan[i] <= book[i].remaining

\* A takeover cuts lots where they stand.
LEMMA TakenOverInOrder ==
    ASSUME NEW book, IsSeq(book), Purchased(book), NEW plan, NEW strike \in Int, NEW when,
           Taken(book, plan)
    PROVE  TakeGood(book, plan, strike, when, Len(book), TakenOver(book, plan, strike, when))
<1> DEFINE n == Len(book)
           is == [i \in DOMAIN book |-> i]
           d == TakenOver(book, plan, strike, when)
<1>0. \A i \in 1..n : Measured(book[i])
  BY Zenon DEF Taken
<1>10. \A i \in 1..n : book[i].rankWhen \in Int /\ plan[i] \in Nat
  BY Zenon DEF Taken
<1>11. \A i \in 1..n : plan[i] > 0 => plan[i] <= book[i].remaining
  BY Zenon DEF Taken
<1>1. n \in Nat /\ DOMAIN book = 1..n
  BY DEF IsSeq, Lists
<1>2. DOMAIN is = 1..n /\ \A k \in 1..n : is[k] = k
  BY <1>1
<1>3. d = TakeFold!Folded(book, plan, strike, when, <<>>, is)
  <2> HIDE DEF is
  <2> QED BY DEF TakenOver, FoldLeft, MapThenFoldSet, Max, TakeFold!Folded, TakeStep, is
<1> HIDE DEF is, d, n
<1>4. ASSUME NEW acc, NEW k \in 1..n, TakeGood(book, plan, strike, when, k - 1, acc)
      PROVE  TakeGood(book, plan, strike, when, k, TakeStep(book, plan, strike, when, acc, k))
  <2> DEFINE lot == book[k]
             t == IF plan[k] > 0 THEN TakeOverLot(lot, plan[k], strike, when) ELSE <<lot>>
             all == acc \o t
  <2>1. /\ Measured(lot) /\ lot.rankWhen \in Int /\ plan[k] \in Nat
        /\ plan[k] > 0 => plan[k] <= lot.remaining
    BY <1>0, <1>10, <1>11, Zenon
  <2>2. IsSeq(t) /\ \A j \in 1..Len(t) : SameLot(lot, t[j])
    <3>1. CASE plan[k] > 0
      <4>1. t = TakeOverLot(lot, plan[k], strike, when)
        BY <3>1
      <4>2. 0 < plan[k]
        BY <2>1, <3>1
      <4> HIDE DEF t
      <4> QED BY <2>1, <3>1, <4>1, <4>2, PiecesAreSame, Zenon
    <3>2. CASE ~(plan[k] > 0)
      <4>1. t = <<lot>>
        BY <3>2
      <4>2. Lists(<<lot>>, 1)
        BY DEF Lists
      <4>3. IsSeq(<<lot>>) /\ Len(<<lot>>) = 1
        BY <4>2, SeqFrom
      <4>4. \A j \in 1..1 : <<lot>>[j] = lot
        OBVIOUS
      <4>5. SameLot(lot, lot)
        BY <2>1, Zenon DEF SameLot
      <4> HIDE DEF t, lot
      <4> QED BY <4>1, <4>3, <4>4, <4>5
    <3> QED BY <3>1, <3>2
  <2> HIDE DEF t
  <2>3. /\ IsSeq(acc) /\ Purchased(acc) /\ Len(acc) \in Nat /\ Len(t) \in Nat
        /\ \A j \in 1..Len(acc) : \E i \in 1..(k - 1) : SameLot(book[i], acc[j])
    BY <1>4, <2>2 DEF TakeGood, IsSeq
  <2>4. /\ IsSeq(all) /\ Len(all) = Len(acc) + Len(t)
        /\ \A i \in 1..Len(acc) : all[i] = acc[i]
        /\ \A i \in 1..Len(t) : all[Len(acc) + i] = t[i]
    BY <2>2, <2>3, ConcatOf
  <2> HIDE DEF all
  <2> DEFINE a == Len(acc)
  <2>5. ASSUME NEW j \in 1..Len(all)
        PROVE  \/ j \in 1..a /\ all[j] = acc[j]
               \/ j > a /\ j \notin 1..a /\ SameLot(lot, all[j])
    <3>1. j \in 1..a \/ (j > a /\ j \notin 1..a /\ j - a \in 1..Len(t) /\ j = a + (j - a))
      BY <2>3, <2>4
    <3>2. CASE j \in 1..a
      BY <2>4, <3>2
    <3>3. CASE j > a /\ j \notin 1..a /\ j - a \in 1..Len(t) /\ j = a + (j - a)
      <4>1. all[j] = t[j - a]
        BY <2>4, <3>3
      <4> QED BY <2>2, <3>3, <4>1
    <3> QED BY <3>1, <3>2, <3>3
  <2>6. \A j \in 1..Len(all) : \E i \in 1..k : SameLot(book[i], all[j])
    <3> TAKE j \in 1..Len(all)
    <3>1. CASE j \in 1..a /\ all[j] = acc[j]
      <4>1. PICK i \in 1..(k - 1) : SameLot(book[i], acc[j])
        BY <2>3, <3>1
      <4>2. i \in 1..k
        BY <1>1, <4>1
      <4> QED BY <3>1, <4>1, <4>2
    <3>2. CASE SameLot(lot, all[j])
      <4>1. k \in 1..k
        BY <1>1
      <4> QED BY <3>2, <4>1
    <3> QED BY <2>5, <3>1, <3>2
  <2>7. ASSUME NEW i \in 1..Len(all), NEW j \in 1..Len(all), i < j, IsOpen(all[i]), IsOpen(all[j]),
               all[i].contract = all[j].contract
        PROVE  all[i].rankWhen <= all[j].rankWhen
    <3>1. CASE i \in 1..a /\ all[i] = acc[i] /\ j \in 1..a /\ all[j] = acc[j]
      BY <2>3, <2>7, <3>1, Zenon DEF Purchased
    <3>2. CASE i \in 1..a /\ all[i] = acc[i] /\ SameLot(lot, all[j])
      <4>1. PICK h \in 1..(k - 1) : SameLot(book[h], all[i])
        BY <2>3, <3>2
      <4>2. h \in 1..n /\ k \in 1..n /\ h < k
        BY <1>1, <4>1
      <4>3. IsOpen(book[h]) /\ IsOpen(lot) /\ book[h].contract = lot.contract
        BY <2>7, <3>2, <4>1, Zenon DEF SameLot
      <4>4. book[h].rankWhen <= lot.rankWhen
        BY <4>2, <4>3, Zenon DEF Purchased, n
      <4> QED BY <3>2, <4>1, <4>4, Zenon DEF SameLot
    <3>3. CASE i > a /\ SameLot(lot, all[i]) /\ SameLot(lot, all[j])
      <4>1. all[i].rankWhen = lot.rankWhen /\ all[j].rankWhen = lot.rankWhen
        BY <3>3, Zenon DEF SameLot
      <4>2. lot.rankWhen <= lot.rankWhen
        BY <2>1
      <4> QED BY <4>1, <4>2
    <3>4. ~(i > a /\ j \in 1..a)
      BY <2>3, <2>7
    <3> QED BY <2>5, <3>1, <3>2, <3>3, <3>4
  <2>8. TakeGood(book, plan, strike, when, k, all)
    BY <2>4, <2>6, <2>7, Zenon DEF TakeGood, Purchased
  <2> QED BY <2>8, Zenon DEF TakeStep, all, t
<1>5. \A acc : \A k \in 1..n : TakeGood(book, plan, strike, when, k - 1, acc)
        => TakeGood(book, plan, strike, when, k, TakeStep(book, plan, strike, when, acc, is[k]))
  BY <1>2, <1>4
<1>6. TakeGood(book, plan, strike, when, 0, <<>>)
  <2>1. Lists(<<>>, 0)
    BY DEF Lists
  <2>2. IsSeq(<<>>) /\ Len(<<>>) = 0
    BY <2>1, SeqFrom
  <2> QED BY <2>2 DEF TakeGood, Purchased
<1>7. TakeGood(book, plan, strike, when, n, TakeFold!Folded(book, plan, strike, when, <<>>, is))
  BY <1>1, <1>2, <1>5, <1>6, TakeFold!FoldKeeps, LeastNatural, Zenon
<1> QED BY <1>3, <1>7, Zenon DEF d, n

LEMMA TakeOverSharesFine ==
    ASSUME NEW c, NEW when \in Int, Fine(c, when), NEW call, call.strike \in Int,
           NEW contracts \in Int, NEW backed \in Int
    PROVE  Fine(TakeOverShares(c, call, contracts, backed, when), when)
<1> DEFINE strike == call.strike
           ticker == call.ticker
           plan == TakeoverPlan(c.book, ticker, contracts, backed)
           integrated == [i \in DOMAIN c.book |->
                            [when |-> when, amount |-> strike * plan[i], event |-> "integrated",
                             ids |-> {when}]]
           told == CloseLots(c, c.book, plan, integrated)
           covered == [told EXCEPT !.book = TakenOver(@, plan, strike, when)]
<1>1. TakeOverShares(c, call, contracts, backed, when) = covered
  BY Zenon DEF TakeOverShares
<1>2. Len(c.book) \in Nat /\ DOMAIN c.book = 1..Len(c.book) /\ IsSeq(c.book) /\ Purchased(c.book)
  BY DEF Fine, IsSeq, Lists
<1>3. ASSUME NEW i \in 1..Len(c.book)
      PROVE  plan[i] \in Nat /\ (plan[i] > 0 => plan[i] <= c.book[i].remaining)
  <2>1. AllMeasured(c.book)
    BY FineMeasured, Zenon
  <2>2. WheelShares(c.book, ticker) \in Int
    BY <2>1, WheelSharesIs, Zenon
  <2> DEFINE p == TakeoverPlan(c.book, ticker, contracts, backed)
  <2>3. Fits(p, c.book) /\ \A x \in 1..Len(c.book) : p[x] # 0 => c.book[x].remaining > 0
    <3> HIDE DEF ticker
    <3> QED BY <2>1, <2>2, TakeoverFits
  <2>4. c.book[i].remaining \in Int
    BY <2>1, Zenon DEF AllMeasured, Measured
  <2> HIDE DEF p
  <2>5. p[i] \in Nat /\ p[i] <= Mag(c.book[i].remaining)
    BY <2>3, Zenon DEF Fits
  <2>6. p[i] > 0 => p[i] <= c.book[i].remaining
    BY <2>3, <2>4, <2>5 DEF Mag
  <2> QED BY <2>5, <2>6 DEF p
<1>30. strike \in Int
  OBVIOUS
<1> HIDE DEF integrated, plan, strike
<1>4. Fine(told, when) /\ told.book = c.book
  BY <1>2, CloseLotsFine
<1> HIDE DEF told
<1> DEFINE book == c.book
           b == TakenOver(book, plan, strike, when)
<1>5. \A i \in 1..Len(book) : LotOf(told, book[i], when)
  BY <1>4, Zenon DEF Fine
<1>6. Taken(book, plan)
  BY <1>3, <1>5, Zenon DEF LotOf, Taken
<1>7. IsSeq(b) /\ Purchased(b) /\ \A j \in 1..Len(b) : \E i \in 1..Len(book) : SameLot(book[i], b[j])
  <2>1. TakeGood(book, plan, strike, when, Len(book), b)
    <3> HIDE DEF book
    <3>1. IsSeq(book) /\ Purchased(book)
      BY <1>2 DEF book
    <3> QED BY <1>30, <1>6, <3>1, TakenOverInOrder, Zenon
  <2> HIDE DEF b, book
  <2> QED BY <2>1, Zenon DEF TakeGood
<1> HIDE DEF b
<1>8. \A j \in 1..Len(b) : LotOf(told, b[j], when)
  <2> HIDE DEF book
  <2> TAKE j \in 1..Len(b)
  <2>1. PICK i \in 1..Len(book) : SameLot(book[i], b[j])
    BY <1>7
  <2>2. LotOf(told, book[i], when)
    BY <1>5
  <2> QED BY <2>1, <2>2, Zenon DEF LotOf, SameLot, Told
<1>9. covered = [told EXCEPT !.book = b]
  BY <1>4, Zenon DEF b
<1>10. IsContext(told)
  BY <1>4 DEF Fine
<1>11. /\ IsContext(covered) /\ covered.rows = told.rows /\ covered.exitLog = told.exitLog
       /\ covered.book = b /\ covered.budget = told.budget /\ covered.closed = told.closed
  <2> HIDE DEF covered
  <2> QED BY <1>9, <1>10 DEF IsContext, ContextFields
<1> HIDE DEF covered
<1>110. Budgeted(covered)
  BY <1>4, <1>11 DEF Fine, Budgeted
<1>12. Fine(covered, when)
  BY <1>4, <1>7, <1>8, <1>11, <1>110, FineBook, Zenon
<1> QED BY <1>1, <1>12

LEMMA OpenPartFine ==
    ASSUME NEW c, NEW when \in Int, Fine(c, when), NEW o, IsOpening(o), NEW part, part.n \in Int,
           NEW backed \in Int
    PROVE  Fine(OpenPart(c, o, part, backed, when), when)
<1> DEFINE ready == IF part.cover = "shares"
                    THEN TakeOverShares(c, o.tx.contract, part.n, backed, when) ELSE c
           d == OpenLot(ready, o, part.strategy, part.cover, -part.n, when)
<1>1. OpenPart(c, o, part, backed, when) = IF part.n = 0 THEN c ELSE d
  BY Zenon DEF OpenPart
<1>20. o.tx.contract.strike \in Int
  BY Zenon DEF IsOpening, IsTrade, IsContract
<1>2. Fine(ready, when)
  BY <1>20, TakeOverSharesFine
<1> HIDE DEF ready
<1>21. -part.n \in Int
  OBVIOUS
<1>3. Fine(d, when)
  BY <1>2, <1>21, OpenLotFine
<1> QED BY <1>1, <1>3

PartStep(o, backed, when, nil, acc, part) == OpenPart(acc, o, part, backed, when)
PartGood(o, backed, when, nil, k, acc) == Fine(acc, when)
PartFold == INSTANCE Folding WITH Op <- PartStep, Good <- PartGood

LEMMA CapacitiesCount ==
    ASSUME NEW book, AllMeasured(book), NEW ticker
    PROVE  WheelCapacity(book, ticker) \in Nat /\ LeapsCapacity(book, ticker) \in Nat
<1>1. \A x \in Int : x \div PerContract \in Int
  BY PerContractAssumption
<1>2. /\ SharesHeld(book, ticker) \in Int /\ CallsCoveredBy(book, ticker, "shares") \in Int
      /\ CallsCoveredBy(book, ticker, "leaps") \in Int /\ LongLeaps(book, ticker) \in Int
  BY SharesHeldIs, CallsCoveredIs, LongLeapsIs
<1>3. \A x, y \in Int : Most(0, x - y) \in Nat
  BY DEF Most
<1>4. WheelCapacity(book, ticker) \in Nat
  BY <1>1, <1>2, <1>3 DEF WheelCapacity
<1>5. LeapsCapacity(book, ticker) = Most(0, LongLeaps(book, ticker) - CallsCoveredBy(book, ticker, "leaps"))
  BY DEF LeapsCapacity, LongLeaps
<1> QED BY <1>2, <1>3, <1>4, <1>5

\* The parts of a call sold: numbers, of which one at most draws on the shares, within
\* what the Wheel can cover.
PartsWithin(parts, size, most) ==
    /\ DOMAIN parts = 1..size
    /\ \A k \in 1..size : parts[k].n \in Nat /\ (parts[k].cover = "shares" => parts[k].n <= most)
    /\ \A j, k \in 1..size : parts[j].cover = "shares" /\ parts[k].cover = "shares" => j = k

LEMMA SplitIs ==
    ASSUME NEW n \in Nat, NEW aw \in Nat, NEW lw \in Nat, NEW first
    PROVE  \E size \in Nat : PartsWithin(SplitShortCall(n, aw, lw, first), size, aw)
<1> DEFINE parts == SplitShortCall(n, aw, lw, first)
           a == Least(n, aw)
           l == Least(n, lw)
           whole == n - aw - lw
           awRest == n - a
           lwRest == n - l
           wheel(k) == [strategy |-> "wheel", cover |-> "shares", n |-> k]
           leaps(k) == [strategy |-> "leaps", cover |-> "leaps", n |-> k]
           naked(k) == [strategy |-> "others", cover |-> "none", n |-> k]
           Fit(s) == \E size \in Nat : PartsWithin(s, size, aw)
<1>1. parts = IF n >= aw + lw THEN <<wheel(aw), leaps(lw), naked(whole)>>
              ELSE IF n = aw THEN <<wheel(n)>>
              ELSE IF n = lw THEN <<leaps(n)>>
              ELSE IF first THEN <<wheel(a), leaps(awRest)>>
              ELSE <<leaps(l), wheel(lwRest)>>
  BY DEF SplitShortCall
<1>2. /\ a \in Nat /\ a <= aw /\ l \in Nat /\ awRest \in Nat /\ lwRest \in Nat
      /\ n >= aw + lw => whole \in Nat
      /\ ~(n >= aw + lw) => lwRest <= aw
  BY DEF Least
<1>3. \A k : /\ wheel(k).n = k /\ wheel(k).cover = "shares"
             /\ leaps(k).n = k /\ leaps(k).cover = "leaps" /\ naked(k).n = k /\ naked(k).cover = "none"
  OBVIOUS
<1>4. "shares" # "leaps" /\ "shares" # "none"
  OBVIOUS
<1> HIDE DEF parts, a, l, whole, awRest, lwRest, wheel, leaps, naked
<1>5. ASSUME n >= aw + lw PROVE Fit(parts)
  <2> DEFINE s == <<wheel(aw), leaps(lw), naked(whole)>>
  <2>1. DOMAIN s = 1..3 /\ s[1] = wheel(aw) /\ s[2] = leaps(lw) /\ s[3] = naked(whole)
    OBVIOUS
  <2>2. parts = s
    BY <1>1, <1>5
  <2> HIDE DEF s
  <2>3. /\ \A k \in 1..3 : s[k].n \in Nat /\ (s[k].cover = "shares" => k = 1 /\ s[k].n <= aw)
    BY <1>2, <1>3, <1>4, <1>5, <2>1
  <2>4. PartsWithin(s, 3, aw) /\ 3 \in Nat
    BY <2>1, <2>3 DEF PartsWithin
  <2> QED BY <2>2, <2>4
<1>6. ASSUME ~(n >= aw + lw) /\ n = aw PROVE Fit(parts)
  <2> DEFINE s == <<wheel(n)>>
  <2>1. DOMAIN s = 1..1 /\ s[1] = wheel(n)
    OBVIOUS
  <2>2. parts = s
    BY <1>1, <1>6
  <2> HIDE DEF s
  <2>3. \A k \in 1..1 : s[k].n \in Nat /\ s[k].n <= aw /\ k = 1
    BY <1>3, <1>6, <2>1
  <2>4. PartsWithin(s, 1, aw) /\ 1 \in Nat
    BY <2>1, <2>3 DEF PartsWithin
  <2> QED BY <2>2, <2>4
<1>7. ASSUME ~(n >= aw + lw) /\ n # aw /\ n = lw PROVE Fit(parts)
  <2> DEFINE s == <<leaps(n)>>
  <2>1. DOMAIN s = 1..1 /\ s[1] = leaps(n)
    OBVIOUS
  <2>2. parts = s
    BY <1>1, <1>7
  <2> HIDE DEF s
  <2>3. \A k \in 1..1 : s[k].n \in Nat /\ s[k].cover # "shares"
    BY <1>3, <1>4, <2>1
  <2>4. PartsWithin(s, 1, aw) /\ 1 \in Nat
    BY <2>1, <2>3 DEF PartsWithin
  <2> QED BY <2>2, <2>4
<1>8. ASSUME ~(n >= aw + lw) /\ n # aw /\ n # lw /\ first PROVE Fit(parts)
  <2> DEFINE s == <<wheel(a), leaps(awRest)>>
  <2>1. DOMAIN s = 1..2 /\ s[1] = wheel(a) /\ s[2] = leaps(awRest)
    OBVIOUS
  <2>2. parts = s
    BY <1>1, <1>8
  <2> HIDE DEF s
  <2>3. /\ \A k \in 1..2 : s[k].n \in Nat /\ (s[k].cover = "shares" => k = 1 /\ s[k].n <= aw)
    BY <1>2, <1>3, <1>4, <2>1
  <2>4. PartsWithin(s, 2, aw) /\ 2 \in Nat
    BY <2>1, <2>3 DEF PartsWithin
  <2> QED BY <2>2, <2>4
<1>9. ASSUME ~(n >= aw + lw) /\ n # aw /\ n # lw /\ ~first PROVE Fit(parts)
  <2> DEFINE s == <<leaps(l), wheel(lwRest)>>
  <2>1. DOMAIN s = 1..2 /\ s[1] = leaps(l) /\ s[2] = wheel(lwRest)
    OBVIOUS
  <2>2. parts = s
    BY <1>1, <1>9
  <2> HIDE DEF s
  <2>3. /\ \A k \in 1..2 : s[k].n \in Nat /\ (s[k].cover = "shares" => k = 2 /\ s[k].n <= aw)
    BY <1>2, <1>3, <1>4, <1>9, <2>1
  <2>4. PartsWithin(s, 2, aw) /\ 2 \in Nat
    BY <2>1, <2>3 DEF PartsWithin
  <2> QED BY <2>2, <2>4
<1> HIDE DEF Fit
<1>10. Fit(parts)
  BY <1>5, <1>6, <1>7, <1>8, <1>9
<1> QED BY <1>10 DEF Fit, parts

LEMMA OpenShortCallFine ==
    ASSUME NEW c, NEW when \in Int, Fine(c, when), NEW o, IsOpening(o)
    PROVE  Fine(OpenShortCall(c, o, when), when)
<1> DEFINE ticker == o.tx.contract.ticker
           backed == CallsCoveredBy(c.book, ticker, "shares")
           n == Mag(o.quantity)
           aw == IF "wheel" \in c.active THEN WheelCapacity(c.book, ticker) ELSE 0
           lw == IF "leaps" \in c.active THEN LeapsCapacity(c.book, ticker) ELSE 0
           first == StrikeReachesAverage(c.book, ticker, o.tx.contract.strike)
           parts == SplitShortCall(n, aw, lw, first)
           d == OpenShortCall(c, o, when)
<1>1. d = FoldLeft(LAMBDA acc, p : OpenPart(acc, o, p, backed, when), c, parts)
  BY Zenon DEF OpenShortCall
<1>10. backed \in Int /\ n \in Nat /\ aw \in Nat /\ lw \in Nat
  <2>1. AllMeasured(c.book) /\ o.quantity \in Int
    BY FineMeasured, Zenon DEF IsOpening
  <2>2. backed \in Int /\ WheelCapacity(c.book, ticker) \in Nat /\ LeapsCapacity(c.book, ticker) \in Nat
    BY <2>1, CallsCoveredIs, CapacitiesCount, Zenon
  <2>3. n \in Nat
    BY <2>1 DEF Mag
  <2> QED BY <2>2, <2>3
<1> HIDE DEF backed, n, aw, lw, first, d
<1>2. PICK m \in Nat : DOMAIN parts = 1..m /\ \A k \in 1..m : parts[k].n \in Int
  <2>1. PICK m \in Nat : PartsWithin(parts, m, aw)
    BY <1>10, SplitIs
  <2>2. DOMAIN parts = 1..m /\ \A k \in 1..m : parts[k].n \in Nat
    BY <2>1, Zenon DEF PartsWithin
  <2>3. \A x \in Nat : x \in Int
    OBVIOUS
  <2> HIDE DEF parts
  <2> QED BY <2>2, <2>3, Zenon
<1> HIDE DEF parts
<1>3. d = PartFold!Folded(o, backed, when, 0, c, parts)
  BY <1>1 DEF FoldLeft, MapThenFoldSet, Max, PartFold!Folded, PartStep
<1>4. \A acc : \A k \in 1..m : PartGood(o, backed, when, 0, k - 1, acc)
                => PartGood(o, backed, when, 0, k, PartStep(o, backed, when, 0, acc, parts[k]))
  BY <1>2, <1>10, OpenPartFine, Zenon DEF PartGood, PartStep
<1>5. PartGood(o, backed, when, 0, 0, c)
  BY Zenon DEF PartGood
<1>6. PartGood(o, backed, when, 0, m, PartFold!Folded(o, backed, when, 0, c, parts))
  BY <1>2, <1>4, <1>5, PartFold!FoldKeeps, LeastNatural, Zenon
<1> QED BY <1>3, <1>6, Zenon DEF PartGood, d

LEMMA OpenSingleFine ==
    ASSUME NEW c, NEW when \in Int, Fine(c, when), NEW o, IsOpening(o)
    PROVE  Fine(OpenSingle(c, o, when), when)
<1> DEFINE strategy ==
            CASE o.tx.contract.right = "P" ->
                    IF o.quantity < 0 /\ "wheel" \in c.active THEN "wheel" ELSE "others"
              [] OTHER ->
                    IF "leaps" \in c.active /\ o.tx.contract.expiry >= when + LeapsMin
                    THEN "leaps" ELSE "others"
<1>1. OpenSingle(c, o, when) = IF o.tx.contract.right = "C" /\ o.quantity < 0 /\ ~o.orphan
                               THEN OpenShortCall(c, o, when)
                               ELSE OpenLot(c, o, strategy, "none", o.quantity, when)
  BY Zenon DEF OpenSingle
<1> HIDE DEF strategy
<1>2. Fine(OpenShortCall(c, o, when), when)
  BY OpenShortCallFine
<1>3. Fine(OpenLot(c, o, strategy, "none", o.quantity, when), when)
  <2>1. o.quantity \in Int
    BY Zenon DEF IsOpening
  <2> QED BY <2>1, OpenLotFine
<1> QED BY <1>1, <1>2, <1>3

\* The legs of a condor, by strike, are its openings.
Legs(group) ==
    LET byStrike == SortedBy(DOMAIN group, LAMBDA k : group[k].tx.contract.strike)
    IN  [p \in DOMAIN byStrike |-> group[byStrike[p]]]

LEMMA LegsAre ==
    ASSUME NEW group, AreOpenings(group)
    PROVE  \E size \in Nat : DOMAIN Legs(group) = 1..size /\ \A p \in 1..size : IsOpening(Legs(group)[p])
<1> DEFINE byStrike == SortedBy(DOMAIN group, LAMBDA k : group[k].tx.contract.strike)
           legs == [p \in DOMAIN byStrike |-> group[byStrike[p]]]
           S == DOMAIN group
           m == Len(group)
           keys == [k \in S |-> group[k].tx.contract.strike]
           at == SortedOn(S, keys)
<1>1. S = 1..m /\ m \in Nat /\ \A k \in 1..m : IsOpening(group[k])
  BY DEF AreOpenings, IsSeq, Lists
<1>2. \A k \in S : keys[k] \in Int
  BY <1>1, Zenon DEF IsOpening, IsTrade, IsContract
<1>3. byStrike = at
  BY Zenon DEF SortedBy
<1> HIDE DEF S, keys
<1>4. IsSeq(at) /\ Members(at) = S
  <2>1. S \in SUBSET (1..m)
    BY <1>1, Zenon
  <2> HIDE DEF m
  <2> QED BY <1>1, <1>2, <2>1, PlacesArranged, Zenon
<1> HIDE DEF at
<1> DEFINE size == Len(at)
<1>5. size \in Nat /\ DOMAIN at = 1..size /\ \A p \in 1..size : at[p] \in 1..m
  BY <1>1, <1>4 DEF IsSeq, Lists, Members
<1> HIDE DEF byStrike
<1>6. legs = [p \in 1..size |-> group[at[p]]]
  BY <1>3, <1>5
<1> HIDE DEF size, legs
<1>7. DOMAIN legs = 1..size /\ \A p \in 1..size : legs[p] = group[at[p]]
  BY <1>6
<1>8. \E n \in Nat : DOMAIN legs = 1..n /\ \A p \in 1..n : IsOpening(legs[p])
  BY <1>1, <1>5, <1>7, Zenon
<1>9. Legs(group) = legs
  BY Zenon DEF Legs, legs, byStrike
<1> QED BY <1>8, <1>9, Zenon

\* A condor is four lots, then told whose legs they are.
LEMMA OpenCondorFine ==
    ASSUME NEW c, NEW when \in Int, Fine(c, when), NEW group, AreOpenings(group)
    PROVE  Fine(OpenCondor(c, group, when), when)
<1> DEFINE byStrike == SortedBy(DOMAIN group, LAMBDA k : group[k].tx.contract.strike)
           legs == [p \in DOMAIN byStrike |-> group[byStrike[p]]]
           n == Len(c.composites) + 1
           opened == OpenEach(c, legs, "condors", when)
           leg(lot) == [lot EXCEPT !.parent = n]
           composites == Append(opened.composites,
                                [quantity |-> Mag(legs[1].quantity),
                                 legs |-> [k \in 1 .. 4 |-> legs[k].tx.contract]])
           d == OpenCondor(c, group, when)
<1>1. d = [opened EXCEPT
              !.book = [i \in DOMAIN @ |-> IF i > Len(c.book) THEN leg(@[i]) ELSE @[i]],
              !.composites = Append(@, [quantity |-> Mag(legs[1].quantity),
                                        legs |-> [k \in 1 .. 4 |-> legs[k].tx.contract]])]
  BY Zenon DEF OpenCondor
<1>2. PICK size \in Nat : DOMAIN legs = 1..size /\ \A p \in 1..size : IsOpening(legs[p])
  <2>1. legs = Legs(group)
    BY Zenon DEF Legs
  <2> HIDE DEF legs
  <2> QED BY <2>1, LegsAre, Zenon
<1> HIDE DEF legs, n, d
<1>3. Fine(opened, when)
  BY <1>2, OpenEachFine
<1> DEFINE book == opened.book
           m == Len(book)
           b == [i \in 1..m |-> IF i > Len(c.book) THEN leg(book[i]) ELSE book[i]]
<1>4. m \in Nat /\ DOMAIN book = 1..m
  BY <1>3 DEF Fine, IsSeq, Lists
<1> HIDE DEF opened
<1>5. d = [opened EXCEPT !.book = b, !.composites = composites]
  <2> HIDE DEF leg
  <2> QED BY <1>1, <1>4
<1>6. ASSUME NEW i \in 1..m PROVE SameLot(book[i], b[i])
  <2>1. Measured(book[i]) /\ IsLot(book[i])
    BY <1>3, Zenon DEF Fine, LotOf, Measured
  <2>2. b[i] = IF i > Len(c.book) THEN leg(book[i]) ELSE book[i]
    OBVIOUS
  <2> DEFINE lot == book[i]
             l == [lot EXCEPT !.parent = n]
  <2>3. l = leg(book[i])
    OBVIOUS
  <2> HIDE DEF b, leg, book
  <2>4. /\ IsLot(l) /\ l.contract = lot.contract /\ l.rankWhen = lot.rankWhen
        /\ l.openIds = lot.openIds /\ l.delivered = lot.delivered /\ l.remaining = lot.remaining
        /\ l.quantity = lot.quantity /\ l.price = lot.price /\ l.amount = lot.amount
    BY <2>1 DEF IsLot, LotFields
  <2> HIDE DEF l
  <2>40. Measured(lot)
    BY <2>1
  <2> HIDE DEF lot
  <2>41. Measured(l)
    BY <2>4, <2>40, Zenon DEF Measured
  <2>5. SameLot(lot, l) /\ SameLot(lot, lot)
    BY <2>4, <2>40, <2>41, Zenon DEF SameLot, IsOpen
  <2> QED BY <2>2, <2>3, <2>5 DEF lot
<1>7. Lists(b, m)
  BY DEF Lists
<1>8. IsContext(opened)
  BY <1>3 DEF Fine
<1> HIDE DEF b, composites
<1>9. /\ IsContext(d) /\ d.rows = opened.rows /\ d.exitLog = opened.exitLog /\ d.book = b
      /\ d.budget = opened.budget /\ d.closed = opened.closed
  BY <1>5, <1>8 DEF IsContext, ContextFields
<1>90. Budgeted(d)
  BY <1>3, <1>9 DEF Fine, Budgeted
<1>10. Fine(d, when)
  BY <1>3, <1>6, <1>7, <1>9, <1>90, FineInPlace, Zenon
<1> QED BY <1>10 DEF d

SingleStep(when, nil, none, void, acc, o) == OpenSingle(acc, o, when)
SingleGood(when, nil, none, void, k, acc) == Fine(acc, when)
SingleFold == INSTANCE Folding WITH Op <- SingleStep, Good <- SingleGood

LEMMA FileGroupFine ==
    ASSUME NEW c, NEW when \in Int, Fine(c, when), NEW group, AreOpenings(group)
    PROVE  Fine(FileGroup(c, group, when), when)
<1> DEFINE alone == Cardinality({o.tx.contract : o \in ToSet(group)}) < 2
           condor == "condors" \in c.active /\ IsCondor(group)
           one == FoldLeft(LAMBDA acc, o : OpenSingle(acc, o, when), c, group)
           n == Len(group)
<1>1. FileGroup(c, group, when) = IF alone THEN one
                                  ELSE IF condor THEN OpenCondor(c, group, when)
                                  ELSE OpenEach(c, group, "others", when)
  BY Zenon DEF FileGroup
<1>2. one = SingleFold!Folded(when, 0, 0, 0, c, group)
  BY DEF FoldLeft, MapThenFoldSet, Max, SingleFold!Folded, SingleStep
<1>3. n \in Nat /\ DOMAIN group = 1..n /\ \A k \in 1..n : IsOpening(group[k])
  BY DEF AreOpenings, IsSeq, Lists
<1> HIDE DEF alone, condor, one, n
<1>4. \A acc : \A k \in 1..n : SingleGood(when, 0, 0, 0, k - 1, acc)
                => SingleGood(when, 0, 0, 0, k, SingleStep(when, 0, 0, 0, acc, group[k]))
  BY <1>3, OpenSingleFine, Zenon DEF SingleGood, SingleStep
<1>5. SingleGood(when, 0, 0, 0, 0, c)
  BY Zenon DEF SingleGood
<1>6. SingleGood(when, 0, 0, 0, n, SingleFold!Folded(when, 0, 0, 0, c, group))
  BY <1>3, <1>4, <1>5, SingleFold!FoldKeeps, LeastNatural, Zenon
<1>7. Fine(one, when)
  BY <1>2, <1>6, Zenon DEF SingleGood
<1>8. Fine(OpenCondor(c, group, when), when)
  BY OpenCondorFine
<1>9. Fine(OpenEach(c, group, "others", when), when)
  BY <1>3, OpenEachFine
<1> QED BY <1>1, <1>7, <1>8, <1>9

FileStep(openings, when, nil, none, acc, k) == FileGroup(acc, GroupAt(openings, k), when)
FileGood(openings, when, nil, none, k, acc) == Fine(acc, when)
FileFold == INSTANCE Folding WITH Op <- FileStep, Good <- FileGood

\* Each group of openings holds openings.
LEMMA GroupsAre ==
    ASSUME NEW openings, AreOpenings(openings)
    PROVE  \A k : AreOpenings(GroupAt(openings, k))
<1> TAKE k
<1> DEFINE m == Len(openings)
           S == {j \in DOMAIN openings : GroupKey(openings[j]) = GroupKey(openings[k])}
           t == Picked(openings, S)
<1>1. m \in Nat /\ DOMAIN openings = 1..m /\ \A j \in 1..m : IsOpening(openings[j])
  BY DEF AreOpenings, IsSeq, Lists
<1>2. GroupAt(openings, k) = t
  BY Zenon DEF GroupAt
<1>3. S \in SUBSET (1..m)
  BY <1>1
<1> HIDE DEF S, m
<1>4. InOrderOf(t, openings, S)
  BY <1>1, <1>3, PickedInOrder
<1> HIDE DEF t
<1>5. \A p \in 1..Len(t) : IsOpening(t[p])
  <2> TAKE p \in 1..Len(t)
  <2>1. PICK i \in S : t[p] = openings[i]
    BY <1>4, Zenon DEF InOrderOf
  <2>2. i \in 1..m
    BY <1>3, <2>1
  <2> QED BY <1>1, <2>1, <2>2, Zenon
<1> QED BY <1>2, <1>4, <1>5, Zenon DEF InOrderOf, AreOpenings

LEMMA ClassifiedFine ==
    ASSUME NEW c, NEW when \in Int, Fine(c, when), NEW openings, AreOpenings(openings)
    PROVE  Fine(ClassifyOpenings(c, openings, when), when)
<1> DEFINE heads == {k \in DOMAIN openings :
                        \A j \in 1 .. k - 1 : GroupKey(openings[j]) # GroupKey(openings[k])}
           coverOnly(k) == \A o \in ToSet(GroupAt(openings, k)) :
                                ~o.orphan /\ o.tx.contract.right = "C" /\ o.quantity > 0
           order == SortedBy(heads, LAMBDA k : IF coverOnly(k) THEN 0 ELSE 1)
           m == Len(openings)
           n == Cardinality(heads)
           d == ClassifyOpenings(c, openings, when)
<1>1. d = FoldLeft(LAMBDA acc, k : FileGroup(acc, GroupAt(openings, k), when), c, order)
  BY Zenon DEF ClassifyOpenings
<1>2. DOMAIN order = 1..n
  <2> HIDE DEF heads, coverOnly
  <2> QED BY DEF SortedBy, SortedOn, Ranked
<1>3. m \in Nat /\ DOMAIN openings = 1..m /\ \A k \in 1..m : IsOpening(openings[k])
  BY DEF AreOpenings, IsSeq, Lists
<1>4. heads \in SUBSET (1..m)
  BY <1>3
<1> HIDE DEF order, heads, d, m
<1>5. n \in Nat
  <2>1. IsFiniteSet(1..m)
    BY <1>3, FS_Interval
  <2>2. IsFiniteSet(heads)
    BY <1>4, <2>1, FS_Subset, Zenon
  <2> QED BY <2>2, FS_CardinalityType
<1>6. d = FileFold!Folded(openings, when, 0, 0, c, order)
  BY <1>1 DEF FoldLeft, MapThenFoldSet, Max, FileFold!Folded, FileStep
<1> HIDE DEF n
<1>7. \A k : AreOpenings(GroupAt(openings, k))
  BY GroupsAre
<1>8. \A acc : \A k \in 1..n : FileGood(openings, when, 0, 0, k - 1, acc)
                => FileGood(openings, when, 0, 0, k, FileStep(openings, when, 0, 0, acc, order[k]))
  BY <1>7, FileGroupFine, Zenon DEF FileGood, FileStep
<1>9. FileGood(openings, when, 0, 0, 0, c)
  BY Zenon DEF FileGood
<1>10. FileGood(openings, when, 0, 0, n, FileFold!Folded(openings, when, 0, 0, c, order))
  BY <1>2, <1>5, <1>8, <1>9, FileFold!FoldKeeps, LeastNatural, Zenon
<1> QED BY <1>6, <1>10, Zenon DEF FileGood, d

(***************************************************************************)
(* Conversions                                                             *)
(***************************************************************************)
\* An element inserted leaves the others in their order.
LEMMA InsertedAt ==
    ASSUME NEW s, IsSeq(s), NEW p \in 1..Len(s), NEW e
    PROVE  LET t == InsertAt(s, p, e)
           IN  /\ IsSeq(t) /\ Len(t) = Len(s) + 1
               /\ \A j \in 1..Len(t) :
                    \/ j < p /\ j \in 1..Len(s) /\ t[j] = s[j]
                    \/ j = p /\ t[j] = e
                    \/ j > p /\ j - 1 \in 1..Len(s) /\ t[j] = s[j - 1]
<1> DEFINE n == Len(s)
           before == SubSeq(s, 1, p - 1)
           beyond == SubSeq(s, p, n)
           one == <<e>>
           half == before \o one
           t == half \o beyond
<1>1. n \in Nat /\ p \in 1..n
  BY DEF IsSeq
<1>2. InsertAt(s, p, e) = t
  BY DEF InsertAt
<1>3. /\ IsSeq(before) /\ Len(before) = p - 1
      /\ \A i \in 1..(p - 1) : before[i] = s[i]
  <2>1. p - 1 \in Int /\ 1 \in Int /\ 1 <= 1 /\ p - 1 <= Len(s)
    BY <1>1
  <2>2. /\ IsSeq(before) /\ Len(before) = IF 1 <= p - 1 THEN p - 1 - 1 + 1 ELSE 0
        /\ \A i \in 1..(p - 1 - 1 + 1) : before[i] = s[1 + i - 1]
    BY <2>1, SubSeqOf
  <2> HIDE DEF before
  <2>3. p - 1 - 1 + 1 = p - 1 /\ \A i \in 1..(p - 1) : 1 + i - 1 = i
    BY <1>1
  <2> QED BY <1>1, <2>2, <2>3
<1>4. /\ IsSeq(beyond) /\ Len(beyond) = n - p + 1
      /\ \A i \in 1..(n - p + 1) : beyond[i] = s[p + i - 1]
  <2>1. p \in Int /\ n \in Int /\ 1 <= p /\ n <= Len(s)
    BY <1>1
  <2>2. /\ IsSeq(beyond) /\ Len(beyond) = IF p <= n THEN n - p + 1 ELSE 0
        /\ \A i \in 1..(n - p + 1) : beyond[i] = s[p + i - 1]
    BY <2>1, SubSeqOf
  <2> HIDE DEF beyond
  <2> QED BY <1>1, <2>2
<1>5. IsSeq(one) /\ Len(one) = 1 /\ one[1] = e
  <2>1. Lists(one, 1) /\ one[1] = e
    BY DEF Lists
  <2>2. IsSeq(one) /\ Len(one) = 1
    BY <2>1, SeqFrom
  <2> QED BY <2>1, <2>2
<1> HIDE DEF before, beyond, one
<1>6. /\ IsSeq(half) /\ Len(half) = p
      /\ \A i \in 1..(p - 1) : half[i] = s[i]
      /\ half[p] = e
  <2>1. /\ IsSeq(half) /\ Len(half) = Len(before) + Len(one)
        /\ \A i \in 1..Len(before) : half[i] = before[i]
        /\ \A i \in 1..Len(one) : half[Len(before) + i] = one[i]
    <3>1. IsSeq(before) /\ IsSeq(one)
      BY <1>3, <1>5
    <3>2. /\ IsSeq(before \o one) /\ Len(before \o one) = Len(before) + Len(one)
          /\ \A i \in 1..Len(before) : (before \o one)[i] = before[i]
          /\ \A i \in 1..Len(one) : (before \o one)[Len(before) + i] = one[i]
      BY <3>1, ConcatOf
    <3> QED BY <3>2
  <2> HIDE DEF half
  <2>2. Len(before) + Len(one) = p /\ Len(before) + 1 = p /\ 1 \in 1..Len(one)
    BY <1>1, <1>3, <1>5
  <2> QED BY <1>3, <1>5, <2>1, <2>2
<1> HIDE DEF half
<1>7. /\ IsSeq(t) /\ Len(t) = p + (n - p + 1)
      /\ \A i \in 1..p : t[i] = half[i]
      /\ \A i \in 1..(n - p + 1) : t[p + i] = beyond[i]
  <2>1. /\ IsSeq(t) /\ Len(t) = Len(half) + Len(beyond)
        /\ \A i \in 1..Len(half) : t[i] = half[i]
        /\ \A i \in 1..Len(beyond) : t[Len(half) + i] = beyond[i]
    <3>1. IsSeq(half) /\ IsSeq(beyond)
      BY <1>4, <1>6
    <3>2. /\ IsSeq(half \o beyond) /\ Len(half \o beyond) = Len(half) + Len(beyond)
          /\ \A i \in 1..Len(half) : (half \o beyond)[i] = half[i]
          /\ \A i \in 1..Len(beyond) : (half \o beyond)[Len(half) + i] = beyond[i]
      BY <3>1, ConcatOf
    <3> QED BY <3>2
  <2> HIDE DEF t
  <2> QED BY <1>4, <1>6, <2>1
<1> HIDE DEF t
<1>8. Len(t) = n + 1
  BY <1>1, <1>7
<1>9. ASSUME NEW j \in 1..Len(t)
      PROVE  \/ j < p /\ j \in 1..n /\ t[j] = s[j]
             \/ j = p /\ t[j] = e
             \/ j > p /\ j - 1 \in 1..n /\ t[j] = s[j - 1]
  <2>1. CASE j < p
    <3>1. j \in 1..p /\ j \in 1..(p - 1) /\ j \in 1..n
      BY <1>1, <1>8, <2>1
    <3> QED BY <1>6, <1>7, <2>1, <3>1
  <2>2. CASE j = p
    <3>1. p \in 1..p
      BY <1>1
    <3> QED BY <1>6, <1>7, <2>2, <3>1
  <2>3. CASE j > p
    <3>1. /\ j - p \in 1..(n - p + 1) /\ p + (j - p) = j /\ p + (j - p) - 1 = j - 1
          /\ j - 1 \in 1..n
      BY <1>1, <1>8, <2>3
    <3>2. t[p + (j - p)] = beyond[j - p] /\ beyond[j - p] = s[p + (j - p) - 1]
      BY <1>4, <1>7, <3>1
    <3> QED BY <2>3, <3>1, <3>2
  <2> QED BY <1>1, <2>1, <2>2, <2>3
<1> QED BY <1>2, <1>7, <1>8, <1>9 DEF n

\* A lot inserted at the rank of its purchase keeps the order.
LEMMA InsertedByRank ==
    ASSUME NEW book, IsSeq(book), Purchased(book), NEW lot, lot.rankWhen \in Int,
           \A i \in 1..Len(book) : book[i].rankWhen \in Int
    PROVE  LET t == InsertByRank(book, lot)
           IN  /\ IsSeq(t) /\ Purchased(t)
               /\ \A j \in 1..Len(t) : t[j] = lot \/ \E i \in 1..Len(book) : t[j] = book[i]
<1> DEFINE n == Len(book)
           after == {i \in DOMAIN book : /\ book[i].contract = lot.contract
                                         /\ IsOpen(book[i])
                                         /\ book[i].rankWhen > lot.rankWhen}
           t == InsertByRank(book, lot)
<1>1. n \in Nat /\ DOMAIN book = 1..n
  BY DEF IsSeq, Lists
<1>2. t = IF after = {} THEN Append(book, lot) ELSE InsertAt(book, Min(after), lot)
  BY Zenon DEF InsertByRank
<1>3. after \in SUBSET (1..n)
  BY <1>1, Zenon
<1>4. \A i \in 1..n : i \in after <=> /\ book[i].contract = lot.contract /\ IsOpen(book[i])
                                      /\ book[i].rankWhen > lot.rankWhen
  BY <1>1, Zenon
<1>5. \A i \in 1..n : book[i].rankWhen \in Int
  OBVIOUS
<1> HIDE DEF after, t, n
<1>6. CASE after = {}
  <2>1. t = Append(book, lot)
    BY <1>2, <1>6
  <2>2. /\ IsSeq(t) /\ Len(t) = n + 1 /\ t[n + 1] = lot
        /\ \A i \in 1..n : t[i] = book[i]
    BY <2>1, AppendOf DEF n
  <2>3. \A j \in 1..Len(t) : (j = n + 1 /\ t[j] = lot) \/ (j \in 1..n /\ t[j] = book[j])
    BY <1>1, <2>2
  <2>4. ASSUME NEW i \in 1..Len(t), NEW j \in 1..Len(t), i < j, IsOpen(t[i]), IsOpen(t[j]),
               t[i].contract = t[j].contract
        PROVE  t[i].rankWhen <= t[j].rankWhen
    <3>1. i \in 1..n /\ t[i] = book[i]
      BY <1>1, <2>2, <2>3, <2>4
    <3>2. CASE j \in 1..n /\ t[j] = book[j]
      BY <2>4, <3>1, <3>2 DEF Purchased, n
    <3>3. CASE t[j] = lot
      <4>1. i \notin after
        BY <1>6
      <4>2. ~(book[i].rankWhen > lot.rankWhen)
        BY <1>4, <2>4, <3>1, <3>3, <4>1
      <4> QED BY <1>5, <3>1, <3>3, <4>2
    <3> QED BY <2>3, <3>2, <3>3
  <2>5. Purchased(t)
    BY <2>4, Zenon DEF Purchased
  <2> QED BY <2>2, <2>3, <2>5, Zenon DEF t, n
<1>7. CASE after # {}
  <2> DEFINE p == Min(after)
  <2>1. p \in after /\ \A i \in after : p <= i
    <3>1. \A i \in 1..n : i \in Nat
      BY <1>1
    <3>2. after \subseteq Nat
      BY <1>3, <3>1, Zenon
    <3>3. PICK m \in after : \A i \in after : m <= i
      BY <1>7, <3>2, FirstOf
    <3>4. p = CHOOSE x \in after : \A y \in after : x <= y
      BY DEF Min
    <3> HIDE DEF p
    <3> QED BY <3>3, <3>4, Zenon
  <2>2. p \in 1..n
    BY <1>3, <2>1
  <2>3. t = InsertAt(book, p, lot)
    BY <1>2, <1>7
  <2> HIDE DEF p
  <2>4. /\ IsSeq(t) /\ Len(t) = n + 1
        /\ \A j \in 1..Len(t) :
                \/ j < p /\ j \in 1..n /\ t[j] = book[j]
                \/ j = p /\ t[j] = lot
                \/ j > p /\ j - 1 \in 1..n /\ t[j] = book[j - 1]
    BY <2>2, <2>3, InsertedAt DEF n
  <2>5. /\ book[p].contract = lot.contract /\ IsOpen(book[p])
        /\ book[p].rankWhen > lot.rankWhen
    BY <1>4, <2>1, <2>2
  <2>6. ASSUME NEW i \in 1..Len(t), NEW j \in 1..Len(t), i < j, IsOpen(t[i]), IsOpen(t[j]),
               t[i].contract = t[j].contract
        PROVE  t[i].rankWhen <= t[j].rankWhen
    <3> DEFINE Ordered(h, k) == book[h].rankWhen <= book[k].rankWhen
    <3>1. \A h, k \in 1..n : (h < k /\ IsOpen(book[h]) /\ IsOpen(book[k])
                             /\ book[h].contract = book[k].contract) => Ordered(h, k)
      BY DEF Purchased, n
    <3>2. CASE j < p
      <4>1. t[i] = book[i] /\ t[j] = book[j] /\ i \in 1..n /\ j \in 1..n
        BY <1>1, <2>2, <2>4, <2>6, <3>2
      <4> QED BY <2>6, <3>1, <4>1
    <3>3. CASE j = p
      <4>1. t[i] = book[i] /\ t[j] = lot /\ i \in 1..n /\ i < p
        BY <1>1, <2>2, <2>4, <2>6, <3>3
      <4>2. i \notin after
        BY <1>1, <2>1, <2>2, <4>1
      <4>3. ~(book[i].rankWhen > lot.rankWhen)
        BY <1>4, <2>6, <4>1, <4>2
      <4> QED BY <1>5, <4>1, <4>3
    <3>4. CASE j > p
      <4> DEFINE k == j - 1
      <4>1. k \in 1..n /\ t[j] = book[k] /\ p <= k
        BY <1>1, <2>2, <2>4, <2>6, <3>4
      <4>2. CASE i < p
        <5>1. t[i] = book[i] /\ i \in 1..n /\ i < k
          BY <1>1, <2>2, <2>4, <2>6, <3>4, <4>2
        <5> HIDE DEF k
        <5> QED BY <2>6, <3>1, <4>1, <5>1
      <4>3. CASE i = p
        <5>1. t[i] = lot
          BY <2>2, <2>4, <4>3
        <5> HIDE DEF k
        <5>2. book[p].rankWhen <= book[k].rankWhen
          <6>1. CASE p = k
            BY <1>5, <2>2, <6>1
          <6>2. CASE p # k
            <7>1. p < k
              BY <2>2, <4>1, <6>2
            <7> QED BY <2>2, <2>5, <2>6, <3>1, <4>1, <5>1, <7>1
          <6> QED BY <6>1, <6>2
        <5> QED BY <1>5, <2>2, <2>5, <4>1, <5>1, <5>2
      <4>4. CASE i > p
        <5>1. t[i] = book[i - 1] /\ i - 1 \in 1..n /\ i - 1 < k
          BY <1>1, <2>2, <2>4, <2>6, <3>4, <4>4
        <5> HIDE DEF k
        <5> QED BY <2>6, <3>1, <4>1, <5>1
      <4> QED BY <2>2, <4>2, <4>3, <4>4
    <3> QED BY <2>2, <3>2, <3>3, <3>4
  <2>7. Purchased(t)
    BY <2>6, Zenon DEF Purchased
  <2>8. \A j \in 1..Len(t) : t[j] = lot \/ \E i \in 1..n : t[j] = book[i]
    BY <2>4, Zenon
  <2> QED BY <2>4, <2>7, <2>8, Zenon DEF t, n
<1> QED BY <1>6, <1>7

\* A lot renamed by a conversion is of the same purchase and delivery.
LEMMA ScaledIs ==
    ASSUME NEW lot, IsLot(lot), NEW to, NEW out, NEW in
    PROVE  LET l == Scaled(lot, to, out, in)
           IN  /\ IsLot(l) /\ l.rankWhen = lot.rankWhen /\ l.openIds = lot.openIds
               /\ l.delivered = lot.delivered
<1> DEFINE u == (lot.quantity * in) \div out
           v == (lot.remaining * in) \div out
           w == (lot.price * out) \div in
           l == [lot EXCEPT !.contract = to, !.quantity = u, !.remaining = v, !.price = w]
<1>1. Scaled(lot, to, out, in) = l
  BY Zenon DEF Scaled
<1> HIDE DEF u, v, w
<1>2. /\ IsLot(l) /\ l.rankWhen = lot.rankWhen /\ l.openIds = lot.openIds
      /\ l.delivered = lot.delivered
  BY DEF IsLot, LotFields
<1> HIDE DEF l
<1> QED BY <1>1, <1>2

MoveStep(to, out, in, kept, b, lot) == InsertByRank(b, Scaled(lot, to, out, in))
MoveGood(to, out, in, kept, k, b) ==
    IsSeq(b) /\ Purchased(b) /\ \A j \in 1..Len(b) : LotOf(kept.ctx, b[j], kept.now)
MoveFold == INSTANCE Folding WITH Op <- MoveStep, Good <- MoveGood

\* A conversion keeps the order of the purchases.
LEMMA ConvertedFine ==
    ASSUME NEW c, NEW now \in Int, Fine(c, now), NEW from, NEW to, IsContract(to),
           NEW out \in Nat \ {0}, NEW in \in Nat \ {0}
    PROVE  Fine([c EXCEPT !.book = Converted(@, from, to, out, in)], now)
<1> DEFINE book == c.book
           leaving == {i \in DOMAIN book : book[i].contract = from /\ IsOpen(book[i])}
           base == Picked(book, DOMAIN book \ leaving)
           seq == Picked(book, leaving)
           b == Converted(book, from, to, out, in)
           kept == [ctx |-> c, now |-> now]
           n == Len(seq)
<1>1. b = MoveFold!Folded(to, out, in, kept, base, seq)
  <2> HIDE DEF leaving, kept
  <2> QED BY DEF Converted, FoldLeft, MapThenFoldSet, Max, MoveFold!Folded, MoveStep, leaving
<1>2. Len(book) \in Nat /\ DOMAIN book = 1..Len(book)
  BY DEF Fine, IsSeq, Lists
<1>3. leaving \in SUBSET (1..Len(book)) /\ (DOMAIN book \ leaving) \in SUBSET (1..Len(book))
  BY <1>2
<1>4. /\ IsSeq(seq) /\ \A p \in 1..n : \E i \in leaving : seq[p] = book[i]
  <2>1. InOrderOf(seq, book, leaving)
    <3> DEFINE m == Len(book)
    <3>1. m \in Nat /\ leaving \in SUBSET (1..m)
      BY <1>2, <1>3
    <3> HIDE DEF leaving, book, m
    <3> QED BY <3>1, PickedInOrder
  <2> HIDE DEF leaving, book, seq
  <2> QED BY <2>1 DEF InOrderOf
<1>5. /\ IsSeq(base) /\ \A p \in 1..Len(base) : \E i \in 1..Len(book) : base[p] = book[i]
      /\ \A p, q \in 1..Len(base) :
            p < q => \E i, j \in 1..Len(book) : i < j /\ base[p] = book[i] /\ base[q] = book[j]
  <2> DEFINE staying == DOMAIN book \ leaving
  <2>1. staying \in SUBSET (1..Len(book))
    BY <1>3
  <2> HIDE DEF staying
  <2>2. InOrderOf(base, book, staying)
    <3> DEFINE m == Len(book)
    <3>1. m \in Nat /\ staying \in SUBSET (1..m)
      BY <1>2, <2>1
    <3>2. base = Picked(book, staying)
      BY Zenon DEF staying
    <3> HIDE DEF book, m, base
    <3> QED BY <3>1, <3>2, PickedInOrder
  <2>3. \A i \in staying : i \in 1..Len(book)
    BY <2>1
  <2> HIDE DEF base, book
  <2>5. IsSeq(base) /\ \A p \in 1..Len(base) : \E i \in 1..Len(book) : base[p] = book[i]
    BY <2>2, <2>3 DEF InOrderOf
  <2>6. ASSUME NEW p \in 1..Len(base), NEW q \in 1..Len(base), p < q
        PROVE  \E i, j \in 1..Len(book) : i < j /\ base[p] = book[i] /\ base[q] = book[j]
    <3>1. \E i, j \in staying : i < j /\ base[p] = book[i] /\ base[q] = book[j]
      BY <2>2, <2>6 DEF InOrderOf
    <3> QED BY <2>3, <3>1
  <2> QED BY <2>5, <2>6
<1>6. kept.ctx = c /\ kept.now = now
  OBVIOUS
<1>7. \A i \in 1..Len(book) : LotOf(c, book[i], now)
  BY Zenon DEF Fine
<1>8. Purchased(book)
  BY DEF Fine
<1>9. \A i \in leaving : i \in 1..Len(book)
  BY <1>3
<1> HIDE DEF b, base, seq, kept, leaving, n
<1>10. Purchased(base)
  <2>1. ASSUME NEW p \in 1..Len(base), NEW q \in 1..Len(base), p < q, IsOpen(base[p]), IsOpen(base[q]),
               base[p].contract = base[q].contract
        PROVE  base[p].rankWhen <= base[q].rankWhen
    <3>1. PICK i, j \in 1..Len(book) : i < j /\ base[p] = book[i] /\ base[q] = book[j]
      BY <1>5, <2>1
    <3> HIDE DEF book
    <3> QED BY <1>8, <2>1, <3>1, Zenon DEF Purchased
  <2> QED BY <2>1, Zenon DEF Purchased
<1>11. \A j \in 1..Len(base) : LotOf(c, base[j], now)
  BY <1>5, <1>7, Zenon
<1>12. MoveGood(to, out, in, kept, 0, base)
  BY <1>5, <1>6, <1>10, <1>11, Zenon DEF MoveGood
<1>13. ASSUME NEW acc, NEW k \in 1..n, MoveGood(to, out, in, kept, k - 1, acc)
       PROVE  MoveGood(to, out, in, kept, k, MoveStep(to, out, in, kept, acc, seq[k]))
  <2> DEFINE lot == Scaled(seq[k], to, out, in)
             t == InsertByRank(acc, lot)
  <2>1. LotOf(c, seq[k], now)
    BY <1>4, <1>7, <1>9, Zenon DEF n
  <2>2. /\ Measured(lot) /\ lot.rankWhen = seq[k].rankWhen /\ lot.openIds = seq[k].openIds
        /\ lot.delivered = seq[k].delivered
    <3>1. Measured(seq[k])
      BY <2>1, Zenon DEF LotOf
    <3>2. IsLot(seq[k])
      BY <3>1, Zenon DEF Measured
    <3>3. Measured(lot)
      BY <3>1, ScaledMeasured, Zenon
    <3> QED BY <3>2, <3>3, ScaledIs
  <2> HIDE DEF lot
  <2>3. LotOf(c, lot, now)
    BY <2>1, <2>2, Zenon DEF LotOf, Told
  <2>4. IsSeq(acc) /\ Purchased(acc) /\ \A j \in 1..Len(acc) : LotOf(c, acc[j], now)
    BY <1>6, <1>13, Zenon DEF MoveGood
  <2>5. lot.rankWhen \in Int /\ \A j \in 1..Len(acc) : acc[j].rankWhen \in Int
    BY <2>3, <2>4, Zenon DEF LotOf
  <2>6. /\ IsSeq(t) /\ Purchased(t)
        /\ \A j \in 1..Len(t) : t[j] = lot \/ \E i \in 1..Len(acc) : t[j] = acc[i]
    BY <2>4, <2>5, InsertedByRank
  <2> HIDE DEF t
  <2>7. \A j \in 1..Len(t) : LotOf(c, t[j], now)
    BY <2>3, <2>4, <2>6, Zenon
  <2>8. MoveGood(to, out, in, kept, k, t)
    BY <1>6, <2>6, <2>7, Zenon DEF MoveGood
  <2> QED BY <2>8, Zenon DEF MoveStep, lot, t
<1>14. n \in Nat /\ DOMAIN seq = 1..n
  BY <1>4 DEF IsSeq, Lists, n
<1>15. MoveGood(to, out, in, kept, n, MoveFold!Folded(to, out, in, kept, base, seq))
  BY <1>12, <1>13, <1>14, MoveFold!FoldKeeps, LeastNatural, Zenon
<1>16. IsSeq(b) /\ Purchased(b) /\ \A j \in 1..Len(b) : LotOf(c, b[j], now)
  BY <1>1, <1>6, <1>15, Zenon DEF MoveGood
<1> DEFINE d == [c EXCEPT !.book = b]
<1>17. IsContext(c)
  BY DEF Fine
<1>18. /\ IsContext(d) /\ d.rows = c.rows /\ d.exitLog = c.exitLog /\ d.book = b
       /\ d.budget = c.budget /\ d.closed = c.closed
  BY <1>17 DEF IsContext, ContextFields
<1> HIDE DEF d
<1>20. Budgeted(d)
  BY <1>18, Zenon DEF Budgeted, Fine
<1>19. Fine(d, now)
  BY <1>16, <1>18, <1>20, FineBook, Zenon
<1> QED BY <1>19, Zenon DEF d, b

(***************************************************************************)
(* Corporate actions                                                       *)
(***************************************************************************)
\* A cash-and-stock merger closes lots where they stand, and what it opens
\* goes last.
LEMMA MergerFine ==
    ASSUME NEW c, NEW when \in Int, Fine(c, when), NEW e, e.in \in Nat \ {0}, e.cash \in Int,
           e.realizedPnl \in Int
    PROVE  Fine(ApplyMixedMerger(c, e, when), when)
<1> DEFINE open == {i \in DOMAIN c.book : c.book[i].contract = Stock(e.from) /\ IsOpen(c.book[i])}
           basis == Total([i \in open |-> BasisOf(c.book[i])])
           paid == e.cash - e.realizedPnl
           scaled(lot) == [lot EXCEPT !.amount = (@ * paid) \div basis,
                                      !.price = (@ * paid) \div basis]
           lots == [i \in DOMAIN c.book |-> scaled(c.book[i])]
           whole == [i \in DOMAIN c.book |-> IF i \in open THEN Mag(c.book[i].remaining) ELSE 0]
           exits == [i \in DOMAIN c.book |->
                        [when |-> when, amount |-> Share(e.cash, BasisOf(c.book[i]), basis),
                         event |-> "corporate_action", ids |-> {when}]]
           told == CloseLots(c, lots, whole, exits)
           shut(lot) == [scaled(lot) EXCEPT !.remaining = 0]
           closed == [told EXCEPT !.book = [i \in DOMAIN @ |-> IF i \in open THEN shut(@[i]) ELSE @[i]]]
           arrived == NewLot(Stock(e.to), c.book[Min(open)].strategy, e.in,
                             (basis - paid) \div e.in, -(basis - paid), when)
           nothing == open = {} \/ basis <= 0 \/ paid < 0 \/ paid > basis
           d == ApplyMixedMerger(c, e, when)
<1>1. d = IF nothing THEN c ELSE [closed EXCEPT !.book = Append(@, arrived)]
  BY Zenon DEF ApplyMixedMerger
<1> DEFINE m == Len(c.book)
           bookAfter == [i \in 1..m |-> IF i \in open THEN shut(c.book[i]) ELSE c.book[i]]
<1>2. m \in Nat /\ DOMAIN c.book = 1..m
  BY DEF Fine, IsSeq, Lists
<1>3. DOMAIN lots = 1..m
  BY <1>2
<1>4. \A i \in open : IsOpen(c.book[i])
  OBVIOUS
<1>20. basis \in Int
  <2> DEFINE f == [i \in open |-> BasisOf(c.book[i])]
  <2>1. open \in SUBSET (1..m)
    BY <1>2
  <2>2. IsFiniteSet(1..m)
    BY <1>2, FS_Interval
  <2>3. IsFiniteSet(open)
    BY <2>1, <2>2, FS_Subset, Zenon
  <2>4. \A i \in 1..m : c.book[i].amount \in Int
    BY Zenon DEF Fine, LotOf, Measured
  <2>5. \A i \in open : c.book[i].amount \in Int
    BY <2>1, <2>4
  <2> HIDE DEF open, m
  <2>6. \A i \in open : f[i] \in Int
    BY <2>5 DEF BasisOf
  <2>7. DOMAIN f = open
    OBVIOUS
  <2> HIDE DEF f
  <2>8. Total(f) = TotalOver(f, open)
    BY <2>7, TotalIs
  <2>9. TotalOver(f, open) \in Int
    BY <2>3, <2>6, TotalOf, Zenon DEF IntegersOn
  <2>10. Total(f) \in Int
    BY <2>8, <2>9
  <2> QED BY <2>10 DEF f
<1>21. paid \in Int
  OBVIOUS
<1>5. Plain(arrived, when)
  <2> DEFINE strategy == c.book[Min(open)].strategy
             price == (basis - paid) \div e.in
             amount == -(basis - paid)
  <2>1. arrived = NewLot(Stock(e.to), strategy, e.in, price, amount, when)
    OBVIOUS
  <2>2. price \in Int /\ amount \in Int
    <3> HIDE DEF basis, paid
    <3>1. \A u \in Int : u \div e.in \in Int
      OBVIOUS
    <3>2. basis - paid \in Int
      BY <1>20, <1>21
    <3> QED BY <3>1, <3>2
  <2>3. e.in \in Int
    OBVIOUS
  <2> HIDE DEF strategy, price, amount, arrived, basis, paid, open
  <2>4. Measured(arrived)
    <3>1. IsContract(Stock(e.to))
      BY StockIs
    <3> QED BY <2>1, <2>2, <2>3, <3>1, NewLotMeasured, Zenon
  <2>5. /\ arrived.rankWhen = when /\ arrived.openIds = {<<when, "trade">>} /\ arrived.delivered = {}
    BY <2>1, NewLotIs
  <2> QED BY <2>4, <2>5, Zenon DEF Plain
<1>22. ~nothing => basis \in Nat \ {0}
  <2> HIDE DEF basis, open, paid
  <2> QED BY <1>20
<1> HIDE DEF nothing, open, basis, paid, lots, whole, exits, arrived, m, d
<1>6. Fine(told, when) /\ told.book = c.book
  BY <1>2, <1>3, CloseLotsFine
<1> HIDE DEF told
<1>7. closed = [told EXCEPT !.book = bookAfter]
  BY <1>2, <1>6
<1>8. ASSUME basis \in Nat \ {0}, NEW lot, Measured(lot), IsOpen(lot) PROVE SameLot(lot, shut(lot))
  <2> DEFINE u == (lot.amount * paid) \div basis
             v == (lot.price * paid) \div basis
             l == [[lot EXCEPT !.amount = u, !.price = v] EXCEPT !.remaining = 0]
  <2>1. shut(lot) = l
    OBVIOUS
  <2>2. u \in Int /\ v \in Int
    <3>1. /\ \A x \in Int : x * paid \in Int
          /\ \A x \in Int : x \div basis \in Int
      BY <1>8, <1>21
    <3> QED BY <1>8, <3>1, Zenon DEF Measured
  <2> HIDE DEF u, v, shut
  <2>3. IsLot(lot)
    BY <1>8, Zenon DEF Measured
  <2>4. /\ IsLot(l) /\ l.rankWhen = lot.rankWhen /\ l.openIds = lot.openIds
        /\ l.delivered = lot.delivered /\ l.contract = lot.contract
        /\ l.quantity = lot.quantity /\ l.remaining = 0 /\ l.amount = u /\ l.price = v
    BY <2>3 DEF IsLot, LotFields
  <2> HIDE DEF l
  <2>5. 0 \in Int /\ lot.quantity \in Int
    BY <1>8 DEF Measured
  <2>6. Between(0, lot.quantity)
    BY <2>5 DEF Between
  <2>7. Measured(l)
    BY <1>8, <2>2, <2>4, <2>5, <2>6, Zenon DEF Measured
  <2> QED BY <1>8, <2>1, <2>4, <2>7, Zenon DEF SameLot
<1> HIDE DEF shut
<1>9. ASSUME basis \in Nat \ {0}, NEW i \in 1..m PROVE SameLot(c.book[i], bookAfter[i])
  <2>1. Measured(c.book[i])
    BY Zenon DEF Fine, LotOf, m
  <2>2. bookAfter[i] = IF i \in open THEN shut(c.book[i]) ELSE c.book[i]
    OBVIOUS
  <2>3. SameLot(c.book[i], c.book[i])
    BY <2>1, Zenon DEF SameLot
  <2> HIDE DEF bookAfter
  <2> QED BY <1>4, <1>8, <1>9, <2>1, <2>2, <2>3, Zenon
<1>10. Lists(bookAfter, m)
  BY DEF Lists
<1> HIDE DEF bookAfter
<1>11. IsContext(told)
  BY <1>6 DEF Fine
<1>12. /\ IsContext(closed) /\ closed.rows = told.rows /\ closed.exitLog = told.exitLog
       /\ closed.book = bookAfter /\ closed.budget = told.budget /\ closed.closed = told.closed
  <2> HIDE DEF closed
  <2> QED BY <1>7, <1>11 DEF IsContext, ContextFields
<1> HIDE DEF closed
<1>17. Budgeted(closed)
  BY <1>6, <1>12, Zenon DEF Budgeted, Fine
<1> DEFINE more == [closed EXCEPT !.book = Append(@, arrived)]
<1>14. ASSUME basis \in Nat \ {0} PROVE Fine(more, when)
  <2>1. Fine(closed, when)
    BY <1>6, <1>9, <1>10, <1>12, <1>14, <1>17, FineInPlace, Zenon DEF m
  <2> QED BY <1>5, <2>1, PlainFine, Zenon
<1> HIDE DEF more
<1>15. d = IF nothing THEN c ELSE more
  BY <1>1, Zenon DEF more
<1>16. Fine(d, when)
  BY <1>14, <1>15, <1>22
<1> QED BY <1>16 DEF d

LEMMA ApplyEventFine ==
    ASSUME NEW c, NEW when \in Int, Fine(c, when), NEW e, IsEvent(e)
    PROVE  Fine(ApplyEvent(c, e, when), when)
<1> DEFINE b == Converted(c.book, Stock(e.from), Stock(e.to), e.out, e.in)
<1>1. CASE e.kind = "none"
  BY <1>1 DEF ApplyEvent
<1>2. CASE e.kind = "conversion"
  <2>3. e.out \in Nat \ {0} /\ e.in \in Nat \ {0}
    BY <1>2 DEF IsEvent
  <2>4. IsContract(Stock(e.to))
    BY StockIs
  <2>1. Fine([c EXCEPT !.book = Converted(@, Stock(e.from), Stock(e.to), e.out, e.in)], when)
    BY <2>3, <2>4, ConvertedFine
  <2>2. ApplyEvent(c, e, when) = [c EXCEPT !.book = Converted(@, Stock(e.from), Stock(e.to), e.out, e.in)]
    BY <1>2 DEF ApplyEvent
  <2> QED BY <2>1, <2>2, Zenon
<1>3. CASE e.kind = "merger"
  <2>1. ApplyEvent(c, e, when) = ApplyMixedMerger(c, e, when)
    BY <1>3 DEF ApplyEvent
  <2>2. e.in \in Nat \ {0} /\ e.cash \in Int /\ e.realizedPnl \in Int
    BY <1>3 DEF IsEvent
  <2> QED BY <2>1, <2>2, MergerFine, Zenon
<1>4. e.kind \in {"none", "conversion", "merger"}
  BY DEF IsEvent
<1> QED BY <1>1, <1>2, <1>3, <1>4

(***************************************************************************)
(* The ledger                                                              *)
(***************************************************************************)
\* The instants known, replayed and to come, in order.
Ledger == played \o tape

InstantOf(g) == Traded(g) /\ g.when \in Nat /\ IsEvent(g.event)

Orderly(s) ==
    /\ IsSeq(s)
    /\ \A x \in 1..Len(s) : InstantOf(s[x])
    /\ \A x, y \in 1..Len(s) : x <= y => s[x].when <= s[y].when

LedgerKept == IsSeq(played) /\ IsSeq(tape) /\ Orderly(Ledger)

\* The time of the instant replayed last.
Now == IF Len(played) = 0 THEN 0 ELSE played[Len(played)].when

LEMMA LedgerIs ==
    ASSUME LedgerKept
    PROVE  /\ Len(played) \in Nat /\ Len(tape) \in Nat /\ Len(Ledger) = Len(played) + Len(tape)
           /\ \A x \in 1..Len(played) : Ledger[x] = played[x] /\ x \in 1..Len(Ledger)
           /\ \A x \in 1..Len(tape) : Ledger[Len(played) + x] = tape[x] /\ Len(played) + x \in 1..Len(Ledger)
           /\ Known
<1>1. /\ Len(played) \in Nat /\ Len(tape) \in Nat /\ Len(Ledger) = Len(played) + Len(tape)
      /\ \A x \in 1..Len(played) : Ledger[x] = played[x]
      /\ \A x \in 1..Len(tape) : Ledger[Len(played) + x] = tape[x]
  BY ConcatOf DEF LedgerKept, Ledger, IsSeq
<1>2. /\ \A x \in 1..Len(played) : x \in 1..Len(Ledger)
      /\ \A x \in 1..Len(tape) : Len(played) + x \in 1..Len(Ledger)
  BY <1>1
<1>3. Known
  <2>1. \A x \in Nat : x \in Int
    OBVIOUS
  <2> QED BY <1>1, <1>2, <2>1, Zenon DEF Known, LedgerKept, Orderly, InstantOf
<1> QED BY <1>1, <1>2, <1>3

\* One instant more.
LEMMA LedgerLonger ==
    ASSUME LedgerKept, NEW g, InstantOf(g),
           \A x \in 1..Len(Ledger) : Ledger[x].when <= g.when,
           tape' = Append(tape, g), played' = played
    PROVE  LedgerKept'
<1> DEFINE a == Len(played)
           b == Len(tape)
           more == Append(tape, g)
           s == Ledger
           t == played \o more
<1>1. /\ a \in Nat /\ b \in Nat /\ Len(s) = a + b
      /\ \A x \in 1..a : s[x] = played[x]
      /\ \A x \in 1..b : s[a + x] = tape[x]
  BY LedgerIs
<1>2. IsSeq(more) /\ Len(more) = b + 1 /\ (\A i \in 1..b : more[i] = tape[i]) /\ more[b + 1] = g
  BY AppendOf DEF LedgerKept
<1> HIDE DEF more
<1>3. /\ IsSeq(t) /\ Len(t) = a + Len(more)
      /\ \A x \in 1..a : t[x] = played[x]
      /\ \A x \in 1..Len(more) : t[a + x] = more[x]
  <2>1. IsSeq(played) /\ IsSeq(more)
    BY <1>2 DEF LedgerKept
  <2> QED BY <2>1, ConcatOf
<1>4. Orderly(s)
  BY DEF LedgerKept
<1> HIDE DEF t, s, a, b
<1>5. ASSUME NEW x \in 1..Len(t) PROVE (x \in 1..Len(s) /\ t[x] = s[x]) \/ (x = Len(s) + 1 /\ t[x] = g)
  <2>1. CASE x \in 1..a
    BY <1>1, <1>3, <2>1
  <2>2. CASE x \in a + 1 .. a + b
    <3>1. x - a \in 1..b /\ a + (x - a) = x /\ x - a \in 1..Len(more)
      BY <1>1, <1>2, <2>2
    <3>2. t[x] = more[x - a] /\ s[x] = tape[x - a] /\ more[x - a] = tape[x - a]
      BY <1>1, <1>2, <1>3, <3>1
    <3> QED BY <1>1, <2>2, <3>2
  <2>3. CASE x = a + b + 1
    <3>1. x - a = b + 1 /\ a + (b + 1) = x /\ b + 1 \in 1..Len(more)
      BY <1>1, <1>2, <2>3
    <3>2. t[x] = g
      BY <1>2, <1>3, <3>1
    <3> QED BY <1>1, <2>3, <3>2
  <2> QED BY <1>1, <1>2, <1>3, <2>1, <2>2, <2>3
<1>6. \A x \in 1..Len(t) : InstantOf(t[x])
  BY <1>4, <1>5, Zenon DEF Orderly
<1>7. \A x, y \in 1..Len(t) : x <= y => t[x].when <= t[y].when
  <2> TAKE x, y \in 1..Len(t)
  <2> HAVE x <= y
  <2>1. CASE y \in 1..Len(s) /\ t[y] = s[y]
    <3>1. x \in 1..Len(s) /\ t[x] = s[x]
      BY <1>1, <1>5, <2>1
    <3> QED BY <1>4, <2>1, <3>1 DEF Orderly
  <2>2. CASE y = Len(s) + 1 /\ t[y] = g
    <3>1. CASE x \in 1..Len(s) /\ t[x] = s[x]
      BY <2>2, <3>1 DEF s
    <3>2. CASE t[x] = g
      BY <2>2, <3>2 DEF InstantOf
    <3> QED BY <1>5, <3>1, <3>2
  <2> QED BY <1>5, <2>1, <2>2
<1>8. Orderly(t)
  BY <1>3, <1>6, <1>7, Zenon DEF Orderly
<1>9. Ledger' = t /\ IsSeq(played)' /\ IsSeq(tape)'
  BY <1>2 DEF Ledger, t, more, LedgerKept
<1> QED BY <1>8, <1>9 DEF LedgerKept

\* One instant replayed: the ledger is the same.
LEMMA LedgerSame ==
    ASSUME LedgerKept, tape # <<>>, tape' = Tail(tape), played' = Append(played, Head(tape))
    PROVE  /\ LedgerKept' /\ InstantOf(Head(tape)) /\ Now <= Head(tape).when /\ Now \in Nat
           /\ Now' = Head(tape).when
<1> DEFINE a == Len(played)
           b == Len(tape)
           g == Head(tape)
           more == Append(played, g)
           less == Tail(tape)
           s == Ledger
           t == more \o less
<1>1. /\ a \in Nat /\ b \in Nat /\ Len(s) = a + b
      /\ \A x \in 1..a : s[x] = played[x]
      /\ \A x \in 1..b : s[a + x] = tape[x]
  BY LedgerIs
<1>2. IsSeq(more) /\ Len(more) = a + 1 /\ (\A i \in 1..a : more[i] = played[i]) /\ more[a + 1] = g
  BY AppendOf DEF LedgerKept
<1>3. IsSeq(less) /\ Len(less) = b - 1 /\ b > 0 /\ g = tape[1] /\ \A i \in 1..(b - 1) : less[i] = tape[i + 1]
  BY TailOf DEF LedgerKept
<1>4. /\ IsSeq(t) /\ Len(t) = Len(more) + Len(less)
      /\ \A x \in 1..Len(more) : t[x] = more[x]
      /\ \A x \in 1..Len(less) : t[Len(more) + x] = less[x]
  <2>1. IsSeq(more) /\ IsSeq(less)
    BY <1>2, <1>3
  <2> HIDE DEF more, less
  <2> QED BY <2>1, ConcatOf
<1>5. Orderly(s)
  BY DEF LedgerKept
<1>6. Ledger' = t /\ IsSeq(played)' /\ IsSeq(tape)' /\ played' = more
  BY <1>2, <1>3 DEF Ledger, LedgerKept
<1>7. Now = IF a = 0 THEN 0 ELSE played[a].when
  BY DEF Now
<1> HIDE DEF t, s, a, b, more, less, g
<1>8. ASSUME NEW x \in 1..Len(t) PROVE x \in 1..Len(s) /\ t[x] = s[x]
  <2>1. CASE x \in 1..a
    BY <1>1, <1>2, <1>3, <1>4, <2>1
  <2>2. CASE x = a + 1
    <3>1. 1 \in 1..b /\ a + 1 \in 1..Len(more) /\ a + 1 \in 1..Len(s)
      BY <1>1, <1>2, <1>3
    <3>2. s[a + 1] = tape[1] /\ t[a + 1] = more[a + 1]
      BY <1>1, <1>4, <3>1
    <3> QED BY <1>2, <1>3, <2>2, <3>1, <3>2
  <2>3. CASE x \in a + 2 .. a + b
    <3> DEFINE y == x - (a + 1)
    <3>1. /\ y \in 1..Len(less) /\ y \in 1..(b - 1) /\ Len(more) + y = x
          /\ y + 1 \in 1..b /\ a + (y + 1) = x /\ x \in 1..Len(s)
      BY <1>1, <1>2, <1>3, <2>3
    <3> HIDE DEF y
    <3>2. t[x] = less[y] /\ less[y] = tape[y + 1] /\ s[x] = tape[y + 1]
      BY <1>1, <1>3, <1>4, <3>1
    <3> QED BY <3>1, <3>2
  <2> QED BY <1>1, <1>2, <1>3, <1>4, <2>1, <2>2, <2>3
<1>9. Orderly(t)
  <2>1. \A x \in 1..Len(t) : InstantOf(t[x])
    BY <1>5, <1>8, Zenon DEF Orderly
  <2>2. \A x, y \in 1..Len(t) : x <= y => t[x].when <= t[y].when
    BY <1>5, <1>8, Zenon DEF Orderly
  <2> QED BY <1>4, <2>1, <2>2, Zenon DEF Orderly
<1>10. LedgerKept'
  BY <1>6, <1>9 DEF LedgerKept
<1>11. a + 1 \in 1..Len(s) /\ s[a + 1] = g /\ InstantOf(g)
  <2>1. 1 \in 1..b /\ a + 1 \in 1..Len(s)
    BY <1>1, <1>3
  <2>2. s[a + 1] = g
    BY <1>1, <1>3, <2>1
  <2> QED BY <1>5, <2>1, <2>2, Zenon DEF Orderly
<1>12. Now <= g.when /\ Now \in Nat
  <2>1. CASE a = 0
    BY <1>7, <1>11, <2>1 DEF InstantOf
  <2>2. CASE a # 0
    <3>1. a \in 1..a /\ a \in 1..Len(s) /\ a <= a + 1
      BY <1>1, <2>2
    <3>2. played[a] = s[a]
      BY <1>1, <3>1
    <3>3. InstantOf(s[a]) /\ s[a].when <= s[a + 1].when
      BY <1>5, <1>11, <3>1 DEF Orderly
    <3> QED BY <1>7, <1>11, <2>2, <3>2, <3>3 DEF InstantOf
  <2> QED BY <2>1, <2>2
<1>13. Now' = g.when
  <2>1. Now' = IF Len(more) = 0 THEN 0 ELSE more[Len(more)].when
    BY <1>6 DEF Now
  <2> QED BY <1>1, <1>2, <2>1
<1> QED BY <1>10, <1>11, <1>12, <1>13 DEF g

(***************************************************************************)
(* The replay                                                              *)
(***************************************************************************)
JournalsInv == scene \in Scene /\ LedgerKept /\ Now \in Nat /\ Fine(ctx, Now)

LEMMA JournalsInit ==
    ASSUME Init
    PROVE  JournalsInv
<1>1. IsSeq(<<>>) /\ Len(<<>>) = 0
  <2>1. Lists(<<>>, 0)
    BY DEF Lists
  <2> QED BY <2>1, SeqFrom
<1>2. played = <<>> /\ tape = <<>> /\ scene \in Scene /\ ctx = NewContext(Active(scene))
  BY DEF Init
<1>3. IsSeq(<<>> \o <<>>) /\ Len(<<>> \o <<>>) = 0
  BY <1>1, ConcatOf
<1>4. LedgerKept
  BY <1>1, <1>2, <1>3 DEF LedgerKept, Orderly, Ledger
<1>5. Now = 0
  BY <1>1, <1>2 DEF Now
<1>6. /\ IsContext(ctx) /\ ctx.book = <<>> /\ ctx.rows = <<>> /\ ctx.exitLog = <<>>
      /\ ctx.budget = <<>> /\ ctx.closed = <<>>
  BY <1>2 DEF NewContext, IsContext, ContextFields
<1>8. Budgeted(ctx)
  <2>1. DOMAIN <<>> = {}
    OBVIOUS
  <2> QED BY <1>6, <2>1 DEF Budgeted
<1>7. Fine(ctx, Now)
  BY <1>1, <1>6, <1>8 DEF Fine, Purchased
<1> QED BY <1>2, <1>4, <1>5, <1>7 DEF JournalsInv

LEMMA ReadKeeps ==
    ASSUME JournalsInv, Read
    PROVE  JournalsInv'
<1> DEFINE known == played \o tape
<1>1. PICK i \in Instants(scene), gap \in Gaps(scene) :
        LET when == IF known = <<>> THEN gap ELSE Last(known).when + gap
            cash == SelectSeq(i.txs, LAMBDA tx : tx.q = 0)
        IN  /\ tape' = Append(tape, [when |-> when, event |-> i.event, txs |-> i.txs])
            /\ ctx' = [ctx EXCEPT !.settlements = @ \o
                        [k \in DOMAIN cash |-> [contract |-> cash[k].contract, when |-> when,
                                                amount |-> cash[k].price]]]
  BY Zenon DEF Read
<1> DEFINE when == IF known = <<>> THEN gap ELSE Last(known).when + gap
           cash == SelectSeq(i.txs, LAMBDA tx : tx.q = 0)
           reported == [k \in DOMAIN cash |-> [contract |-> cash[k].contract, when |-> when,
                                               amount |-> cash[k].price]]
           g == [when |-> when, event |-> i.event, txs |-> i.txs]
           more == ctx.settlements \o reported
<1>2. tape' = Append(tape, g)
  BY <1>1, Zenon
<1>3. ctx' = [ctx EXCEPT !.settlements = more]
  BY <1>1
<1>4. played' = played /\ scene' = scene
  BY DEF Read
<1>5. scene \in Scene /\ LedgerKept /\ Fine(ctx, Now) /\ Now \in Nat
  BY DEF JournalsInv
<1>6. /\ gap \in Nat /\ Len(i.txs) \in Nat /\ DOMAIN i.txs = 1..Len(i.txs)
      /\ IsEvent(i.event) /\ \A k \in 1..Len(i.txs) : IsTrade(i.txs[k])
  BY <1>5, JournalsAssumption
<1>7. when \in Nat /\ \A x \in 1..Len(Ledger) : Ledger[x].when <= when
  <2> DEFINE n == Len(known)
  <2>1. Ledger = known /\ Orderly(known)
    BY <1>5 DEF Ledger, LedgerKept
  <2>2. n \in Nat /\ known = [x \in 1..n |-> known[x]]
    BY <2>1 DEF Orderly, IsSeq, Lists
  <2>3. CASE n = 0
    <3>1. known = <<>>
      <4> HIDE DEF known, n
      <4>1. known = [x \in 1..0 |-> known[x]]
        BY <2>2, <2>3
      <4>2. 1..0 = {}
        OBVIOUS
      <4>3. known = [x \in {} |-> known[x]]
        BY <4>1, <4>2
      <4> QED BY <4>3
    <3>2. when = gap
      BY <3>1
    <3> HIDE DEF when, known
    <3> QED BY <1>6, <2>1, <2>3, <3>2 DEF n
  <2>4. CASE n # 0
    <3>1. known # <<>>
      <4> HIDE DEF known
      <4>1. Len(<<>>) = 0
        OBVIOUS
      <4> QED BY <2>4, <4>1 DEF n
    <3>2. when = known[n].when + gap
      BY <3>1 DEF Last
    <3> HIDE DEF when, known, n
    <3>3. n \in 1..n
      BY <2>2, <2>4
    <3>4. known[n].when \in Nat /\ \A x \in 1..n : known[x].when \in Nat /\ known[x].when <= known[n].when
      <4>1. \A x \in 1..n : InstantOf(known[x])
        BY <2>1, Zenon DEF Orderly, n
      <4>2. \A x, y \in 1..n : x <= y => known[x].when <= known[y].when
        BY <2>1, Zenon DEF Orderly, n
      <4>3. \A x \in 1..n : x <= n
        BY <2>2
      <4> QED BY <3>3, <4>1, <4>2, <4>3, Zenon DEF InstantOf
    <3>5. when \in Nat /\ \A x \in 1..n : known[x].when <= when
      BY <1>6, <3>2, <3>4
    <3> QED BY <2>1, <3>5 DEF n
  <2> QED BY <2>3, <2>4
<1>8. InstantOf(g) /\ g.when = when
  <2> HIDE DEF when
  <2> QED BY <1>6, <1>7 DEF InstantOf, Traded
<1> HIDE DEF g, when, more, known
<1>9. LedgerKept'
  BY <1>2, <1>4, <1>5, <1>7, <1>8, LedgerLonger
<1>10. IsContext(ctx)
  BY <1>5 DEF Fine
<1>11. /\ IsContext(ctx') /\ ctx'.book = ctx.book /\ ctx'.rows = ctx.rows
       /\ ctx'.exitLog = ctx.exitLog /\ ctx'.budget = ctx.budget /\ ctx'.closed = ctx.closed
  BY <1>3, <1>10 DEF IsContext, ContextFields
<1>12. IsSeq(ctx.rows) /\ IsSeq(ctx.exitLog) /\ Grown(ctx, ctx')
  <2>1. Grown(ctx, ctx)
    BY <1>5, GrownSame, Zenon
  <2> QED BY <1>5, <1>11, <2>1 DEF Grown, Fine
<1>13. Fine(ctx', Now)
  <2>1. IsSeq(ctx'.rows) /\ IsSeq(ctx'.exitLog)
    BY <1>11, <1>12
  <2>2. Budgeted(ctx')
    BY <1>5, <1>11, Zenon DEF Budgeted, Fine
  <2> QED BY <1>5, <1>11, <1>12, <2>1, <2>2, FineLater, Zenon
<1>14. Now' = Now
  BY <1>4 DEF Now
<1>15. Fine(ctx, Now)'
  BY <1>13, <1>14
<1> QED BY <1>4, <1>5, <1>9, <1>14, <1>15 DEF JournalsInv

LEMMA ReplayKeeps ==
    ASSUME JournalsInv, Replay
    PROVE  JournalsInv'
<1> DEFINE g == Head(tape)
           c == ApplyEvent(ctx, g.event, g.when)
           claims == Claims(c.book, g)
           options == OptionsReplayed(c, g, claims)
           opened == ClassifyOpenings(options.ctx, options.openings, g.when)
<1>1. /\ tape # <<>> /\ tape' = Tail(tape) /\ played' = Append(played, g) /\ scene' = scene
      /\ ctx' = StocksReplayed(opened, g, claims)
  BY Zenon DEF Replay
<1>2. scene \in Scene /\ LedgerKept /\ Fine(ctx, Now)
  BY DEF JournalsInv
<1>3. LedgerKept' /\ InstantOf(g) /\ Now <= g.when /\ Now \in Nat /\ Now' = g.when
  BY <1>1, <1>2, LedgerSame
<1>4. Known
  BY <1>2, LedgerIs
<1>5. g.when \in Int /\ Now \in Int /\ Traded(g) /\ IsEvent(g.event)
  BY <1>3 DEF InstantOf
<1> HIDE DEF g, c, claims, options, opened
<1>6. Fine(ctx, g.when)
  BY <1>2, <1>3, <1>5, FineSince, Zenon
<1>7. Fine(c, g.when)
  BY <1>5, <1>6, ApplyEventFine DEF c
<1>14. AllMeasured(c.book)
  BY <1>7, FineMeasured, Zenon
<1>8. Shaped(g, claims)
  BY <1>5, <1>14, ClaimsShaped, Zenon DEF claims
<1>9. Fine(options.ctx, g.when) /\ AreOpenings(options.openings)
  BY <1>5, <1>7, <1>8, OptionsFine DEF options
<1>10. Fine(opened, g.when)
  BY <1>5, <1>9, ClassifiedFine, Zenon DEF opened
<1>11. Fine(ctx', g.when)
  BY <1>1, <1>4, <1>5, <1>10, StocksFine, Zenon
<1>12. Fine(ctx, Now)'
  BY <1>3, <1>11
<1>13. Now' \in Nat
  BY <1>3 DEF InstantOf
<1> QED BY <1>1, <1>2, <1>3, <1>12, <1>13 DEF JournalsInv

\* What every replay keeps of its ledger and its context: the instants in
\* order, and a context in which each lot is in the order of its purchase and
\* says of its delivery what the rows say (replay.ts).
THEOREM JournalsStayFine == Spec => []JournalsInv
<1>1. Init => JournalsInv
  BY JournalsInit
<1>2. JournalsInv /\ [Next]_vars => JournalsInv'
  <2> SUFFICES ASSUME JournalsInv, [Next]_vars PROVE JournalsInv'
    OBVIOUS
  <2>1. CASE Read
    BY <2>1, ReadKeeps
  <2>2. CASE Replay
    BY <2>2, ReplayKeeps
  <2>3. CASE UNCHANGED vars
    <3>1. /\ scene' = scene /\ tape' = tape /\ played' = played /\ ctx' = ctx
      BY <2>3 DEF vars
    <3>2. Now' = Now /\ (LedgerKept <=> LedgerKept')
      BY <3>1 DEF Now, LedgerKept, Ledger
    <3>3. Fine(ctx, Now)'
      BY <3>1, <3>2 DEF JournalsInv
    <3> QED BY <3>1, <3>2, <3>3 DEF JournalsInv
  <2> QED BY <2>1, <2>2, <2>3 DEF Next
<1> QED BY <1>1, <1>2, PTL DEF Spec

\* No takeover, no split of a lot, no conversion and no merger leaves two open
\* lots of a contract in another order than that of their purchase (LotBook of
\* lots.ts, which the FIFO closes rely on).
THEOREM LotsStayOldestFirst == Spec => []OldestFirst
<1>1. JournalsInv => OldestFirst
  <2> SUFFICES ASSUME JournalsInv PROVE OldestFirst
    OBVIOUS
  <2>1. Purchased(ctx.book) /\ DOMAIN ctx.book = 1..Len(ctx.book)
    BY DEF JournalsInv, Fine, IsSeq, Lists
  <2> QED BY <2>1, Zenon DEF OldestFirst, Purchased
<1> QED BY <1>1, JournalsStayFine, PTL

\* The row of a put assigned or of a call exercised is ongoing exactly while
\* some lot it delivered is open, whatever has cut, moved or renamed that lot
\* since (deliverShares, takeOver and move of the replay).
THEOREM DeliveriesStayOngoing == Spec => []OngoingWhileHeld
<1>1. JournalsInv => OngoingWhileHeld
  <2> SUFFICES ASSUME JournalsInv PROVE OngoingWhileHeld
    OBVIOUS
  <2> DEFINE held(when) == \E lot \in ToSet(ctx.book) :
                                IsOpen(lot) /\ <<when, "delivery">> \in lot.openIds
             ofLeg(when) == \E x \in DOMAIN ctx.exitLog :
                                /\ Settled(ctx.exitLog[x].exit.event)
                                /\ ctx.exitLog[x].exit.when = when
  <2>1. /\ DOMAIN ctx.book = 1..Len(ctx.book) /\ DOMAIN ctx.rows = 1..Len(ctx.rows)
        /\ DOMAIN ctx.exitLog = 1..Len(ctx.exitLog)
    BY DEF JournalsInv, Fine, IsSeq, Lists
  <2>2. \A lot \in ToSet(ctx.book) : Told(ctx.rows, ctx.exitLog, lot)
    <3>1. \A j \in 1..Len(ctx.book) : Told(ctx.rows, ctx.exitLog, ctx.book[j])
      BY Zenon DEF JournalsInv, Fine, LotOf
    <3>2. ToSet(ctx.book) = {ctx.book[j] : j \in DOMAIN ctx.book}
      BY DEF ToSet
    <3> QED BY <2>1, <3>1, <3>2, Zenon
  <2>3. ASSUME NEW r \in DOMAIN ctx.rows, Ongoing(r) PROVE held(ctx.rows[r].endWhen)
    <3>1. PICK lot \in ToSet(ctx.book) : IsOpen(lot) /\ r \in lot.delivered
      BY <2>3, Zenon DEF Ongoing
    <3>2. <<ctx.rows[r].endWhen, "delivery">> \in lot.openIds
      BY <2>2, <3>1, Zenon DEF Told
    <3> QED BY <3>1, <3>2, Zenon
  <2>4. ASSUME NEW when, held(when)
        PROVE  \/ ofLeg(when)
               \/ \E r \in DOMAIN ctx.rows :
                     Ongoing(r) /\ Settled(ctx.rows[r].event) /\ ctx.rows[r].endWhen = when
    <3>1. PICK lot \in ToSet(ctx.book) : IsOpen(lot) /\ <<when, "delivery">> \in lot.openIds
      BY <2>4, Zenon
    <3>2. Told(ctx.rows, ctx.exitLog, lot)
      BY <2>2
    <3>3. CASE LegAt(ctx.exitLog, when)
      BY <2>1, <3>3, Zenon DEF LegAt
    <3>4. CASE \E r \in lot.delivered : Settled(ctx.rows[r].event) /\ ctx.rows[r].endWhen = when
      <4>1. PICK r \in lot.delivered : Settled(ctx.rows[r].event) /\ ctx.rows[r].endWhen = when
        BY <3>4
      <4>2. r \in DOMAIN ctx.rows
        BY <2>1, <3>2, Zenon DEF Told
      <4>3. Ongoing(r)
        BY <3>1, Zenon DEF Ongoing
      <4> QED BY <4>1, <4>2, <4>3, Zenon
    <3> QED BY <3>1, <3>2, <3>3, <3>4, Zenon DEF Told
  <2>5. /\ \A r \in DOMAIN ctx.rows : Ongoing(r) => held(ctx.rows[r].endWhen)
        /\ \A i \in ToSet(played) :
                held(i.when) => \/ ofLeg(i.when)
                                \/ \E r \in DOMAIN ctx.rows :
                                        /\ Ongoing(r) /\ Settled(ctx.rows[r].event)
                                        /\ ctx.rows[r].endWhen = i.when
    <3> HIDE DEF held, ofLeg
    <3> QED BY <2>3, <2>4, Zenon
  <2> QED BY <2>5, Zenon DEF OngoingWhileHeld
<1> QED BY <1>1, JournalsStayFine, PTL

(***************************************************************************)
(* The cover of the positions                                              *)
(***************************************************************************)
\* What the engine computes of any portfolio gives nothing twice: no contract
\* held gives more than is held, and what an option sold is given and lacks
\* make its quantity (computeCoverage of coverage.ts).
THEOREM PortfolioCoveredOnce ==
    ASSUME NEW P, IsPortfolio(P)
    PROVE  NeverUsedTwice(P, ComputeCoverage(P))
<1> DEFINE s == ComputeCoverage(P)
<1>1. Accounted(P, s)
  BY ComputeCoverageKeeps
<1> HIDE DEF s
<1>2. ASSUME NEW c \in DOMAIN P
      PROVE  IF P[c] > 0 THEN UsedQuantity(s, c) <= P[c]
             ELSE ~IsStock(c) => CoveredBy(s, c, {"cash", "stock", "leaps", "spread"})
                                    + UncoveredQuantity(s, c) = -P[c]
  <2>1. FreeOrUsed(P, s, c) /\ CoveredOrLacking(P, s, c) /\ P[c] \in Int /\ s.free[c] \in Nat
    BY <1>1 DEF Accounted, CoverTypes, IsPortfolio
  <2>2. UsedQuantity(s, c) \in Int
    <3> DEFINE A == {a \in s.allocations : a.from = c /\ a.short # c}
    <3>1. Counted(A)
      BY <1>1, FS_Subset DEF Accounted, CoverTypes, Counted
    <3> HIDE DEF A
    <3>2. Counted({}) /\ A \cap {} = {} /\ A \cup {} = A
      BY FS_EmptySet DEF Counted
    <3>3. Quantity(A) \in Nat
      BY <3>1, <3>2, QuantityOfBoth
    <3> QED BY <3>3 DEF UsedQuantity, A
  <2>3. CASE P[c] > 0
    <3>1. s.free[c] + UsedQuantity(s, c) = P[c]
      BY <2>1, <2>3 DEF FreeOrUsed
    <3> QED BY <2>1, <2>2, <2>3, <3>1
  <2>4. CASE ~(P[c] > 0)
    <3>1. P[c] <= 0
      BY <2>1, <2>4
    <3>2. ~IsStock(c) => CoveredBy(s, c, Sources) + s.need[c] = -P[c]
      BY <2>1, <3>1 DEF CoveredOrLacking
    <3> QED BY <2>4, <3>2 DEF Sources, UncoveredQuantity
  <2> QED BY <2>3, <2>4
<1>3. NeverUsedTwice(P, s)
  BY <1>2 DEF NeverUsedTwice
<1> QED BY <1>3 DEF s

\* The positions of a book are a portfolio.
LEMMA PortfolioIs ==
    ASSUME NEW book, AllMeasured(book)
    PROVE  IsPortfolio(Portfolio(book))
<1> DEFINE lots == {lot.contract : lot \in ToSet(book)}
           held == {c \in lots : Position(book, c) # 0}
           P == Portfolio(book)
<1>1. P = [c \in held |-> Position(book, c)]
  BY DEF Portfolio
<1>2. Len(book) \in Nat /\ DOMAIN book = 1..Len(book)
  BY DEF AllMeasured, IsSeq, Lists
<1>3. lots = {book[i].contract : i \in 1..Len(book)}
  <2>1. ToSet(book) = {book[i] : i \in 1..Len(book)}
    BY <1>2 DEF ToSet
  <2> QED BY <2>1
<1>4. IsFiniteSet(lots)
  <2> DEFINE n == Len(book)
             f == [i \in 1..n |-> book[i].contract]
  <2>1. lots = {f[i] : i \in 1..n}
    BY <1>3
  <2>2. IsFiniteSet(1..n)
    BY <1>2, FS_Interval
  <2> HIDE DEF f, lots, n
  <2> QED BY <2>1, <2>2, FiniteImage
<1>5. \A c \in lots : IsContract(c)
  <2>1. \A i \in 1..Len(book) : IsContract(book[i].contract)
    BY Zenon DEF AllMeasured, Measured
  <2> QED BY <1>3, <2>1
<1>6. IsFiniteSet(held) /\ \A c \in held : IsContract(c)
  <2> HIDE DEF lots
  <2>1. held \subseteq lots
    OBVIOUS
  <2> QED BY <1>4, <1>5, <2>1, FS_Subset
<1>7. \A c \in held : Position(book, c) \in Int
  BY PositionIs, Zenon
<1> HIDE DEF held, P
<1> QED BY <1>1, <1>6, <1>7 DEF IsPortfolio, P

\* The cover shown beside the journals never counts twice, whatever was
\* replayed: the lots of every context are measured, so that its positions are
\* a portfolio (coverage.ts on the positions of the account).
THEOREM CoverIsNeverUsedTwice == Spec => []CoverNeverUsedTwice
<1>1. JournalsInv => CoverNeverUsedTwice
  <2> SUFFICES ASSUME JournalsInv PROVE CoverNeverUsedTwice
    OBVIOUS
  <2> DEFINE P == Portfolio(ctx.book)
  <2>1. AllMeasured(ctx.book)
    BY FineMeasured, Zenon DEF JournalsInv
  <2>2. IsPortfolio(P)
    BY <2>1, PortfolioIs, Zenon
  <2> HIDE DEF P
  <2>3. NeverUsedTwice(P, ComputeCoverage(P))
    BY <2>2, PortfolioCoveredOnce, Zenon
  <2> QED BY <2>3, Zenon DEF CoverNeverUsedTwice, P
<1> QED BY <1>1, JournalsStayFine, PTL

(***************************************************************************)
(* What the lots of a ticker add up to                                     *)
(***************************************************************************)
SharePart(lot, t) == IF IsShares(lot, t) THEN lot.remaining ELSE 0
WheelPart(lot, t) == IF IsWheelShares(lot, t) THEN lot.remaining ELSE 0
CallPart(lot, t) == IF IsShortCall(lot, t) /\ lot.cover = "shares" THEN Mag(lot.remaining) ELSE 0

ShareParts(book, t) == [i \in 1..Len(book) |-> SharePart(book[i], t)]
WheelParts(book, t) == [i \in 1..Len(book) |-> WheelPart(book[i], t)]
CallParts(book, t) == [i \in 1..Len(book) |-> CallPart(book[i], t)]

\* The sum so far is the total of the first k parts.
SumGood(p, q, parts, s, k, sum) == sum = TotalOver(parts, 1..k)
HeldSum == INSTANCE Folding WITH Op <- HeldStep, Good <- SumGood
OfWheelSum == INSTANCE Folding WITH Op <- OfWheelStep, Good <- SumGood
BackedSum == INSTANCE Folding WITH Op <- BackedStep, Good <- SumGood

LEMMA PartsAre ==
    ASSUME NEW lot, Measured(lot), NEW t
    PROVE  SharePart(lot, t) \in Nat /\ WheelPart(lot, t) \in Nat /\ CallPart(lot, t) \in Nat
<1>1. lot.remaining \in Int
  BY DEF Measured
<1> QED BY <1>1 DEF SharePart, WheelPart, CallPart, IsWheelShares, IsShares, Mag

LEMMA PartsOf ==
    ASSUME NEW book, AllMeasured(book), NEW t
    PROVE  /\ Len(book) \in Nat /\ IsFiniteSet(1..Len(book))
           /\ \A i \in 1..Len(book) : /\ ShareParts(book, t)[i] = SharePart(book[i], t)
                                      /\ WheelParts(book, t)[i] = WheelPart(book[i], t)
                                      /\ CallParts(book, t)[i] = CallPart(book[i], t)
           /\ IntegersOn(ShareParts(book, t), 1..Len(book))
           /\ IntegersOn(WheelParts(book, t), 1..Len(book))
           /\ IntegersOn(CallParts(book, t), 1..Len(book))
<1>1. Len(book) \in Nat /\ IsFiniteSet(1..Len(book))
  BY FS_Interval DEF AllMeasured, IsSeq
<1>2. \A i \in 1..Len(book) : /\ ShareParts(book, t)[i] = SharePart(book[i], t)
                              /\ WheelParts(book, t)[i] = WheelPart(book[i], t)
                              /\ CallParts(book, t)[i] = CallPart(book[i], t)
  BY DEF ShareParts, WheelParts, CallParts
<1>3. \A i \in 1..Len(book) : /\ SharePart(book[i], t) \in Nat /\ WheelPart(book[i], t) \in Nat
                              /\ CallPart(book[i], t) \in Nat
  BY PartsAre, Zenon DEF AllMeasured
<1>4. \A n \in Nat : n \in Int
  OBVIOUS
<1> QED BY <1>1, <1>2, <1>3, <1>4, Zenon DEF IntegersOn

LEMMA SharesHeldSum ==
    ASSUME NEW book, AllMeasured(book), NEW t
    PROVE  SharesHeld(book, t) = TotalOver(ShareParts(book, t), 1..Len(book))
<1> DEFINE n == Len(book)
           f == ShareParts(book, t)
<1>1. n \in Nat /\ DOMAIN book = 1..n
  BY DEF AllMeasured, IsSeq, Lists
<1>2. SharesHeld(book, t) = HeldSum!Folded(t, 0, f, 0, 0, book)
  <2> HIDE DEF f
  <2> QED BY DEF SharesHeld, SumOver, FoldLeft, MapThenFoldSet, Max, HeldSum!Folded, HeldStep
<1>3. SumGood(t, 0, f, 0, 0, 0)
  BY NoPlaces DEF SumGood
<1>4. ASSUME NEW acc, NEW k \in 1..n, SumGood(t, 0, f, 0, k - 1, acc)
      PROVE  SumGood(t, 0, f, 0, k, HeldStep(t, 0, f, 0, acc, book[k]))
  <2>1. /\ TotalOver(f, 1..k) = TotalOver(f, 1..(k - 1)) + f[k] /\ TotalOver(f, 1..(k - 1)) \in Int
        /\ f[k] = SharePart(book[k], t)
    BY <1>1, PartsOf, NextTotal, Zenon
  <2> HIDE DEF f
  <2> QED BY <1>4, <2>1 DEF HeldStep, SumGood, SharePart
<1> HIDE DEF n, f
<1>5. SumGood(t, 0, f, 0, n, HeldSum!Folded(t, 0, f, 0, 0, book))
  BY <1>1, <1>3, <1>4, HeldSum!FoldKeeps, LeastNatural, Zenon
<1> QED BY <1>2, <1>5 DEF SumGood, n, f

LEMMA WheelSharesSum ==
    ASSUME NEW book, AllMeasured(book), NEW t
    PROVE  WheelShares(book, t) = TotalOver(WheelParts(book, t), 1..Len(book))
<1> DEFINE n == Len(book)
           f == WheelParts(book, t)
<1>1. n \in Nat /\ DOMAIN book = 1..n
  BY DEF AllMeasured, IsSeq, Lists
<1>2. WheelShares(book, t) = OfWheelSum!Folded(t, 0, f, 0, 0, book)
  <2> HIDE DEF f
  <2> QED BY DEF WheelShares, SumOver, FoldLeft, MapThenFoldSet, Max, OfWheelSum!Folded, OfWheelStep
<1>3. SumGood(t, 0, f, 0, 0, 0)
  BY NoPlaces DEF SumGood
<1>4. ASSUME NEW acc, NEW k \in 1..n, SumGood(t, 0, f, 0, k - 1, acc)
      PROVE  SumGood(t, 0, f, 0, k, OfWheelStep(t, 0, f, 0, acc, book[k]))
  <2>1. /\ TotalOver(f, 1..k) = TotalOver(f, 1..(k - 1)) + f[k] /\ TotalOver(f, 1..(k - 1)) \in Int
        /\ f[k] = WheelPart(book[k], t)
    BY <1>1, PartsOf, NextTotal, Zenon
  <2> HIDE DEF f
  <2> QED BY <1>4, <2>1 DEF OfWheelStep, SumGood, WheelPart
<1> HIDE DEF n, f
<1>5. SumGood(t, 0, f, 0, n, OfWheelSum!Folded(t, 0, f, 0, 0, book))
  BY <1>1, <1>3, <1>4, OfWheelSum!FoldKeeps, LeastNatural, Zenon
<1> QED BY <1>2, <1>5 DEF SumGood, n, f

LEMMA CallsCoveredSum ==
    ASSUME NEW book, AllMeasured(book), NEW t
    PROVE  CallsCoveredBy(book, t, "shares") = TotalOver(CallParts(book, t), 1..Len(book))
<1> DEFINE n == Len(book)
           f == CallParts(book, t)
           x == "shares"
<1>1. n \in Nat /\ DOMAIN book = 1..n
  BY DEF AllMeasured, IsSeq, Lists
<1>2. CallsCoveredBy(book, t, x) = BackedSum!Folded(t, x, f, 0, 0, book)
  <2> HIDE DEF f, x
  <2> QED BY DEF CallsCoveredBy, SumOver, FoldLeft, MapThenFoldSet, Max, BackedSum!Folded, BackedStep
<1>3. SumGood(t, x, f, 0, 0, 0)
  BY NoPlaces DEF SumGood
<1>4. ASSUME NEW acc, NEW k \in 1..n, SumGood(t, x, f, 0, k - 1, acc)
      PROVE  SumGood(t, x, f, 0, k, BackedStep(t, x, f, 0, acc, book[k]))
  <2>1. /\ TotalOver(f, 1..k) = TotalOver(f, 1..(k - 1)) + f[k] /\ TotalOver(f, 1..(k - 1)) \in Int
        /\ f[k] = CallPart(book[k], t)
    BY <1>1, PartsOf, NextTotal, Zenon
  <2> HIDE DEF f
  <2> QED BY <1>4, <2>1 DEF BackedStep, SumGood, CallPart
<1> HIDE DEF n, f, x
<1>5. SumGood(t, x, f, 0, n, BackedSum!Folded(t, x, f, 0, 0, book))
  BY <1>1, <1>3, <1>4, BackedSum!FoldKeeps, LeastNatural, Zenon
<1> QED BY <1>2, <1>5 DEF SumGood, n, f, x

(***************************************************************************)
(* Calls that stay covered                                                 *)
(***************************************************************************)
\* Nothing that backs the calls of a ticker is lost, and no call is added.
Backs(book, d) ==
    \A t : /\ WheelShares(book, t) <= WheelShares(d, t)
           /\ CallsCoveredBy(d, t, "shares") <= CallsCoveredBy(book, t, "shares")
\* No more calls are uncovered than were.
LeavesBacked(book, d) == \A t : Uncovered(d, t) <= Uncovered(book, t)

LEMMA SumsAre ==
    ASSUME NEW book, AllMeasured(book), NEW t
    PROVE  /\ SharesHeld(book, t) \in Nat /\ WheelShares(book, t) \in Nat
           /\ CallsCoveredBy(book, t, "shares") \in Nat /\ WheelShares(book, t) <= SharesHeld(book, t)
<1> DEFINE S == 1..Len(book)
           f == ShareParts(book, t)
           g == WheelParts(book, t)
           h == CallParts(book, t)
<1>1. IsFiniteSet(S) /\ IntegersOn(f, S) /\ IntegersOn(g, S)
  BY PartsOf
<1>2. \A i \in S : /\ f[i] = SharePart(book[i], t) /\ g[i] = WheelPart(book[i], t)
                   /\ h[i] = CallPart(book[i], t) /\ Measured(book[i])
  BY PartsOf DEF AllMeasured
<1>3. \A i \in S : g[i] <= f[i]
  <2>1. \A i \in S : book[i].remaining \in Int
    BY <1>2, Zenon DEF Measured
  <2> HIDE DEF S, f, g
  <2> QED BY <1>2, <2>1 DEF SharePart, WheelPart, IsWheelShares, IsShares
<1>4. \A i \in S : f[i] \in Nat /\ g[i] \in Nat /\ h[i] \in Nat
  BY <1>2, PartsAre, Zenon
<1> HIDE DEF S, f, g, h
<1>5. TotalOver(f, S) \in Nat /\ TotalOver(g, S) \in Nat /\ TotalOver(h, S) \in Nat
  BY <1>1, <1>4, TotalIsNat, Zenon
<1>6. TotalOver(g, S) <= TotalOver(f, S)
  BY <1>1, <1>3, TotalRises, Zenon
<1>7. /\ SharesHeld(book, t) = TotalOver(f, S) /\ WheelShares(book, t) = TotalOver(g, S)
      /\ CallsCoveredBy(book, t, "shares") = TotalOver(h, S)
  BY SharesHeldSum, WheelSharesSum, CallsCoveredSum DEF f, g, h, S
<1> QED BY <1>5, <1>6, <1>7

LEMMA BacksLeaves ==
    ASSUME NEW book, AllMeasured(book), NEW d, AllMeasured(d), Backs(book, d)
    PROVE  LeavesBacked(book, d)
<1> SUFFICES ASSUME NEW t PROVE Uncovered(d, t) <= Uncovered(book, t)
  BY Zenon DEF LeavesBacked
<1> DEFINE w == WheelShares(book, t)
           v == WheelShares(d, t)
           c == CallsCoveredBy(book, t, "shares")
           e == CallsCoveredBy(d, t, "shares")
           p == PerContract
<1>1. w \in Nat /\ v \in Nat /\ c \in Nat /\ e \in Nat /\ w <= v /\ e <= c
  BY SumsAre, Zenon DEF Backs
<1>2. Uncovered(book, t) = Most(0, c * p - w) /\ Uncovered(d, t) = Most(0, e * p - v)
  BY DEF Uncovered
<1>3. p \in Nat
  BY PerContractAssumption
<1> HIDE DEF w, v, c, e, p
<1>4. PICK k \in Nat : c = e + k
  <2>1. c - e \in Nat /\ c = e + (c - e)
    BY <1>1
  <2> QED BY <2>1
<1>5. c * p = e * p + k * p /\ k * p \in Nat /\ e * p \in Nat
  BY <1>1, <1>3, <1>4
<1> QED BY <1>1, <1>2, <1>5 DEF Most

LEMMA LeavesOn ==
    ASSUME NEW b, AllMeasured(b), NEW d, AllMeasured(d), NEW e, AllMeasured(e),
           LeavesBacked(b, d), LeavesBacked(d, e)
    PROVE  LeavesBacked(b, e)
<1> SUFFICES ASSUME NEW t PROVE Uncovered(e, t) <= Uncovered(b, t)
  BY Zenon DEF LeavesBacked
<1>1. Uncovered(e, t) <= Uncovered(d, t) /\ Uncovered(d, t) <= Uncovered(b, t)
  BY Zenon DEF LeavesBacked
<1>2. \A x : AllMeasured(x) => Uncovered(x, t) \in Int
  <2> SUFFICES ASSUME NEW x, AllMeasured(x) PROVE Uncovered(x, t) \in Int
    OBVIOUS
  <2> DEFINE w == WheelShares(x, t)
             c == CallsCoveredBy(x, t, "shares")
  <2>1. w \in Nat /\ c \in Nat
    BY SumsAre, Zenon
  <2>2. Uncovered(x, t) = Most(0, c * PerContract - w)
    BY DEF Uncovered
  <2> HIDE DEF w, c
  <2>3. c * PerContract \in Int
    BY <2>1, PerContractAssumption
  <2> QED BY <2>1, <2>2, <2>3 DEF Most
<1>3. Uncovered(e, t) \in Int /\ Uncovered(d, t) \in Int /\ Uncovered(b, t) \in Int
  BY <1>2
<1> QED BY <1>1, <1>3

LEMMA LeavesSame == ASSUME NEW b, AllMeasured(b) PROVE LeavesBacked(b, b)
<1>1. Backs(b, b)
  <2>1. ASSUME NEW t PROVE WheelShares(b, t) \in Nat /\ CallsCoveredBy(b, t, "shares") \in Nat
    BY SumsAre, Zenon
  <2>2. \A x \in Nat : x <= x
    OBVIOUS
  <2> QED BY <2>1, <2>2, Zenon DEF Backs
<1> QED BY <1>1, BacksLeaves, Zenon

\* Lots that change where they stand.
LEMMA InPlaceBacks ==
    ASSUME NEW b, AllMeasured(b), NEW d, AllMeasured(d), Len(d) = Len(b),
           \A i \in 1..Len(b) : \A t : /\ WheelPart(b[i], t) <= WheelPart(d[i], t)
                                       /\ CallPart(d[i], t) <= CallPart(b[i], t)
    PROVE  Backs(b, d)
<1> SUFFICES ASSUME NEW t
             PROVE  /\ WheelShares(b, t) <= WheelShares(d, t)
                    /\ CallsCoveredBy(d, t, "shares") <= CallsCoveredBy(b, t, "shares")
  BY Zenon DEF Backs
<1> DEFINE S == 1..Len(b)
           f == WheelParts(b, t)
           g == WheelParts(d, t)
           h == CallParts(b, t)
           k == CallParts(d, t)
<1>1. /\ WheelShares(b, t) = TotalOver(f, S) /\ WheelShares(d, t) = TotalOver(g, S)
      /\ CallsCoveredBy(b, t, "shares") = TotalOver(h, S)
      /\ CallsCoveredBy(d, t, "shares") = TotalOver(k, S)
  BY WheelSharesSum, CallsCoveredSum
<1>2. IsFiniteSet(S) /\ IntegersOn(f, S) /\ IntegersOn(h, S) /\ IntegersOn(g, S) /\ IntegersOn(k, S)
  BY PartsOf
<1>3. \A i \in S : /\ f[i] = WheelPart(b[i], t) /\ h[i] = CallPart(b[i], t)
                   /\ g[i] = WheelPart(d[i], t) /\ k[i] = CallPart(d[i], t)
  BY PartsOf
<1>4. \A i \in S : f[i] <= g[i] /\ k[i] <= h[i]
  <2> HIDE DEF f, g, h, k
  <2> QED BY <1>3, Zenon
<1> HIDE DEF S, f, g, h, k
<1>5. TotalOver(f, S) <= TotalOver(g, S) /\ TotalOver(k, S) <= TotalOver(h, S)
  BY <1>2, <1>4, TotalRises, Zenon
<1> QED BY <1>1, <1>5, Zenon

\* One book after another.
Joined(e, b, d) ==
    /\ Len(e) = Len(b) + Len(d)
    /\ (\A i \in 1..Len(b) : e[i] = b[i]) /\ (\A i \in 1..Len(d) : e[Len(b) + i] = d[i])

SumsAdd(e, b, d, t) ==
    /\ SharesHeld(e, t) = SharesHeld(b, t) + SharesHeld(d, t)
    /\ WheelShares(e, t) = WheelShares(b, t) + WheelShares(d, t)
    /\ CallsCoveredBy(e, t, "shares") = CallsCoveredBy(b, t, "shares") + CallsCoveredBy(d, t, "shares")

LEMMA SumsOfBoth ==
    ASSUME NEW b, AllMeasured(b), NEW d, AllMeasured(d), NEW e, AllMeasured(e),
           Joined(e, b, d), NEW t
    PROVE  SumsAdd(e, b, d, t)
<1> DEFINE m == Len(b)
           n == Len(d)
<1>1. m \in Nat /\ n \in Nat
  BY PartsOf
<1>2. /\ \A i \in 1..Len(e) : /\ ShareParts(e, t)[i] = SharePart(e[i], t)
                              /\ WheelParts(e, t)[i] = WheelPart(e[i], t)
                              /\ CallParts(e, t)[i] = CallPart(e[i], t)
      /\ \A i \in 1..m : /\ ShareParts(b, t)[i] = SharePart(b[i], t)
                         /\ WheelParts(b, t)[i] = WheelPart(b[i], t)
                         /\ CallParts(b, t)[i] = CallPart(b[i], t)
      /\ \A i \in 1..n : /\ ShareParts(d, t)[i] = SharePart(d[i], t)
                         /\ WheelParts(d, t)[i] = WheelPart(d[i], t)
                         /\ CallParts(d, t)[i] = CallPart(d[i], t)
  BY PartsOf
<1>3. /\ IntegersOn(ShareParts(b, t), 1..m) /\ IntegersOn(ShareParts(d, t), 1..n)
      /\ IntegersOn(WheelParts(b, t), 1..m) /\ IntegersOn(WheelParts(d, t), 1..n)
      /\ IntegersOn(CallParts(b, t), 1..m) /\ IntegersOn(CallParts(d, t), 1..n)
  BY PartsOf
<1>4. /\ SharesHeld(e, t) = TotalOver(ShareParts(e, t), 1..(m + n))
      /\ SharesHeld(b, t) = TotalOver(ShareParts(b, t), 1..m)
      /\ SharesHeld(d, t) = TotalOver(ShareParts(d, t), 1..n)
  BY SharesHeldSum DEF Joined
<1>5. /\ WheelShares(e, t) = TotalOver(WheelParts(e, t), 1..(m + n))
      /\ WheelShares(b, t) = TotalOver(WheelParts(b, t), 1..m)
      /\ WheelShares(d, t) = TotalOver(WheelParts(d, t), 1..n)
  BY WheelSharesSum DEF Joined
<1>6. /\ CallsCoveredBy(e, t, "shares") = TotalOver(CallParts(e, t), 1..(m + n))
      /\ CallsCoveredBy(b, t, "shares") = TotalOver(CallParts(b, t), 1..m)
      /\ CallsCoveredBy(d, t, "shares") = TotalOver(CallParts(d, t), 1..n)
  BY CallsCoveredSum DEF Joined
<1>7. (\A i \in 1..m : i \in 1..Len(e)) /\ (\A i \in 1..n : m + i \in 1..Len(e))
  BY <1>1 DEF Joined
<1>70. (\A i \in 1..m : e[i] = b[i]) /\ (\A i \in 1..n : e[m + i] = d[i])
  BY DEF Joined
<1> HIDE DEF m, n
<1>8. TotalOver(ShareParts(e, t), 1..(m + n))
        = TotalOver(ShareParts(b, t), 1..m) + TotalOver(ShareParts(d, t), 1..n)
  <2>1. /\ \A i \in 1..m : ShareParts(e, t)[i] = ShareParts(b, t)[i]
        /\ \A i \in 1..n : ShareParts(e, t)[m + i] = ShareParts(d, t)[i]
    BY <1>2, <1>7, <1>70, Zenon
  <2> DEFINE f == ShareParts(b, t)
             g == ShareParts(d, t)
             h == ShareParts(e, t)
  <2>2. IntegersOn(f, 1..m) /\ IntegersOn(g, 1..n)
    BY <1>3
  <2> HIDE DEF f, g, h
  <2>3. (\A i \in 1..m : h[i] = f[i]) /\ (\A i \in 1..n : h[m + i] = g[i])
    BY <2>1 DEF f, g, h
  <2>4. TotalOver(h, 1..(m + n)) = TotalOver(f, 1..m) + TotalOver(g, 1..n)
    BY <1>1, <2>2, <2>3, TotalInTwo, SMTT(30)
  <2> QED BY <2>4 DEF f, g, h
<1>9. TotalOver(WheelParts(e, t), 1..(m + n))
        = TotalOver(WheelParts(b, t), 1..m) + TotalOver(WheelParts(d, t), 1..n)
  <2>1. /\ \A i \in 1..m : WheelParts(e, t)[i] = WheelParts(b, t)[i]
        /\ \A i \in 1..n : WheelParts(e, t)[m + i] = WheelParts(d, t)[i]
    BY <1>2, <1>7, <1>70, Zenon
  <2> DEFINE f == WheelParts(b, t)
             g == WheelParts(d, t)
             h == WheelParts(e, t)
  <2>2. IntegersOn(f, 1..m) /\ IntegersOn(g, 1..n)
    BY <1>3
  <2> HIDE DEF f, g, h
  <2>3. (\A i \in 1..m : h[i] = f[i]) /\ (\A i \in 1..n : h[m + i] = g[i])
    BY <2>1 DEF f, g, h
  <2>4. TotalOver(h, 1..(m + n)) = TotalOver(f, 1..m) + TotalOver(g, 1..n)
    BY <1>1, <2>2, <2>3, TotalInTwo, SMTT(30)
  <2> QED BY <2>4 DEF f, g, h
<1>10. TotalOver(CallParts(e, t), 1..(m + n))
         = TotalOver(CallParts(b, t), 1..m) + TotalOver(CallParts(d, t), 1..n)
  <2>1. /\ \A i \in 1..m : CallParts(e, t)[i] = CallParts(b, t)[i]
        /\ \A i \in 1..n : CallParts(e, t)[m + i] = CallParts(d, t)[i]
    BY <1>2, <1>7, <1>70, Zenon
  <2> DEFINE f == CallParts(b, t)
             g == CallParts(d, t)
             h == CallParts(e, t)
  <2>2. IntegersOn(f, 1..m) /\ IntegersOn(g, 1..n)
    BY <1>3
  <2> HIDE DEF f, g, h
  <2>3. (\A i \in 1..m : h[i] = f[i]) /\ (\A i \in 1..n : h[m + i] = g[i])
    BY <2>1 DEF f, g, h
  <2>4. TotalOver(h, 1..(m + n)) = TotalOver(f, 1..m) + TotalOver(g, 1..n)
    BY <1>1, <2>2, <2>3, TotalInTwo, SMTT(30)
  <2> QED BY <2>4 DEF f, g, h
<1> QED BY <1>4, <1>5, <1>6, <1>8, <1>9, <1>10, Zenon DEF SumsAdd

LEMMA SumsOfOne ==
    ASSUME NEW lot, Measured(lot), NEW t
    PROVE  /\ AllMeasured(<<lot>>) /\ Len(<<lot>>) = 1 /\ <<lot>>[1] = lot
           /\ SharesHeld(<<lot>>, t) = SharePart(lot, t) /\ WheelShares(<<lot>>, t) = WheelPart(lot, t)
           /\ CallsCoveredBy(<<lot>>, t, "shares") = CallPart(lot, t)
<1> DEFINE b == <<lot>>
<1>1. Len(b) = 1 /\ b[1] = lot /\ Lists(b, 1)
  BY DEF Lists
<1> HIDE DEF b
<1>2. AllMeasured(b)
  <2>1. IsSeq(b) /\ \A i \in 1..1 : b[i] = lot
    BY <1>1 DEF IsSeq
  <2> QED BY <1>1, <2>1 DEF AllMeasured
<1>3. \A f : IntegersOn(f, 1..1) => TotalOver(f, 1..1) = f[1]
  <2> SUFFICES ASSUME NEW f, IntegersOn(f, 1..1) PROVE TotalOver(f, 1..1) = f[1]
    OBVIOUS
  <2>1. TotalOver(f, 1..1) = TotalOver(f, 1..(1 - 1)) + f[1]
    <3>1. 1 \in Nat /\ 1 \in 1..1
      OBVIOUS
    <3> QED BY <3>1, NextTotal, Zenon
  <2>2. TotalOver(f, 1..(1 - 1)) = 0
    <3>1. 1 - 1 = 0
      OBVIOUS
    <3> QED BY <3>1, NoPlaces, Zenon
  <2>3. f[1] \in Int
    BY DEF IntegersOn
  <2> QED BY <2>1, <2>2, <2>3
<1>4. 1 \in 1..1
  OBVIOUS
<1>5. SharesHeld(b, t) = SharePart(lot, t)
  <2> DEFINE f == ShareParts(b, t)
  <2>1. IntegersOn(f, 1..1) /\ f[1] = SharePart(b[1], t)
    BY <1>1, <1>2, <1>4, PartsOf
  <2>2. TotalOver(f, 1..Len(b)) = f[1]
    <3> HIDE DEF f
    <3> QED BY <1>1, <1>3, <2>1
  <2> QED BY <1>1, <1>2, <2>1, <2>2, SharesHeldSum
<1>6. WheelShares(b, t) = WheelPart(lot, t)
  <2> DEFINE f == WheelParts(b, t)
  <2>1. IntegersOn(f, 1..1) /\ f[1] = WheelPart(b[1], t)
    BY <1>1, <1>2, <1>4, PartsOf
  <2>2. TotalOver(f, 1..Len(b)) = f[1]
    <3> HIDE DEF f
    <3> QED BY <1>1, <1>3, <2>1
  <2> QED BY <1>1, <1>2, <2>1, <2>2, WheelSharesSum
<1>7. CallsCoveredBy(b, t, "shares") = CallPart(lot, t)
  <2> DEFINE f == CallParts(b, t)
  <2>1. IntegersOn(f, 1..1) /\ f[1] = CallPart(b[1], t)
    BY <1>1, <1>2, <1>4, PartsOf
  <2>2. TotalOver(f, 1..Len(b)) = f[1]
    <3> HIDE DEF f
    <3> QED BY <1>1, <1>3, <2>1
  <2> QED BY <1>1, <1>2, <2>1, <2>2, CallsCoveredSum
<1> QED BY <1>1, <1>2, <1>5, <1>6, <1>7 DEF b

\* One lot more.
LEMMA SumsOfMore ==
    ASSUME NEW b, AllMeasured(b), NEW lot, Measured(lot), NEW t
    PROVE  /\ AllMeasured(Append(b, lot))
           /\ SharesHeld(Append(b, lot), t) = SharesHeld(b, t) + SharePart(lot, t)
           /\ WheelShares(Append(b, lot), t) = WheelShares(b, t) + WheelPart(lot, t)
           /\ CallsCoveredBy(Append(b, lot), t, "shares") = CallsCoveredBy(b, t, "shares") + CallPart(lot, t)
<1> DEFINE e == Append(b, lot)
           one == <<lot>>
           m == Len(b)
<1>1. m \in Nat /\ IsSeq(b) /\ \A i \in 1..m : Measured(b[i])
  BY DEF AllMeasured, IsSeq
<1>2. IsSeq(e) /\ Len(e) = m + 1 /\ (\A i \in 1..m : e[i] = b[i]) /\ e[m + 1] = lot
  BY <1>1, AppendOf, ZenonT(30)
<1> HIDE DEF e, m
<1>3. \A i \in 1..Len(e) : i \in 1..m \/ i = m + 1
  BY <1>1, <1>2
<1>4. AllMeasured(e)
  BY <1>1, <1>2, <1>3, Zenon DEF AllMeasured
<1>5. /\ AllMeasured(one) /\ Len(one) = 1 /\ one[1] = lot
      /\ SharesHeld(one, t) = SharePart(lot, t) /\ WheelShares(one, t) = WheelPart(lot, t)
      /\ CallsCoveredBy(one, t, "shares") = CallPart(lot, t)
  BY SumsOfOne, Zenon
<1> HIDE DEF one
<1>6. \A i \in 1..Len(one) : e[m + i] = one[i]
  BY <1>2, <1>5
<1>7. /\ SharesHeld(e, t) = SharesHeld(b, t) + SharesHeld(one, t)
      /\ WheelShares(e, t) = WheelShares(b, t) + WheelShares(one, t)
      /\ CallsCoveredBy(e, t, "shares") = CallsCoveredBy(b, t, "shares") + CallsCoveredBy(one, t, "shares")
  <2>1. Joined(e, b, one)
    BY <1>2, <1>5, <1>6 DEF m, Joined
  <2>2. AllMeasured(one)
    BY <1>5
  <2>3. SumsAdd(e, b, one, t)
    BY <1>4, <2>1, <2>2, SumsOfBoth, Zenon
  <2> QED BY <2>3 DEF SumsAdd
<1> QED BY <1>4, <1>5, <1>7, Zenon DEF e

\* A lot that is no covered call.
LEMMA MoreBacks ==
    ASSUME NEW b, AllMeasured(b), NEW lot, Measured(lot), lot.contract.right # "C" \/ lot.cover # "shares"
    PROVE  LeavesBacked(b, Append(b, lot))
<1> DEFINE e == Append(b, lot)
<1>1. \A t : /\ AllMeasured(e) /\ WheelShares(e, t) = WheelShares(b, t) + WheelPart(lot, t)
             /\ CallsCoveredBy(e, t, "shares") = CallsCoveredBy(b, t, "shares") + CallPart(lot, t)
  BY SumsOfMore, Zenon
<1> HIDE DEF e
<1>2. \A t : CallPart(lot, t) = 0 /\ WheelPart(lot, t) \in Nat
  BY PartsAre DEF CallPart, IsShortCall
<1>3. \A t : WheelShares(b, t) \in Nat /\ CallsCoveredBy(b, t, "shares") \in Nat
  BY SumsAre, Zenon
<1>4. Backs(b, e)
  <2> SUFFICES ASSUME NEW t
               PROVE  /\ WheelShares(b, t) <= WheelShares(e, t)
                      /\ CallsCoveredBy(e, t, "shares") <= CallsCoveredBy(b, t, "shares")
    BY Zenon DEF Backs
  <2> DEFINE w == WheelShares(b, t)
             v == WheelShares(e, t)
             c == CallsCoveredBy(b, t, "shares")
             k == CallsCoveredBy(e, t, "shares")
  <2>1. v = w + WheelPart(lot, t) /\ k = c + CallPart(lot, t) /\ CallPart(lot, t) = 0
    BY <1>1, <1>2, Zenon
  <2>2. WheelPart(lot, t) \in Nat /\ w \in Nat /\ c \in Nat
    BY <1>2, <1>3, Zenon
  <2> HIDE DEF w, v, c, k
  <2>3. w <= v /\ k <= c
    BY <2>1, <2>2
  <2> QED BY <2>3 DEF w, v, c, k
<1>5. AllMeasured(e)
  BY <1>1
<1>6. LeavesBacked(b, e)
  BY <1>4, <1>5, BacksLeaves, Zenon
<1> QED BY <1>6 DEF e

\* A plan closed on a book changes nothing of a lot but what remains of it.
(***************************************************************************)
(* Plans closed, and the calls covered                                     *)
(***************************************************************************)
LEMMA ClosedKeeps ==
    ASSUME NEW book, AllMeasured(book), NEW plan, Fits(plan, book), NEW i \in 1..Len(book)
    PROVE  LET lot == Closed(book, plan)[i]
           IN  /\ lot.contract = book[i].contract /\ lot.strategy = book[i].strategy
               /\ lot.quantity = book[i].quantity /\ lot.cover = book[i].cover
               /\ lot.parent = book[i].parent
               /\ plan[i] = 0 => lot.remaining = book[i].remaining
<1> DEFINE b == book[i]
           v == b.remaining - Sgn(b.remaining) * plan[i]
           d == Closed(book, plan)[i]
<1>1. DOMAIN book = 1..Len(book)
  BY DEF AllMeasured, IsSeq, Lists
<1>2. d = IF IsOpen(b) THEN [b EXCEPT !.remaining = v] ELSE b
  BY <1>1 DEF Closed
<1>3. IsLot(b) /\ b.remaining \in Int /\ plan[i] \in Nat
  BY Zenon DEF AllMeasured, Measured, Fits
<1>4. plan[i] = 0 => v = b.remaining
  <2>1. b.remaining \in Int /\ plan[i] \in Nat
    BY <1>3
  <2> HIDE DEF b
  <2> QED BY <2>1 DEF Sgn
<1> HIDE DEF d, v, b
<1>5. LET e == [b EXCEPT !.remaining = v]
      IN  /\ e.contract = b.contract /\ e.strategy = b.strategy /\ e.quantity = b.quantity
          /\ e.cover = b.cover /\ e.parent = b.parent /\ e.remaining = v
  BY <1>3 DEF IsLot, LotFields
<1>6. /\ d.contract = b.contract /\ d.strategy = b.strategy /\ d.quantity = b.quantity
      /\ d.cover = b.cover /\ d.parent = b.parent /\ (plan[i] = 0 => d.remaining = b.remaining)
  <2>1. CASE IsOpen(b)
    BY <1>2, <1>4, <1>5, <2>1
  <2>2. CASE ~IsOpen(b)
    BY <1>2, <2>2
  <2> QED BY <2>1, <2>2
<1> QED BY <1>6 DEF b, d

\* A plan that closes no shares held leaves what backs the calls.
LEMMA ClosedBacks ==
    ASSUME NEW book, AllMeasured(book), NEW plan, Fits(plan, book),
           \A i \in 1..Len(book) : plan[i] # 0 => ~IsStock(book[i].contract) \/ book[i].remaining <= 0
    PROVE  Backs(book, Closed(book, plan))
<1> DEFINE d == Closed(book, plan)
<1>1. AllMeasured(d) /\ Len(d) = Len(book)
      /\ \A i \in 1..Len(book) : Mag(d[i].remaining) = Mag(book[i].remaining) - plan[i]
  BY ClosedIs, Zenon
<1>2. ASSUME NEW i \in 1..Len(book), NEW t
      PROVE  WheelPart(book[i], t) <= WheelPart(d[i], t) /\ CallPart(d[i], t) <= CallPart(book[i], t)
  <2> DEFINE a == book[i]
             e == d[i]
             p == plan[i]
  <2>1. /\ e.contract = a.contract /\ e.strategy = a.strategy /\ e.quantity = a.quantity
        /\ e.cover = a.cover /\ (p = 0 => e.remaining = a.remaining)
    BY ClosedKeeps, SMTT(30)
  <2>2. /\ Mag(e.remaining) = Mag(a.remaining) - p /\ p \in Nat
        /\ (p # 0 => ~IsStock(a.contract) \/ a.remaining <= 0)
        /\ Measured(a) /\ Measured(e)
    BY <1>1, Zenon DEF Fits, AllMeasured
  <2>3. a.remaining \in Int /\ e.remaining \in Int
    BY <2>2, Zenon DEF Measured
  <2>4. WheelPart(e, t) \in Nat /\ CallPart(e, t) \in Nat /\ CallPart(a, t) \in Nat
    BY <2>2, PartsAre, Zenon
  <2> HIDE DEF a, e, d, p
  <2>5. WheelPart(a, t) <= WheelPart(e, t)
    <3>1. CASE p = 0
      BY <2>1, <2>3, <3>1 DEF WheelPart, IsWheelShares, IsShares
    <3>2. CASE p # 0
      <4>1. ~IsWheelShares(a, t)
        <5>1. Stock(t).right = ""
          BY DEF Stock
        <5>2. CASE IsStock(a.contract)
          BY <2>2, <2>3, <3>2, <5>2 DEF IsWheelShares, IsShares
        <5>3. CASE ~IsStock(a.contract)
          BY <5>1, <5>3, Zenon DEF IsWheelShares, IsShares, IsStock
        <5> QED BY <5>2, <5>3
      <4> QED BY <2>4, <4>1 DEF WheelPart
    <3> QED BY <3>1, <3>2
  <2>6. CallPart(e, t) <= CallPart(a, t)
    <3>1. CASE ~(IsShortCall(e, t) /\ e.cover = "shares")
      BY <2>4, <3>1 DEF CallPart
    <3>2. CASE IsShortCall(e, t) /\ e.cover = "shares"
      <4>1. IsShortCall(a, t) /\ a.cover = "shares"
        <5>1. a.remaining # 0
          BY <2>2, <2>3, <3>2 DEF IsShortCall, IsOpen, Mag
        <5> QED BY <2>1, <3>2, <5>1 DEF IsShortCall, IsOpen
      <4>2. Mag(e.remaining) <= Mag(a.remaining)
        BY <2>2, <2>3 DEF Mag
      <4> QED BY <3>2, <4>1, <4>2 DEF CallPart
    <3> QED BY <3>1, <3>2
  <2> QED BY <2>5, <2>6 DEF a, e
<1> HIDE DEF d
<1>3. Backs(book, d)
  BY <1>1, <1>2, InPlaceBacks, Zenon
<1> QED BY <1>3 DEF d

LEMMA FifoTakes ==
    ASSUME NEW book, AllMeasured(book), NEW contract, NEW quantity \in Int, NEW i \in 1..Len(book),
           FifoPlan(book, contract, quantity)[i] # 0
    PROVE  book[i].contract = contract /\ Sgn(book[i].remaining) = -Sgn(quantity)
<1> DEFINE m == Len(book)
           cap == [k \in DOMAIN book |->
                    IF /\ book[k].contract = contract
                       /\ Sgn(book[k].remaining) = -Sgn(quantity)
                    THEN Mag(book[k].remaining) ELSE 0]
           S == {k \in DOMAIN book : cap[k] > 0}
           own == [k \in S |-> k]
           order == SortedOn(S, own)
           plan == FifoPlan(book, contract, quantity)
<1>1. m \in Nat /\ DOMAIN book = 1..m
  BY DEF AllMeasured, IsSeq, Lists
<1>2. plan = Pour(order, cap, Mag(quantity))
  BY Zenon DEF FifoPlan, SortedBy
<1>3. Lists(cap, m)
  BY <1>1 DEF Lists
<1>30. \A k \in 1..m :
          cap[k] = IF book[k].contract = contract /\ Sgn(book[k].remaining) = -Sgn(quantity)
                   THEN Mag(book[k].remaining) ELSE 0
  BY <1>1
<1>4. \A k \in 1..m : cap[k] \in Nat
  <2> TAKE k \in 1..m
  <2>1. book[k].remaining \in Int
    BY DEF AllMeasured, Measured
  <2> HIDE DEF cap
  <2> QED BY <1>30, <2>1 DEF Mag
<1>5. S \in SUBSET (1..m) /\ \A k \in S : own[k] \in Int
  BY <1>1
<1> HIDE DEF cap, plan, own, S, m
<1>6. IsSeq(order) /\ Members(order) = S
  BY <1>1, <1>5, PlacesArranged
<1>7. Mag(quantity) \in Int
  BY DEF Mag
<1> HIDE DEF order
<1>8. Within(plan, cap, m)
  BY <1>1, <1>2, <1>3, <1>4, <1>5, <1>6, <1>7, PourWithin
<1>9. i \in 1..m /\ plan[i] # 0
  BY DEF plan, m
<1>10. plan[i] \in Nat /\ plan[i] <= cap[i] /\ cap[i] \in Nat
  BY <1>4, <1>8, <1>9 DEF Within
<1>11. cap[i] # 0
  BY <1>9, <1>10
<1> QED BY <1>9, <1>11, <1>30

\* First in, first out: what is bought closes no shares held.
LEMMA FifoBacks ==
    ASSUME NEW book, AllMeasured(book), NEW contract, NEW quantity \in Int,
           IsStock(contract) => quantity >= 0
    PROVE  Backs(book, Closed(book, FifoPlan(book, contract, quantity)))
<1> DEFINE plan == FifoPlan(book, contract, quantity)
<1>1. Fits(plan, book)
  BY FifoFits, Zenon
<1>2. ASSUME NEW i \in 1..Len(book), plan[i] # 0
      PROVE  ~IsStock(book[i].contract) \/ book[i].remaining <= 0
  <2>1. book[i].contract = contract /\ Sgn(book[i].remaining) = -Sgn(quantity)
    BY <1>2, FifoTakes
  <2>2. book[i].remaining \in Int
    BY DEF AllMeasured, Measured
  <2> HIDE DEF plan
  <2>3. CASE IsStock(contract)
    <3>1. quantity >= 0
      BY <2>3
    <3>2. Sgn(quantity) >= 0 /\ Sgn(quantity) \in Int
      BY <3>1 DEF Sgn
    <3>3. Sgn(book[i].remaining) <= 0
      BY <2>1, <3>2
    <3> DEFINE r == book[i].remaining
    <3>4. r \in Int /\ Sgn(r) <= 0
      BY <2>2, <3>3
    <3> HIDE DEF r
    <3>5. r <= 0
      BY <3>4 DEF Sgn
    <3> QED BY <3>5 DEF r
  <2>4. CASE ~IsStock(contract)
    BY <2>1, <2>4
  <2> QED BY <2>3, <2>4
<1> HIDE DEF plan
<1>3. Backs(book, Closed(book, plan))
  BY <1>1, <1>2, ClosedBacks, Zenon
<1> QED BY <1>3 DEF plan

\* A lot put last, whatever it is but a covered call.
LEMMA LastBacks ==
    ASSUME NEW b, AllMeasured(b), NEW lot, AllMeasured(Append(b, lot)),
           lot.contract.right # "C" \/ lot.cover # "shares"
    PROVE  LeavesBacked(b, Append(b, lot))
<1>1. IsSeq(b) /\ Len(b) \in Nat
  BY DEF AllMeasured, IsSeq
<1>2. Len(Append(b, lot)) = Len(b) + 1 /\ Append(b, lot)[Len(b) + 1] = lot
  BY <1>1, AppendOf
<1>3. Len(b) + 1 \in 1..Len(Append(b, lot))
  BY <1>1, <1>2
<1>4. Measured(lot)
  BY <1>2, <1>3, Zenon DEF AllMeasured
<1> QED BY <1>4, MoreBacks, Zenon

LEMMA CloseSharesBook ==
    ASSUME NEW c, NEW now, Fine(c, now), NEW plan, Fits(plan, c.book),
           NEW amount, NEW whole, NEW when, NEW ids
    PROVE  CloseShares(c, plan, amount, whole, when, ids).book = Closed(c.book, plan)
<1> DEFINE exits == [i \in DOMAIN c.book |->
                        [when |-> when, amount |-> Share(amount, plan[i], whole), ids |-> ids,
                         event |-> IF c.book[i].quantity > 0 THEN "sold" ELSE "buyback"]]
           b == Closed(c.book, plan)
           shut == [c EXCEPT !.book = b]
           d == CloseShares(c, plan, amount, whole, when, ids)
<1>1. d = CloseLots(shut, c.book, plan, exits)
  BY Zenon DEF CloseShares
<1>2. IsContext(c) /\ Len(c.book) \in Nat /\ DOMAIN c.book = 1..Len(c.book)
  BY DEF Fine, IsSeq, Lists
<1> HIDE DEF exits, b, d
<1>3. /\ IsContext(shut) /\ shut.book = b /\ shut.rows = c.rows /\ shut.exitLog = c.exitLog
      /\ shut.budget = c.budget /\ shut.closed = c.closed
  BY <1>2 DEF IsContext, ContextFields
<1> HIDE DEF shut
<1>4. Budgeted(shut)
  BY <1>3 DEF Fine, Budgeted
<1>5. Fine(shut, now)
  BY <1>3, <1>4, ClosedFine, Zenon DEF b
<1>6. LET e == CloseLots(shut, c.book, plan, exits)
      IN  Fine(e, now) /\ Grown(shut, e) /\ e.book = shut.book
  BY <1>2, <1>5, CloseLotsFine
<1> QED BY <1>1, <1>3, <1>6, Zenon DEF b, d

\* Shares that come in.
LEMMA DeliverSharesBacked ==
    ASSUME NEW c, NEW when \in Int, Fine(c, when), NEW lot, Recorded(c, lot, when),
           IsContract(lot.contract), NEW sign \in Int, sign > 0, NEW shares \in Nat
    PROVE  LeavesBacked(c.book, DeliverShares(c, lot, sign, shares, when).book)
<1> DEFINE plan == DeliverPlan(c.book, lot, sign, shares)
           after == CloseShares(c, plan, -sign * shares * lot.contract.strike, shares, when, {when})
           rest == shares - Total(plan)
           inherited == sign > 0 /\ lot.parent = 0 /\ ~lot.orphan
           bought == NewLot(Stock(lot.contract.ticker),
                            IF inherited THEN lot.strategy ELSE "others",
                            sign * rest, lot.contract.strike,
                            -sign * rest * lot.contract.strike, when)
           by == IF lot.parent = 0 THEN {Len(c.rows)} ELSE {}
           opened == [bought EXCEPT !.openIds = {<<when, "delivery">>}, !.delivered = by]
           d == DeliverShares(c, lot, sign, shares, when)
           e == [after EXCEPT !.book = Append(@, opened)]
<1>1. d = IF rest = 0 THEN after ELSE e
  BY Zenon DEF DeliverShares
<1>0. shares \in Int
  OBVIOUS
<1>2. AllMeasured(c.book) /\ Fits(plan, c.book)
  BY <1>0, FineMeasured, DeliverPlanFits, Zenon
<1>3. plan = FifoPlan(c.book, Stock(lot.contract.ticker), shares)
  BY DEF DeliverPlan
<1>4. Fine(d, when)
  BY <1>0, DeliverSharesFine, Zenon
<1>5. opened.contract.right = ""
  <2>1. IsLot(bought) /\ bought.contract = Stock(lot.contract.ticker)
    BY NewLotIs
  <2> HIDE DEF bought, by
  <2>2. opened.contract = bought.contract
    BY <2>1 DEF IsLot, LotFields
  <2>3. Stock(lot.contract.ticker).right = ""
    BY DEF Stock
  <2> HIDE DEF opened
  <2> QED BY <2>1, <2>2, <2>3, Zenon
<1> HIDE DEF plan, rest, bought, opened, d
<1>6. after.book = Closed(c.book, plan) /\ Fine(after, when)
  <2>1. after.book = Closed(c.book, plan)
    BY <1>2, CloseSharesBook
  <2>2. Fine(after, when)
    BY <1>2, CloseSharesFine
  <2> QED BY <2>1, <2>2
<1> HIDE DEF after
<1>7. AllMeasured(after.book) /\ AllMeasured(d.book)
  BY <1>4, <1>6, FineMeasured, Zenon
<1>8. LeavesBacked(c.book, after.book)
  <2>1. Backs(c.book, Closed(c.book, FifoPlan(c.book, Stock(lot.contract.ticker), shares)))
    <3>1. shares \in Int /\ shares >= 0
      OBVIOUS
    <3> QED BY <1>2, <3>1, FifoBacks, Zenon
  <2>2. Backs(c.book, after.book)
    BY <1>3, <1>6, <2>1, Zenon
  <2> QED BY <1>2, <1>7, <2>2, BacksLeaves, Zenon
<1>9. CASE rest = 0
  BY <1>1, <1>8, <1>9 DEF d
<1>10. CASE rest # 0
  <2>1. IsContext(after)
    BY <1>6 DEF Fine
  <2>2. d.book = Append(after.book, opened)
    BY <1>1, <1>10, <2>1 DEF IsContext, ContextFields
  <2>3. LeavesBacked(after.book, d.book)
    <3>1. opened.contract.right # "C"
      BY <1>5
    <3>2. AllMeasured(Append(after.book, opened))
      BY <1>7, <2>2
    <3> QED BY <1>7, <2>2, <3>1, <3>2, LastBacks, Zenon
  <2>4. LeavesBacked(c.book, d.book)
    BY <1>2, <1>7, <1>8, <2>3, LeavesOn, Zenon
  <2> QED BY <2>4 DEF d
<1> QED BY <1>9, <1>10

\* What a settlement delivers comes in.
ComesIn(delivery) == delivery.shares > 0 => delivery.sign > 0

LEMMA ClosePortionBacked ==
    ASSUME NEW c, NEW lot, IsContract(lot.contract), NEW n \in Nat,
           NEW exit, exit.when \in Int, Fine(c, exit.when),
           NEW delivery, Delivering(delivery), delivery.shares > 0 => Settled(exit.event),
           ComesIn(delivery)
    PROVE  LeavesBacked(c.book, ClosePortion(c, lot, n, exit, delivery).book)
<1> DEFINE row == CloseLot(c, lot, n, exit)
           handed == (delivery.shares * n) \div delivery.contracts
           d == DeliverShares(row, lot, delivery.sign, handed, exit.when)
<1>1. ClosePortion(c, lot, n, exit, delivery) = IF delivery.shares > 0 THEN d ELSE row
  BY Zenon DEF ClosePortion
<1>2. /\ Fine(row, exit.when) /\ row.book = c.book
      /\ lot.parent = 0 => /\ Len(row.rows) > 0
                           /\ row.rows[Len(row.rows)].endWhen = exit.when
                           /\ row.rows[Len(row.rows)].event = exit.event
      /\ lot.parent # 0 => \E x \in 1..Len(row.exitLog) : row.exitLog[x].exit = exit
  BY CloseLotFine
<1>20. delivery.sign \in Int /\ handed \in Nat
  <2>1. \A x \in Nat : x * n \in Nat
    OBVIOUS
  <2>2. delivery.shares * n \in Nat
    BY <2>1 DEF Delivering
  <2> DEFINE x == delivery.shares * n
             y == delivery.contracts
  <2>3. x \in Nat /\ y \in Nat \ {0} /\ delivery.sign \in Int
    BY <2>2 DEF Delivering
  <2> HIDE DEF x, y
  <2>4. x \div y \in Nat
    BY <2>3
  <2> QED BY <2>3, <2>4 DEF x, y
<1> HIDE DEF row, handed
<1>3. CASE delivery.shares > 0
  <2>1. Recorded(row, lot, exit.when)
    BY <1>2, <1>3, Zenon DEF Recorded, LegAt
  <2>2. delivery.sign > 0
    BY <1>3 DEF ComesIn
  <2>3. LeavesBacked(row.book, d.book)
    BY <1>2, <1>20, <2>1, <2>2, DeliverSharesBacked, Zenon
  <2> QED BY <1>1, <1>2, <1>3, <2>3, Zenon
<1>4. CASE ~(delivery.shares > 0)
  <2>1. LeavesBacked(c.book, c.book)
    BY FineMeasured, LeavesSame, Zenon
  <2> QED BY <1>1, <1>2, <1>4, <2>1, Zenon
<1> QED BY <1>3, <1>4

PortionBacked(lots, plan, exits, delivery, k, acc) ==
    /\ \A i \in DOMAIN lots : Fine(acc, exits[i].when)
    /\ AllMeasured(acc.book) /\ LeavesBacked(Closed(lots, plan), acc.book)
PortionBackedFold == INSTANCE Folding WITH Op <- PortionStep, Good <- PortionBacked

\* What an option trade closes, and the shares that come in with it.
LEMMA CloseOptionsBacked ==
    ASSUME NEW g, g.when \in Int, NEW c, Fine(c, g.when), NEW tx,
           NEW plan, Fits(plan, c.book), NEW delivery, Delivering(delivery),
           delivery.shares > 0 => IsSettlementShape(tx), ComesIn(delivery)
    PROVE  LeavesBacked(Closed(c.book, plan), CloseOptions(c, g, tx, plan, delivery).book)
<1> DEFINE closed == Total(plan)
           cash == IF IsSettlementShape(tx) THEN Settlement(c, tx.contract, g.when) ELSE {}
           event == CloseEventOf(tx, delivery.shares > 0 \/ cash # {})
           exits == [i \in DOMAIN c.book |->
                      [when |-> g.when, event |-> CloseEventOf(tx, delivery.shares > 0 \/ cash # {}),
                       amount |-> IF cash # {}
                                  THEN Share(c.settlements[Min(cash)].amount, plan[i], closed)
                                  ELSE Share(Amount(tx), plan[i], Mag(tx.q)),
                       ids |-> {g.when}]]
           b == Closed(c.book, plan)
           v == IF cash = {} THEN c.settlements ELSE RemoveAt(c.settlements, Min(cash))
           shut == [c EXCEPT !.book = b, !.settlements = v]
           at == Drawn(c.book, plan)
           d == CloseOptions(c, g, tx, plan, delivery)
           m == Len(c.book)
<1>1. d = FoldLeft(LAMBDA acc, i : ClosePortion(acc, c.book[i], plan[i], exits[i], delivery), shut, at)
  BY DEF CloseOptions
<1>2. m \in Nat /\ DOMAIN c.book = 1..m
  BY DEF Fine, IsSeq, Lists
<1>3. \A i \in DOMAIN c.book : exits[i].when = g.when /\ exits[i].event = event
  <2> HIDE DEF cash, closed
  <2> QED OBVIOUS
<1>4. delivery.shares > 0 => Settled(event)
  <2> SUFFICES ASSUME delivery.shares > 0 PROVE Settled(event)
    OBVIOUS
  <2>1. event = IF tx.q > 0 THEN "assigned" ELSE "exercised"
    BY Zenon DEF CloseEventOf
  <2> HIDE DEF event
  <2> QED BY <2>1 DEF Settled
<1>40. \A i \in 1..m : IsContract(c.book[i].contract) /\ plan[i] \in Nat
  <2>1. \A i \in 1..m : Measured(c.book[i])
    BY FineMeasured, Zenon DEF AllMeasured
  <2>2. \A i \in 1..m : plan[i] \in Nat
    BY DEF Fits
  <2> QED BY <2>1, <2>2, Zenon DEF Measured
<1>41. AllMeasured(b)
  BY FineMeasured, ClosedIs, Zenon
<1> HIDE DEF exits, event, b, v, d, m
<1>5. d = PortionBackedFold!Folded(c.book, plan, exits, delivery, shut, at)
  <2> HIDE DEF at, shut
  <2> QED BY <1>1 DEF FoldLeft, MapThenFoldSet, Max, PortionBackedFold!Folded, PortionStep
<1>6. PICK n \in Nat : DOMAIN at = 1..n /\ \A p \in 1..n : at[p] \in 1..m
  BY <1>2, DrawnIs
<1>7. IsContext(c)
  BY DEF Fine
<1>8. /\ IsContext(shut) /\ shut.book = b /\ shut.rows = c.rows /\ shut.exitLog = c.exitLog
      /\ shut.budget = c.budget /\ shut.closed = c.closed
  BY <1>7 DEF IsContext, ContextFields
<1> HIDE DEF at, shut
<1>80. Budgeted(shut)
  BY <1>8 DEF Fine, Budgeted
<1>9. Fine(shut, g.when)
  BY <1>8, <1>80, ClosedFine, Zenon DEF b
<1>10. PortionBacked(c.book, plan, exits, delivery, 0, shut)
  <2>1. \A i \in DOMAIN c.book : Fine(shut, exits[i].when)
    BY <1>3, <1>9, Zenon
  <2>2. AllMeasured(shut.book) /\ LeavesBacked(b, shut.book)
    BY <1>8, <1>41, LeavesSame, Zenon
  <2> QED BY <2>1, <2>2, Zenon DEF PortionBacked, b
<1>11. ASSUME NEW acc, NEW k \in 1..n, PortionBacked(c.book, plan, exits, delivery, k - 1, acc)
       PROVE  PortionBacked(c.book, plan, exits, delivery, k,
                            PortionStep(c.book, plan, exits, delivery, acc, at[k]))
  <2> DEFINE i == at[k]
             next == ClosePortion(acc, c.book[i], plan[i], exits[i], delivery)
  <2>1. i \in DOMAIN c.book /\ i \in 1..m
    BY <1>2, <1>6
  <2>2. exits[i].when = g.when /\ exits[i].event = event
    BY <1>3, <2>1
  <2>3. Fine(acc, exits[i].when) /\ AllMeasured(acc.book) /\ LeavesBacked(b, acc.book)
    BY <1>11, <2>1, Zenon DEF PortionBacked, b
  <2>30. IsContract(c.book[i].contract) /\ plan[i] \in Nat
    BY <1>40, <2>1, Zenon
  <2>31. plan[i] \in Int
    BY <2>30
  <2> HIDE DEF i, next
  <2>4. delivery.shares > 0 => Settled(exits[i].event)
    BY <1>4, <2>2, Zenon
  <2>5. exits[i].when \in Int
    BY <2>2
  <2>6. Fine(next, exits[i].when) /\ LeavesBacked(acc.book, next.book)
    BY <2>3, <2>30, <2>31, <2>4, <2>5, ClosePortionFine, ClosePortionBacked, Zenon DEF next
  <2>7. AllMeasured(next.book)
    BY <2>6, FineMeasured, Zenon
  <2>8. LeavesBacked(b, next.book)
    BY <1>41, <2>3, <2>6, <2>7, LeavesOn, Zenon
  <2>9. \A j \in DOMAIN c.book : Fine(next, exits[j].when)
    BY <1>3, <2>2, <2>6, Zenon
  <2>10. PortionBacked(c.book, plan, exits, delivery, k, next)
    BY <2>7, <2>8, <2>9, Zenon DEF PortionBacked, b
  <2> QED BY <2>10, Zenon DEF PortionStep, i, next
<1>12. PortionBacked(c.book, plan, exits, delivery, n,
                     PortionBackedFold!Folded(c.book, plan, exits, delivery, shut, at))
  BY <1>6, <1>10, <1>11, PortionBackedFold!FoldKeeps, LeastNatural, Zenon
<1>13. LeavesBacked(b, d.book)
  BY <1>5, <1>12, Zenon DEF PortionBacked, b
<1> QED BY <1>13 DEF d, b

(***************************************************************************)
(* Options replayed, and the calls covered                                 *)
(***************************************************************************)
\* No share leaves at this instant.
NoSharesLeave(g) == \A k \in 1..Len(g.txs) : IsStock(g.txs[k].contract) => g.txs[k].q > 0

LEMMA SettlementsComeIn ==
    ASSUME NEW g, Traded(g), NoSharesLeave(g), NEW claims, Shaped(g, claims), NEW k
    PROVE  ComesIn(DeliveryOf(g, claims, k))
<1> DEFINE mine == {x \in DOMAIN claims : claims[x].tx = k /\ Served(claims, x)}
           first == CHOOSE x \in mine : TRUE
           key == claims[first].key
           pool == Pool(g, key)
           held == [p \in pool |-> Mag(g.txs[p].q)]
           of == [shares |-> Total(held), sign |-> key[3], contracts |-> claims[first].contracts]
           d == DeliveryOf(g, claims, k)
<1>1. d = IF mine = {} THEN [shares |-> 0, sign |-> 1, contracts |-> 1] ELSE of
  BY Zenon DEF DeliveryOf
<1>2. pool = {} => Total(held) = 0
  <2> SUFFICES ASSUME pool = {} PROVE Total(held) = 0
    OBVIOUS
  <2>1. DOMAIN held = {}
    OBVIOUS
  <2> HIDE DEF held
  <2>2. Total(held) = TotalOver(held, {})
    BY <2>1, TotalIs
  <2>3. IsFiniteSet({}) /\ IntegersOn(held, {})
    BY FS_EmptySet DEF IntegersOn
  <2>4. TotalOver(held, {}) = 0
    BY <2>3, TotalOf, Zenon
  <2> QED BY <2>2, <2>4
<1>3. \A p \in pool : key[3] = Sgn(g.txs[p].q) /\ p \in 1..Len(g.txs) /\ IsStock(g.txs[p].contract)
  <2> HIDE DEF key
  <2> TAKE p \in pool
  <2>1. p \in DOMAIN g.txs /\ ~IsOption(g.txs[p])
        /\ <<g.txs[p].contract.ticker, g.txs[p].price, Sgn(g.txs[p].q)>> = key
    BY DEF Pool
  <2>2. key[3] = Sgn(g.txs[p].q)
    BY <2>1
  <2> QED BY <2>1, <2>2, Zenon DEF Traded, IsOption
<1>4. pool # {} => key[3] > 0
  <2> SUFFICES ASSUME NEW p \in pool PROVE key[3] > 0
    OBVIOUS
  <2>1. key[3] = Sgn(g.txs[p].q) /\ p \in 1..Len(g.txs) /\ IsStock(g.txs[p].contract)
    BY <1>3
  <2> HIDE DEF key, pool
  <2>2. g.txs[p].q > 0 /\ g.txs[p].q \in Int
    BY <2>1 DEF NoSharesLeave, Traded, IsTrade
  <2> QED BY <2>1, <2>2 DEF Sgn
<1> HIDE DEF mine, pool, held, key, d
<1>5. CASE mine = {}
  <2>1. d.shares = 0
    BY <1>1, <1>5
  <2> QED BY <2>1 DEF ComesIn, d
<1>6. CASE mine # {}
  <2>1. d.shares = Total(held) /\ d.sign = key[3]
    BY <1>1, <1>6
  <2>2. d.shares > 0 => pool # {}
    BY <1>2, <2>1
  <2> QED BY <1>4, <2>1, <2>2 DEF ComesIn, d
<1> QED BY <1>5, <1>6

LEMMA ReplayOptionBacked ==
    ASSUME NEW g, g.when \in Int, Traded(g), NoSharesLeave(g), NEW claims, Shaped(g, claims),
           NEW acc, NEW k \in 1..Len(g.txs), Fine(acc.ctx, g.when)
    PROVE  LeavesBacked(acc.ctx.book, ReplayOption(acc, g, k, claims).ctx.book)
<1> DEFINE tx == g.txs[k]
           b == acc.ctx.book
           plan == FifoPlan(b, tx.contract, tx.q)
           closed == Total(plan)
           wheel == Total([i \in DOMAIN plan |->
                            IF IsWheelCoveredCall(acc.ctx.book[i]) THEN plan[i] ELSE 0])
           rest == tx.q - Sgn(tx.q) * closed
           delivery == DeliveryOf(g, claims, k)
           all == CloseOptions(acc.ctx, g, tx, plan, delivery)
           shut == IF closed = 0 THEN acc.ctx ELSE all
           c == Noted(shut, g.when, tx, wheel)
           next == ReplayOption(acc, g, k, claims)
<1>1. next.ctx = c
  BY DEF ReplayOption
<1>2. Delivering(delivery) /\ (delivery.shares > 0 => IsSettlementShape(tx)) /\ ComesIn(delivery)
  BY SettlementsDeliver, SettlementsComeIn, Zenon
<1>3. AllMeasured(b) /\ tx.q \in Int /\ (IsStock(tx.contract) => tx.q >= 0)
  <2>1. AllMeasured(b) /\ tx.q \in Int
    BY FineMeasured, Zenon DEF Traded, IsTrade
  <2>2. IsStock(tx.contract) => tx.q > 0
    BY Zenon DEF NoSharesLeave
  <2> HIDE DEF tx
  <2> QED BY <2>1, <2>2
<1>4. Fits(plan, b) /\ Backs(b, Closed(b, plan))
  BY <1>3, FifoFits, FifoBacks, Zenon
<1> HIDE DEF plan, closed, delivery, wheel
<1>5. AllMeasured(Closed(b, plan))
  BY <1>3, <1>4, ClosedIs, Zenon
<1>6. LeavesBacked(b, Closed(b, plan))
  BY <1>3, <1>4, <1>5, BacksLeaves, Zenon
<1>7. Fine(all, g.when)
  BY <1>2, <1>4, CloseOptionsFine, Zenon
<1>8. AllMeasured(all.book)
  BY <1>7, FineMeasured, Zenon
<1>9. LeavesBacked(Closed(b, plan), all.book)
  BY <1>2, <1>4, CloseOptionsBacked, Zenon
<1> HIDE DEF all
<1>10. LeavesBacked(b, all.book)
  BY <1>3, <1>5, <1>6, <1>8, <1>9, LeavesOn, Zenon
<1>11. LeavesBacked(b, b)
  BY <1>3, LeavesSame, Zenon
<1>12. LeavesBacked(b, shut.book) /\ Fine(shut, g.when)
  BY <1>7, <1>10, <1>11, Zenon
<1> HIDE DEF shut
<1>13. c.book = shut.book
  <2>1. IsContext(shut)
    BY <1>12 DEF Fine
  <2> DEFINE v == Mapped(shut.closed, <<g.when, tx.contract>>, wheel)
  <2>2. c = IF IsSettlementShape(tx) \/ tx.q < 0 THEN shut ELSE [shut EXCEPT !.closed = v]
    BY Zenon DEF Noted
  <2> HIDE DEF v, c
  <2>3. [shut EXCEPT !.closed = v].book = shut.book
    BY <2>1 DEF IsContext, ContextFields
  <2> QED BY <2>2, <2>3, Zenon
<1> HIDE DEF c, next
<1>14. LeavesBacked(b, next.ctx.book)
  BY <1>1, <1>12, <1>13, Zenon
<1> QED BY <1>14 DEF b, next

OptionBacked(g, claims, start, none, k, acc) ==
    Fine(acc.ctx, g.when) /\ AreOpenings(acc.openings) /\ LeavesBacked(start, acc.ctx.book)
OptionBackedFold == INSTANCE Folding WITH Op <- OptionStep, Good <- OptionBacked

LEMMA OptionsBacked ==
    ASSUME NEW g, g.when \in Int, Traded(g), NoSharesLeave(g), NEW c, Fine(c, g.when),
           NEW claims, Shaped(g, claims)
    PROVE  LeavesBacked(c.book, OptionsReplayed(c, g, claims).ctx.book)
<1> DEFINE ks == Options(g)
           base == [ctx |-> c, openings |-> <<>>]
           d == OptionsReplayed(c, g, claims)
           b == c.book
<1>1. PICK n \in Nat : /\ DOMAIN ks = 1..n
                       /\ \A p \in 1..n : ks[p] \in 1..Len(g.txs) /\ g.txs[ks[p]].q # 0
  BY TradesAre, Zenon
<1>10. \A p \in 1..n : IsTrade(g.txs[ks[p]]) /\ g.txs[ks[p]].q # 0 /\ ks[p] \in 1..Len(g.txs)
  BY <1>1, Zenon DEF Traded
<1>2. d = OptionBackedFold!Folded(g, claims, b, 0, base, ks)
  <2> HIDE DEF ks, b
  <2> QED BY DEF OptionsReplayed, FoldLeft, MapThenFoldSet, Max, OptionBackedFold!Folded, OptionStep, ks
<1>3. base.ctx = c /\ base.openings = <<>>
  OBVIOUS
<1>30. AllMeasured(b) /\ LeavesBacked(b, b)
  BY FineMeasured, LeavesSame, Zenon
<1> HIDE DEF ks, d, base
<1>4. ASSUME NEW acc, NEW k \in 1..n, OptionBacked(g, claims, b, 0, k - 1, acc)
      PROVE  OptionBacked(g, claims, b, 0, k, OptionStep(g, claims, b, 0, acc, ks[k]))
  <2> DEFINE next == ReplayOption(acc, g, ks[k], claims)
  <2>1. Fine(acc.ctx, g.when) /\ AreOpenings(acc.openings) /\ LeavesBacked(b, acc.ctx.book)
    BY <1>4, Zenon DEF OptionBacked
  <2>2. Fine(next.ctx, g.when) /\ AreOpenings(next.openings)
    BY <1>10, <2>1, ReplayOptionFine, Zenon
  <2>3. LeavesBacked(acc.ctx.book, next.ctx.book)
    BY <1>10, <2>1, ReplayOptionBacked, Zenon
  <2>4. AllMeasured(acc.ctx.book) /\ AllMeasured(next.ctx.book)
    BY <2>1, <2>2, FineMeasured, Zenon
  <2> HIDE DEF next, b
  <2>5. LeavesBacked(b, next.ctx.book)
    BY <1>30, <2>1, <2>3, <2>4, LeavesOn, Zenon
  <2> QED BY <2>2, <2>5, Zenon DEF OptionBacked, OptionStep, next
<1>5. AreOpenings(<<>>)
  <2>1. Lists(<<>>, 0)
    BY DEF Lists
  <2>2. IsSeq(<<>>) /\ Len(<<>>) = 0
    BY <2>1, SeqFrom
  <2> QED BY <2>2 DEF AreOpenings
<1>6. OptionBacked(g, claims, b, 0, 0, base)
  BY <1>3, <1>5, <1>30, Zenon DEF OptionBacked, b
<1> HIDE DEF b
<1>7. OptionBacked(g, claims, b, 0, n, OptionBackedFold!Folded(g, claims, b, 0, base, ks))
  BY <1>1, <1>4, <1>6, OptionBackedFold!FoldKeeps, LeastNatural, Zenon
<1>8. LeavesBacked(b, d.ctx.book)
  BY <1>2, <1>7, Zenon DEF OptionBacked
<1> QED BY <1>8 DEF d, b

(***************************************************************************)
(* Openings, and the calls covered                                         *)
(***************************************************************************)
\* What a lot opened for an opening is.
LEMMA OpenLotIs ==
    ASSUME NEW c, NEW when \in Int, Fine(c, when), NEW o, IsOpening(o), NEW strategy, NEW cover,
           NEW quantity \in Int
    PROVE  \E lot : /\ OpenLot(c, o, strategy, cover, quantity, when).book = Append(c.book, lot)
                    /\ Measured(lot) /\ lot.contract = o.tx.contract /\ lot.cover = cover
                    /\ lot.quantity = quantity /\ lot.remaining = quantity
<1> DEFINE amount == Share(Amount(o.tx), Mag(quantity), Mag(o.tx.q))
           filed == IF o.orphan THEN "others" ELSE strategy
           bought == NewLot(o.tx.contract, filed, quantity, o.tx.price, amount, when)
           lot == [bought EXCEPT !.cover = cover, !.orphan = o.orphan]
           d == OpenLot(c, o, strategy, cover, quantity, when)
<1>1. d = [c EXCEPT !.book = Append(@, lot)]
  BY Zenon DEF OpenLot
<1>2. IsLot(bought) /\ bought.contract = o.tx.contract
  <2> HIDE DEF amount, filed
  <2> QED BY NewLotIs
<1>3. bought.quantity = quantity /\ bought.remaining = quantity
  <2> HIDE DEF amount, filed
  <2> QED BY DEF NewLot
<1> HIDE DEF bought, d
<1>4. /\ lot.contract = o.tx.contract /\ lot.cover = cover
      /\ lot.quantity = quantity /\ lot.remaining = quantity
  BY <1>2, <1>3 DEF IsLot, LotFields
<1> HIDE DEF lot
<1>5. d.book = Append(c.book, lot)
  <2>1. IsContext(c)
    BY DEF Fine
  <2> QED BY <1>1, <2>1 DEF IsContext, ContextFields
<1>6. Measured(lot)
  <2>1. Fine(d, when)
    BY OpenLotFine DEF d
  <2>2. AllMeasured(Append(c.book, lot))
    BY <1>5, <2>1, FineMeasured, Zenon
  <2>3. IsSeq(c.book) /\ Len(c.book) \in Nat
    BY DEF Fine, IsSeq
  <2>4. /\ Len(Append(c.book, lot)) = Len(c.book) + 1
        /\ Append(c.book, lot)[Len(c.book) + 1] = lot
    BY <2>3, AppendOf
  <2>5. Len(c.book) + 1 \in 1..Len(Append(c.book, lot))
    BY <2>3, <2>4
  <2> QED BY <2>2, <2>4, <2>5, Zenon DEF AllMeasured
<1> QED BY <1>4, <1>5, <1>6, Zenon DEF d

LEMMA OpenLotBacked ==
    ASSUME NEW c, NEW when \in Int, Fine(c, when), NEW o, IsOpening(o), NEW strategy, NEW cover,
           cover # "shares", NEW quantity \in Int
    PROVE  LeavesBacked(c.book, OpenLot(c, o, strategy, cover, quantity, when).book)
<1>1. AllMeasured(c.book)
  BY FineMeasured, Zenon
<1>2. PICK lot : /\ OpenLot(c, o, strategy, cover, quantity, when).book = Append(c.book, lot)
                 /\ Measured(lot) /\ lot.cover = cover
  BY OpenLotIs
<1>3. LeavesBacked(c.book, Append(c.book, lot))
  BY <1>1, <1>2, MoreBacks
<1> QED BY <1>2, <1>3

EachBacked(strategy, when, start, none, k, acc) == Fine(acc, when) /\ LeavesBacked(start, acc.book)
EachBackedFold == INSTANCE Folding WITH Op <- EachStep, Good <- EachBacked

LEMMA OpenEachBacked ==
    ASSUME NEW c, NEW when \in Int, Fine(c, when), NEW strategy,
           NEW n \in Nat, NEW group, DOMAIN group = 1..n, \A k \in 1..n : IsOpening(group[k])
    PROVE  LeavesBacked(c.book, OpenEach(c, group, strategy, when).book)
<1> DEFINE d == OpenEach(c, group, strategy, when)
           b == c.book
<1>1. d = EachBackedFold!Folded(strategy, when, b, 0, c, group)
  <2> HIDE DEF b
  <2> QED BY DEF OpenEach, FoldLeft, MapThenFoldSet, Max, EachBackedFold!Folded, EachStep
<1> HIDE DEF d
<1>2. AllMeasured(b) /\ LeavesBacked(b, b)
  BY FineMeasured, LeavesSame, Zenon
<1>3. ASSUME NEW acc, NEW k \in 1..n, EachBacked(strategy, when, b, 0, k - 1, acc)
      PROVE  EachBacked(strategy, when, b, 0, k, EachStep(strategy, when, b, 0, acc, group[k]))
  <2> DEFINE o == group[k]
             next == OpenLot(acc, o, strategy, "none", o.quantity, when)
  <2>1. Fine(acc, when) /\ LeavesBacked(b, acc.book) /\ IsOpening(o) /\ o.quantity \in Int
    BY <1>3, Zenon DEF EachBacked, IsOpening
  <2>2. "none" # "shares"
    OBVIOUS
  <2> HIDE DEF b, o
  <2>3. Fine(next, when) /\ LeavesBacked(acc.book, next.book)
    BY <2>1, <2>2, OpenLotFine, OpenLotBacked, Zenon
  <2>4. AllMeasured(acc.book) /\ AllMeasured(next.book)
    BY <2>1, <2>3, FineMeasured, Zenon
  <2> HIDE DEF next
  <2>5. LeavesBacked(b, next.book)
    BY <1>2, <2>1, <2>3, <2>4, LeavesOn, Zenon
  <2> QED BY <2>3, <2>5, Zenon DEF EachBacked, EachStep, next, o
<1>4. EachBacked(strategy, when, b, 0, 0, c)
  BY <1>2, Zenon DEF EachBacked
<1>5. EachBacked(strategy, when, b, 0, n, EachBackedFold!Folded(strategy, when, b, 0, c, group))
  <2> HIDE DEF b
  <2> QED BY <1>3, <1>4, EachBackedFold!FoldKeeps, LeastNatural, Zenon
<1>6. LeavesBacked(b, d.book)
  BY <1>1, <1>5, Zenon DEF EachBacked
<1> QED BY <1>6 DEF d, b

(***************************************************************************)
(* Takeovers, and the calls covered                                        *)
(***************************************************************************)
\* A lot taken over becomes shares of the Wheel, as many as were taken.
LEMMA PiecesBack ==
    ASSUME NEW lot, Measured(lot), NEW shares \in Nat, 0 < shares, shares <= lot.remaining,
           NEW strike \in Int, NEW when, IsStock(lot.contract), lot.strategy # "wheel", NEW t
    PROVE  LET pieces == TakeOverLot(lot, shares, strike, when)
           IN  /\ AllMeasured(pieces)
               /\ WheelShares(pieces, t) = IF lot.contract = Stock(t) THEN shares ELSE 0
               /\ CallsCoveredBy(pieces, t, "shares") = 0
<1> DEFINE new == NewLot(lot.contract, "wheel", shares, strike, -strike * shares, when)
           taken == [new EXCEPT !.rankWhen = lot.rankWhen, !.openIds = lot.openIds,
                                !.delivered = lot.delivered]
           rest == lot.remaining - shares
           amount == Share(lot.amount, rest, Mag(lot.quantity))
           left == [lot EXCEPT !.quantity = rest, !.remaining = rest, !.amount = amount]
           shut == [lot EXCEPT !.remaining = 0]
           behind == IF rest > 0 THEN <<left>> ELSE <<>>
           ahead == <<shut, taken>>
           pieces == TakeOverLot(lot, shares, strike, when)
           gain == IF lot.contract = Stock(t) THEN shares ELSE 0
<1>1. pieces = ahead \o behind
  BY Zenon DEF TakeOverLot
<1>2. IsSeq(pieces) /\ \A j \in 1..Len(pieces) : SameLot(lot, pieces[j])
  BY PiecesAreSame
<1>3. AllMeasured(pieces)
  BY <1>2, Zenon DEF AllMeasured, SameLot
<1>4. IsLot(lot)
  BY DEF Measured
<1>5. /\ IsLot(new) /\ new.contract = lot.contract /\ new.strategy = "wheel"
      /\ new.quantity = shares /\ new.remaining = shares
  <2>1. IsLot(new) /\ new.contract = lot.contract
    BY NewLotIs
  <2> DEFINE paid == -strike * shares
  <2>2. new = NewLot(lot.contract, "wheel", shares, strike, paid, when)
    BY Zenon
  <2> HIDE DEF paid
  <2>3. new.strategy = "wheel" /\ new.quantity = shares /\ new.remaining = shares
    BY <2>2 DEF NewLot
  <2> QED BY <2>1, <2>3
<1> HIDE DEF new, amount, pieces
<1>6. /\ taken.contract = lot.contract /\ taken.strategy = "wheel"
      /\ taken.quantity = shares /\ taken.remaining = shares
  BY <1>5 DEF IsLot, LotFields
<1>7. left.contract = lot.contract /\ left.strategy = lot.strategy
  BY <1>4 DEF IsLot, LotFields
<1>8. shut.contract = lot.contract /\ shut.remaining = 0
  BY <1>4 DEF IsLot, LotFields
<1> HIDE DEF taken, left, shut
<1>9. WheelPart(shut, t) = 0 /\ WheelPart(left, t) = 0 /\ WheelPart(taken, t) = gain
  <2>1. WheelPart(shut, t) = 0
    BY <1>8 DEF WheelPart, IsWheelShares, IsShares
  <2>2. WheelPart(left, t) = 0
    BY <1>7 DEF WheelPart, IsWheelShares
  <2>3. WheelPart(taken, t) = gain
    BY <1>6 DEF WheelPart, IsWheelShares, IsShares
  <2> QED BY <2>1, <2>2, <2>3
<1>10. CallPart(shut, t) = 0 /\ CallPart(left, t) = 0 /\ CallPart(taken, t) = 0
  <2>1. lot.contract.right # "C"
    BY DEF IsStock
  <2> QED BY <1>6, <1>7, <1>8, <2>1, Zenon DEF CallPart, IsShortCall
<1> HIDE DEF gain
<1>11. IsSeq(ahead) /\ Len(ahead) = 2 /\ ahead[1] = shut /\ ahead[2] = taken
  <2>1. Lists(ahead, 2)
    BY DEF Lists
  <2>2. IsSeq(ahead) /\ Len(ahead) = 2
    BY <2>1, SeqFrom
  <2> QED BY <2>2
<1>12. IsSeq(behind) /\ (\A j \in 1..Len(behind) : behind[j] = left) /\ Len(behind) \in Nat
  <2>1. Lists(<<left>>, 1) /\ Lists(<<>>, 0) /\ <<left>>[1] = left
    BY DEF Lists
  <2>2. IsSeq(<<left>>) /\ Len(<<left>>) = 1 /\ IsSeq(<<>>) /\ Len(<<>>) = 0
    BY <2>1, SeqFrom
  <2>3. \A j \in 1..1 : <<left>>[j] = left
    OBVIOUS
  <2>4. CASE rest > 0
    <3>1. behind = <<left>>
      BY <2>4
    <3> HIDE DEF behind
    <3> QED BY <2>2, <2>3, <3>1
  <2>5. CASE ~(rest > 0)
    <3>1. behind = <<>>
      BY <2>5
    <3> HIDE DEF behind
    <3> QED BY <2>2, <3>1
  <2> QED BY <2>4, <2>5
<1> HIDE DEF ahead, behind, rest
<1>13. /\ Len(pieces) = 2 + Len(behind) /\ pieces[1] = shut /\ pieces[2] = taken
       /\ \A j \in 3..Len(pieces) : pieces[j] = left
  <2>1. /\ Len(ahead \o behind) = Len(ahead) + Len(behind)
        /\ \A i \in 1..Len(ahead) : (ahead \o behind)[i] = ahead[i]
        /\ \A i \in 1..Len(behind) : (ahead \o behind)[Len(ahead) + i] = behind[i]
    <3>1. IsSeq(ahead) /\ IsSeq(behind)
      BY <1>11, <1>12
    <3> QED BY <3>1, ConcatOf
  <2>2. \A j \in 3..(2 + Len(behind)) : j - 2 \in 1..Len(behind) /\ j = 2 + (j - 2)
    BY <1>12
  <2>3. \A j \in 3..(2 + Len(behind)) : pieces[j] = behind[j - 2]
    BY <1>1, <1>11, <2>1, <2>2
  <2> QED BY <1>1, <1>11, <1>12, <2>1, <2>2, <2>3
<1> DEFINE n == Len(pieces)
           w == WheelParts(pieces, t)
           k == CallParts(pieces, t)
<1>14. /\ n \in Nat /\ n >= 2 /\ IsFiniteSet(1..n) /\ IntegersOn(w, 1..n) /\ IntegersOn(k, 1..n)
       /\ \A i \in 1..n : w[i] = WheelPart(pieces[i], t) /\ k[i] = CallPart(pieces[i], t)
  BY <1>3, <1>12, <1>13, PartsOf
<1>15. WheelShares(pieces, t) = TotalOver(w, 1..n) /\ CallsCoveredBy(pieces, t, "shares") = TotalOver(k, 1..n)
  BY <1>3, WheelSharesSum, CallsCoveredSum
<1>16. \A i \in 1..n : i = 1 \/ i = 2 \/ i \in 3..n
  BY <1>14
<1> HIDE DEF n, w, k
<1>17. \A i \in 1..n : k[i] = 0 /\ (i # 2 => w[i] = 0) /\ (i = 2 => w[i] = gain)
  <2> TAKE i \in 1..n
  <2>1. pieces[i] = IF i = 1 THEN shut ELSE IF i = 2 THEN taken ELSE left
    BY <1>13, <1>16 DEF n
  <2> QED BY <1>9, <1>10, <1>14, <2>1
<1>18. TotalOver(k, 1..n) = 0
  <2>1. {} \in SUBSET (1..n) /\ \A i \in (1..n) \ {} : k[i] = 0
    BY <1>17
  <2>2. TotalOver(k, 1..n) = TotalOver(k, {})
    BY <1>14, <2>1, TotalOfPart, Zenon
  <2>3. TotalOver(k, {}) = 0
    BY <1>14, TotalOf, Zenon
  <2> QED BY <2>2, <2>3
<1>19. TotalOver(w, 1..n) = gain
  <2>1. {2} \in SUBSET (1..n) /\ \A i \in (1..n) \ {2} : w[i] = 0
    BY <1>14, <1>17
  <2>2. TotalOver(w, 1..n) = TotalOver(w, {2})
    BY <1>14, <2>1, TotalOfPart, Zenon
  <2>3. w[2] = gain /\ 2 \in 1..n
    BY <1>14, <1>17
  <2>4. IsFiniteSet({}) /\ 2 \notin {} /\ {} \cup {2} = {2} /\ IntegersOn(w, {2})
    BY <1>14, <2>3, FS_EmptySet DEF IntegersOn
  <2>5. TotalOver(w, {2}) = w[2] + TotalOver(w, {})
    BY <2>4, TotalWith
  <2>6. TotalOver(w, {}) = 0
    BY <1>14, TotalOf, Zenon
  <2>7. w[2] \in Int
    BY <1>14, <2>3, Zenon DEF IntegersOn
  <2> QED BY <2>2, <2>3, <2>5, <2>6, <2>7
<1> QED BY <1>3, <1>15, <1>18, <1>19 DEF pieces, gain

\* The shares of the Wheel in a book, with those taken over.
WheelGains(book, plan, t) ==
    [i \in 1..Len(book) |-> WheelPart(book[i], t) + (IF book[i].contract = Stock(t) THEN plan[i] ELSE 0)]
\* Only shares outside the Wheel are taken over.
Movable(book, plan) ==
    \A i \in 1..Len(book) :
        /\ plan[i] \in Nat
        /\ plan[i] > 0 => /\ plan[i] <= book[i].remaining
                          /\ IsStock(book[i].contract) /\ book[i].strategy # "wheel"
TakenSums(book, plan, strike, when, k, acc) ==
    /\ AllMeasured(acc)
    /\ \A t : /\ WheelShares(acc, t) = TotalOver(WheelGains(book, plan, t), 1..k)
              /\ CallsCoveredBy(acc, t, "shares") = TotalOver(CallParts(book, t), 1..k)
TakenSumsFold == INSTANCE Folding WITH Op <- TakeStep, Good <- TakenSums

LEMMA GainsAre ==
    ASSUME NEW book, AllMeasured(book), NEW plan, Movable(book, plan), NEW t
    PROVE  LET f == WheelGains(book, plan, t)
           IN  /\ \A i \in 1..Len(book) :
                     /\ f[i] = WheelPart(book[i], t) + (IF book[i].contract = Stock(t) THEN plan[i] ELSE 0)
                     /\ f[i] \in Int /\ WheelPart(book[i], t) <= f[i]
               /\ IntegersOn(f, 1..Len(book))
<1> DEFINE f == WheelGains(book, plan, t)
           n == Len(book)
<1>1. \A i \in 1..n : f[i] = WheelPart(book[i], t) + (IF book[i].contract = Stock(t) THEN plan[i] ELSE 0)
  BY DEF WheelGains
<1>2. \A i \in 1..n : WheelPart(book[i], t) \in Nat /\ plan[i] \in Nat
  BY PartsAre, Zenon DEF AllMeasured, Movable
<1> HIDE DEF f, n
<1>3. \A i \in 1..n : f[i] \in Int /\ WheelPart(book[i], t) <= f[i]
  BY <1>1, <1>2
<1> QED BY <1>1, <1>3, Zenon DEF IntegersOn, f, n

\* What one lot becomes when so much of it is taken over.
LEMMA PieceSums ==
    ASSUME NEW lot, Measured(lot), NEW taken \in Nat,
           taken > 0 => taken <= lot.remaining /\ IsStock(lot.contract) /\ lot.strategy # "wheel",
           NEW strike \in Int, NEW when, NEW t
    PROVE  LET pieces == IF taken > 0 THEN TakeOverLot(lot, taken, strike, when) ELSE <<lot>>
           IN  /\ AllMeasured(pieces)
               /\ WheelShares(pieces, t) = WheelPart(lot, t) + (IF lot.contract = Stock(t) THEN taken ELSE 0)
               /\ CallsCoveredBy(pieces, t, "shares") = CallPart(lot, t)
<1> DEFINE pieces == IF taken > 0 THEN TakeOverLot(lot, taken, strike, when) ELSE <<lot>>
<1>0. WheelPart(lot, t) \in Nat
  BY PartsAre
<1>1. CASE taken > 0
  <2>1. pieces = TakeOverLot(lot, taken, strike, when)
    BY <1>1
  <2>2. 0 < taken /\ taken <= lot.remaining /\ IsStock(lot.contract) /\ lot.strategy # "wheel"
    BY <1>1
  <2>3. WheelPart(lot, t) = 0
    BY <2>2 DEF WheelPart, IsWheelShares
  <2>4. CallPart(lot, t) = 0
    <3>1. lot.contract.right # "C"
      BY <2>2 DEF IsStock
    <3> QED BY <3>1, Zenon DEF CallPart, IsShortCall
  <2> HIDE DEF pieces
  <2>5. /\ AllMeasured(pieces) /\ CallsCoveredBy(pieces, t, "shares") = 0
        /\ WheelShares(pieces, t) = IF lot.contract = Stock(t) THEN taken ELSE 0
    BY <2>1, <2>2, PiecesBack
  <2> QED BY <2>3, <2>4, <2>5 DEF pieces
<1>2. CASE ~(taken > 0)
  <2>1. pieces = <<lot>> /\ taken = 0
    BY <1>2
  <2> HIDE DEF pieces
  <2>2. /\ AllMeasured(pieces) /\ CallsCoveredBy(pieces, t, "shares") = CallPart(lot, t)
        /\ WheelShares(pieces, t) = WheelPart(lot, t)
    BY <2>1, SumsOfOne
  <2> QED BY <1>0, <2>1, <2>2 DEF pieces
<1> QED BY <1>1, <1>2

\* The shares of the Wheel are those it had and those taken over; no call is touched.
LEMMA TakenOverSums ==
    ASSUME NEW book, AllMeasured(book), NEW plan, Movable(book, plan), NEW strike \in Int, NEW when
    PROVE  TakenSums(book, plan, strike, when, Len(book), TakenOver(book, plan, strike, when))
<1> DEFINE n == Len(book)
           is == [i \in DOMAIN book |-> i]
           d == TakenOver(book, plan, strike, when)
<1>1. n \in Nat /\ DOMAIN book = 1..n /\ \A i \in 1..n : Measured(book[i])
  BY DEF AllMeasured, IsSeq, Lists
<1>2. DOMAIN is = 1..n /\ \A k \in 1..n : is[k] = k
  BY <1>1
<1>3. d = TakenSumsFold!Folded(book, plan, strike, when, <<>>, is)
  <2> HIDE DEF is
  <2> QED BY DEF TakenOver, FoldLeft, MapThenFoldSet, Max, TakenSumsFold!Folded, TakeStep, is
<1>30. \A t : /\ IntegersOn(WheelGains(book, plan, t), 1..n) /\ IntegersOn(CallParts(book, t), 1..n)
              /\ \A i \in 1..n :
                    /\ WheelGains(book, plan, t)[i]
                         = WheelPart(book[i], t) + (IF book[i].contract = Stock(t) THEN plan[i] ELSE 0)
                    /\ CallParts(book, t)[i] = CallPart(book[i], t)
  <2> TAKE t
  <2>1. IntegersOn(CallParts(book, t), 1..n) /\ \A i \in 1..n : CallParts(book, t)[i] = CallPart(book[i], t)
    BY PartsOf
  <2>2. /\ IntegersOn(WheelGains(book, plan, t), 1..n)
        /\ \A i \in 1..n : WheelGains(book, plan, t)[i]
                         = WheelPart(book[i], t) + (IF book[i].contract = Stock(t) THEN plan[i] ELSE 0)
    BY GainsAre
  <2> QED BY <2>1, <2>2
<1> HIDE DEF is, d, n
<1>4. ASSUME NEW acc, NEW k \in 1..n, TakenSums(book, plan, strike, when, k - 1, acc)
      PROVE  TakenSums(book, plan, strike, when, k, TakeStep(book, plan, strike, when, acc, k))
  <2> DEFINE lot == book[k]
             taken == plan[k]
             pieces == IF taken > 0 THEN TakeOverLot(lot, taken, strike, when) ELSE <<lot>>
             all == acc \o pieces
  <2>1. /\ Measured(lot) /\ taken \in Nat
        /\ taken > 0 => taken <= lot.remaining /\ IsStock(lot.contract) /\ lot.strategy # "wheel"
    BY <1>1, Zenon DEF Movable, n
  <2>2. \A t : /\ AllMeasured(pieces)
               /\ WheelShares(pieces, t) = WheelPart(lot, t) + (IF lot.contract = Stock(t) THEN taken ELSE 0)
               /\ CallsCoveredBy(pieces, t, "shares") = CallPart(lot, t)
    <3> HIDE DEF lot, taken
    <3> QED BY <2>1, PieceSums
  <2>3. /\ AllMeasured(acc)
        /\ \A t : /\ WheelShares(acc, t) = TotalOver(WheelGains(book, plan, t), 1..(k - 1))
                  /\ CallsCoveredBy(acc, t, "shares") = TotalOver(CallParts(book, t), 1..(k - 1))
    BY <1>4, Zenon DEF TakenSums
  <2>4. TakeStep(book, plan, strike, when, acc, k) = all
    BY Zenon DEF TakeStep
  <2> HIDE DEF pieces
  <2>5. AllMeasured(pieces)
    BY <2>2
  <2>6. /\ IsSeq(all) /\ Len(all) = Len(acc) + Len(pieces)
        /\ \A i \in 1..Len(acc) : all[i] = acc[i]
        /\ \A i \in 1..Len(pieces) : all[Len(acc) + i] = pieces[i]
    <3>1. IsSeq(acc) /\ IsSeq(pieces)
      BY <2>3, <2>5, Zenon DEF AllMeasured
    <3> QED BY <3>1, ConcatOf
  <2> HIDE DEF all
  <2>7. AllMeasured(all)
    <3>1. Len(acc) \in Nat /\ Len(pieces) \in Nat
      BY <2>3, <2>5, PartsOf, Zenon
    <3>2. \A i \in 1..Len(all) : Measured(all[i])
      <4> TAKE i \in 1..Len(all)
      <4>1. i \in 1..Len(acc) \/ (i - Len(acc) \in 1..Len(pieces) /\ i = Len(acc) + (i - Len(acc)))
        BY <2>6, <3>1
      <4>2. CASE i \in 1..Len(acc)
        BY <2>3, <2>6, <4>2, Zenon DEF AllMeasured
      <4>3. CASE i - Len(acc) \in 1..Len(pieces) /\ i = Len(acc) + (i - Len(acc))
        <5>1. all[i] = pieces[i - Len(acc)]
          BY <2>6, <4>3
        <5> QED BY <2>5, <4>3, <5>1, Zenon DEF AllMeasured
      <4> QED BY <4>1, <4>2, <4>3
    <3> QED BY <2>6, <3>2, Zenon DEF AllMeasured
  <2>8. Joined(all, acc, pieces)
    BY <2>6 DEF Joined
  <2>9. ASSUME NEW t
        PROVE  /\ WheelShares(all, t) = TotalOver(WheelGains(book, plan, t), 1..k)
               /\ CallsCoveredBy(all, t, "shares") = TotalOver(CallParts(book, t), 1..k)
    <3>1. SumsAdd(all, acc, pieces, t)
      BY <2>3, <2>5, <2>7, <2>8, SumsOfBoth, Zenon
    <3> DEFINE f == WheelGains(book, plan, t)
               g == CallParts(book, t)
    <3>2. /\ IntegersOn(f, 1..n) /\ IntegersOn(g, 1..n)
          /\ f[k] = WheelPart(lot, t) + (IF lot.contract = Stock(t) THEN taken ELSE 0)
          /\ g[k] = CallPart(lot, t)
      BY <1>30
    <3>3. /\ WheelShares(acc, t) = TotalOver(f, 1..(k - 1))
          /\ CallsCoveredBy(acc, t, "shares") = TotalOver(g, 1..(k - 1))
      BY <2>3
    <3>4. WheelShares(pieces, t) = f[k] /\ CallsCoveredBy(pieces, t, "shares") = g[k]
      BY <2>2, <3>2, Zenon
    <3> HIDE DEF f, g
    <3>5. TotalOver(f, 1..k) = TotalOver(f, 1..(k - 1)) + f[k]
      BY <1>1, <3>2, NextTotal, Zenon
    <3>6. TotalOver(g, 1..k) = TotalOver(g, 1..(k - 1)) + g[k]
      BY <1>1, <3>2, NextTotal, Zenon
    <3>7. /\ WheelShares(all, t) = WheelShares(acc, t) + WheelShares(pieces, t)
          /\ CallsCoveredBy(all, t, "shares")
               = CallsCoveredBy(acc, t, "shares") + CallsCoveredBy(pieces, t, "shares")
      BY <3>1, Zenon DEF SumsAdd
    <3>8. WheelShares(all, t) = TotalOver(f, 1..k) /\ CallsCoveredBy(all, t, "shares") = TotalOver(g, 1..k)
      BY <3>3, <3>4, <3>5, <3>6, <3>7, Zenon
    <3> QED BY <3>8 DEF f, g
  <2> QED BY <2>4, <2>7, <2>9, Zenon DEF TakenSums
<1>5. \A acc : \A k \in 1..n : TakenSums(book, plan, strike, when, k - 1, acc)
        => TakenSums(book, plan, strike, when, k, TakeStep(book, plan, strike, when, acc, is[k]))
  BY <1>2, <1>4
<1>6. TakenSums(book, plan, strike, when, 0, <<>>)
  <2>1. Lists(<<>>, 0)
    BY DEF Lists
  <2>2. IsSeq(<<>>) /\ Len(<<>>) = 0
    BY <2>1, SeqFrom
  <2>3. AllMeasured(<<>>)
    BY <2>2 DEF AllMeasured
  <2>4. ASSUME NEW t
        PROVE  /\ WheelShares(<<>>, t) = TotalOver(WheelGains(book, plan, t), 1..0)
               /\ CallsCoveredBy(<<>>, t, "shares") = TotalOver(CallParts(book, t), 1..0)
    <3> DEFINE e == <<>>
    <3>1. Len(e) = 0 /\ AllMeasured(e)
      BY <2>2, <2>3
    <3> HIDE DEF e
    <3>2. /\ WheelShares(e, t) = TotalOver(WheelParts(e, t), 1..Len(e))
          /\ CallsCoveredBy(e, t, "shares") = TotalOver(CallParts(e, t), 1..Len(e))
      BY <3>1, WheelSharesSum, CallsCoveredSum, Zenon
    <3>3. WheelShares(e, t) = 0 /\ CallsCoveredBy(e, t, "shares") = 0
      BY <3>1, <3>2, NoPlaces, Zenon
    <3> QED BY <3>3, NoPlaces, Zenon DEF e
  <2> QED BY <2>3, <2>4, Zenon DEF TakenSums
<1>7. TakenSums(book, plan, strike, when, n, TakenSumsFold!Folded(book, plan, strike, when, <<>>, is))
  BY <1>1, <1>2, <1>5, <1>6, TakenSumsFold!FoldKeeps, LeastNatural, Zenon
<1> QED BY <1>3, <1>7, Zenon DEF d, n

\* A takeover moves shares into the Wheel, as many as it lacks or all there are outside it.
TakeoverAdds(book, plan, ticker, lacking) ==
    LET gain(t) == TotalOver(WheelGains(book, plan, t), 1..Len(book))
    IN  /\ \A t : gain(t) \in Int /\ WheelShares(book, t) <= gain(t)
        /\ lacking >= 0 =>
              gain(ticker) = WheelShares(book, ticker)
                               + Least(lacking, SharesHeld(book, ticker) - WheelShares(book, ticker))

LEMMA TakeoverTakes ==
    ASSUME NEW book, AllMeasured(book), NEW ticker, NEW contracts \in Int, NEW backed \in Int
    PROVE  LET plan == TakeoverPlan(book, ticker, contracts, backed)
               lacking == contracts * PerContract
                            - Most(0, WheelShares(book, ticker) - backed * PerContract)
           IN  Movable(book, plan) /\ TakeoverAdds(book, plan, ticker, lacking)
<1> DEFINE m == Len(book)
           w == WheelShares(book, ticker)
           lacking == contracts * PerContract - Most(0, w - backed * PerContract)
           cap == [i \in DOMAIN book |->
                    IF IsShares(book[i], ticker) /\ book[i].strategy # "wheel"
                    THEN book[i].remaining ELSE 0]
           S == {i \in DOMAIN book : cap[i] > 0}
           own == [i \in S |-> i]
           order == SortedOn(S, own)
           plan == TakeoverPlan(book, ticker, contracts, backed)
<1>1. m \in Nat /\ DOMAIN book = 1..m /\ IsFiniteSet(1..m)
  BY FS_Interval DEF AllMeasured, IsSeq, Lists
<1>2. plan = Pour(order, cap, lacking)
  BY Zenon DEF TakeoverPlan, SortedBy
<1>3. lacking \in Int
  <2> DEFINE a == contracts * PerContract
             b == backed * PerContract
  <2>1. a \in Int /\ b \in Int
    BY PerContractAssumption
  <2>2. w \in Int
    BY WheelSharesIs
  <2> HIDE DEF a, b, w
  <2>3. a - Most(0, w - b) \in Int
    BY <2>1, <2>2 DEF Most
  <2> QED BY <2>3 DEF a, b
<1>4. Lists(cap, m) /\ DOMAIN cap = 1..m
  BY <1>1 DEF Lists
<1>5. \A i \in 1..m : cap[i] = IF IsShares(book[i], ticker) /\ book[i].strategy # "wheel"
                               THEN book[i].remaining ELSE 0
  BY <1>1
<1>6. \A i \in 1..m : book[i].remaining \in Int /\ Measured(book[i])
  BY Zenon DEF AllMeasured, Measured
<1>7. \A i \in 1..m : /\ cap[i] \in Nat
                      /\ cap[i] # 0 => /\ IsShares(book[i], ticker) /\ book[i].strategy # "wheel"
                                       /\ cap[i] = book[i].remaining
  <2> TAKE i \in 1..m
  <2>1. IsShares(book[i], ticker) => book[i].remaining > 0
    BY DEF IsShares
  <2> HIDE DEF cap
  <2> QED BY <1>5, <1>6, <2>1
<1>8. S \in SUBSET (1..m) /\ (\A i \in S : own[i] \in Int) /\ \A i \in 1..m : i \in S <=> cap[i] > 0
  BY <1>1
<1> HIDE DEF cap, plan, own, S, m, lacking, w
<1>9. IsSeq(order) /\ Distinct(order) /\ Members(order) = S
  <2>1. IsFiniteSet(S) /\ S \subseteq Int
    <3>1. IsFiniteSet(S)
      BY <1>1, <1>8, FS_Subset, Zenon
    <3> QED BY <1>8, <3>1
  <2> QED BY <1>8, <2>1, SortedArranges DEF Arranges
<1> HIDE DEF order
<1>10. Within(plan, cap, m) /\ \A i \in 1..m : plan[i] # 0 => i \in S
  BY <1>1, <1>2, <1>3, <1>4, <1>7, <1>8, <1>9, PourWithin
<1>11. \A i \in 1..m : plan[i] \in Nat /\ plan[i] <= cap[i] /\ (plan[i] # 0 => cap[i] # 0)
  <2>1. \A i \in 1..m : plan[i] \in Nat /\ plan[i] <= cap[i]
    BY <1>10 DEF Within
  <2> QED BY <1>7, <2>1
<1>12. \A i \in 1..m : IsShares(book[i], ticker) => book[i].contract = Stock(ticker) /\ IsStock(book[i].contract)
  <2>1. IsStock(Stock(ticker))
    BY DEF Stock, IsStock
  <2> QED BY <2>1, Zenon DEF IsShares
<1>13. Movable(book, plan)
  <2>1. \A i \in 1..m : plan[i] > 0 => plan[i] # 0
    BY <1>11
  <2> QED BY <1>7, <1>11, <1>12, <2>1, Zenon DEF Movable, m
<1>14. ASSUME NEW t
       PROVE  /\ TotalOver(WheelGains(book, plan, t), 1..m) \in Int
              /\ WheelShares(book, t) <= TotalOver(WheelGains(book, plan, t), 1..m)
  <2> DEFINE f == WheelParts(book, t)
             h == WheelGains(book, plan, t)
  <2>1. IntegersOn(h, 1..m) /\ \A i \in 1..m : WheelPart(book[i], t) <= h[i]
    BY <1>13, GainsAre DEF m
  <2>2. IntegersOn(f, 1..m) /\ (\A i \in 1..m : f[i] = WheelPart(book[i], t))
    BY PartsOf DEF m
  <2>3. WheelShares(book, t) = TotalOver(f, 1..m)
    BY WheelSharesSum DEF m
  <2> HIDE DEF f, h
  <2>4. \A i \in 1..m : f[i] <= h[i]
    BY <2>1, <2>2
  <2>5. TotalOver(f, 1..m) <= TotalOver(h, 1..m)
    BY <1>1, <2>1, <2>2, <2>4, TotalRises, Zenon
  <2>6. TotalOver(h, 1..m) \in Int
    BY <1>1, <2>1, TotalOf, Zenon
  <2> QED BY <2>3, <2>5, <2>6 DEF h
<1>15. ASSUME lacking >= 0
       PROVE  TotalOver(WheelGains(book, plan, ticker), 1..m) = w + Least(lacking, SharesHeld(book, ticker) - w)
  <2> DEFINE f == WheelParts(book, ticker)
             g == ShareParts(book, ticker)
             h == WheelGains(book, plan, ticker)
  <2>1. IntegersOn(f, 1..m) /\ IntegersOn(g, 1..m)
    BY PartsOf DEF m
  <2>2. \A i \in 1..m : /\ f[i] = WheelPart(book[i], ticker) /\ g[i] = SharePart(book[i], ticker)
                        /\ h[i] = WheelPart(book[i], ticker)
                                    + (IF book[i].contract = Stock(ticker) THEN plan[i] ELSE 0)
    <3>1. \A i \in 1..m : f[i] = WheelPart(book[i], ticker) /\ g[i] = SharePart(book[i], ticker)
      BY PartsOf DEF m
    <3>2. \A i \in 1..m : h[i] = WheelPart(book[i], ticker)
                                    + (IF book[i].contract = Stock(ticker) THEN plan[i] ELSE 0)
      BY <1>13, GainsAre DEF m
    <3> QED BY <3>1, <3>2, Zenon
  <2>3. w = TotalOver(f, 1..m) /\ SharesHeld(book, ticker) = TotalOver(g, 1..m)
    BY WheelSharesSum, SharesHeldSum DEF m, w
  <2> HIDE DEF f, g, h
  <2>4. \A i \in 1..m : h[i] = f[i] + plan[i]
    <3> TAKE i \in 1..m
    <3>1. plan[i] # 0 => book[i].contract = Stock(ticker)
      BY <1>7, <1>11, <1>12, ZenonT(30)
    <3>2. plan[i] \in Nat /\ f[i] \in Int
      BY <1>11, <2>1 DEF IntegersOn
    <3> QED BY <2>2, <3>1, <3>2
  <2>5. \A i \in 1..m : g[i] = cap[i] + f[i]
    <3> TAKE i \in 1..m
    <3>1. /\ f[i] = IF IsShares(book[i], ticker) /\ book[i].strategy = "wheel" THEN book[i].remaining ELSE 0
          /\ g[i] = IF IsShares(book[i], ticker) THEN book[i].remaining ELSE 0
      BY <2>2, Zenon DEF WheelPart, SharePart, IsWheelShares
    <3> QED BY <1>5, <1>6, <3>1
  <2>6. IntegersOn(plan, 1..m) /\ IntegersOn(cap, 1..m)
    BY <1>7, <1>11 DEF IntegersOn
  <2>7. TotalOver(h, 1..m) = TotalOver(f, 1..m) + TotalOver(plan, 1..m)
    BY <1>1, <2>1, <2>4, <2>6, TotalsSum, Zenon
  <2>8. TotalOver(g, 1..m) = TotalOver(cap, 1..m) + TotalOver(f, 1..m)
    BY <1>1, <2>1, <2>5, <2>6, TotalsSum, Zenon
  <2>9. TotalOver(cap, 1..m) = TotalOver(cap, S)
    <3>1. \A i \in (1..m) \ S : cap[i] = 0
      BY <1>7, <1>8
    <3>2. IsFiniteSet(1..m) /\ IntegersOn(cap, 1..m) /\ S \in SUBSET (1..m)
      BY <1>1, <1>8, <2>6
    <3> QED BY <3>1, <3>2, TotalOfPart
  <2>10. TotalOver(plan, 1..m) = Least(lacking, TotalOver(cap, S))
    <3>1. lacking \in Nat
      BY <1>3, <1>15
    <3>2. Members(order) \subseteq 1..m
      BY <1>8, <1>9
    <3>3. TotalOver(Pour(order, cap, lacking), 1..m) = Least(lacking, TotalOver(cap, Members(order)))
      <4> DEFINE P == 1..m
      <4>1. IsFiniteSet(P) /\ DOMAIN cap = P /\ \A i \in P : cap[i] \in Nat
        BY <1>1, <1>4, <1>7
      <4>2. IsSeq(order) /\ Distinct(order) /\ Members(order) \subseteq P
        BY <1>9, <3>2
      <4> HIDE DEF P
      <4>3. TotalOver(Pour(order, cap, lacking), P) = Least(lacking, TotalOver(cap, Members(order)))
        BY <3>1, <4>1, <4>2, PourTakes
      <4> QED BY <4>3 DEF P
    <3> QED BY <1>2, <1>9, <3>3, Zenon
  <2>11. TotalOver(f, 1..m) \in Int /\ TotalOver(cap, 1..m) \in Int
    BY <1>1, <2>1, <2>6, TotalOf, Zenon
  <2>12. SharesHeld(book, ticker) - w = TotalOver(cap, S)
    BY <2>3, <2>8, <2>9, <2>11
  <2> QED BY <2>3, <2>7, <2>10, <2>12, Zenon DEF h
<1>16. TakeoverAdds(book, plan, ticker, lacking)
  BY <1>14, <1>15, Zenon DEF TakeoverAdds, m, w
<1> QED BY <1>13, <1>16, Zenon DEF plan, lacking, w

\* The book a takeover leaves.
LEMMA TakeOverSharesBook ==
    ASSUME NEW c, NEW when \in Int, Fine(c, when), NEW call, call.strike \in Int,
           NEW contracts \in Int, NEW backed \in Int
    PROVE  TakeOverShares(c, call, contracts, backed, when).book
             = TakenOver(c.book, TakeoverPlan(c.book, call.ticker, contracts, backed), call.strike, when)
<1> DEFINE plan == TakeoverPlan(c.book, call.ticker, contracts, backed)
           integrated == [i \in DOMAIN c.book |->
                            [when |-> when, amount |-> call.strike * plan[i], event |-> "integrated",
                             ids |-> {when}]]
           told == CloseLots(c, c.book, plan, integrated)
           covered == [told EXCEPT !.book = TakenOver(@, plan, call.strike, when)]
<1>1. TakeOverShares(c, call, contracts, backed, when) = covered
  BY Zenon DEF TakeOverShares
<1>2. Len(c.book) \in Nat /\ DOMAIN c.book = 1..Len(c.book)
  BY DEF Fine, IsSeq, Lists
<1> HIDE DEF plan, integrated
<1>3. Fine(told, when) /\ told.book = c.book
  BY <1>2, CloseLotsFine
<1> HIDE DEF told
<1>4. IsContext(told)
  BY <1>3 DEF Fine
<1>5. covered.book = TakenOver(c.book, plan, call.strike, when)
  BY <1>3, <1>4 DEF IsContext, ContextFields
<1> HIDE DEF covered
<1> QED BY <1>1, <1>5 DEF plan

(***************************************************************************)
(* Calls sold, and the calls covered                                       *)
(***************************************************************************)
\* The shares a takeover adds cover the calls sold: w shares of the Wheel of s held, k
\* calls covered, n calls sold, v shares of the Wheel once it took over what it lacked.
LEMMA TakeoverCovers ==
    ASSUME NEW w \in Nat, NEW s \in Nat, NEW k \in Nat, NEW n \in Nat, NEW p \in Nat, NEW v \in Int,
           w <= s, (n + k) * p <= s, w <= v,
           n * p - Most(0, w - k * p) >= 0 => v = w + Least(n * p - Most(0, w - k * p), s - w)
    PROVE  Most(0, (k + n) * p - v) <= Most(0, k * p - w)
<1> DEFINE x == n * p
           y == k * p
<1>1. x \in Nat /\ y \in Nat /\ (n + k) * p = x + y /\ (k + n) * p = x + y
  OBVIOUS
<1>2. x - Most(0, w - y) >= 0 => v = w + Least(x - Most(0, w - y), s - w)
  OBVIOUS
<1>3. x + y <= s
  BY <1>1
<1> HIDE DEF x, y
<1>4. Most(0, x + y - v) <= Most(0, y - w)
  BY <1>1, <1>2, <1>3 DEF Most, Least
<1> QED BY <1>1, <1>4 DEF y

\* The covered part of a call sold: the shares it lacks come in before it does.
LEMMA CoveredPartBacked ==
    ASSUME NEW c, NEW when \in Int, Fine(c, when), NEW o, IsOpening(o), o.tx.contract.right = "C",
           NEW part, part.cover = "shares", part.n \in Nat \ {0},
           part.n <= WheelCapacity(c.book, o.tx.contract.ticker),
           NEW backed, backed = CallsCoveredBy(c.book, o.tx.contract.ticker, "shares")
    PROVE  LeavesBacked(c.book, OpenPart(c, o, part, backed, when).book)
<1> DEFINE u == o.tx.contract.ticker
           call == o.tx.contract
           b == c.book
           m == Len(b)
           n == part.n
           plan == TakeoverPlan(b, u, n, backed)
           ready == TakeOverShares(c, call, n, backed, when)
           d == TakenOver(b, plan, call.strike, when)
           less == -n
           lacking == n * PerContract - Most(0, WheelShares(b, u) - backed * PerContract)
<1>1. OpenPart(c, o, part, backed, when) = OpenLot(ready, o, part.strategy, "shares", less, when)
  BY DEF OpenPart
<1>2. call.strike \in Int /\ n \in Int /\ less \in Int /\ AllMeasured(b) /\ backed \in Int
  <2>1. call.strike \in Int
    BY Zenon DEF IsOpening, IsTrade, IsContract
  <2>2. AllMeasured(b)
    BY FineMeasured, Zenon
  <2>3. backed \in Int
    BY <2>2, CallsCoveredIs, Zenon
  <2> QED BY <2>1, <2>2, <2>3
<1>3. Fine(ready, when) /\ ready.book = d
  BY <1>2, TakeOverSharesFine, TakeOverSharesBook
<1>4. Movable(b, plan) /\ TakeoverAdds(b, plan, u, lacking)
  <2> HIDE DEF b, u, n
  <2> QED BY <1>2, TakeoverTakes
<1>5. TakenSums(b, plan, call.strike, when, m, d)
  <2> HIDE DEF b, plan, call
  <2> QED BY <1>2, <1>4, TakenOverSums
<1> HIDE DEF ready
<1>6. PICK lot : /\ OpenLot(ready, o, part.strategy, "shares", less, when).book = Append(ready.book, lot)
                 /\ Measured(lot) /\ lot.contract = call /\ lot.cover = "shares"
                 /\ lot.quantity = less /\ lot.remaining = less
  BY <1>2, <1>3, OpenLotIs, SMTT(30)
<1> DEFINE e == Append(d, lot)
<1>7. OpenPart(c, o, part, backed, when).book = e
  BY <1>1, <1>3, <1>6
<1>8. AllMeasured(d)
  BY <1>5, Zenon DEF TakenSums
<1>9. \A t : /\ WheelPart(lot, t) = 0
             /\ CallPart(lot, t) = IF t = u THEN n ELSE 0
  <2> TAKE t
  <2>1. WheelPart(lot, t) = 0
    <3>1. Stock(t).right # "C"
      BY DEF Stock
    <3> QED BY <1>6, <3>1, Zenon DEF WheelPart, IsWheelShares, IsShares
  <2>2. less < 0 /\ Mag(less) = n /\ less # 0
    BY DEF Mag
  <2> HIDE DEF less, n
  <2>3. IsShortCall(lot, t) <=> t = u
    BY <1>6, <2>2, Zenon DEF IsShortCall, IsOpen
  <2> QED BY <1>6, <2>1, <2>2, <2>3, Zenon DEF CallPart
<1> HIDE DEF d, plan
<1>10. \A t : /\ AllMeasured(e) /\ WheelShares(e, t) = WheelShares(d, t) + WheelPart(lot, t)
              /\ CallsCoveredBy(e, t, "shares") = CallsCoveredBy(d, t, "shares") + CallPart(lot, t)
  BY <1>6, <1>8, SumsOfMore, Zenon
<1> HIDE DEF e
<1> SUFFICES ASSUME NEW t PROVE Uncovered(e, t) <= Uncovered(b, t)
  BY <1>7, Zenon DEF LeavesBacked
<1> DEFINE w == WheelShares(b, t)
           v == TotalOver(WheelGains(b, plan, t), 1..m)
           k == CallsCoveredBy(b, t, "shares")
           s == SharesHeld(b, t)
           j == CallsCoveredBy(e, t, "shares")
<1>11. w \in Nat /\ k \in Nat /\ s \in Nat /\ w <= s /\ v \in Int /\ w <= v
  <2>1. w \in Nat /\ k \in Nat /\ s \in Nat /\ w <= s
    BY <1>2, SumsAre, Zenon
  <2>2. v \in Int /\ w <= v
    BY <1>4, Zenon DEF TakeoverAdds
  <2> QED BY <2>1, <2>2
<1>12. WheelShares(d, t) = v /\ CallsCoveredBy(d, t, "shares") = k
  <2>1. WheelShares(d, t) = v /\ CallsCoveredBy(d, t, "shares") = TotalOver(CallParts(b, t), 1..m)
    BY <1>5, Zenon DEF TakenSums
  <2>2. k = TotalOver(CallParts(b, t), 1..m)
    BY <1>2, CallsCoveredSum, Zenon
  <2> QED BY <2>1, <2>2
<1>13. WheelShares(e, t) = v /\ j = k + (IF t = u THEN n ELSE 0)
  <2>1. /\ WheelShares(e, t) = WheelShares(d, t) + WheelPart(lot, t)
        /\ j = CallsCoveredBy(d, t, "shares") + CallPart(lot, t)
    BY <1>10
  <2> HIDE DEF w, v, k, s, j, n
  <2> QED BY <1>9, <1>11, <1>12, <2>1
<1>14. Uncovered(e, t) = Most(0, j * PerContract - v) /\ Uncovered(b, t) = Most(0, k * PerContract - w)
  BY <1>13 DEF Uncovered
<1>15. PerContract \in Nat
  BY PerContractAssumption
<1>16. CASE t = u
  <2>1. (n + k) * PerContract <= s
    <3> DEFINE q == s \div PerContract
    <3>1. WheelCapacity(b, t) = Most(0, q - k)
      BY DEF WheelCapacity
    <3>2. n <= Most(0, q - k) /\ n \in Nat \ {0}
      BY <1>16, <3>1
    <3>3. q \in Int
      BY <1>11, PerContractAssumption
    <3> HIDE DEF q, n, k, s
    <3>4. n + k <= q /\ n + k \in Nat
      BY <1>11, <3>2, <3>3 DEF Most
    <3> QED BY <1>11, <3>4, PerContractAssumption, DividedFits DEF q
  <2>2. n * PerContract - Most(0, w - k * PerContract) >= 0
          => v = w + Least(n * PerContract - Most(0, w - k * PerContract), s - w)
    BY <1>4, <1>16, Zenon DEF TakeoverAdds
  <2>3. n \in Nat /\ j = k + n
    BY <1>13, <1>16
  <2> HIDE DEF w, v, k, s, j, n
  <2>4. Most(0, (k + n) * PerContract - v) <= Most(0, k * PerContract - w)
    BY <1>11, <1>15, <2>1, <2>2, <2>3, TakeoverCovers
  <2> QED BY <1>14, <2>3, <2>4
<1>17. CASE t # u
  <2>1. j = k
    <3>1. j = k + 0
      BY <1>13, <1>17
    <3> HIDE DEF j, k
    <3> QED BY <1>11, <3>1
  <2> DEFINE y == k * PerContract
  <2>2. y \in Int
    BY <1>11, <1>15
  <2>3. Uncovered(e, t) = Most(0, y - v) /\ Uncovered(b, t) = Most(0, y - w)
    BY <1>14, <2>1
  <2> HIDE DEF w, v, k, s, j, y
  <2> QED BY <1>11, <2>2, <2>3 DEF Most
<1> QED BY <1>16, <1>17

\* The same sums for a ticker.
StillThere(b, d, t) ==
    /\ SharesHeld(d, t) = SharesHeld(b, t) /\ WheelShares(d, t) = WheelShares(b, t)
    /\ CallsCoveredBy(d, t, "shares") = CallsCoveredBy(b, t, "shares")

\* A part that the Wheel does not cover.
LEMMA OtherPartBacked ==
    ASSUME NEW c, NEW when \in Int, Fine(c, when), NEW o, IsOpening(o), o.tx.contract.right = "C",
           NEW part, part.n \in Nat, part.cover # "shares" \/ part.n = 0, NEW backed \in Int
    PROVE  LET d == OpenPart(c, o, part, backed, when)
           IN  LeavesBacked(c.book, d.book) /\ \A t : StillThere(c.book, d.book, t)
<1> DEFINE d == OpenPart(c, o, part, backed, when)
           less == -part.n
<1>1. AllMeasured(c.book)
  BY FineMeasured, Zenon
<1>2. CASE part.n = 0
  <2>1. d = c
    BY <1>2 DEF OpenPart
  <2>2. LeavesBacked(c.book, c.book) /\ \A t : StillThere(c.book, c.book, t)
    BY <1>1, LeavesSame, Zenon DEF StillThere
  <2> HIDE DEF d
  <2> QED BY <2>1, <2>2 DEF d
<1>3. CASE part.n # 0
  <2>1. d = OpenLot(c, o, part.strategy, part.cover, less, when)
    BY <1>3 DEF OpenPart
  <2>2. less \in Int
    OBVIOUS
  <2> HIDE DEF d, less
  <2>3. PICK lot : /\ d.book = Append(c.book, lot)
                   /\ Measured(lot) /\ lot.contract = o.tx.contract /\ lot.cover = part.cover
    BY <2>1, <2>2, OpenLotIs
  <2>4. lot.cover # "shares" /\ lot.contract.right = "C"
    BY <1>3, <2>3
  <2>5. LeavesBacked(c.book, Append(c.book, lot))
    BY <1>1, <2>3, <2>4, MoreBacks, Zenon
  <2>6. ASSUME NEW t PROVE StillThere(c.book, Append(c.book, lot), t)
    <3>1. SharePart(lot, t) = 0 /\ WheelPart(lot, t) = 0 /\ CallPart(lot, t) = 0
      <4>1. Stock(t).right # "C"
        BY DEF Stock
      <4> QED BY <2>4, <4>1, Zenon DEF SharePart, WheelPart, CallPart, IsWheelShares, IsShares
    <3>2. /\ SharesHeld(Append(c.book, lot), t) = SharesHeld(c.book, t) + SharePart(lot, t)
          /\ WheelShares(Append(c.book, lot), t) = WheelShares(c.book, t) + WheelPart(lot, t)
          /\ CallsCoveredBy(Append(c.book, lot), t, "shares")
               = CallsCoveredBy(c.book, t, "shares") + CallPart(lot, t)
      <4>1. Measured(lot)
        BY <2>3
      <4> QED BY <1>1, <4>1, SumsOfMore
    <3>3. /\ SharesHeld(c.book, t) \in Nat /\ WheelShares(c.book, t) \in Nat
          /\ CallsCoveredBy(c.book, t, "shares") \in Nat
      BY <1>1, SumsAre, Zenon
    <3> QED BY <3>1, <3>2, <3>3 DEF StillThere
  <2> QED BY <2>3, <2>5, <2>6 DEF d
<1> QED BY <1>2, <1>3

\* Until the covered part is opened, the sums are those the parts were split on.
PartBacked(o, backed, when, sold, k, acc) ==
    /\ Fine(acc, when) /\ LeavesBacked(sold.book, acc.book)
    /\ (\A j \in 1..k : sold.parts[j].cover # "shares" \/ sold.parts[j].n = 0)
         => StillThere(sold.book, acc.book, o.tx.contract.ticker)
PartBackedFold == INSTANCE Folding WITH Op <- PartStep, Good <- PartBacked

LEMMA OpenShortCallBacked ==
    ASSUME NEW c, NEW when \in Int, Fine(c, when), NEW o, IsOpening(o), o.tx.contract.right = "C"
    PROVE  LeavesBacked(c.book, OpenShortCall(c, o, when).book)
<1> DEFINE u == o.tx.contract.ticker
           b == c.book
           backed == CallsCoveredBy(b, u, "shares")
           n == Mag(o.quantity)
           room == WheelCapacity(b, u)
           aw == IF "wheel" \in c.active THEN room ELSE 0
           lw == IF "leaps" \in c.active THEN LeapsCapacity(b, u) ELSE 0
           first == StrikeReachesAverage(b, u, o.tx.contract.strike)
           parts == SplitShortCall(n, aw, lw, first)
           sold == [book |-> b, parts |-> parts]
           d == OpenShortCall(c, o, when)
<1>1. d = FoldLeft(LAMBDA acc, p : OpenPart(acc, o, p, backed, when), c, parts)
  BY Zenon DEF OpenShortCall
<1>2. AllMeasured(b)
  BY FineMeasured, Zenon
<1>3. backed \in Nat /\ n \in Nat /\ room \in Nat /\ aw \in Nat /\ lw \in Nat /\ aw <= room
  <2>1. backed \in Nat
    BY <1>2, SumsAre, Zenon
  <2>2. room \in Nat /\ LeapsCapacity(b, u) \in Nat
    BY <1>2, CapacitiesCount, Zenon
  <2>3. n \in Nat
    BY DEF Mag, IsOpening
  <2> HIDE DEF b, u, n, room, backed
  <2> QED BY <2>1, <2>2, <2>3
<1>30. room = WheelCapacity(b, u) /\ backed = CallsCoveredBy(b, u, "shares")
  OBVIOUS
<1> HIDE DEF backed, n, room, aw, lw, first, d
<1>4. PICK m \in Nat : PartsWithin(parts, m, aw)
  BY <1>3, SplitIs
<1> HIDE DEF parts
<1>5. /\ DOMAIN parts = 1..m
      /\ \A k \in 1..m : parts[k].n \in Nat /\ (parts[k].cover = "shares" => parts[k].n <= aw)
      /\ \A j, k \in 1..m : parts[j].cover = "shares" /\ parts[k].cover = "shares" => j = k
  BY <1>4 DEF PartsWithin
<1>6. sold.book = b /\ sold.parts = parts
  OBVIOUS
<1> HIDE DEF sold
<1>7. d = PartBackedFold!Folded(o, backed, when, sold, c, parts)
  BY <1>1 DEF FoldLeft, MapThenFoldSet, Max, PartBackedFold!Folded, PartStep
<1>8. ASSUME NEW acc, NEW k \in 1..m, PartBacked(o, backed, when, sold, k - 1, acc)
      PROVE  PartBacked(o, backed, when, sold, k, PartStep(o, backed, when, sold, acc, parts[k]))
  <2> DEFINE part == parts[k]
             next == OpenPart(acc, o, part, backed, when)
  <2>1. /\ Fine(acc, when) /\ LeavesBacked(b, acc.book)
        /\ (\A j \in 1..(k - 1) : parts[j].cover # "shares" \/ parts[j].n = 0) => StillThere(b, acc.book, u)
    BY <1>6, <1>8, Zenon DEF PartBacked
  <2>2. part.n \in Nat /\ part.n \in Int /\ backed \in Int
    BY <1>3, <1>5
  <2>3. Fine(next, when)
    BY <2>1, <2>2, OpenPartFine, Zenon
  <2>4. AllMeasured(acc.book) /\ AllMeasured(next.book)
    BY <2>1, <2>3, FineMeasured, Zenon
  <2>5. k \in 1..k /\ (\A j \in 1..(k - 1) : j \in 1..k /\ j \in 1..m /\ j # k)
    BY <1>5
  <2>6. LeavesBacked(acc.book, next.book)
        /\ ((\A j \in 1..k : parts[j].cover # "shares" \/ parts[j].n = 0) => StillThere(b, next.book, u))
    <3>1. CASE part.cover = "shares" /\ part.n # 0
      <4>1. \A j \in 1..(k - 1) : parts[j].cover # "shares"
        BY <1>5, <2>5, <3>1, Zenon
      <4>2. StillThere(b, acc.book, u)
        BY <2>1, <4>1
      <4>3. backed = CallsCoveredBy(acc.book, u, "shares") /\ WheelCapacity(acc.book, u) = room
        <5>1. SharesHeld(acc.book, u) = SharesHeld(b, u)
              /\ CallsCoveredBy(acc.book, u, "shares") = CallsCoveredBy(b, u, "shares")
          BY <4>2, Zenon DEF StillThere
        <5> QED BY <1>30, <5>1, Zenon DEF WheelCapacity
      <4>4. part.n <= WheelCapacity(acc.book, u) /\ part.n \in Nat \ {0}
        BY <1>3, <1>5, <2>2, <3>1, <4>3
      <4>5. part.cover = "shares"
        BY <3>1
      <4> HIDE DEF part
      <4>6. LeavesBacked(acc.book, next.book)
        BY <2>1, <4>3, <4>4, <4>5, CoveredPartBacked, Zenon
      <4>7. ~(\A j \in 1..k : parts[j].cover # "shares" \/ parts[j].n = 0)
        BY <2>5, <3>1, Zenon DEF part
      <4> QED BY <4>6, <4>7
    <3>2. CASE part.cover # "shares" \/ part.n = 0
      <4> HIDE DEF part
      <4>1. LeavesBacked(acc.book, next.book) /\ StillThere(acc.book, next.book, u)
        <5>1. LeavesBacked(acc.book, next.book) /\ \A t : StillThere(acc.book, next.book, t)
          BY <2>1, <2>2, <3>2, OtherPartBacked
        <5> QED BY <5>1, Zenon
      <4>2. (\A j \in 1..k : parts[j].cover # "shares" \/ parts[j].n = 0) => StillThere(b, acc.book, u)
        BY <2>1, <2>5, Zenon
      <4>3. StillThere(b, acc.book, u) => StillThere(b, next.book, u)
        <5> HIDE DEF next, b, u
        <5> QED BY <4>1, Zenon DEF StillThere
      <4> QED BY <4>1, <4>2, <4>3, Zenon
    <3> QED BY <3>1, <3>2, Zenon
  <2> HIDE DEF next
  <2>7. LeavesBacked(b, next.book)
    BY <1>2, <2>1, <2>4, <2>6, LeavesOn, Zenon
  <2> QED BY <1>6, <2>3, <2>6, <2>7, Zenon DEF PartBacked, PartStep, next, part
<1>9. PartBacked(o, backed, when, sold, 0, c)
  <2>1. LeavesBacked(b, b) /\ StillThere(b, b, u)
    BY <1>2, LeavesSame, Zenon DEF StillThere
  <2> QED BY <1>6, <2>1, Zenon DEF PartBacked
<1> HIDE DEF b, u
<1>10. PartBacked(o, backed, when, sold, m, PartBackedFold!Folded(o, backed, when, sold, c, parts))
  BY <1>5, <1>8, <1>9, PartBackedFold!FoldKeeps, LeastNatural, Zenon
<1>11. LeavesBacked(b, d.book)
  BY <1>6, <1>7, <1>10, Zenon DEF PartBacked
<1> QED BY <1>11 DEF d, b

LEMMA OpenSingleBacked ==
    ASSUME NEW c, NEW when \in Int, Fine(c, when), NEW o, IsOpening(o)
    PROVE  LeavesBacked(c.book, OpenSingle(c, o, when).book)
<1> DEFINE strategy ==
            CASE o.tx.contract.right = "P" ->
                    IF o.quantity < 0 /\ "wheel" \in c.active THEN "wheel" ELSE "others"
              [] OTHER ->
                    IF "leaps" \in c.active /\ o.tx.contract.expiry >= when + LeapsMin
                    THEN "leaps" ELSE "others"
<1>1. OpenSingle(c, o, when) = IF o.tx.contract.right = "C" /\ o.quantity < 0 /\ ~o.orphan
                               THEN OpenShortCall(c, o, when)
                               ELSE OpenLot(c, o, strategy, "none", o.quantity, when)
  BY Zenon DEF OpenSingle
<1> HIDE DEF strategy
<1>2. o.tx.contract.right = "C" => LeavesBacked(c.book, OpenShortCall(c, o, when).book)
  BY OpenShortCallBacked
<1>3. LeavesBacked(c.book, OpenLot(c, o, strategy, "none", o.quantity, when).book)
  <2>1. o.quantity \in Int /\ "none" # "shares"
    BY DEF IsOpening
  <2> QED BY <2>1, OpenLotBacked
<1> QED BY <1>1, <1>2, <1>3

LEMMA OpenCondorBacked ==
    ASSUME NEW c, NEW when \in Int, Fine(c, when), NEW group, AreOpenings(group)
    PROVE  LeavesBacked(c.book, OpenCondor(c, group, when).book)
<1> DEFINE byStrike == SortedBy(DOMAIN group, LAMBDA k : group[k].tx.contract.strike)
           legs == [p \in DOMAIN byStrike |-> group[byStrike[p]]]
           n == Len(c.composites) + 1
           opened == OpenEach(c, legs, "condors", when)
           leg(lot) == [lot EXCEPT !.parent = n]
           composites == Append(opened.composites,
                                [quantity |-> Mag(legs[1].quantity),
                                 legs |-> [k \in 1 .. 4 |-> legs[k].tx.contract]])
           d == OpenCondor(c, group, when)
<1>1. d = [opened EXCEPT
              !.book = [i \in DOMAIN @ |-> IF i > Len(c.book) THEN leg(@[i]) ELSE @[i]],
              !.composites = Append(@, [quantity |-> Mag(legs[1].quantity),
                                        legs |-> [k \in 1 .. 4 |-> legs[k].tx.contract]])]
  BY Zenon DEF OpenCondor
<1>2. PICK size \in Nat : DOMAIN legs = 1..size /\ \A p \in 1..size : IsOpening(legs[p])
  <2>1. legs = Legs(group)
    BY Zenon DEF Legs
  <2> HIDE DEF legs
  <2> QED BY <2>1, LegsAre, Zenon
<1>20. Fine(d, when)
  BY OpenCondorFine
<1> HIDE DEF legs, n, d
<1>3. Fine(opened, when) /\ LeavesBacked(c.book, opened.book)
  BY <1>2, OpenEachFine, OpenEachBacked
<1> DEFINE book == opened.book
           m == Len(book)
           b == [i \in 1..m |-> IF i > Len(c.book) THEN leg(book[i]) ELSE book[i]]
<1>4. m \in Nat /\ DOMAIN book = 1..m
  BY <1>3 DEF Fine, IsSeq, Lists
<1> HIDE DEF opened
<1>5. d = [opened EXCEPT !.book = b, !.composites = composites]
  <2> HIDE DEF leg
  <2> QED BY <1>1, <1>4
<1>6. IsContext(opened)
  BY <1>3 DEF Fine
<1>7. ASSUME NEW i \in 1..m, NEW t
      PROVE  /\ WheelPart(book[i], t) <= WheelPart(b[i], t)
             /\ CallPart(b[i], t) <= CallPart(book[i], t)
  <2>1. Measured(book[i]) /\ IsLot(book[i])
    BY <1>3, Zenon DEF Fine, LotOf, Measured
  <2> DEFINE lot == book[i]
             l == [lot EXCEPT !.parent = n]
  <2>2. b[i] = IF i > Len(c.book) THEN l ELSE lot
    OBVIOUS
  <2>3. WheelPart(lot, t) \in Nat /\ CallPart(lot, t) \in Nat
    BY <2>1, PartsAre
  <2> HIDE DEF b, leg, book, lot
  <2>4. IsLot(lot)
    BY <2>1 DEF lot
  <2>5. /\ l.contract = lot.contract /\ l.strategy = lot.strategy /\ l.cover = lot.cover
        /\ l.remaining = lot.remaining /\ l.quantity = lot.quantity
    BY <2>4 DEF IsLot, LotFields
  <2> HIDE DEF l
  <2>6. WheelPart(l, t) = WheelPart(lot, t) /\ CallPart(l, t) = CallPart(lot, t)
    BY <2>5, Zenon DEF WheelPart, CallPart, IsWheelShares, IsShares, IsShortCall, IsOpen
  <2> QED BY <2>2, <2>3, <2>6 DEF lot
<1>8. Len(b) = m
  <2>1. Lists(b, m)
    BY DEF Lists
  <2> HIDE DEF b, m
  <2> QED BY <1>4, <2>1, SeqFrom
<1> HIDE DEF b, composites
<1>9. d.book = b
  BY <1>5, <1>6 DEF IsContext, ContextFields
<1>10. AllMeasured(book) /\ AllMeasured(b) /\ AllMeasured(c.book)
  BY <1>3, <1>9, <1>20, FineMeasured, Zenon
<1>11. Backs(book, b)
  BY <1>7, <1>8, <1>10, InPlaceBacks, Zenon
<1>12. LeavesBacked(book, b)
  BY <1>10, <1>11, BacksLeaves, Zenon
<1>13. LeavesBacked(c.book, b)
  BY <1>3, <1>10, <1>12, LeavesOn, Zenon
<1> QED BY <1>9, <1>13 DEF d

SingleBacked(when, start, none, void, k, acc) == Fine(acc, when) /\ LeavesBacked(start, acc.book)
SingleBackedFold == INSTANCE Folding WITH Op <- SingleStep, Good <- SingleBacked

LEMMA FileGroupBacked ==
    ASSUME NEW c, NEW when \in Int, Fine(c, when), NEW group, AreOpenings(group)
    PROVE  LeavesBacked(c.book, FileGroup(c, group, when).book)
<1> DEFINE alone == Cardinality({o.tx.contract : o \in ToSet(group)}) < 2
           condor == "condors" \in c.active /\ IsCondor(group)
           one == FoldLeft(LAMBDA acc, o : OpenSingle(acc, o, when), c, group)
           n == Len(group)
           b == c.book
<1>1. FileGroup(c, group, when) = IF alone THEN one
                                  ELSE IF condor THEN OpenCondor(c, group, when)
                                  ELSE OpenEach(c, group, "others", when)
  BY Zenon DEF FileGroup
<1>2. one = SingleBackedFold!Folded(when, b, 0, 0, c, group)
  BY DEF FoldLeft, MapThenFoldSet, Max, SingleBackedFold!Folded, SingleStep
<1>3. n \in Nat /\ DOMAIN group = 1..n /\ \A k \in 1..n : IsOpening(group[k])
  BY DEF AreOpenings, IsSeq, Lists
<1>30. AllMeasured(b) /\ LeavesBacked(b, b)
  BY FineMeasured, LeavesSame, Zenon
<1> HIDE DEF alone, condor, one, n
<1>4. ASSUME NEW acc, NEW k \in 1..n, SingleBacked(when, b, 0, 0, k - 1, acc)
      PROVE  SingleBacked(when, b, 0, 0, k, SingleStep(when, b, 0, 0, acc, group[k]))
  <2> DEFINE next == OpenSingle(acc, group[k], when)
  <2>1. Fine(acc, when) /\ LeavesBacked(b, acc.book) /\ IsOpening(group[k])
    BY <1>3, <1>4, Zenon DEF SingleBacked
  <2> HIDE DEF b
  <2>2. Fine(next, when) /\ LeavesBacked(acc.book, next.book)
    BY <2>1, OpenSingleFine, OpenSingleBacked, Zenon
  <2>3. AllMeasured(acc.book) /\ AllMeasured(next.book)
    BY <2>1, <2>2, FineMeasured, Zenon
  <2> HIDE DEF next
  <2>4. LeavesBacked(b, next.book)
    BY <1>30, <2>1, <2>2, <2>3, LeavesOn, Zenon
  <2> QED BY <2>2, <2>4, Zenon DEF SingleBacked, SingleStep, next
<1>5. SingleBacked(when, b, 0, 0, 0, c)
  BY <1>30, Zenon DEF SingleBacked
<1>6. SingleBacked(when, b, 0, 0, n, SingleBackedFold!Folded(when, b, 0, 0, c, group))
  <2> HIDE DEF b
  <2> QED BY <1>3, <1>4, <1>5, SingleBackedFold!FoldKeeps, LeastNatural, Zenon
<1>7. LeavesBacked(b, one.book)
  BY <1>2, <1>6, Zenon DEF SingleBacked
<1>8. LeavesBacked(b, OpenCondor(c, group, when).book)
  BY OpenCondorBacked
<1>9. LeavesBacked(b, OpenEach(c, group, "others", when).book)
  BY <1>3, OpenEachBacked
<1> QED BY <1>1, <1>7, <1>8, <1>9

FileBacked(openings, when, start, none, k, acc) == Fine(acc, when) /\ LeavesBacked(start, acc.book)
FileBackedFold == INSTANCE Folding WITH Op <- FileStep, Good <- FileBacked

LEMMA ClassifiedBacked ==
    ASSUME NEW c, NEW when \in Int, Fine(c, when), NEW openings, AreOpenings(openings)
    PROVE  LeavesBacked(c.book, ClassifyOpenings(c, openings, when).book)
<1> DEFINE heads == {k \in DOMAIN openings :
                        \A j \in 1 .. k - 1 : GroupKey(openings[j]) # GroupKey(openings[k])}
           coverOnly(k) == \A o \in ToSet(GroupAt(openings, k)) :
                                ~o.orphan /\ o.tx.contract.right = "C" /\ o.quantity > 0
           order == SortedBy(heads, LAMBDA k : IF coverOnly(k) THEN 0 ELSE 1)
           m == Len(openings)
           n == Cardinality(heads)
           d == ClassifyOpenings(c, openings, when)
           b == c.book
<1>1. d = FoldLeft(LAMBDA acc, k : FileGroup(acc, GroupAt(openings, k), when), c, order)
  BY Zenon DEF ClassifyOpenings
<1>2. DOMAIN order = 1..n
  <2> HIDE DEF heads, coverOnly
  <2> QED BY DEF SortedBy, SortedOn, Ranked
<1>3. m \in Nat /\ DOMAIN openings = 1..m /\ \A k \in 1..m : IsOpening(openings[k])
  BY DEF AreOpenings, IsSeq, Lists
<1>4. heads \in SUBSET (1..m)
  BY <1>3
<1> HIDE DEF order, heads, d, m
<1>5. n \in Nat
  <2>1. IsFiniteSet(1..m)
    BY <1>3, FS_Interval
  <2>2. IsFiniteSet(heads)
    BY <1>4, <2>1, FS_Subset, Zenon
  <2> QED BY <2>2, FS_CardinalityType
<1>6. d = FileBackedFold!Folded(openings, when, b, 0, c, order)
  BY <1>1 DEF FoldLeft, MapThenFoldSet, Max, FileBackedFold!Folded, FileStep
<1> HIDE DEF n
<1>60. AllMeasured(b) /\ LeavesBacked(b, b)
  BY FineMeasured, LeavesSame, Zenon
<1>7. \A k : AreOpenings(GroupAt(openings, k))
  BY GroupsAre
<1>8. ASSUME NEW acc, NEW k \in 1..n, FileBacked(openings, when, b, 0, k - 1, acc)
      PROVE  FileBacked(openings, when, b, 0, k, FileStep(openings, when, b, 0, acc, order[k]))
  <2> DEFINE group == GroupAt(openings, order[k])
             next == FileGroup(acc, group, when)
  <2>1. Fine(acc, when) /\ LeavesBacked(b, acc.book) /\ AreOpenings(group)
    BY <1>7, <1>8, Zenon DEF FileBacked
  <2> HIDE DEF b, group
  <2>2. Fine(next, when) /\ LeavesBacked(acc.book, next.book)
    BY <2>1, FileGroupFine, FileGroupBacked, Zenon
  <2>3. AllMeasured(acc.book) /\ AllMeasured(next.book)
    BY <2>1, <2>2, FineMeasured, Zenon
  <2> HIDE DEF next
  <2>4. LeavesBacked(b, next.book)
    BY <1>60, <2>1, <2>2, <2>3, LeavesOn, Zenon
  <2> QED BY <2>2, <2>4, Zenon DEF FileBacked, FileStep, next, group
<1>9. FileBacked(openings, when, b, 0, 0, c)
  BY <1>60, Zenon DEF FileBacked
<1>10. FileBacked(openings, when, b, 0, n, FileBackedFold!Folded(openings, when, b, 0, c, order))
  <2> HIDE DEF b
  <2> QED BY <1>2, <1>5, <1>8, <1>9, FileBackedFold!FoldKeeps, LeastNatural, Zenon
<1>11. LeavesBacked(b, d.book)
  BY <1>6, <1>10, Zenon DEF FileBacked
<1> QED BY <1>11 DEF d, b

(***************************************************************************)
(* Shares bought, and the calls covered                                    *)
(***************************************************************************)
\* Shares bought close what is short, and the rest is held.
LEMMA ReplayStockBacked ==
    ASSUME Known, NEW g, g.when \in Int, Traded(g), NoSharesLeave(g), NEW c, Fine(c, g.when),
           NEW k \in 1..Len(g.txs), IsStock(g.txs[k].contract), NEW claims
    PROVE  LeavesBacked(c.book, ReplayStock(c, g, k, claims).book)
<1> DEFINE tx == g.txs[k]
           now == g.when
           sale == SaleOf(c, g, tx)
           plan == FifoPlan(c.book, tx.contract, tx.q)
           d == Booked(sale, g, tx)
           after == CloseShares(sale.ctx, sale.plan, Amount(tx), Mag(tx.q), now, {now})
           rest == tx.q - Sgn(tx.q) * Total(sale.plan)
           bought == NewLot(tx.contract, "others", rest, tx.price, -rest * tx.price, now)
           u == IsUnclaimedDelivery(g, tx)
           lot == [bought EXCEPT !.orphan = u]
<1>1. IsTrade(tx) /\ tx.q \in Int /\ tx.q > 0
  BY Zenon DEF Traded, IsTrade, NoSharesLeave
<1>2. sale.ctx = c /\ sale.plan = plan
  <2>1. sale = [ctx |-> c, plan |-> plan]
    BY <1>1 DEF SaleOf
  <2> HIDE DEF sale, plan
  <2> QED BY <2>1
<1>3. AllMeasured(c.book)
  BY FineMeasured, Zenon
<1>4. Fits(plan, c.book)
  <2>1. tx.q \in Int
    BY <1>1
  <2> HIDE DEF tx
  <2> QED BY <1>3, <2>1, FifoFits, Zenon
<1>5. Fine(d, now) /\ d = IF rest = 0 THEN after ELSE [after EXCEPT !.book = Append(@, lot)]
  <2>1. d = IF rest = 0 THEN after ELSE [after EXCEPT !.book = Append(@, lot)]
    BY Zenon DEF Booked
  <2>2. Fine(sale.ctx, now) /\ Fits(sale.plan, sale.ctx.book)
    BY <1>2, <1>4
  <2> HIDE DEF sale, tx, plan, after, rest, lot
  <2>3. Fine(d, now)
    BY <1>1, <2>2, BookedFine, Zenon
  <2> QED BY <2>1, <2>3
<1>6. lot.contract = tx.contract
  <2>1. IsLot(bought) /\ bought.contract = tx.contract
    <3> DEFINE paid == -rest * tx.price
    <3>1. bought = NewLot(tx.contract, "others", rest, tx.price, paid, now)
      BY Zenon
    <3> HIDE DEF paid, rest, bought
    <3> QED BY <3>1, NewLotIs
  <2> HIDE DEF bought, u
  <2> QED BY <2>1 DEF IsLot, LotFields
<1>7. after.book = Closed(c.book, plan) /\ Fine(after, now)
  <2> DEFINE amount == Amount(tx)
             size == Mag(tx.q)
  <2>1. after = CloseShares(c, plan, amount, size, now, {now})
    BY <1>2, Zenon
  <2> HIDE DEF after, plan, amount, size
  <2>2. after.book = Closed(c.book, plan)
    BY <1>4, <2>1, CloseSharesBook
  <2>3. Fine(after, now)
    BY <1>4, <2>1, CloseSharesFine, Zenon
  <2> QED BY <2>2, <2>3
<1>8. Backs(c.book, Closed(c.book, plan))
  <2>1. IsStock(tx.contract) => tx.q >= 0
    BY <1>1
  <2> HIDE DEF tx
  <2> QED BY <1>1, <1>3, <2>1, FifoBacks, Zenon
<1> HIDE DEF after, rest, lot, d, sale, plan
<1>9. AllMeasured(after.book)
  BY <1>7, FineMeasured, Zenon
<1>10. LeavesBacked(c.book, after.book)
  BY <1>3, <1>7, <1>8, <1>9, BacksLeaves, Zenon
<1>11. LeavesBacked(c.book, d.book)
  <2>1. CASE rest = 0
    BY <1>5, <1>10, <2>1
  <2>2. CASE rest # 0
    <3>1. d = [after EXCEPT !.book = Append(@, lot)]
      BY <1>5, <2>2
    <3>2. IsContext(after)
      BY <1>7 DEF Fine
    <3>3. d.book = Append(after.book, lot)
      BY <3>1, <3>2 DEF IsContext, ContextFields
    <3>4. AllMeasured(Append(after.book, lot))
      BY <1>5, <3>3, FineMeasured, Zenon
    <3>5. lot.contract.right # "C"
      BY <1>6 DEF IsStock
    <3>6. LeavesBacked(after.book, Append(after.book, lot))
      BY <1>9, <3>4, <3>5, LastBacks, Zenon
    <3> QED BY <1>3, <1>9, <1>10, <3>3, <3>4, <3>6, LeavesOn, Zenon
  <2> QED BY <2>1, <2>2
<1>12. LeavesBacked(c.book, c.book)
  BY <1>3, LeavesSame, Zenon
<1>13. ReplayStock(c, g, k, claims) = IF Consumed(g, claims, k) THEN c ELSE d
  BY Zenon DEF ReplayStock, d, sale
<1> QED BY <1>11, <1>12, <1>13, Zenon

\* The shares traded at an instant are trades of shares.
LEMMA StocksAre ==
    ASSUME NEW g, Traded(g)
    PROVE  \E n \in Nat : /\ DOMAIN Stocks(g) = 1..n
                          /\ \A p \in 1..n : /\ Stocks(g)[p] \in 1..Len(g.txs)
                                             /\ IsStock(g.txs[Stocks(g)[p]].contract)
<1> DEFINE m == Len(g.txs)
           T == {k \in DOMAIN g.txs : ~IsOption(g.txs[k])}
<1>1. T \in SUBSET (1..m) /\ m \in Nat /\ \A k \in T : IsStock(g.txs[k].contract)
  BY DEF Traded, IsOption
<1>2. Stocks(g) = SortedBy(T, LAMBDA k : k)
  BY DEF Stocks, TradesOf
<1> HIDE DEF T, m
<1>3. IsFiniteSet(T) /\ T \subseteq Int
  <2>1. IsFiniteSet(1..m)
    BY <1>1, FS_Interval
  <2>2. IsFiniteSet(T)
    BY <1>1, <2>1, FS_Subset, Zenon
  <2> QED BY <1>1, <2>2
<1>4. /\ Cardinality(T) \in Nat /\ DOMAIN Stocks(g) = 1..Cardinality(T)
      /\ \A p \in 1..Cardinality(T) : Stocks(g)[p] \in T
  <2>1. LET at == SortedBy(T, LAMBDA i : i)
            n == Cardinality(T)
        IN  n \in Nat /\ DOMAIN at = 1..n /\ \A p \in 1..n : at[p] \in T
    BY <1>3, PositionsInOrder
  <2> QED BY <1>2, <2>1
<1>5. \E n \in Nat : /\ DOMAIN Stocks(g) = 1..n
                     /\ \A p \in 1..n : /\ Stocks(g)[p] \in 1..m
                                        /\ IsStock(g.txs[Stocks(g)[p]].contract)
  BY <1>1, <1>4, Zenon
<1> QED BY <1>5, Zenon DEF m

StockBacked(g, claims, start, none, k, acc) == Fine(acc, g.when) /\ LeavesBacked(start, acc.book)
StockBackedFold == INSTANCE Folding WITH Op <- StockStep, Good <- StockBacked

LEMMA StocksBacked ==
    ASSUME Known, NEW g, g.when \in Int, Traded(g), NoSharesLeave(g), NEW c, Fine(c, g.when), NEW claims
    PROVE  LeavesBacked(c.book, StocksReplayed(c, g, claims).book)
<1> DEFINE ks == Stocks(g)
           d == StocksReplayed(c, g, claims)
           b == c.book
<1>1. PICK n \in Nat : /\ DOMAIN ks = 1..n
                       /\ \A p \in 1..n : ks[p] \in 1..Len(g.txs) /\ IsStock(g.txs[ks[p]].contract)
  BY StocksAre, Zenon
<1>2. d = StockBackedFold!Folded(g, claims, b, 0, c, ks)
  <2> HIDE DEF ks, b
  <2> QED BY DEF StocksReplayed, FoldLeft, MapThenFoldSet, Max, StockBackedFold!Folded, StockStep, ks
<1>3. AllMeasured(b) /\ LeavesBacked(b, b)
  BY FineMeasured, LeavesSame, Zenon
<1> HIDE DEF ks, d
<1>4. ASSUME NEW acc, NEW k \in 1..n, StockBacked(g, claims, b, 0, k - 1, acc)
      PROVE  StockBacked(g, claims, b, 0, k, StockStep(g, claims, b, 0, acc, ks[k]))
  <2> DEFINE at == ks[k]
             next == ReplayStock(acc, g, at, claims)
  <2>1. /\ Fine(acc, g.when) /\ LeavesBacked(b, acc.book)
        /\ at \in 1..Len(g.txs) /\ IsStock(g.txs[at].contract)
    BY <1>1, <1>4, Zenon DEF StockBacked
  <2> HIDE DEF b, at
  <2>2. Fine(next, g.when)
    BY <2>1, ReplayStockFine, Zenon
  <2>3. LeavesBacked(acc.book, next.book)
    BY <2>1, ReplayStockBacked, Zenon
  <2>4. AllMeasured(acc.book) /\ AllMeasured(next.book)
    BY <2>1, <2>2, FineMeasured, Zenon
  <2> HIDE DEF next
  <2>5. LeavesBacked(b, next.book)
    BY <1>3, <2>1, <2>3, <2>4, LeavesOn, Zenon
  <2> QED BY <2>2, <2>5, Zenon DEF StockBacked, StockStep, next, at
<1>5. StockBacked(g, claims, b, 0, 0, c)
  BY <1>3, Zenon DEF StockBacked
<1>6. StockBacked(g, claims, b, 0, n, StockBackedFold!Folded(g, claims, b, 0, c, ks))
  <2> HIDE DEF b
  <2> QED BY <1>1, <1>4, <1>5, StockBackedFold!FoldKeeps, LeastNatural, Zenon
<1>7. LeavesBacked(b, d.book)
  BY <1>2, <1>6, Zenon DEF StockBacked
<1> QED BY <1>7 DEF d, b

\* What an instant replayed leaves of the calls covered, where no share leaves.
LEMMA ReplayBacks ==
    ASSUME JournalsInv, Replay, Head(tape).event.kind = "none",
           \A tx \in ToSet(Head(tape).txs) : IsStock(tx.contract) => tx.q > 0
    PROVE  LeavesBacked(ctx.book, ctx'.book)
<1> DEFINE g == Head(tape)
           c == ApplyEvent(ctx, g.event, g.when)
           claims == Claims(c.book, g)
           options == OptionsReplayed(c, g, claims)
           opened == ClassifyOpenings(options.ctx, options.openings, g.when)
           after == StocksReplayed(opened, g, claims)
<1>1. /\ tape # <<>> /\ tape' = Tail(tape) /\ played' = Append(played, g) /\ scene' = scene
      /\ ctx' = after
  BY Zenon DEF Replay
<1>2. scene \in Scene /\ LedgerKept /\ Fine(ctx, Now)
  BY DEF JournalsInv
<1>3. InstantOf(g) /\ Now <= g.when /\ Now \in Nat
  BY <1>1, <1>2, LedgerSame
<1>4. Known
  BY <1>2, LedgerIs
<1>5. g.when \in Int /\ Now \in Int /\ Traded(g) /\ IsEvent(g.event)
  BY <1>3 DEF InstantOf
<1>50. NoSharesLeave(g)
  <2>1. \A k \in 1..Len(g.txs) : g.txs[k] \in ToSet(g.txs)
    <3>1. DOMAIN g.txs = 1..Len(g.txs)
      BY <1>5 DEF Traded
    <3> HIDE DEF g
    <3> QED BY <3>1 DEF ToSet
  <2> QED BY <2>1, Zenon DEF NoSharesLeave
<1>51. c = ctx
  BY DEF ApplyEvent
<1> HIDE DEF g, c, claims, options, opened, after
<1>6. Fine(c, g.when)
  BY <1>2, <1>3, <1>5, <1>51, FineSince, Zenon
<1>7. AllMeasured(c.book)
  BY <1>6, FineMeasured, Zenon
<1>8. Shaped(g, claims)
  BY <1>5, <1>7, ClaimsShaped, Zenon DEF claims
<1>9. Fine(options.ctx, g.when) /\ AreOpenings(options.openings)
  BY <1>5, <1>6, <1>8, OptionsFine DEF options
<1>10. LeavesBacked(c.book, options.ctx.book)
  BY <1>5, <1>50, <1>6, <1>8, OptionsBacked, Zenon DEF options
<1>11. Fine(opened, g.when) /\ LeavesBacked(options.ctx.book, opened.book)
  BY <1>5, <1>9, ClassifiedFine, ClassifiedBacked, Zenon DEF opened
<1>12. Fine(after, g.when)
  BY <1>4, <1>5, <1>11, StocksFine, Zenon DEF after
<1>13. LeavesBacked(opened.book, after.book)
  BY <1>4, <1>5, <1>50, <1>11, StocksBacked, Zenon DEF after
<1>14. AllMeasured(options.ctx.book) /\ AllMeasured(opened.book) /\ AllMeasured(after.book)
  BY <1>9, <1>11, <1>12, FineMeasured, Zenon
<1>15. LeavesBacked(c.book, opened.book)
  BY <1>7, <1>10, <1>11, <1>14, LeavesOn, Zenon
<1>16. LeavesBacked(c.book, after.book)
  BY <1>7, <1>13, <1>14, <1>15, LeavesOn, Zenon
<1> QED BY <1>1, <1>16, <1>51

\* A covered call sold is covered by the Wheel's own shares from then on: an
\* instant in which no share leaves and no corporate action happens leaves no
\* more of the Wheel's calls uncovered than there were, since the takeover brings
\* in what the Wheel lacks, whatever the parts the call is split into (takeOver
\* and openShortCall of the replay, within the capacity of lots.ts).
THEOREM CallsStayBacked == Spec => CallsAreBacked
<1>1. JournalsInv /\ [Next]_vars
        => [(/\ played' # played /\ Head(tape).event.kind = "none"
             /\ \A tx \in ToSet(Head(tape).txs) : IsStock(tx.contract) => tx.q > 0)
             => \A t \in Tickers : Uncovered(ctx'.book, t) <= Uncovered(ctx.book, t)]_vars
  <2> SUFFICES ASSUME JournalsInv, Next, played' # played, Head(tape).event.kind = "none",
                      \A tx \in ToSet(Head(tape).txs) : IsStock(tx.contract) => tx.q > 0
               PROVE  \A t \in Tickers : Uncovered(ctx'.book, t) <= Uncovered(ctx.book, t)
    BY Zenon
  <2>1. ~Read
    BY Zenon DEF Read
  <2>2. Replay
    BY <2>1, Zenon DEF Next
  <2>3. LeavesBacked(ctx.book, ctx'.book)
    BY <2>2, ReplayBacks, Zenon
  <2> QED BY <2>3, Zenon DEF LeavesBacked
<1> QED BY <1>1, JournalsStayFine, PTL DEF Spec, CallsAreBacked
=============================================================================
