------------------------------- MODULE Folding -------------------------------
(***************************************************************************)
(* A fold along a sequence, for a step Op that knows p, q, r, s besides    *)
(* what it has accumulated and the element it takes: if each step keeps    *)
(* what is Good of the accumulated value after so many elements, the fold  *)
(* ends on a Good one.  The proofs about the folds of a model instantiate  *)
(* this module, once for each step.                                        *)
(*                                                                         *)
(* That the natural numbers are well ordered is a hypothesis here, which   *)
(* LeastNatural of DataLemmas proves: were this module to extend that one, *)
(* each of its instances would bring a copy of every lemma of it.          *)
(***************************************************************************)
EXTENDS Integers, TLAPS

CONSTANTS
    Op(_, _, _, _, _, _),       \* p, q, r, s, the value accumulated, the element
    Good(_, _, _, _, _, _)      \* p, q, r, s, how many elements, the value accumulated

\* FoldLeft of SequencesExt, written out.
Folded(p, q, r, s, base, seq) ==
    LET iter[places \in SUBSET DOMAIN seq] ==
            IF places = {} THEN base
            ELSE LET x == CHOOSE m \in places : \A y \in places : m >= y
                 IN  Op(p, q, r, s, iter[places \ {x}], seq[x])
    IN  iter[DOMAIN seq]

Iterates(f, p, q, r, s, base, seq) ==
    f = [places \in SUBSET DOMAIN seq |->
            IF places = {} THEN base
            ELSE LET x == CHOOSE m \in places : \A y \in places : m >= y
                 IN  Op(p, q, r, s, f[places \ {x}], seq[x])]

\* f iterates over the first m places at most.
Upto(f, p, q, r, s, base, seq, m) ==
    \A places \in SUBSET (1..m) :
        f[places] = IF places = {} THEN base
                    ELSE LET x == CHOOSE k \in places : \A y \in places : k >= y
                         IN  Op(p, q, r, s, f[places \ {x}], seq[x])

\* The last place of a set of places.
LEMMA LastPlace ==
    ASSUME \A S \in SUBSET Nat : S # {} => \E least \in S : \A k \in S : least <= k,
           NEW m \in Nat, NEW places \in SUBSET (1..m), places # {},
           NEW x, x = CHOOSE k \in places : \A y \in places : k >= y
    PROVE  x \in places /\ \A y \in places : x >= y
<1>1. places \subseteq Nat /\ \A d \in places : d <= m
  OBVIOUS
<1>2. PICK k \in places : \A y \in places : y <= k
  <2> DEFINE bounds == {u \in 0..m : \A d \in places : d <= u}
  <2>1. m \in bounds /\ bounds \in SUBSET Nat
    BY <1>1
  <2>2. PICK u \in bounds : \A v \in bounds : u <= v
    <3> HIDE DEF bounds
    <3> QED BY <2>1, Zenon
  <2>3. u \in 0..m /\ \A d \in places : d <= u
    BY <2>2
  <2>4. CASE u \notin places
    <3>1. \A d \in places : d <= u - 1 /\ 0 <= u - 1
      BY <1>1, <2>3, <2>4
    <3>2. u - 1 \in bounds
      BY <2>3, <3>1
    <3> QED BY <2>2, <2>3, <3>2
  <2> QED BY <2>3, <2>4
<1>3. \A y \in places : k >= y
  BY <1>1, <1>2
<1> QED BY <1>3

\* Something iterates, whatever the step.
LEMMA SomethingIterates ==
    ASSUME \A S \in SUBSET Nat : S # {} => \E least \in S : \A k \in S : least <= k,
           NEW p, NEW q, NEW r, NEW s, NEW base, NEW seq, NEW n \in Nat
    PROVE  \E f : Upto(f, p, q, r, s, base, seq, n)
<1> DEFINE stuck == {k \in 0..n : \A f : ~Upto(f, p, q, r, s, base, seq, k)}
<1>1. stuck \subseteq Nat
  OBVIOUS
<1>2. n \in 0..n
  OBVIOUS
<1>3. SUFFICES ASSUME stuck # {} PROVE FALSE
  BY <1>2, Zenon
<1>4. PICK m \in stuck : \A k \in stuck : m <= k
  <2> HIDE DEF stuck
  <2> QED BY <1>1, <1>3, Zenon
<1>5. CASE m = 0
  <2>1. \A places \in SUBSET (1..0) : places = {}
    OBVIOUS
  <2>2. Upto([places \in SUBSET (1..0) |-> base], p, q, r, s, base, seq, 0)
    BY <2>1 DEF Upto
  <2> QED BY <1>4, <1>5, <2>2
<1>6. CASE m # 0
  <2>1. m - 1 \in 0..n /\ m \in 1..n /\ m - 1 \notin stuck
    BY <1>4, <1>6
  <2>2. PICK shorter : Upto(shorter, p, q, r, s, base, seq, m - 1)
    BY <2>1
  <2> DEFINE last(places) == CHOOSE k \in places : \A y \in places : k >= y
             longer == [places \in SUBSET (1..m) |->
                          IF m \in places THEN Op(p, q, r, s, shorter[places \ {m}], seq[m])
                          ELSE shorter[places]]
  <2>3. ASSUME NEW places \in SUBSET (1..m)
        PROVE  longer[places] = IF places = {} THEN base
                                ELSE Op(p, q, r, s, longer[places \ {last(places)}], seq[last(places)])
    <3>1. CASE m \in places
      <4>1. last(places) = m
        <5> DEFINE x == last(places)
        <5>0. m \in Nat /\ places # {} /\ x = CHOOSE k \in places : \A y \in places : k >= y
          BY <2>1, <3>1
        <5> HIDE DEF x
        <5>1. x \in places /\ \A y \in places : x >= y
          BY <5>0, LastPlace, Zenon
        <5>2. x \in 1..m
          BY <5>1
        <5>3. x = m
          BY <2>1, <3>1, <5>1, <5>2
        <5> QED BY <5>3, Zenon DEF x
      <4>2. places \ {m} \in SUBSET (1..m) /\ m \notin places \ {m}
        OBVIOUS
      <4> HIDE DEF last
      <4>3. longer[places \ {m}] = shorter[places \ {m}]
        BY <4>2
      <4>4. longer[places] = Op(p, q, r, s, shorter[places \ {m}], seq[m])
        BY <3>1
      <4> HIDE DEF longer
      <4> QED BY <3>1, <4>1, <4>3, <4>4
    <3>2. CASE m \notin places
      <4>1. places \in SUBSET (1..(m - 1))
        BY <2>1, <3>2
      <4>2. places \ {last(places)} \in SUBSET (1..m) /\ m \notin places \ {last(places)}
        BY <3>2
      <4>3. shorter[places] = IF places = {} THEN base
                              ELSE Op(p, q, r, s, shorter[places \ {last(places)}], seq[last(places)])
        BY <2>2, <4>1, Zenon DEF Upto
      <4> HIDE DEF last
      <4>4. longer[places] = shorter[places]
        BY <3>2
      <4>5. longer[places \ {last(places)}] = shorter[places \ {last(places)}]
        BY <4>2
      <4> HIDE DEF longer
      <4> QED BY <4>3, <4>4, <4>5
    <3> QED BY <3>1, <3>2
  <2>4. Upto(longer, p, q, r, s, base, seq, m)
    <3> HIDE DEF longer
    <3> QED BY <2>3, Zenon DEF Upto
  <2> QED BY <1>4, <2>4
<1> QED BY <1>5, <1>6

\* The fold iterates over all the places.
LEMMA FoldIterates ==
    ASSUME \A S \in SUBSET Nat : S # {} => \E least \in S : \A k \in S : least <= k,
           NEW p, NEW q, NEW r, NEW s, NEW base, NEW seq, NEW n \in Nat, DOMAIN seq = 1..n
    PROVE  \E f : Iterates(f, p, q, r, s, base, seq) /\ Folded(p, q, r, s, base, seq) = f[DOMAIN seq]
<1>1. PICK g : Upto(g, p, q, r, s, base, seq, n)
  BY SomethingIterates, Zenon
<1> DEFINE last(places) == CHOOSE k \in places : \A y \in places : k >= y
           f == [places \in SUBSET DOMAIN seq |-> g[places]]
           iter == CHOOSE h : Iterates(h, p, q, r, s, base, seq)
<1>2. \A places \in SUBSET DOMAIN seq :
         f[places] = IF places = {} THEN base
                     ELSE Op(p, q, r, s, f[places \ {last(places)}], seq[last(places)])
  <2> TAKE places \in SUBSET DOMAIN seq
  <2>1. g[places] = IF places = {} THEN base
                    ELSE Op(p, q, r, s, g[places \ {last(places)}], seq[last(places)])
    BY <1>1, Zenon DEF Upto
  <2> HIDE DEF last
  <2>2. f[places] = g[places] /\ f[places \ {last(places)}] = g[places \ {last(places)}]
    OBVIOUS
  <2> HIDE DEF f
  <2> QED BY <2>1, <2>2
<1>3. Iterates(f, p, q, r, s, base, seq)
  <2>1. f = [places \in SUBSET DOMAIN seq |-> f[places]]
    BY Zenon
  <2> HIDE DEF f
  <2> QED BY <1>2, <2>1 DEF Iterates
<1>4. Iterates(iter, p, q, r, s, base, seq)
  <2> HIDE DEF f
  <2> QED BY <1>3, Zenon
<1>5. Folded(p, q, r, s, base, seq) = iter[DOMAIN seq]
  BY DEF Folded, Iterates
<1> HIDE DEF iter
<1> QED BY <1>4, <1>5

\* What each step keeps, the fold keeps.
THEOREM FoldKeeps ==
    ASSUME \A S \in SUBSET Nat : S # {} => \E least \in S : \A k \in S : least <= k,
           NEW p, NEW q, NEW r, NEW s, NEW base, NEW seq, NEW n \in Nat, DOMAIN seq = 1..n,
           Good(p, q, r, s, 0, base),
           \A acc : \A k \in 1..n :
              Good(p, q, r, s, k - 1, acc) => Good(p, q, r, s, k, Op(p, q, r, s, acc, seq[k]))
    PROVE  Good(p, q, r, s, n, Folded(p, q, r, s, base, seq))
<1>1. PICK f : Iterates(f, p, q, r, s, base, seq) /\ Folded(p, q, r, s, base, seq) = f[DOMAIN seq]
  BY FoldIterates
<1>2. \A k \in 0..n : Good(p, q, r, s, k, f[1..k])
  <2> DEFINE wrong == {k \in 0..n : ~Good(p, q, r, s, k, f[1..k])}
  <2>0. SUFFICES ASSUME wrong # {} PROVE FALSE
    OBVIOUS
  <2>1. wrong \subseteq Nat
    OBVIOUS
  <2>2. PICK m \in wrong : \A k \in wrong : m <= k
    <3> HIDE DEF wrong
    <3> QED BY <2>0, <2>1, Zenon
  <2>3. CASE m = 0
    <3>1. 1..0 = {} /\ {} \in SUBSET DOMAIN seq
      OBVIOUS
    <3>2. f[{}] = base
      BY <1>1, Zenon DEF Iterates
    <3> QED BY <2>2, <2>3, <3>1, <3>2
  <2>4. CASE m # 0
    <3>1. m \in 1..n /\ m - 1 \in 0..n /\ m - 1 \notin wrong
      BY <2>2, <2>4
    <3>2. 1..m \in SUBSET DOMAIN seq /\ 1..m # {} /\ m \in 1..m /\ \A y \in 1..m : m >= y
      <4> HIDE DEF wrong
      <4>1. m \in Int /\ 1 <= m /\ m <= n
        BY <3>1
      <4>2. \A y \in 1..m : y \in 1..n /\ m >= y
        BY <4>1
      <4>3. m \in 1..m
        BY <4>1
      <4> QED BY <4>2, <4>3
    <3> DEFINE x == CHOOSE k \in 1..m : \A y \in 1..m : k >= y
    <3>3. x = m
      <4>1. x \in 1..m /\ \A y \in 1..m : x >= y
        BY <3>2, Zenon
      <4> HIDE DEF x
      <4> QED BY <3>1, <3>2, <4>1
    <3>4. f[1..m] = Op(p, q, r, s, f[(1..m) \ {x}], seq[x])
      BY <1>1, <3>2, Zenon DEF Iterates
    <3> HIDE DEF x
    <3>5. (1..m) \ {m} = 1..(m - 1)
      BY <3>1
    <3>6. f[1..m] = Op(p, q, r, s, f[1..(m - 1)], seq[m])
      BY <3>3, <3>4, <3>5
    <3>7. Good(p, q, r, s, m - 1, f[1..(m - 1)])
      BY <3>1, Zenon
    <3> QED BY <2>2, <3>1, <3>6, <3>7
  <2> QED BY <2>3, <2>4
<1> QED BY <1>1, <1>2
=============================================================================
