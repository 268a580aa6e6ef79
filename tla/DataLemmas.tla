----------------------------- MODULE DataLemmas -----------------------------
(***************************************************************************)
(* What the proofs need of numbers, of totals over a sequence and of total *)
(* orders, whatever the model.  They argue by the first counterexample:    *)
(* were the fact false of some number, it would be false of a least one.   *)
(***************************************************************************)
EXTENDS Integers, Sequences, FiniteSetTheorems, SequenceTheorems, WellFoundedInduction, TLAPS

\* A set of natural numbers has a first one.
LEMMA FirstOf ==
    ASSUME NEW days, days \subseteq Nat, days # {}
    PROVE  \E m \in days : \A k \in days : m <= k
<1> DEFINE Before == OpToRel(<, Nat)
<1>1. IsWellFoundedOn(Before, Nat)
  BY NatLessThanWellFounded
<1>2. \A x, y \in Nat : x < y => <<x, y>> \in Before
  <2>1. Before = {ss \in Nat \X Nat : ss[1] < ss[2]}
    BY Zenon DEF OpToRel
  <2> HIDE DEF Before
  <2> TAKE x, y \in Nat
  <2> HAVE x < y
  <2>2. <<x, y>> \in Nat \X Nat
    OBVIOUS
  <2> QED BY <2>1, <2>2
<1> HIDE DEF Before
<1>3. PICK m \in days : \A k \in days : ~ (<<k, m>> \in Before)
  BY <1>1, WFMin, Zenon
<1>4. \A k \in days : ~ (k < m)
  BY <1>2, <1>3
<1> QED BY <1>4

LEMMA LeastNatural ==
    \A S \in SUBSET Nat : S # {} => \E least \in S : \A k \in S : least <= k
BY FirstOf

\* A set of natural numbers none of which is above some number has a last one.
LEMMA LastOf ==
    ASSUME NEW days, days \subseteq Nat, days # {},
           NEW n \in Nat, \A d \in days : d <= n
    PROVE  \E m \in days : \A k \in days : k <= m
<1> DEFINE ago == {n - d : d \in days}
<1>1. \A d \in days : n - d \in Nat
  OBVIOUS
<1>2. ago \subseteq Nat /\ ago # {}
  BY <1>1, Zenon
<1>3. PICK a \in ago : \A k \in ago : a <= k
  BY <1>2, FirstOf
<1>4. PICK m \in days : a = n - m
  OBVIOUS
<1>5. \A k \in days : n - m <= n - k
  BY <1>3, <1>4
<1> QED BY <1>5

\* A function over 1..n, whatever its values.
Lists(f, n) == f = [i \in 1..n |-> f[i]]

\* As many values as places, when no two places have the same.
LEMMA AsManyAsPlaces ==
    ASSUME NEW n \in Nat, NEW f, Lists(f, n),
           \A i, j \in 1..n : i < j => f[i] # f[j]
    PROVE  Cardinality({f[i] : i \in 1..n}) = n
<1> DEFINE values == {f[i] : i \in 1..n}
<1>1. \A i, j \in 1..n : f[i] = f[j] => i = j
  OBVIOUS
<1>2. f \in [1..n -> values]
  BY Zenon DEF Lists
<1>3. f \in Bijection(1..n, values)
  BY <1>1, <1>2 DEF Bijection, Injection, Surjection, IsInjective
<1> HIDE DEF values
<1>4. ExistsBijection(1..n, values)
  BY <1>3 DEF ExistsBijection
<1> QED BY <1>4, FS_CountingElements DEF values

\* A function over 1..n is a sequence of that length.
LEMMA LengthIs ==
    ASSUME NEW n \in Nat, NEW f, Lists(f, n)
    PROVE  Len(f) = n
<1> DEFINE S == {f[i] : i \in 1..n}
<1>1. f \in [1..n -> S]
  BY DEF Lists
<1>2. f \in Seq(S)
  BY <1>1, SeqDef, Zenon
<1>3. DOMAIN f = 1..Len(f) /\ Len(f) \in Nat
  BY <1>2, LenProperties
<1>4. DOMAIN f = 1..n
  BY <1>1
<1> DEFINE m == Len(f)
<1>5. m \in Nat /\ 1..m = 1..n
  BY <1>3, <1>4, Zenon
<1> HIDE DEF m
<1>6. (n \in 1..m \/ n = 0) /\ (m \in 1..n \/ m = 0)
  BY <1>5
<1>7. m = n
  BY <1>5, <1>6
<1> QED BY <1>7 DEF m

\* The values of a function at finitely many places are finitely many.
LEMMA FiniteImage ==
    ASSUME NEW S, IsFiniteSet(S), NEW f
    PROVE  IsFiniteSet({f[x] : x \in S})
<1> DEFINE T == {f[x] : x \in S}
           g == [x \in S |-> f[x]]
<1>1. \A x \in S : g[x] \in T
  OBVIOUS
<1>2. \A t \in T : \E x \in S : g[x] = t
  OBVIOUS
<1>3. g \in [S -> T]
  OBVIOUS
<1> HIDE DEF T, g
<1>4. g \in Surjection(S, T)
  BY <1>2, <1>3 DEF Surjection
<1>5. IsFiniteSet(T)
  BY <1>4, FS_Surjection
<1> QED BY <1>5 DEF T

-----------------------------------------------------------------------------
(* Sequences, whatever their values.                                        *)

IsSeq(s) == Len(s) \in Nat /\ Lists(s, Len(s))

\* A function over 1..n is a sequence, and only of that length.
LEMMA SeqFrom ==
    ASSUME NEW n \in Nat, NEW f, Lists(f, n)
    PROVE  IsSeq(f) /\ Len(f) = n
BY LengthIs DEF IsSeq

\* A sequence is one of its values, and of any set that holds them.
LEMMA SeqIn ==
    ASSUME NEW s, IsSeq(s), NEW S, \A i \in 1..Len(s) : s[i] \in S
    PROVE  s \in Seq(S) /\ DOMAIN s = 1..Len(s)
<1> DEFINE n == Len(s)
<1>1. n \in Nat /\ s = [i \in 1..n |-> s[i]]
  BY DEF IsSeq, Lists
<1> HIDE DEF n
<1>2. s \in [1..n -> S]
  BY <1>1 DEF n
<1>3. s \in Seq(S)
  BY <1>1, <1>2, SeqDef, Zenon
<1> QED BY <1>1, <1>3, LenProperties DEF n

LEMMA SeqIs ==
    ASSUME NEW S, NEW s \in Seq(S)
    PROVE  IsSeq(s) /\ DOMAIN s = 1..Len(s) /\ \A i \in 1..Len(s) : s[i] \in S
<1>1. Len(s) \in Nat /\ s \in [1..Len(s) -> S] /\ DOMAIN s = 1..Len(s)
  BY LenProperties, Zenon
<1>2. s = [i \in 1..Len(s) |-> s[i]]
  BY <1>1, Zenon
<1> QED BY <1>1, <1>2, Zenon DEF IsSeq, Lists

LEMMA AppendOf ==
    ASSUME NEW s, IsSeq(s), NEW e
    PROVE  /\ IsSeq(Append(s, e)) /\ Len(Append(s, e)) = Len(s) + 1
           /\ \A i \in 1..Len(s) : Append(s, e)[i] = s[i]
           /\ Append(s, e)[Len(s) + 1] = e
<1> DEFINE S == {s[i] : i \in 1..Len(s)} \cup {e}
<1>1. \A i \in 1..Len(s) : s[i] \in S
  OBVIOUS
<1>2. e \in S
  OBVIOUS
<1> HIDE DEF S
<1>3. s \in Seq(S)
  BY <1>1, SeqIn, Zenon
<1>4. /\ Append(s, e) \in Seq(S) /\ Len(Append(s, e)) = Len(s) + 1
      /\ \A i \in 1..Len(s) : Append(s, e)[i] = s[i]
      /\ Append(s, e)[Len(s) + 1] = e
  BY <1>2, <1>3, AppendProperties
<1>5. IsSeq(Append(s, e))
  BY <1>4, SeqIs, Zenon
<1> QED BY <1>4, <1>5

LEMMA ConcatOf ==
    ASSUME NEW s, IsSeq(s), NEW t, IsSeq(t)
    PROVE  /\ IsSeq(s \o t) /\ Len(s \o t) = Len(s) + Len(t)
           /\ \A i \in 1..Len(s) : (s \o t)[i] = s[i]
           /\ \A i \in 1..Len(t) : (s \o t)[Len(s) + i] = t[i]
<1> DEFINE S == {s[i] : i \in 1..Len(s)} \cup {t[i] : i \in 1..Len(t)}
<1>1. (\A i \in 1..Len(s) : s[i] \in S) /\ (\A i \in 1..Len(t) : t[i] \in S)
  OBVIOUS
<1> HIDE DEF S
<1>2. s \in Seq(S) /\ t \in Seq(S)
  BY <1>1, SeqIn, Zenon
<1>3. /\ s \o t \in Seq(S) /\ Len(s \o t) = Len(s) + Len(t)
      /\ \A i \in 1 .. Len(s) + Len(t) : (s \o t)[i] = IF i <= Len(s) THEN s[i] ELSE t[i - Len(s)]
  BY <1>2, ConcatProperties, Zenon
<1>4. IsSeq(s \o t)
  BY <1>3, SeqIs, Zenon
<1>5. Len(s) \in Nat /\ Len(t) \in Nat
  BY DEF IsSeq
<1>6. \A i \in 1..Len(s) : i \in 1 .. Len(s) + Len(t) /\ i <= Len(s)
  BY <1>5
<1>7. \A i \in 1..Len(t) : /\ Len(s) + i \in 1 .. Len(s) + Len(t) /\ ~(Len(s) + i <= Len(s))
                           /\ Len(s) + i - Len(s) = i
  BY <1>5
<1> QED BY <1>3, <1>4, <1>6, <1>7

LEMMA SubSeqOf ==
    ASSUME NEW s, IsSeq(s), NEW m \in Int, NEW n \in Int, 1 <= m, n <= Len(s)
    PROVE  LET t == SubSeq(s, m, n)
           IN  /\ IsSeq(t) /\ Len(t) = IF m <= n THEN n - m + 1 ELSE 0
               /\ \A i \in 1 .. n - m + 1 : t[i] = s[m + i - 1]
<1> DEFINE S == {s[i] : i \in 1..Len(s)}
<1>1. \A i \in 1..Len(s) : s[i] \in S
  OBVIOUS
<1> HIDE DEF S
<1>2. \A i \in m..n : s[i] \in S
  BY <1>1 DEF IsSeq
<1>3. /\ SubSeq(s, m, n) \in Seq(S)
      /\ Len(SubSeq(s, m, n)) = IF m <= n THEN n - m + 1 ELSE 0
      /\ \A i \in 1 .. n - m + 1 : SubSeq(s, m, n)[i] = s[m + i - 1]
  BY <1>2, SubSeqProperties
<1>4. IsSeq(SubSeq(s, m, n))
  BY <1>3, SeqIs, Zenon
<1> QED BY <1>3, <1>4

LEMMA TailOf ==
    ASSUME NEW s, IsSeq(s), s # <<>>
    PROVE  /\ IsSeq(Tail(s)) /\ Len(Tail(s)) = Len(s) - 1 /\ Len(s) > 0 /\ Head(s) = s[1]
           /\ \A i \in 1..(Len(s) - 1) : Tail(s)[i] = s[i + 1]
<1> DEFINE S == {s[i] : i \in 1..Len(s)}
<1>1. \A i \in 1..Len(s) : s[i] \in S
  OBVIOUS
<1> HIDE DEF S
<1>2. s \in Seq(S)
  BY <1>1, SeqIn, Zenon
<1>3. /\ Tail(s) \in Seq(S) /\ Len(Tail(s)) = Len(s) - 1
      /\ \A i \in 1 .. Len(Tail(s)) : Tail(s)[i] = s[i + 1]
  BY <1>2, HeadTailProperties, Zenon
<1>4. IsSeq(Tail(s))
  BY <1>3, SeqIs, Zenon
<1>5. Len(s) > 0 /\ Head(s) = s[1]
  BY <1>2
<1> QED BY <1>3, <1>4, <1>5

-----------------------------------------------------------------------------
(* The running total of a sequence of moves.                                *)

\* upTo runs over the first n moves.
Runs(upTo, moves, n) ==
    /\ upTo \in [0..n -> Int] /\ upTo[0] = 0
    /\ \A k \in 1..n : upTo[k] = upTo[k - 1] + moves[k]

\* A total runs over any sequence of moves.
LEMMA SomethingRuns ==
    ASSUME NEW n \in Nat, NEW moves \in [1..n -> Int]
    PROVE  \E upTo : Runs(upTo, moves, n)
<1> DEFINE stuck == {k \in 0..n : \A upTo : ~Runs(upTo, moves, k)}
<1>1. stuck \subseteq Nat
  OBVIOUS
<1>2. n \in 0..n
  OBVIOUS
<1>3. SUFFICES ASSUME stuck # {} PROVE FALSE
  BY <1>2, Zenon
<1>4. PICK m \in stuck : \A k \in stuck : m <= k
  BY <1>1, <1>3, FirstOf
<1>5. CASE m = 0
  <2>1. Runs([k \in 0..0 |-> 0], moves, 0)
    BY DEF Runs
  <2> QED BY <1>4, <1>5, <2>1
<1>6. CASE m # 0
  <2>1. m - 1 \in 0..n /\ m \in 1..n /\ m - 1 \notin stuck
    BY <1>4, <1>6
  <2>2. PICK shorter : Runs(shorter, moves, m - 1)
    BY <2>1
  <2> DEFINE longer == [k \in 0..m |-> IF k = m THEN shorter[m - 1] + moves[m] ELSE shorter[k]]
  <2>3. Runs(longer, moves, m)
    BY <2>1, <2>2 DEF Runs
  <2> QED BY <1>4, <2>3
<1> QED BY <1>5, <1>6

-----------------------------------------------------------------------------
(* The places of a finite set in a total order: below[i] are those before i. *)
TotalOrder(S, below) ==
    /\ below \in [S -> SUBSET S]
    /\ \A i \in S : i \notin below[i]
    /\ \A i, j \in S : i # j => i \in below[j] \/ j \in below[i]
    /\ \A i, j \in S : i \in below[j] => below[i] \subseteq below[j]

\* The members of a total order have places of their own, from none before to all before.
LEMMA PlacesAreTaken ==
    ASSUME NEW S, IsFiniteSet(S), NEW below, TotalOrder(S, below)
    PROVE  /\ Cardinality(S) \in Nat
           /\ \A i \in S : Cardinality(below[i]) \in 0..(Cardinality(S) - 1)
           /\ \A i, j \in S : Cardinality(below[i]) = Cardinality(below[j]) => i = j
           /\ \A i, j \in S : Cardinality(below[i]) < Cardinality(below[j]) => i \in below[j]
           /\ \A n \in 0..(Cardinality(S) - 1) : \E i \in S : Cardinality(below[i]) = n
<1> DEFINE seat == [i \in S |-> Cardinality(below[i])]
           places == 0..(Cardinality(S) - 1)
<1>1. Cardinality(S) \in Nat
  BY FS_CardinalityType
<1>2. \A i \in S : IsFiniteSet(below[i]) /\ Cardinality(below[i]) \in Nat
  BY FS_Subset, FS_CardinalityType DEF TotalOrder
<1>3. ASSUME NEW i \in S PROVE Cardinality(below[i]) \in places
  <2>1. IsFiniteSet(S \ {i}) /\ Cardinality(S \ {i}) = Cardinality(S) - 1
    BY FS_RemoveElement
  <2>2. below[i] \in SUBSET (S \ {i})
    BY DEF TotalOrder
  <2>3. Cardinality(below[i]) <= Cardinality(S) - 1
    BY <2>1, <2>2, FS_Subset
  <2> QED BY <1>1, <1>2, <2>3
<1>4. ASSUME NEW i \in S, NEW j \in S, i \in below[j]
      PROVE  Cardinality(below[i]) < Cardinality(below[j])
  <2>1. below[i] \in SUBSET below[j] /\ below[i] # below[j]
    BY <1>4 DEF TotalOrder
  <2>2. Cardinality(below[i]) <= Cardinality(below[j]) /\ Cardinality(below[j]) # Cardinality(below[i])
    BY <1>2, <2>1, FS_Subset
  <2> QED BY <1>2, <2>2
<1>5. \A i, j \in S : Cardinality(below[i]) = Cardinality(below[j]) => i = j
  BY <1>2, <1>4 DEF TotalOrder
<1>6. \A i, j \in S : Cardinality(below[i]) < Cardinality(below[j]) => i \in below[j]
  BY <1>2, <1>4 DEF TotalOrder
<1>7. seat \in Injection(S, places)
  BY <1>3, <1>5 DEF Injection, IsInjective
<1>8. IsFiniteSet(places) /\ Cardinality(places) = Cardinality(S)
  BY <1>1, FS_Interval
<1>9. seat \in Surjection(S, places)
  BY <1>7, <1>8, FS_Injection
<1>10. \A n \in places : \E i \in S : Cardinality(below[i]) = n
  BY <1>9 DEF Surjection
<1> QED BY <1>1, <1>3, <1>5, <1>6, <1>10

(***************************************************************************)
(* Totals over a finite set                                                *)
(***************************************************************************)
\* The total of a function over a finite set, taken in any order.
TotalOver(f, S) ==
    LET iter[T \in SUBSET S] ==
            IF T = {} THEN 0
            ELSE LET x == CHOOSE y \in T : TRUE IN f[x] + iter[T \ {x}]
    IN  iter[S]

Sums(g, f, S) ==
    g = [T \in SUBSET S |->
            IF T = {} THEN 0
            ELSE LET x == CHOOSE y \in T : TRUE IN f[x] + g[T \ {x}]]

\* g takes any member first.
InAnyOrder(g, f, S) ==
    g[{}] = 0 /\ \A T \in SUBSET S : \A x \in T : g[T] = f[x] + g[T \ {x}]

IntegersOn(f, S) == \A x \in S : f[x] \in Int

\* Of some subsets of a finite set, one has the fewest members.
LEMMA SmallestOf ==
    ASSUME NEW S, IsFiniteSet(S), NEW bad \in SUBSET (SUBSET S), bad # {}
    PROVE  \E T \in bad : /\ IsFiniteSet(T)
                          /\ \A x \in T : T \ {x} \notin bad
                          /\ \A x \in T, y \in T : T \ {x} \notin bad /\ (T \ {x}) \ {y} \notin bad
<1> DEFINE sizes == {Cardinality(T) : T \in bad}
<1>1. \A T \in bad : IsFiniteSet(T) /\ Cardinality(T) \in Nat
  BY FS_Subset, FS_CardinalityType
<1>2. sizes \subseteq Nat /\ sizes # {}
  BY <1>1
<1>3. PICK m \in sizes : \A k \in sizes : m <= k
  BY <1>2, FirstOf
<1>4. PICK T \in bad : Cardinality(T) = m
  OBVIOUS
<1>40. \A U \in bad : m <= Cardinality(U)
  BY <1>3
<1> HIDE DEF sizes
<1>5. ASSUME NEW x \in T PROVE IsFiniteSet(T \ {x}) /\ Cardinality(T \ {x}) = m - 1
  BY <1>1, <1>4, FS_RemoveElement
<1>6. ASSUME NEW x \in T, NEW y \in T PROVE (T \ {x}) \ {y} \notin bad
  <2>1. CASE y = x
    <3>1. (T \ {x}) \ {y} = T \ {x}
      BY <2>1
    <3>2. Cardinality(T \ {x}) = m - 1 /\ ~(m <= m - 1)
      BY <1>1, <1>4, <1>5
    <3> QED BY <1>40, <3>1, <3>2
  <2>2. CASE y # x
    <3>1. Cardinality((T \ {x}) \ {y}) = m - 1 - 1
      BY <1>5, <2>2, FS_RemoveElement
    <3>2. m \in Nat
      BY <1>1, <1>4
    <3>3. ~(m <= m - 1 - 1)
      BY <3>2
    <3> QED BY <1>40, <3>1, <3>3
  <2> QED BY <2>1, <2>2
<1>7. ASSUME NEW x \in T PROVE T \ {x} \notin bad
  <2>1. Cardinality(T \ {x}) = m - 1 /\ m \in Nat
    BY <1>1, <1>4, <1>5
  <2> QED BY <1>40, <2>1
<1> QED BY <1>1, <1>4, <1>6, <1>7

\* Something sums any integers.
LEMMA SomethingSums ==
    ASSUME NEW S, IsFiniteSet(S), NEW f, IntegersOn(f, S)
    PROVE  \E g \in [SUBSET S -> Int] : Sums(g, f, S)
<1> DEFINE any(T) == CHOOSE y \in T : TRUE
           n == Cardinality(S)
           Good(g, m) == /\ g \in [SUBSET S -> Int]
                         /\ \A T \in SUBSET S : Cardinality(T) <= m =>
                                g[T] = IF T = {} THEN 0 ELSE f[any(T)] + g[T \ {any(T)}]
           stuck == {m \in 0..n : \A g : ~Good(g, m)}
<1>1. n \in Nat /\ \A T \in SUBSET S : IsFiniteSet(T) /\ Cardinality(T) \in 0..n
  BY FS_CardinalityType, FS_Subset
<1>2. \A T \in SUBSET S : T # {} => any(T) \in T
  BY Zenon
<1>3. ASSUME NEW T \in SUBSET S, T # {}
      PROVE  T \ {any(T)} \in SUBSET S /\ Cardinality(T \ {any(T)}) = Cardinality(T) - 1
  <2> DEFINE x == any(T)
  <2>1. x \in T
    BY <1>2, <1>3
  <2> HIDE DEF x
  <2>2. IsFiniteSet(T) /\ Cardinality(T \ {x}) = Cardinality(T) - 1
    BY <1>1, <2>1, FS_RemoveElement
  <2> QED BY <2>2 DEF x
<1> HIDE DEF any
<1>4. stuck = {}
  <2> SUFFICES ASSUME stuck # {} PROVE FALSE
    OBVIOUS
  <2>1. stuck \subseteq Nat
    OBVIOUS
  <2>2. PICK m \in stuck : \A k \in stuck : m <= k
    BY <2>1, FirstOf
  <2>3. CASE m = 0
    <3> DEFINE g == [T \in SUBSET S |-> 0]
    <3>1. \A T \in SUBSET S : Cardinality(T) <= 0 => T = {}
      BY <1>1, FS_EmptySet
    <3>2. g \in [SUBSET S -> Int] /\ \A T \in SUBSET S : g[T] = 0
      OBVIOUS
    <3> HIDE DEF g
    <3>3. Good(g, 0)
      BY <3>1, <3>2
    <3> QED BY <2>2, <2>3, <3>3
  <2>4. CASE m # 0
    <3>0. m \in 0..n
      OBVIOUS
    <3> HIDE DEF stuck
    <3>1. m \in 1..n /\ m - 1 \in 0..n /\ m - 1 \notin stuck
      BY <1>1, <2>2, <2>4, <3>0
    <3> USE DEF stuck
    <3>2. PICK shorter : Good(shorter, m - 1)
      BY <3>1
    <3> DEFINE longer == [T \in SUBSET S |->
                            IF Cardinality(T) = m THEN f[any(T)] + shorter[T \ {any(T)}]
                            ELSE shorter[T]]
    <3>3. ASSUME NEW T \in SUBSET S, Cardinality(T) = m
          PROVE  /\ T # {} /\ f[any(T)] \in Int /\ shorter[T \ {any(T)}] \in Int
                 /\ longer[T] = f[any(T)] + shorter[T \ {any(T)}]
                 /\ longer[T \ {any(T)}] = shorter[T \ {any(T)}]
      <4>1. T # {}
        <5>1. Cardinality({}) = 0 /\ m # 0
          BY <3>1, FS_EmptySet
        <5> QED BY <3>3, <5>1
      <4>2. any(T) \in S
        BY <1>2, <4>1
      <4>3. T \ {any(T)} \in SUBSET S /\ Cardinality(T \ {any(T)}) = m - 1
        BY <1>3, <3>3, <4>1
      <4>4. m - 1 # m
        BY <3>1
      <4>5. f[any(T)] \in Int
        BY <4>2 DEF IntegersOn
      <4>6. shorter[T \ {any(T)}] \in Int
        BY <3>2, <4>3
      <4> QED BY <3>3, <4>1, <4>3, <4>4, <4>5, <4>6
    <3>4. ASSUME NEW T \in SUBSET S, Cardinality(T) # m PROVE longer[T] = shorter[T]
      BY <3>4
    <3>5. longer \in [SUBSET S -> Int]
      <4>1. \A T \in SUBSET S : longer[T] \in Int
        <5> TAKE T \in SUBSET S
        <5>1. CASE Cardinality(T) = m
          <6>1. /\ f[any(T)] \in Int /\ shorter[T \ {any(T)}] \in Int
                /\ longer[T] = f[any(T)] + shorter[T \ {any(T)}]
            BY <3>3, <5>1
          <6> HIDE DEF longer
          <6> QED BY <6>1
        <5>2. CASE Cardinality(T) # m
          <6>1. shorter[T] \in Int
            BY <3>2
          <6> QED BY <3>4, <5>2, <6>1
        <5> QED BY <5>1, <5>2
      <4> QED BY <4>1
    <3>6. ASSUME NEW T \in SUBSET S, Cardinality(T) <= m
          PROVE  longer[T] = IF T = {} THEN 0 ELSE f[any(T)] + longer[T \ {any(T)}]
      <4>1. CASE Cardinality(T) = m
        <5> HIDE DEF longer
        <5> QED BY <3>3, <4>1
      <4>2. CASE Cardinality(T) # m
        <5>1. Cardinality(T) <= m - 1
          BY <1>1, <3>1, <3>6, <4>2
        <5>2. shorter[T] = IF T = {} THEN 0 ELSE f[any(T)] + shorter[T \ {any(T)}]
          BY <3>2, <5>1
        <5>3. T # {} => longer[T \ {any(T)}] = shorter[T \ {any(T)}]
          <6> HAVE T # {}
          <6>1. T \ {any(T)} \in SUBSET S /\ Cardinality(T \ {any(T)}) # m
            BY <1>1, <1>3, <3>1, <5>1
          <6> QED BY <3>4, <6>1
        <5>4. longer[T] = shorter[T]
          BY <3>4, <4>2
        <5> HIDE DEF longer
        <5> QED BY <5>2, <5>3, <5>4
      <4> QED BY <4>1, <4>2
    <3> HIDE DEF longer
    <3>7. Good(longer, m)
      BY <3>5, <3>6
    <3> QED BY <2>2, <3>7
  <2> QED BY <2>3, <2>4
<1>5. n \in 0..n
  BY <1>1
<1>6. PICK g : Good(g, n)
  BY <1>4, <1>5, Zenon
<1>7. \A T \in SUBSET S : g[T] = IF T = {} THEN 0 ELSE f[any(T)] + g[T \ {any(T)}]
  <2>1. \A T \in SUBSET S : Cardinality(T) <= n
    BY <1>1
  <2> QED BY <1>6, <2>1, Zenon
<1>8. g = [T \in SUBSET S |-> g[T]]
  BY <1>6
<1>9. g = [T \in SUBSET S |-> IF T = {} THEN 0 ELSE f[any(T)] + g[T \ {any(T)}]]
  BY <1>7, <1>8
<1>10. Sums(g, f, S)
  BY <1>9 DEF Sums, any
<1> QED BY <1>6, <1>10

\* The members may be taken in any order.
LEMMA SumsInAnyOrder ==
    ASSUME NEW S, IsFiniteSet(S), NEW f, IntegersOn(f, S), NEW g, g \in [SUBSET S -> Int], Sums(g, f, S)
    PROVE  InAnyOrder(g, f, S)
<1> DEFINE any(T) == CHOOSE y \in T : TRUE
           bad == {T \in SUBSET S : \E x \in T : g[T] # f[x] + g[T \ {x}]}
<1>1. \A T \in SUBSET S : g[T] = IF T = {} THEN 0 ELSE f[any(T)] + g[T \ {any(T)}]
  BY Zenon DEF Sums
<1>2. \A T \in SUBSET S : T # {} => any(T) \in T
  BY Zenon
<1> HIDE DEF any
<1>3. \A x \in S : f[x] \in Int
  BY DEF IntegersOn
<1>4. bad = {}
  <2> SUFFICES ASSUME bad # {} PROVE FALSE
    OBVIOUS
  <2>1. PICK T \in bad : \A x \in T, y \in T : T \ {x} \notin bad
    BY SmallestOf
  <2>2. PICK x \in T : g[T] # f[x] + g[T \ {x}]
    OBVIOUS
  <2> DEFINE y == any(T)
  <2>3. T \in SUBSET S /\ y \in T /\ g[T] = f[y] + g[T \ {y}]
    BY <1>1, <1>2, <2>2
  <2> HIDE DEF y
  <2>4. x # y
    BY <2>2, <2>3
  <2>5. T \ {x} \notin bad /\ T \ {y} \notin bad /\ T \ {x} \in SUBSET S /\ T \ {y} \in SUBSET S
    BY <2>1, <2>3
  <2>6. y \in T \ {x} /\ x \in T \ {y}
    BY <2>3, <2>4
  <2>7. g[T \ {x}] = f[y] + g[(T \ {x}) \ {y}] /\ g[T \ {y}] = f[x] + g[(T \ {y}) \ {x}]
    BY <2>5, <2>6
  <2>8. (T \ {x}) \ {y} = (T \ {y}) \ {x}
    OBVIOUS
  <2> DEFINE rest == (T \ {x}) \ {y}
  <2>9. g[rest] \in Int /\ f[x] \in Int /\ f[y] \in Int
    <3>1. rest \in SUBSET S
      BY <2>3
    <3> HIDE DEF rest
    <3> QED BY <1>3, <2>3, <3>1
  <2>10. g[T \ {x}] = f[y] + g[rest] /\ g[T \ {y}] = f[x] + g[rest]
    BY <2>7, <2>8
  <2> HIDE DEF rest, bad
  <2> QED BY <2>2, <2>3, <2>9, <2>10
<1>5. g[{}] = 0
  BY <1>1
<1> QED BY <1>4, <1>5 DEF InAnyOrder

\* Two sums of the same integers agree where both are.
LEMMA SumsAreOne ==
    ASSUME NEW S, IsFiniteSet(S), NEW f, NEW g, Sums(g, f, S), NEW R \in SUBSET S, NEW h, Sums(h, f, R)
    PROVE  h[R] = g[R]
<1> DEFINE any(T) == CHOOSE y \in T : TRUE
           bad == {T \in SUBSET R : h[T] # g[T]}
<1>1. \A T \in SUBSET S : g[T] = IF T = {} THEN 0 ELSE f[any(T)] + g[T \ {any(T)}]
  BY Zenon DEF Sums
<1>2. \A T \in SUBSET R : h[T] = IF T = {} THEN 0 ELSE f[any(T)] + h[T \ {any(T)}]
  BY Zenon DEF Sums
<1>3. \A T \in SUBSET S : T # {} => any(T) \in T
  BY Zenon
<1> HIDE DEF any
<1>4. IsFiniteSet(R) /\ \A T \in SUBSET R : T \in SUBSET S
  BY FS_Subset
<1>5. bad = {}
  <2> SUFFICES ASSUME bad # {} PROVE FALSE
    OBVIOUS
  <2>1. PICK T \in bad : \A x \in T : T \ {x} \notin bad
    BY <1>4, SmallestOf
  <2>2. T \in SUBSET R /\ h[T] # g[T] /\ T \in SUBSET S
    BY <1>4
  <2>3. T # {}
    BY <1>1, <1>2, <2>2
  <2> DEFINE x == any(T)
  <2>4. x \in T /\ T \ {x} \notin bad /\ T \ {x} \in SUBSET R
    BY <1>3, <2>1, <2>2, <2>3
  <2>5. h[T \ {x}] = g[T \ {x}]
    BY <2>4
  <2>6. h[T] = f[x] + h[T \ {x}] /\ g[T] = f[x] + g[T \ {x}]
    BY <1>1, <1>2, <2>2, <2>3
  <2> QED BY <2>2, <2>5, <2>6
<1> QED BY <1>5

\* What a total is: nothing of nothing, and the value of any member with the total of the others.
LEMMA TotalOf ==
    ASSUME NEW S, IsFiniteSet(S), NEW f, IntegersOn(f, S)
    PROVE  /\ TotalOver(f, {}) = 0 /\ TotalOver(f, S) \in Int
           /\ \A x \in S : TotalOver(f, S) = f[x] + TotalOver(f, S \ {x})
<1>1. PICK g \in [SUBSET S -> Int] : Sums(g, f, S)
  BY SomethingSums
<1>2. ASSUME NEW R \in SUBSET S PROVE TotalOver(f, R) = g[R]
  <2>1. IsFiniteSet(R) /\ IntegersOn(f, R)
    BY FS_Subset DEF IntegersOn
  <2>2. \E h : Sums(h, f, R)
    BY <2>1, SomethingSums, Zenon
  <2> DEFINE iter == CHOOSE h : Sums(h, f, R)
  <2>3. Sums(iter, f, R)
    BY <2>2, Zenon
  <2>4. TotalOver(f, R) = iter[R]
    BY DEF TotalOver, Sums
  <2> HIDE DEF iter
  <2> QED BY <1>1, <2>3, <2>4, SumsAreOne
<1>3. InAnyOrder(g, f, S)
  BY <1>1, SumsInAnyOrder, Zenon
<1> QED BY <1>2, <1>3 DEF InAnyOrder

\* A subset of the same integers.
LEMMA IntegersOnPart ==
    ASSUME NEW S, NEW f, IntegersOn(f, S), NEW T \in SUBSET S PROVE IntegersOn(f, T)
BY DEF IntegersOn

\* Only the values count.
LEMMA TotalsAgree ==
    ASSUME NEW S, IsFiniteSet(S), NEW f, NEW g, IntegersOn(f, S), \A x \in S : g[x] = f[x]
    PROVE  TotalOver(g, S) = TotalOver(f, S)
<1> DEFINE bad == {T \in SUBSET S : TotalOver(g, T) # TotalOver(f, T)}
<1>1. bad = {}
  <2> SUFFICES ASSUME bad # {} PROVE FALSE
    OBVIOUS
  <2>1. PICK T \in bad : IsFiniteSet(T) /\ \A x \in T : T \ {x} \notin bad
    BY SmallestOf
  <2>2. IntegersOn(f, T) /\ IntegersOn(g, T) /\ T \in SUBSET S
    BY DEF IntegersOn
  <2>3. /\ TotalOver(f, {}) = 0 /\ \A x \in T : TotalOver(f, T) = f[x] + TotalOver(f, T \ {x})
        /\ TotalOver(g, {}) = 0 /\ \A x \in T : TotalOver(g, T) = g[x] + TotalOver(g, T \ {x})
    BY <2>1, <2>2, TotalOf
  <2>4. PICK x \in T : TRUE
    BY <2>3
  <2>5. TotalOver(g, T \ {x}) = TotalOver(f, T \ {x})
    BY <2>1, <2>2
  <2>6. g[x] = f[x]
    BY <2>2
  <2>7. TotalOver(g, T) = TotalOver(f, T)
    BY <2>3, <2>5, <2>6
  <2> QED BY <2>7
<1> QED BY <1>1

\* Totals add up member by member.
LEMMA TotalsSum ==
    ASSUME NEW S, IsFiniteSet(S), NEW f, NEW g, NEW h, IntegersOn(f, S), IntegersOn(g, S),
           \A x \in S : h[x] = f[x] + g[x]
    PROVE  TotalOver(h, S) = TotalOver(f, S) + TotalOver(g, S)
<1> DEFINE bad == {T \in SUBSET S : TotalOver(h, T) # TotalOver(f, T) + TotalOver(g, T)}
<1>1. bad = {}
  <2> SUFFICES ASSUME bad # {} PROVE FALSE
    OBVIOUS
  <2>1. PICK T \in bad : IsFiniteSet(T) /\ \A x \in T : T \ {x} \notin bad
    BY SmallestOf
  <2>2. IntegersOn(f, T) /\ IntegersOn(g, T) /\ IntegersOn(h, T) /\ T \in SUBSET S
    BY DEF IntegersOn
  <2>3. /\ TotalOver(f, {}) = 0 /\ \A x \in T : TotalOver(f, T) = f[x] + TotalOver(f, T \ {x})
        /\ TotalOver(g, {}) = 0 /\ \A x \in T : TotalOver(g, T) = g[x] + TotalOver(g, T \ {x})
        /\ TotalOver(h, {}) = 0 /\ \A x \in T : TotalOver(h, T) = h[x] + TotalOver(h, T \ {x})
    BY <2>1, <2>2, TotalOf
  <2>4. PICK x \in T : TRUE
    BY <2>3
  <2>5. TotalOver(h, T \ {x}) = TotalOver(f, T \ {x}) + TotalOver(g, T \ {x})
    BY <2>1, <2>2
  <2>6. h[x] = f[x] + g[x] /\ f[x] \in Int /\ g[x] \in Int
    BY <2>2 DEF IntegersOn
  <2>7. IsFiniteSet(T \ {x}) /\ IntegersOn(f, T \ {x}) /\ IntegersOn(g, T \ {x})
    BY <2>1, <2>2, FS_RemoveElement DEF IntegersOn
  <2>8. TotalOver(f, T \ {x}) \in Int /\ TotalOver(g, T \ {x}) \in Int
    BY <2>7, TotalOf
  <2> DEFINE m == TotalOver(f, T \ {x})
             n == TotalOver(g, T \ {x})
  <2>9. /\ TotalOver(f, T) = f[x] + m /\ TotalOver(g, T) = g[x] + n
        /\ TotalOver(h, T) = f[x] + g[x] + (m + n) /\ m \in Int /\ n \in Int
    BY <2>3, <2>5, <2>6, <2>8
  <2> HIDE DEF m, n
  <2>10. TotalOver(h, T) = TotalOver(f, T) + TotalOver(g, T)
    BY <2>6, <2>9
  <2> QED BY <2>10
<1> QED BY <1>1

\* One more member.
LEMMA TotalWith ==
    ASSUME NEW S, IsFiniteSet(S), NEW f, NEW x, x \notin S, IntegersOn(f, S \cup {x})
    PROVE  TotalOver(f, S \cup {x}) = f[x] + TotalOver(f, S)
<1> DEFINE T == S \cup {x}
<1>1. IsFiniteSet(T) /\ x \in T /\ T \ {x} = S
  BY FS_AddElement
<1> HIDE DEF T
<1>2. TotalOver(f, T) = f[x] + TotalOver(f, T \ {x})
  BY <1>1, TotalOf DEF T
<1> QED BY <1>1, <1>2 DEF T

\* Two sets with nothing in common.
LEMMA TotalOfBoth ==
    ASSUME NEW S, IsFiniteSet(S), NEW R, IsFiniteSet(R), S \cap R = {}, NEW f, IntegersOn(f, S \cup R)
    PROVE  TotalOver(f, S \cup R) = TotalOver(f, S) + TotalOver(f, R)
<1> DEFINE bad == {T \in SUBSET R : TotalOver(f, S \cup T) # TotalOver(f, S) + TotalOver(f, T)}
<1>1. bad = {}
  <2> SUFFICES ASSUME bad # {} PROVE FALSE
    OBVIOUS
  <2>1. PICK T \in bad : IsFiniteSet(T) /\ \A x \in T : T \ {x} \notin bad
    BY SmallestOf
  <2>2. T \in SUBSET R /\ IntegersOn(f, T) /\ IntegersOn(f, S) /\ IntegersOn(f, S \cup T)
    BY DEF IntegersOn
  <2>3. /\ TotalOver(f, {}) = 0 /\ \A x \in T : TotalOver(f, T) = f[x] + TotalOver(f, T \ {x})
        /\ TotalOver(f, S) \in Int
    BY <2>1, <2>2, TotalOf
  <2>4. T # {}
    <3> SUFFICES ASSUME T = {} PROVE FALSE
      OBVIOUS
    <3>1. S \cup T = S
      OBVIOUS
    <3> QED BY <2>1, <2>3, <3>1
  <2>5. PICK x \in T : TRUE
    BY <2>4
  <2>6. /\ TotalOver(f, S \cup (T \ {x})) = TotalOver(f, S) + TotalOver(f, T \ {x})
        /\ f[x] \in Int
    BY <2>1, <2>2 DEF IntegersOn
  <2>7. IsFiniteSet(T \ {x}) /\ IntegersOn(f, T \ {x}) /\ IsFiniteSet(S \cup T)
    BY <2>1, <2>2, FS_RemoveElement, FS_Union DEF IntegersOn
  <2>8. TotalOver(f, T \ {x}) \in Int
    BY <2>7, TotalOf
  <2>9. (S \cup T) \ {x} = S \cup (T \ {x}) /\ x \in S \cup T
    BY <2>2
  <2>10. TotalOver(f, S \cup T) = f[x] + TotalOver(f, S \cup (T \ {x}))
    BY <2>2, <2>7, <2>9, TotalOf
  <2>11. TotalOver(f, S \cup T) = TotalOver(f, S) + TotalOver(f, T)
    BY <2>3, <2>6, <2>8, <2>10
  <2> QED BY <2>11
<1>2. R \notin bad
  BY <1>1
<1> QED BY <1>2

\* Where nothing counts, nothing is added.
LEMMA TotalOfNothing ==
    ASSUME NEW S, IsFiniteSet(S), NEW f, \A x \in S : f[x] = 0
    PROVE  TotalOver(f, S) = 0
<1> DEFINE zero == [x \in S |-> 0]
<1>1. IntegersOn(zero, S) /\ \A x \in S : f[x] = zero[x] /\ zero[x] = zero[x] + zero[x]
  BY DEF IntegersOn
<1> HIDE DEF zero
<1>2. TotalOver(f, S) = TotalOver(zero, S)
  BY <1>1, TotalsAgree
<1>3. TotalOver(zero, S) = TotalOver(zero, S) + TotalOver(zero, S)
  BY <1>1, TotalsSum
<1>4. TotalOver(zero, S) \in Int
  BY <1>1, TotalOf
<1> DEFINE n == TotalOver(zero, S)
<1>5. n \in Int /\ n = n + n
  BY <1>3, <1>4
<1> HIDE DEF n
<1>6. n = 0
  BY <1>5
<1> QED BY <1>2, <1>6 DEF n

LEMMA TotalOfPart ==
    ASSUME NEW S, IsFiniteSet(S), NEW f, IntegersOn(f, S), NEW R \in SUBSET S,
           \A x \in S \ R : f[x] = 0
    PROVE  TotalOver(f, S) = TotalOver(f, R)
<1>1. /\ IsFiniteSet(R) /\ IsFiniteSet(S \ R) /\ R \cup (S \ R) = S /\ R \cap (S \ R) = {}
      /\ IntegersOn(f, R)
  BY FS_Subset DEF IntegersOn
<1>2. TotalOver(f, S) = TotalOver(f, R) + TotalOver(f, S \ R)
  BY <1>1, TotalOfBoth
<1>3. TotalOver(f, S \ R) = 0
  BY <1>1, TotalOfNothing
<1>4. TotalOver(f, R) \in Int
  BY <1>1, TotalOf
<1> QED BY <1>2, <1>3, <1>4

\* Natural numbers: the total is one, and no less than any of them.
LEMMA TotalIsNat ==
    ASSUME NEW S, IsFiniteSet(S), NEW f, \A x \in S : f[x] \in Nat
    PROVE  TotalOver(f, S) \in Nat /\ \A x \in S : f[x] <= TotalOver(f, S)
<1> DEFINE bad == {T \in SUBSET S : TotalOver(f, T) \notin Nat}
<1>0. IntegersOn(f, S)
  BY DEF IntegersOn
<1>1. bad = {}
  <2> SUFFICES ASSUME bad # {} PROVE FALSE
    OBVIOUS
  <2>1. PICK T \in bad : IsFiniteSet(T) /\ \A x \in T : T \ {x} \notin bad
    BY SmallestOf
  <2>2. T \in SUBSET S /\ IntegersOn(f, T)
    BY DEF IntegersOn
  <2>3. TotalOver(f, {}) = 0 /\ \A x \in T : TotalOver(f, T) = f[x] + TotalOver(f, T \ {x})
    BY <2>1, <2>2, TotalOf
  <2>30. TotalOver(f, T) \notin Nat
    OBVIOUS
  <2>31. T # {}
    BY <2>3, <2>30
  <2>4. PICK x \in T : TRUE
    BY <2>31
  <2>5. TotalOver(f, T \ {x}) \in Nat /\ f[x] \in Nat
    BY <2>1, <2>2
  <2>6. TotalOver(f, T) \in Nat
    BY <2>3, <2>5
  <2> QED BY <2>6
<1>2. ASSUME NEW x \in S PROVE f[x] <= TotalOver(f, S)
  <2>1. TotalOver(f, S) = f[x] + TotalOver(f, S \ {x})
    BY <1>0, TotalOf
  <2>2. TotalOver(f, S \ {x}) \in Nat
    BY <1>1
  <2> QED BY <2>1, <2>2
<1> QED BY <1>1, <1>2

\* The same values under other names.
LEMMA TotalRenamed ==
    ASSUME NEW S, IsFiniteSet(S), NEW f, IntegersOn(f, S), NEW p, NEW g,
           \A x \in S : g[p[x]] = f[x], \A x, y \in S : p[x] = p[y] => x = y
    PROVE  TotalOver(g, {p[x] : x \in S}) = TotalOver(f, S)
<1> DEFINE image(T) == {p[x] : x \in T}
           bad == {T \in SUBSET S : TotalOver(g, image(T)) # TotalOver(f, T)}
<1>1. bad = {}
  <2> SUFFICES ASSUME bad # {} PROVE FALSE
    OBVIOUS
  <2>1. PICK T \in bad : IsFiniteSet(T) /\ \A x \in T : T \ {x} \notin bad
    BY SmallestOf
  <2>2. T \in SUBSET S /\ IntegersOn(f, T)
    BY DEF IntegersOn
  <2>3. TotalOver(f, {}) = 0 /\ \A x \in T : TotalOver(f, T) = f[x] + TotalOver(f, T \ {x})
    BY <2>1, <2>2, TotalOf
  <2>4. IsFiniteSet(image(T))
    BY <2>1, FiniteImage
  <2>5. IntegersOn(g, image(T))
    BY <2>2 DEF IntegersOn
  <2>6. TotalOver(g, {}) = 0 /\ \A v \in image(T) : TotalOver(g, image(T)) = g[v] + TotalOver(g, image(T) \ {v})
    BY <2>4, <2>5, TotalOf
  <2>7. T # {}
    <3> SUFFICES ASSUME T = {} PROVE FALSE
      OBVIOUS
    <3>1. image(T) = {}
      OBVIOUS
    <3> QED BY <2>1, <2>3, <2>6, <3>1
  <2>8. PICK x \in T : TRUE
    BY <2>7
  <2>9. image(T) \ {p[x]} = image(T \ {x}) /\ p[x] \in image(T)
    BY <2>2
  <2>10. TotalOver(g, image(T \ {x})) = TotalOver(f, T \ {x})
    BY <2>1, <2>2
  <2>11. g[p[x]] = f[x]
    BY <2>2
  <2> HIDE DEF image
  <2>12. TotalOver(g, image(T)) = TotalOver(f, T)
    BY <2>3, <2>6, <2>9, <2>10, <2>11
  <2> QED BY <2>12
<1>2. S \notin bad
  BY <1>1
<1> QED BY <1>2

\* No member counts for less: the total is no less.
LEMMA TotalRises ==
    ASSUME NEW S, IsFiniteSet(S), NEW f, NEW g, IntegersOn(f, S), IntegersOn(g, S),
           \A x \in S : f[x] <= g[x]
    PROVE  TotalOver(f, S) <= TotalOver(g, S)
<1> DEFINE more == [x \in S |-> g[x] - f[x]]
<1>1. \A x \in S : f[x] \in Int /\ g[x] \in Int
  BY DEF IntegersOn
<1>2. \A x \in S : more[x] \in Nat /\ more[x] \in Int /\ g[x] = f[x] + more[x]
  BY <1>1
<1> HIDE DEF more
<1>3. IntegersOn(more, S)
  BY <1>2 DEF IntegersOn
<1>4. TotalOver(g, S) = TotalOver(f, S) + TotalOver(more, S)
  BY <1>2, <1>3, TotalsSum, Zenon
<1>5. TotalOver(more, S) \in Nat
  BY <1>2, TotalIsNat, Zenon
<1>6. TotalOver(f, S) \in Int
  BY TotalOf, Zenon
<1> QED BY <1>4, <1>5, <1>6

\* The totals of two sequences, one after the other.
LEMMA TotalInTwo ==
    ASSUME NEW m \in Nat, NEW n \in Nat, NEW f, IntegersOn(f, 1..m), NEW g, IntegersOn(g, 1..n), NEW h,
           \A i \in 1..m : h[i] = f[i], \A i \in 1..n : h[m + i] = g[i]
    PROVE  TotalOver(h, 1..(m + n)) = TotalOver(f, 1..m) + TotalOver(g, 1..n)
<1> DEFINE later == [i \in 1..n |-> m + i]
           S == 1..m
           R == {later[i] : i \in 1..n}
<1>1. IsFiniteSet(S) /\ IsFiniteSet(1..n)
  BY FS_Interval
<1>2. \A i \in 1..n : later[i] = m + i /\ h[later[i]] = g[i]
  OBVIOUS
<1>3. \A i, j \in 1..n : later[i] = later[j] => i = j
  BY <1>2
<1>4. R = (m + 1)..(m + n)
  <2>1. \A y \in (m + 1)..(m + n) : y - m \in 1..n /\ later[y - m] = y
    BY <1>2
  <2>2. \A y \in (m + 1)..(m + n) : y \in R
    <3> HIDE DEF later
    <3> QED BY <2>1
  <2>3. \A y \in R : y \in (m + 1)..(m + n)
    BY <1>2
  <2> QED BY <2>2, <2>3
<1>5. IsFiniteSet(R) /\ S \cup R = 1..(m + n) /\ S \cap R = {}
  <2>1. IsFiniteSet((m + 1)..(m + n))
    <3>1. m + 1 \in Int /\ m + n \in Int
      OBVIOUS
    <3> QED BY <3>1, FS_Interval
  <2> HIDE DEF R
  <2> QED BY <1>4, <2>1
<1> HIDE DEF later, S
<1>6. TotalOver(h, R) = TotalOver(g, 1..n)
  <2> DEFINE places == 1..n
  <2>1. IsFiniteSet(places) /\ IntegersOn(g, places) /\ R = {later[i] : i \in places}
    BY <1>1
  <2>2. \A i \in places : h[later[i]] = g[i]
    BY <1>2
  <2>3. \A i, j \in places : later[i] = later[j] => i = j
    BY <1>3
  <2> HIDE DEF later, places, R
  <2>4. TotalOver(h, {later[i] : i \in places}) = TotalOver(g, places)
    BY <2>1, <2>2, <2>3, TotalRenamed
  <2> QED BY <2>1, <2>4 DEF places
<1>7. TotalOver(h, S) = TotalOver(f, S)
  BY <1>1, TotalsAgree, Zenon DEF S
<1>8. IntegersOn(h, S \cup R)
  <2>1. \A i \in 1..m : h[i] \in Int
    BY DEF IntegersOn
  <2>2. \A i \in 1..n : h[later[i]] \in Int
    BY <1>2 DEF IntegersOn
  <2> QED BY <2>1, <2>2 DEF IntegersOn, S
<1> HIDE DEF R
<1>9. TotalOver(h, S \cup R) = TotalOver(h, S) + TotalOver(h, R)
  BY <1>1, <1>5, <1>8, TotalOfBoth, Zenon
<1> QED BY <1>5, <1>6, <1>7, <1>9 DEF S

\* One place more.
LEMMA NextTotal ==
    ASSUME NEW n \in Nat, NEW f, IntegersOn(f, 1..n), NEW k \in 1..n
    PROVE  TotalOver(f, 1..k) = TotalOver(f, 1..(k - 1)) + f[k] /\ TotalOver(f, 1..(k - 1)) \in Int
<1>1. 1..k = 1..(k - 1) \cup {k} /\ k \notin 1..(k - 1) /\ 1..k \subseteq 1..n /\ 1..(k - 1) \subseteq 1..n
  OBVIOUS
<1>2. IsFiniteSet(1..(k - 1))
  BY FS_Interval
<1>3. IntegersOn(f, 1..k) /\ IntegersOn(f, 1..(k - 1))
  BY <1>1 DEF IntegersOn
<1> DEFINE before == 1..(k - 1)
<1>4. TotalOver(f, before \cup {k}) = f[k] + TotalOver(f, before)
  <2>1. IsFiniteSet(before) /\ k \notin before /\ IntegersOn(f, before \cup {k})
    BY <1>1, <1>2, <1>3
  <2> HIDE DEF before
  <2> QED BY <2>1, TotalWith, Zenon
<1>5. TotalOver(f, before) \in Int /\ f[k] \in Int
  <2>1. TotalOver(f, before) \in Int
    BY <1>2, <1>3, TotalOf, Zenon
  <2> QED BY <2>1 DEF IntegersOn
<1> HIDE DEF before
<1>6. TotalOver(f, before \cup {k}) = TotalOver(f, before) + f[k]
  BY <1>4, <1>5
<1> QED BY <1>1, <1>5, <1>6 DEF before

LEMMA NoPlaces ==
    ASSUME NEW f
    PROVE  TotalOver(f, 1..0) = 0
<1>1. 1..0 = {} /\ IsFiniteSet({}) /\ IntegersOn(f, {})
  BY FS_EmptySet DEF IntegersOn
<1>2. TotalOver(f, {}) = 0
  BY <1>1, TotalOf, Zenon
<1> QED BY <1>1, <1>2

=============================================================================
