------------------------------ MODULE Induction ------------------------------
(***************************************************************************)
(* Induction over the natural numbers in a form that needs no operator as  *)
(* a parameter: the property is a set.                                     *)
(***************************************************************************)
EXTENDS Integers, SequencesExt, WellFoundedInduction, TLAPS

\* A set of natural numbers that is not empty has a least element.
LEMMA LeastNatural ==
    ASSUME NEW S, S \subseteq Nat, S # {}
    PROVE  \E n \in S : \A m \in S : n <= m
<1>1. \E n \in S : \A m \in S : <<m, n>> \notin OpToRel(<, Nat)
  BY NatLessThanWellFounded, WFMin
<1>2. \A m, n \in Nat : m < n => <<m, n>> \in OpToRel(<, Nat)
  BY DEF OpToRel
<1>3. \E n \in S : \A m \in S : ~(m < n)
  BY <1>1, <1>2, Zenon
<1> QED
  BY <1>3

\* A set that contains 0, and with each number up to n the next one, contains all
\* numbers up to n.
LEMMA CountUp ==
    ASSUME NEW n \in Nat, NEW S, 0 \in S, \A k \in 0..(n - 1) : k \in S => k + 1 \in S
    PROVE  0..n \subseteq S
<1> DEFINE T == (0..n) \ S
<1> SUFFICES ASSUME T # {} PROVE FALSE
  OBVIOUS
<1>0. T \subseteq Nat
  OBVIOUS
<1>1. PICK k \in T : \A m \in T : k <= m
  <2> HIDE DEF T
  <2> QED
    BY <1>0, LeastNatural
<1>2. k # 0 /\ k - 1 \in 0..(n - 1) /\ k - 1 \in S
  BY <1>1
<1> QED
  BY <1>1, <1>2


(***************************************************************************)
(* Folds.  FoldLeft of SequencesExt recurses over sets of positions, from  *)
(* the largest one down.                                                   *)
(***************************************************************************)


\* A set of numbers up to n has a largest one.
LEMMA MaxInSet ==
    ASSUME NEW n \in Nat, NEW s \in SUBSET (1..n), s # {}
    PROVE  Max(s) \in s /\ \A k \in s : Max(s) >= k
<1> DEFINE T == {k \in 0..n : n - k \in s}
<1>1. T \subseteq Nat /\ T # {}
  <2>1. PICK k \in s : TRUE
    OBVIOUS
  <2>2. n - k \in 0..n /\ n - (n - k) = k
    OBVIOUS
  <2> QED
    BY <2>2
<1>2. PICK l \in T : \A k \in T : l <= k
  <2> HIDE DEF T
  <2> QED
    BY <1>1, LeastNatural
<1>3. ASSUME NEW k \in s
      PROVE  n - l >= k
  <2>1. n - k \in 0..n /\ n - (n - k) = k
    OBVIOUS
  <2>2. n - k \in T
    BY <2>1
  <2> QED
    BY <1>2, <2>2
<1> QED
  BY <1>2, <1>3 DEF Max

\* The largest number of a set that contains its bound.
LEMMA MaxIsBound ==
    ASSUME NEW n \in Nat \ {0}, NEW s \in SUBSET (1..n), n \in s
    PROVE  Max(s) = n
<1>1. Max(s) \in 1..n /\ Max(s) >= n
  BY MaxInSet
<1> QED
  BY <1>1

\* An interval without its largest number.
LEMMA ShorterInterval ==
    ASSUME NEW k \in Nat \ {0}
    PROVE  Max(1..k) = k /\ (1..k) \ {k} = 1..(k - 1) /\ 1..k # {}
<1>1. k \in 1..k /\ 1..k \in SUBSET (1..k)
  OBVIOUS
<1>2. Max(1..k) = k
  BY <1>1, MaxIsBound
<1>3. (1..k) \ {k} = 1..(k - 1)
  OBVIOUS
<1> QED
  BY <1>1, <1>2, <1>3

\* What MapThenFoldSet computes for the sets of positions: F takes what has been
\* computed so far and the position of the next element.
IsFold(iter, T, F, base, n) ==
    /\ iter \in [SUBSET (1..n) -> T]
    /\ \A s \in SUBSET (1..n) :
         iter[s] = IF s = {} THEN base ELSE F[<<iter[s \ {Max(s)}], Max(s)>>]

\* It exists, whatever F is.
LEMMA FoldExists ==
    ASSUME NEW T, NEW base \in T, NEW n \in Nat, NEW F \in [T \X (1..n) -> T]
    PROVE  \E iter : IsFold(iter, T, F, base, n)
<1> DEFINE Iter(iter, k) ==
             \A s \in SUBSET (1..k) :
               iter[s] = IF s = {} THEN base ELSE F[<<iter[s \ {Max(s)}], Max(s)>>]
           S == {k \in 0..n : \E iter \in [SUBSET (1..k) -> T] : Iter(iter, k)}
<1>1. 0 \in S
  <2> DEFINE iter == [s \in SUBSET (1..0) |-> base]
  <2>1. iter \in [SUBSET (1..0) -> T]
    OBVIOUS
  <2>2. \A s \in SUBSET (1..0) : s = {}
    OBVIOUS
  <2>3. \A s \in SUBSET (1..0) : iter[s] = base /\ s = {}
    BY <2>2
  <2>4. Iter(iter, 0)
    <3> HIDE DEF iter
    <3> QED
      BY <2>3, Zenon
  <2>5. 0 \in 0..n
    OBVIOUS
  <2> HIDE DEF iter, Iter
  <2> QED
    BY <2>1, <2>4, <2>5
<1>2. ASSUME NEW k \in 0..(n - 1), k \in S
      PROVE  k + 1 \in S
  <2>1. PICK old \in [SUBSET (1..k) -> T] : Iter(old, k)
    BY <1>2
  <2>2. k + 1 \in 1..n /\ k + 1 \in Nat \ {0} /\ k + 1 \in 0..n
    OBVIOUS
  <2>3. \A s \in SUBSET (1..(k + 1)) : s \ {k + 1} \in SUBSET (1..k)
    OBVIOUS
  <2>4. \A s \in SUBSET (1..(k + 1)) : k + 1 \notin s => s \in SUBSET (1..k)
    OBVIOUS
  <2> DEFINE iter == [s \in SUBSET (1..(k + 1)) |->
                        IF k + 1 \in s THEN F[<<old[s \ {k + 1}], k + 1>>] ELSE old[s]]
  <2>5. iter \in [SUBSET (1..(k + 1)) -> T]
    BY <2>2, <2>3, <2>4
  <2>6. \A s \in SUBSET (1..k) : s \in SUBSET (1..(k + 1)) /\ k + 1 \notin s
    OBVIOUS
  <2>7. \A s \in SUBSET (1..k) : iter[s] = old[s]
    BY <2>6
  <2>8. ASSUME NEW s \in SUBSET (1..(k + 1))
        PROVE  iter[s] = IF s = {} THEN base ELSE F[<<iter[s \ {Max(s)}], Max(s)>>]
    <3>1. CASE k + 1 \in s
      <4>1. Max(s) = k + 1
        BY <2>2, <3>1, MaxIsBound
      <4>2. iter[s] = F[<<old[s \ {k + 1}], k + 1>>] /\ s # {}
        BY <3>1
      <4>3. iter[s \ {k + 1}] = old[s \ {k + 1}]
        BY <2>3, <2>7
      <4> QED
        BY <4>1, <4>2, <4>3, Zenon
    <3>2. CASE s = {}
      BY <2>1, <2>4, <2>7, <3>2
    <3>3. CASE k + 1 \notin s /\ s # {}
      <4>1. s \in SUBSET (1..k) /\ s \ {Max(s)} \in SUBSET (1..k)
        BY <2>4, <3>3
      <4>2. old[s] = F[<<old[s \ {Max(s)}], Max(s)>>]
        BY <2>1, <3>3, <4>1
      <4>3. iter[s] = old[s] /\ iter[s \ {Max(s)}] = old[s \ {Max(s)}]
        BY <2>7, <4>1
      <4> QED
        BY <3>3, <4>2, <4>3, Zenon
    <3> QED
      BY <3>1, <3>2, <3>3
  <2> HIDE DEF iter
  <2>9. Iter(iter, k + 1)
    BY <2>8
  <2> QED
    BY <2>2, <2>5, <2>9
<1>3. n \in S
  <2> HIDE DEF S
  <2>1. 0..n \subseteq S
    BY <1>1, <1>2, CountUp
  <2> QED
    BY <2>1
<1> QED
  BY <1>3 DEF IsFold


\* h computes a fold of n elements one after the other.
IsRun(h, T, F, base, n) ==
    /\ h \in [0..n -> T] /\ h[0] = base
    /\ \A k \in 1..n : h[k] = F[<<h[k - 1], k>>]

\* iter is computed as a fold, as long as what it computes on the way stays in T.
FoldsIn(iter, T, F, base, n) ==
    /\ base \in T /\ n \in Nat /\ F \in [T \X (1..n) -> T]
    /\ iter[{}] = base
    /\ \A s \in SUBSET (1..n) :
         s # {} /\ iter[s \ {Max(s)}] \in T => iter[s] = F[<<iter[s \ {Max(s)}], Max(s)>>]

\* A fold goes through its elements in their order.
LEMMA FoldRuns ==
    ASSUME NEW iter, NEW T, NEW F, NEW base, NEW n, FoldsIn(iter, T, F, base, n)
    PROVE  \E h : IsRun(h, T, F, base, n) /\ h[n] = iter[1..n]
<1> DEFINE h == [k \in 0..n |-> iter[1..k]]
<1> /\ base \in T /\ n \in Nat /\ F \in [T \X (1..n) -> T]
  BY DEF FoldsIn
<1>0. /\ iter[{}] = base
      /\ \A s \in SUBSET (1..n) :
           s # {} /\ iter[s \ {Max(s)}] \in T => iter[s] = F[<<iter[s \ {Max(s)}], Max(s)>>]
  BY DEF FoldsIn
<1>1. h[0] = base /\ 0 \in 0..n /\ h[n] = iter[1..n]
  <2>1. 1..0 = {}
    OBVIOUS
  <2> QED
    BY <1>0, <2>1
<1>2. ASSUME NEW k \in 1..n, h[k - 1] \in T
      PROVE  h[k] = F[<<h[k - 1], k>>] /\ h[k] \in T
  <2>1. k \in Nat \ {0} /\ k - 1 \in 0..n /\ k \in 0..n /\ 1..k \in SUBSET (1..n)
    OBVIOUS
  <2>2. Max(1..k) = k /\ (1..k) \ {k} = 1..(k - 1) /\ 1..k # {}
    BY <2>1, ShorterInterval
  <2>3. h[k] = iter[1..k] /\ h[k - 1] = iter[1..(k - 1)]
    BY <2>1
  <2> HIDE DEF h
  <2>4. iter[(1..k) \ {Max(1..k)}] \in T
    BY <1>2, <2>2, <2>3
  <2>5. iter[1..k] = F[<<iter[(1..k) \ {Max(1..k)}], Max(1..k)>>]
    BY <1>0, <2>1, <2>2, <2>4
  <2>6. h[k] = F[<<h[k - 1], k>>]
    BY <2>2, <2>3, <2>5
  <2> QED
    BY <1>2, <2>6
<1> HIDE DEF h
<1> DEFINE S == {k \in 0..n : h[k] \in T}
<1>3. 0..n \subseteq S
  <2>1. 0 \in S
    BY <1>1
  <2>2. ASSUME NEW k \in 0..(n - 1), k \in S
        PROVE  k + 1 \in S
    <3>1. k + 1 \in 1..n /\ (k + 1) - 1 = k /\ k + 1 \in 0..n
      OBVIOUS
    <3> QED
      BY <1>2, <2>2, <3>1
  <2> HIDE DEF S
  <2> QED
    BY <2>1, <2>2, CountUp
<1>4. h \in [0..n -> T]
  BY <1>3 DEF h
<1>5. ASSUME NEW k \in 1..n
      PROVE  h[k] = F[<<h[k - 1], k>>]
  <2>1. k - 1 \in 0..n
    OBVIOUS
  <2> QED
    BY <1>2, <1>4, <2>1
<1> QED
  BY <1>1, <1>4, <1>5 DEF IsRun

\* g and h begin with the same and take the same elements.
RunAlike(g, h, F, n) ==
    g[0] = h[0] /\ \A k \in 1..n : g[k] = F[<<g[k - 1], k>>] /\ h[k] = F[<<h[k - 1], k>>]

\* Two runs that agree on the first n elements agree on their result.
LEMMA SameRuns ==
    ASSUME NEW n \in Nat, NEW F, NEW g, NEW h, RunAlike(g, h, F, n)
    PROVE  g[n] = h[n]
<1> USE DEF RunAlike
<1> DEFINE S == {k \in 0..n : g[k] = h[k]}
<1>1. 0 \in S
  OBVIOUS
<1>2. ASSUME NEW k \in 0..(n - 1), k \in S
      PROVE  k + 1 \in S
  <2>1. k + 1 \in 1..n /\ (k + 1) - 1 = k /\ k + 1 \in 0..n
    OBVIOUS
  <2> QED
    BY <1>2, <2>1
<1>3. n \in S
  <2> HIDE DEF S
  <2> QED
    BY <1>1, <1>2, CountUp
<1> QED
  BY <1>3
=============================================================================
