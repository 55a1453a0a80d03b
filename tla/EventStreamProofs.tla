-------------------------- MODULE EventStreamProofs --------------------------
(***************************************************************************)
(* What the web client's event store shows (TimelineSorted,                *)
(* ActivityCurrent), and what reaches it (NothingMissed).  The first part  *)
(* proves the store's algorithms: the binary search of insertSorted, the   *)
(* folds of rebuildDerived and appendMany.  The second part is about the   *)
(* steps of the stream.                                                    *)
(***************************************************************************)
EXTENDS EventStream, SequenceTheorems, Induction

(***************************************************************************)
(* The binary search, and insertion into the sorted list.                  *)
(***************************************************************************)

\* The numbers of the events increase.
Sorted(events) == \A i, j \in 1..Len(events) : i < j => events[i].seq < events[j].seq

\* The middle of a part of the list lies in it.
LEMMA Half == \A lo, hi \in Nat : lo < hi => /\ (lo + hi) \div 2 \in Nat
                /\ lo <= (lo + hi) \div 2 /\ (lo + hi) \div 2 < hi
OBVIOUS

\* The search of insertSorted finds the number of events in front of seq, in any list in
\* which these events come first.
LEMMA PositionCorrect ==
    ASSUME NEW S, NEW events \in Seq(S), NEW seq, NEW n, n = Len(events), NEW q \in 0..n,
           \A i \in 1..n : events[i].seq < seq <=> i <= q
    PROVE  Position(events, seq) = q
<1> DEFINE parts == (0..Len(events)) \X (0..Len(events))
           Search(f) ==
             f = [part \in parts |->
                    LET lo == part[1]
                        hi == part[2]
                        mid == (lo + hi) \div 2
                    IN  IF lo >= hi THEN lo
                        ELSE IF events[mid + 1].seq < seq THEN f[<<mid + 1, hi>>]
                        ELSE f[<<lo, mid>>]]
<1>1. Position(events, seq) = (CHOOSE f : Search(f))[<<0, Len(events)>>]
  BY DEF Position
<1>2. n \in Nat /\ DOMAIN events = 1..n
  BY LenProperties
<1> DEFINE Between(lo, hi) ==
             IF lo >= hi THEN lo ELSE IF q < lo THEN lo ELSE IF q > hi THEN hi ELSE q
           g == [part \in parts |-> Between(part[1], part[2])]
<1>3. ASSUME NEW lo \in 0..n, NEW hi \in 0..n, lo < hi
      PROVE  \E mid \in lo..(hi - 1) :
               /\ mid = (lo + hi) \div 2 /\ mid + 1 \in 0..n /\ mid \in 0..n
               /\ events[mid + 1].seq < seq <=> mid < q
  <2>1. PICK mid : mid = (lo + hi) \div 2
    OBVIOUS
  <2>2. mid \in Nat /\ lo <= mid /\ mid < hi
    BY <1>2, <1>3, <2>1, Half
  <2>3. mid + 1 \in 1..n /\ mid \in lo..(hi - 1)
    BY <1>2, <2>2
  <2> QED
    BY <1>2, <2>1, <2>2, <2>3
<1>4. Search(g)
  <2>1. \A lo, hi \in 0..n : g[<<lo, hi>>] = Between(lo, hi)
    OBVIOUS
  <2>2. ASSUME NEW part \in parts
        PROVE  g[part] = LET lo == part[1]
                             hi == part[2]
                             mid == (lo + hi) \div 2
                         IN  IF lo >= hi THEN lo
                             ELSE IF events[mid + 1].seq < seq THEN g[<<mid + 1, hi>>]
                             ELSE g[<<lo, mid>>]
    <3>1. PICK lo \in 0..n, hi \in 0..n : part = <<lo, hi>> /\ lo = part[1] /\ hi = part[2]
      OBVIOUS
    <3>3. g[part] = Between(lo, hi)
      BY <2>1, <3>1
    <3> HIDE DEF g
    <3>4. CASE lo >= hi
      BY <3>1, <3>3, <3>4
    <3>5. CASE lo < hi
      <4>1. PICK mid \in lo..(hi - 1) :
              /\ mid = (lo + hi) \div 2 /\ mid + 1 \in 0..n /\ mid \in 0..n
              /\ events[mid + 1].seq < seq <=> mid < q
        BY <1>3, <3>5
      <4>2. g[<<mid + 1, hi>>] = Between(mid + 1, hi) /\ g[<<lo, mid>>] = Between(lo, mid)
        BY <2>1, <4>1
      <4>3. /\ mid < q => Between(mid + 1, hi) = Between(lo, hi)
            /\ ~(mid < q) => Between(lo, mid) = Between(lo, hi)
        BY <1>2, <3>5
      <4>4. ~(lo >= hi)
        BY <3>5
      <4> HIDE DEF Between
      <4> QED
        BY <3>1, <3>3, <4>1, <4>2, <4>3, <4>4, Zenon
    <3> QED
      BY <3>4, <3>5
  <2>3. g = [part \in parts |-> g[part]]
    OBVIOUS
  <2> HIDE DEF g
  <2> QED
    BY <2>2, <2>3, Zenon
<1>5. PICK f : Search(f) /\ Position(events, seq) = f[<<0, n>>]
  <2> HIDE DEF Search, g
  <2> QED
    BY <1>1, <1>4
<1>6. ASSUME NEW lo \in 0..n, NEW hi \in 0..n
      PROVE  /\ lo >= hi => f[<<lo, hi>>] = lo
             /\ lo < hi => \E mid \in lo..(hi - 1) :
                  f[<<lo, hi>>] = IF mid < q THEN f[<<mid + 1, hi>>] ELSE f[<<lo, mid>>]
  <2>0. f[<<lo, hi>>] = IF lo >= hi THEN lo
                        ELSE IF events[((lo + hi) \div 2) + 1].seq < seq THEN f[<<((lo + hi) \div 2) + 1, hi>>]
                        ELSE f[<<lo, (lo + hi) \div 2>>]
    <3>0. <<lo, hi>> \in parts /\ <<lo, hi>>[1] = lo /\ <<lo, hi>>[2] = hi
      <4>1. lo \in 0..Len(events) /\ hi \in 0..Len(events)
        OBVIOUS
      <4> QED
        BY <4>1, Zenon
    <3>1. PICK part \in parts : part = <<lo, hi>> /\ part[1] = lo /\ part[2] = hi
      <4> HIDE DEF parts
      <4> QED
        BY <3>0, Zenon
    <3>2. f[part] = IF part[1] >= part[2] THEN part[1]
                    ELSE IF events[((part[1] + part[2]) \div 2) + 1].seq < seq
                         THEN f[<<((part[1] + part[2]) \div 2) + 1, part[2]>>]
                    ELSE f[<<part[1], (part[1] + part[2]) \div 2>>]
      <4> HIDE DEF parts
      <4> QED
        BY <1>5
    <3> QED
      BY <3>1, <3>2, Zenon
  <2>1. CASE lo >= hi
    <3>1. ~(lo < hi)
      BY <2>1
    <3> QED
      BY <2>0, <2>1, <3>1, Zenon
  <2>2. CASE lo < hi
    <3>1. PICK mid :
            /\ mid = (lo + hi) \div 2
            /\ mid \in lo..(hi - 1) /\ (events[mid + 1].seq < seq <=> mid < q)
      BY <1>3, <2>2
    <3>2. PICK m : m = (lo + hi) \div 2
      OBVIOUS
    <3>3. f[<<lo, hi>>] = IF lo >= hi THEN lo
                          ELSE IF events[m + 1].seq < seq THEN f[<<m + 1, hi>>]
                          ELSE f[<<lo, m>>]
      BY <2>0, <3>2, Zenon
    <3>4. m = mid /\ ~(lo >= hi)
      BY <2>2, <3>1, <3>2
    <3>5. f[<<lo, hi>>] = IF mid < q THEN f[<<mid + 1, hi>>] ELSE f[<<lo, mid>>]
      BY <3>1, <3>3, <3>4, Zenon
    <3>6. mid \in lo..(hi - 1)
      BY <3>1
    <3> QED
      BY <3>4, <3>5, <3>6, Zenon
  <2> QED
    BY <2>1, <2>2
<1> HIDE DEF Search, g
<1> DEFINE Found(d) == \A lo, hi \in 0..n : lo <= q /\ q <= hi /\ hi - lo <= d => f[<<lo, hi>>] = q
           D == {d \in 0..n : Found(d)}
<1>7. 0 \in D
  <2>1. \A lo, hi \in 0..n : lo <= q /\ q <= hi /\ hi - lo <= 0 => lo = q /\ lo >= hi
    BY <1>2
  <2> QED
    BY <1>2, <1>6, <2>1
<1>8. ASSUME NEW d \in 0..(n - 1), d \in D
      PROVE  d + 1 \in D
  <2>1. ASSUME NEW lo \in 0..n, NEW hi \in 0..n, lo <= q, q <= hi, hi - lo <= d + 1
        PROVE  f[<<lo, hi>>] = q
    <3>1. CASE lo >= hi
      BY <1>2, <1>6, <2>1, <3>1
    <3>2. CASE lo < hi
      <4>1. PICK mid \in lo..(hi - 1) :
              f[<<lo, hi>>] = IF mid < q THEN f[<<mid + 1, hi>>] ELSE f[<<lo, mid>>]
        BY <1>6, <3>2
      <4>2. CASE mid < q
        <5>1. mid + 1 \in 0..n /\ mid + 1 <= q /\ hi - (mid + 1) <= d
          BY <1>2, <2>1, <4>2
        <5>2. f[<<mid + 1, hi>>] = q
          BY <1>8, <2>1, <5>1
        <5> QED
          BY <4>1, <4>2, <5>2
      <4>3. CASE ~(mid < q)
        <5>1. mid \in 0..n /\ q <= mid /\ mid - lo <= d
          BY <1>2, <2>1, <4>3
        <5>2. f[<<lo, mid>>] = q
          BY <1>8, <2>1, <5>1
        <5> QED
          BY <4>1, <4>3, <5>2
      <4> QED
        BY <4>2, <4>3
    <3> QED
      BY <1>2, <3>1, <3>2
  <2>2. d + 1 \in 0..n
    BY <1>2
  <2> QED
    BY <2>1, <2>2
<1>9. n \in D
  <2>1. n \in 0..n
    BY <1>2
  <2> HIDE DEF D
  <2> QED
    BY <1>2, <1>7, <1>8, <2>1, CountUp
<1>10. 0 \in 0..n /\ n \in 0..n /\ 0 <= q /\ q <= n /\ n - 0 <= n
  BY <1>2
<1> QED
  BY <1>5, <1>9, <1>10

\* In a sorted list there is such a place.
LEMMA PlaceExists ==
    ASSUME NEW S, NEW events \in Seq(S), NEW n, n = Len(events), NEW seq \in Nat, Sorted(events),
           \A i \in 1..n : events[i].seq \in Nat
    PROVE  \E q \in 0..n : \A i \in 1..n : events[i].seq < seq <=> i <= q
<1>1. n \in Nat
  BY LenProperties
<1> DEFINE T == {p \in 0..n : \A i \in (p + 1)..n : ~(events[i].seq < seq)}
<1>2. T \subseteq Nat /\ n \in T
  BY <1>1
<1>3. PICK q \in T : \A p \in T : q <= p
  <2> HIDE DEF T
  <2> QED
    BY <1>2, LeastNatural
<1>4. q > 0 => events[q].seq < seq
  <2> SUFFICES ASSUME q > 0, ~(events[q].seq < seq) PROVE FALSE
    OBVIOUS
  <2>1. q - 1 \in 0..n /\ ~(q <= q - 1)
    BY <1>1
  <2>2. \A i \in ((q - 1) + 1)..n : i = q \/ i \in (q + 1)..n
    BY <1>1
  <2>3. q - 1 \in T
    BY <2>1, <2>2
  <2> QED
    BY <1>3, <2>1, <2>3
<1>5. ASSUME NEW i \in 1..n
      PROVE  events[i].seq < seq <=> i <= q
  <2>1. q \in 0..n
    OBVIOUS
  <2>2. CASE i > q
    <3>1. i \in (q + 1)..n
      BY <1>1, <2>1, <2>2
    <3> QED
      BY <1>3, <2>1, <2>2, <3>1
  <2>3. CASE i = q
    BY <1>1, <1>4, <2>3
  <2>4. CASE i < q
    <3>1. q \in 1..n /\ q > 0
      BY <1>1, <2>1, <2>4
    <3>2. events[i].seq < events[q].seq /\ events[i].seq \in Nat /\ events[q].seq \in Nat
      BY <2>4, <3>1 DEF Sorted
    <3> QED
      BY <1>4, <2>4, <3>1, <3>2
  <2> QED
    BY <1>1, <2>1, <2>2, <2>3, <2>4
<1> QED
  BY <1>5

\* The events that the store keeps.
EventRow ==
    {e \in [seq : Nat \ {0},
            type : {"other", "agent.thinking", "agent.tool_call", "agent.tool_result"},
            call : Calls \cup {"none"}] :
        e.type \in {"agent.tool_call", "agent.tool_result"} => e.call \in Calls}

\* new is events with ev behind the first q of the n events.
Inserted(new, S, events, n, q, ev) ==
    /\ new \in Seq(S) /\ Len(new) = n + 1
    /\ \A k \in 1..(n + 1) :
         new[k] = IF k <= q THEN events[k] ELSE IF k = q + 1 THEN ev ELSE events[k - 1]

\* What InsertAt does.
LEMMA InsertAtPlace ==
    ASSUME NEW S, NEW events \in Seq(S), NEW q \in 0..Len(events), NEW ev \in S
    PROVE  Inserted(InsertAt(events, q + 1, ev), S, events, Len(events), q, ev)
<1>0. PICK n, new : n = Len(events) /\ new = InsertAt(events, q + 1, ev)
  OBVIOUS
<1>1. n \in Nat /\ q \in 0..n
  BY <1>0, LenProperties
<1> DEFINE a == SubSeq(events, 1, q)
           b == SubSeq(events, q + 1, n)
<1>2. a \in Seq(S) /\ Len(a) = q /\ \A k \in 1..q : a[k] = events[k]
  BY <1>0, <1>1
<1>3. b \in Seq(S) /\ Len(b) = n - q /\ \A k \in 1..(n - q) : b[k] = events[q + k]
  BY <1>0, <1>1
<1>4. new = (a \o <<ev>>) \o b
  <2>1. (q + 1) - 1 = q
    BY <1>1
  <2> QED
    BY <1>0, <2>1, Zenon DEF InsertAt
<1> HIDE DEF a, b
<1>5. PICK c : c = a \o <<ev>>
  OBVIOUS
<1>6. c \in Seq(S) /\ Len(c) = q + 1 /\ (\A k \in 1..q : c[k] = a[k]) /\ c[q + 1] = ev
  BY <1>1, <1>2, <1>5
<1>7. /\ new \in Seq(S) /\ Len(new) = (q + 1) + (n - q)
      /\ (\A k \in 1..(q + 1) : new[k] = c[k])
      /\ (\A k \in 1..(n - q) : new[(q + 1) + k] = b[k])
  <2>1. new = c \o b
    BY <1>4, <1>5
  <2>2. /\ new \in Seq(S) /\ Len(new) = (q + 1) + (n - q)
        /\ \A k \in 1..((q + 1) + (n - q)) : new[k] = IF k <= q + 1 THEN c[k] ELSE b[k - (q + 1)]
    <3>1. c \in Seq(S) /\ b \in Seq(S)
      BY <1>3, <1>6
    <3>2. /\ c \o b \in Seq(S) /\ Len(c \o b) = Len(c) + Len(b)
          /\ \A k \in 1..(Len(c) + Len(b)) : (c \o b)[k] = IF k <= Len(c) THEN c[k] ELSE b[k - Len(c)]
      BY <3>1, ConcatProperties, Zenon
    <3>3. Len(c) = q + 1 /\ Len(b) = n - q
      BY <1>3, <1>6
    <3> QED
      BY <2>1, <3>2, <3>3, Zenon
  <2>3. \A k \in 1..(q + 1) : k \in 1..((q + 1) + (n - q)) /\ k <= q + 1
    BY <1>1
  <2>4. \A k \in 1..(n - q) : /\ (q + 1) + k \in 1..((q + 1) + (n - q))
                             /\ ~((q + 1) + k <= q + 1) /\ ((q + 1) + k) - (q + 1) = k
    BY <1>1
  <2> QED
    BY <2>2, <2>3, <2>4
<1>8. ASSUME NEW k \in 1..(n + 1)
      PROVE  new[k] = IF k <= q THEN events[k] ELSE IF k = q + 1 THEN ev ELSE events[k - 1]
  <2>1. CASE k <= q
    <3>1. k \in 1..q /\ k \in 1..(q + 1)
      BY <1>1, <2>1
    <3> QED
      BY <1>2, <1>6, <1>7, <2>1, <3>1
  <2>2. CASE k = q + 1
    <3>1. k \in 1..(q + 1) /\ ~(k <= q)
      BY <1>1, <2>2
    <3> QED
      BY <1>6, <1>7, <2>2, <3>1
  <2>3. CASE k > q + 1
    <3>1. PICK j : j = k - (q + 1)
      OBVIOUS
    <3>2. j \in 1..(n - q) /\ (q + 1) + j = k /\ q + j = k - 1 /\ ~(k <= q) /\ k # q + 1
      BY <1>1, <2>3, <3>1
    <3> QED
      BY <1>3, <1>7, <3>2
  <2> QED
    BY <1>1, <2>1, <2>2, <2>3
<1>9. (q + 1) + (n - q) = n + 1
  BY <1>1
<1>10. Inserted(new, S, events, n, q, ev)
  BY <1>7, <1>8, <1>9 DEF Inserted
<1> QED
  BY <1>0, <1>10

\* new is events and ev, sorted, unless the number of ev is there already.
SortedWith(new, events, ev) ==
    /\ new \in Seq(EventRow) /\ Sorted(new)
    /\ \A k \in 1..Len(new) : new[k] = ev \/ \E j \in 1..Len(events) : new[k] = events[j]
    /\ \A j \in 1..Len(events) : \E k \in 1..Len(new) : new[k] = events[j]
    /\ \E k \in 1..Len(new) : new[k].seq = ev.seq
    /\ \/ new = events
       \/ new # events /\ \A j \in 1..Len(events) : events[j].seq # ev.seq
    /\ (\A j \in 1..Len(events) : events[j].seq < ev.seq) => new = Append(events, ev)

\* insertSorted keeps the list sorted and adds the event unless its number is there.
LEMMA InsertSorted ==
    ASSUME NEW events \in Seq(EventRow), Sorted(events), NEW ev \in EventRow
    PROVE  SortedWith(insertSorted(events, ev), events, ev)
<1>0. PICK new : new = insertSorted(events, ev)
  OBVIOUS
<1>1. PICK n \in Nat : n = Len(events)
  BY LenProperties
<1>2. \A i \in 1..n : events[i] \in EventRow /\ events[i].seq \in Nat
  BY <1>1 DEF EventRow
<1>3. ev.seq \in Nat
  BY DEF EventRow
<1>4. PICK q \in 0..n : \A i \in 1..n : events[i].seq < ev.seq <=> i <= q
  BY <1>1, <1>2, <1>3, PlaceExists
<1>5. Position(events, ev.seq) = q
  BY <1>1, <1>4, PositionCorrect
<1>6. CASE q < n /\ events[q + 1].seq = ev.seq
  <2>1. new = events
    BY <1>0, <1>1, <1>5, <1>6 DEF insertSorted
  <2>2. q + 1 \in 1..n /\ ~(ev.seq < ev.seq)
    BY <1>3, <1>6
  <2>3. /\ \A k \in 1..Len(new) : \E j \in 1..Len(events) : new[k] = events[j]
        /\ \A j \in 1..Len(events) : \E k \in 1..Len(new) : new[k] = events[j]
    BY <2>1
  <2>4. q + 1 \in 1..Len(new) /\ new[q + 1].seq = ev.seq
    BY <1>1, <1>6, <2>1, <2>2
  <2>5. ~(\A j \in 1..Len(events) : events[j].seq < ev.seq)
    BY <1>1, <1>6, <2>2
  <2> QED
    BY <1>0, <2>1, <2>3, <2>4, <2>5 DEF SortedWith
<1>7. CASE ~(q < n /\ events[q + 1].seq = ev.seq)
  <2>1. new = InsertAt(events, q + 1, ev)
    BY <1>0, <1>1, <1>5, <1>7 DEF insertSorted
  <2>2. /\ new \in Seq(EventRow) /\ Len(new) = n + 1
        /\ \A k \in 1..(n + 1) :
             new[k] = IF k <= q THEN events[k] ELSE IF k = q + 1 THEN ev ELSE events[k - 1]
    <3>1. Inserted(new, EventRow, events, n, q, ev)
      BY <1>1, <2>1, InsertAtPlace
    <3> QED
      BY <3>1 DEF Inserted
  <2>3. \A i \in 1..n : i > q => events[i].seq > ev.seq
    <3>1. ASSUME NEW i \in 1..n, i > q
          PROVE  events[i].seq > ev.seq
      <4>1. q + 1 \in 1..n /\ q < n /\ ~(q + 1 <= q) /\ events[q + 1].seq \in Nat
        BY <1>2, <3>1
      <4>2. events[q + 1].seq > ev.seq
        BY <1>3, <1>4, <1>7, <4>1
      <4>3. i = q + 1 \/ events[q + 1].seq < events[i].seq
        BY <1>1, <3>1, <4>1 DEF Sorted
      <4> QED
        BY <1>2, <1>3, <4>1, <4>2, <4>3
    <3> QED
      BY <3>1
  <2>4. ASSUME NEW i \in 1..(n + 1), NEW j \in 1..(n + 1), i < j
        PROVE  new[i].seq < new[j].seq
    <3>1. CASE i <= q /\ j <= q
      BY <1>1, <2>2, <2>4, <3>1 DEF Sorted
    <3>2. CASE i <= q /\ j = q + 1
      BY <1>4, <2>2, <3>2
    <3>3. CASE i <= q /\ j > q + 1
      <4>1. i \in 1..n /\ j - 1 \in 1..n /\ i < j - 1 /\ ~(j <= q) /\ j # q + 1
        BY <3>3
      <4> QED
        BY <1>1, <2>2, <3>3, <4>1 DEF Sorted
    <3>4. CASE i = q + 1
      <4>1. j - 1 \in 1..n /\ j - 1 > q /\ ~(j <= q) /\ j # q + 1 /\ ~(i <= q)
        BY <2>4, <3>4
      <4>2. new[i] = ev /\ new[j] = events[j - 1]
        BY <2>2, <3>4, <4>1
      <4> QED
        BY <1>2, <1>3, <2>3, <4>1, <4>2
    <3>5. CASE i > q + 1
      <4>1. /\ j - 1 \in 1..n /\ i - 1 \in 1..n /\ i - 1 < j - 1
            /\ ~(j <= q) /\ j # q + 1 /\ ~(i <= q) /\ i # q + 1
        BY <2>4, <3>5
      <4>2. new[i] = events[i - 1] /\ new[j] = events[j - 1]
        BY <2>2, <4>1
      <4> QED
        BY <1>1, <4>1, <4>2 DEF Sorted
    <3> QED
      BY <2>4, <3>1, <3>2, <3>3, <3>4, <3>5
  <2>5. Sorted(new)
    BY <2>2, <2>4 DEF Sorted
  <2>6. ASSUME NEW k \in 1..(n + 1)
        PROVE  new[k] = ev \/ \E j \in 1..n : new[k] = events[j]
    <3>1. CASE k <= q
      BY <2>2, <3>1
    <3>2. CASE k > q + 1
      <4>1. k - 1 \in 1..n /\ ~(k <= q) /\ k # q + 1
        BY <3>2
      <4> QED
        BY <2>2, <4>1
    <3>3. CASE k = q + 1
      BY <2>2, <3>3
    <3> QED
      BY <3>1, <3>2, <3>3
  <2>7. ASSUME NEW j \in 1..n
        PROVE  \E k \in 1..(n + 1) : new[k] = events[j]
    <3>1. CASE j <= q
      <4>1. j \in 1..(n + 1)
        OBVIOUS
      <4> QED
        BY <2>2, <3>1, <4>1
    <3>2. CASE j > q
      <4>1. j + 1 \in 1..(n + 1) /\ ~(j + 1 <= q) /\ j + 1 # q + 1 /\ (j + 1) - 1 = j
        BY <3>2
      <4>2. new[j + 1] = events[j]
        BY <2>2, <4>1
      <4> QED
        BY <4>1, <4>2
    <3> QED
      BY <3>1, <3>2
  <2>8. q + 1 \in 1..(n + 1) /\ new[q + 1].seq = ev.seq
    <3>1. q + 1 \in 1..(n + 1) /\ ~(q + 1 <= q)
      OBVIOUS
    <3> QED
      BY <2>2, <3>1
  <2>9. new # events
    BY <1>1, <2>2
  <2>10. \A j \in 1..n : events[j].seq # ev.seq
    <3>1. ASSUME NEW j \in 1..n
          PROVE  events[j].seq # ev.seq
      <4>1. j <= q \/ j > q
        OBVIOUS
      <4>2. events[j].seq < ev.seq \/ events[j].seq > ev.seq
        BY <1>4, <2>3, <4>1
      <4> QED
        BY <1>2, <1>3, <4>2
    <3> QED
      BY <3>1
  <2>11. ASSUME \A j \in 1..n : events[j].seq < ev.seq
         PROVE  new = Append(events, ev)
    <3>1. q = n
      <4>1. n > 0 => n <= q
        BY <1>4, <2>11
      <4> QED
        BY <4>1
    <3>2. \A k \in 1..(n + 1) : new[k] = Append(events, ev)[k]
      BY <1>1, <2>2, <3>1
    <3>3. Append(events, ev) \in Seq(EventRow) /\ Len(Append(events, ev)) = n + 1
      BY <1>1
    <3> QED
      BY <2>2, <3>2, <3>3, SeqEqual
  <2>12. /\ new \in Seq(EventRow) /\ Len(new) = n + 1 /\ Len(events) = n
         /\ \E k \in 1..(n + 1) : new[k].seq = ev.seq
    BY <1>1, <2>2, <2>8
  <2>13. SortedWith(new, events, ev)
    BY <2>5, <2>6, <2>7, <2>9, <2>10, <2>11, <2>12, Zenon DEF SortedWith
  <2> QED
    BY <1>0, <2>13
<1> QED
  BY <1>6, <1>7

(***************************************************************************)
(* What is derived from the events: a fold over them.                      *)
(***************************************************************************)

\* What the pages derive keeps its type.
LEMMA DerivedType ==
    ASSUME NEW d \in Derived, NEW ev \in EventRow
    PROVE  applyDerived(d, ev) \in Derived
<1>1. ev.seq \in Nat /\ d.pending \in [Calls -> Nat] /\ d.toolPairs \in SUBSET (Nat \X Nat)
  BY DEF EventRow, Derived
<1>2. CASE ev.type = "agent.thinking"
  BY <1>1, <1>2 DEF applyDerived, Derived
<1>3. CASE ev.type = "agent.tool_call"
  <2>1. ev.call \in Calls
    BY <1>3 DEF EventRow
  <2>2. PICK p \in SUBSET (Nat \X Nat) : p = d.toolPairs \cup {<<ev.seq, 0>>}
    <3>1. PICK pair \in Nat \X Nat : pair = <<ev.seq, 0>>
      BY <1>1
    <3> QED
      BY <1>1, <3>1, Zenon
  <2>3. PICK w \in [Calls -> Nat] : w = [d.pending EXCEPT ![ev.call] = ev.seq]
    BY <1>1
  <2>4. applyDerived(d, ev) = [d EXCEPT !.toolPairs = p, !.pending = w]
    BY <1>3, <2>2, <2>3 DEF applyDerived
  <2> QED
    BY <2>4 DEF Derived
<1>4. CASE ev.type = "agent.tool_result" /\ d.pending[ev.call] # 0
  <2>1. ev.call \in Calls
    BY <1>4 DEF EventRow
  <2>2. PICK id \in Nat : id = d.pending[ev.call]
    BY <1>1, <2>1
  <2>3. PICK p \in SUBSET (Nat \X Nat) : p = (d.toolPairs \ {<<id, 0>>}) \cup {<<id, ev.seq>>}
    <3>1. PICK pair \in Nat \X Nat : pair = <<id, ev.seq>>
      BY <1>1
    <3> QED
      BY <1>1, <3>1, Zenon
  <2>4. PICK w \in [Calls -> Nat] : w = [d.pending EXCEPT ![ev.call] = 0]
    BY <1>1
  <2>5. applyDerived(d, ev) = [d EXCEPT !.toolPairs = p, !.pending = w]
    BY <1>4, <2>2, <2>3, <2>4 DEF applyDerived
  <2> QED
    BY <2>5 DEF Derived
<1>5. CASE /\ ev.type # "agent.thinking" /\ ev.type # "agent.tool_call"
           /\ ~(ev.type = "agent.tool_result" /\ d.pending[ev.call] # 0)
  BY <1>5 DEF applyDerived
<1> QED
  BY <1>2, <1>3, <1>4, <1>5

\* Nothing is derived from no events.
LEMMA EmptyDerivedType == emptyDerived \in Derived
BY DEF emptyDerived, Derived

\* rebuildDerived goes through the events in their order.
LEMMA DerivedRuns ==
    ASSUME NEW m \in Seq(EventRow), NEW n, n = Len(m), NEW F,
           F = [p \in Derived \X (1..n) |-> applyDerived(p[1], m[p[2]])]
    PROVE  /\ F \in [Derived \X (1..n) -> Derived]
           /\ \E h : IsRun(h, Derived, F, emptyDerived, n) /\ h[n] = rebuildDerived(m)
<1> DEFINE Iter(iter) ==
             iter = [s \in SUBSET (DOMAIN m) |->
                       IF s = {} THEN emptyDerived
                       ELSE applyDerived(iter[s \ {Max(s)}], m[Max(s)])]
<1>1. /\ n \in Nat /\ emptyDerived \in Derived /\ DOMAIN m = 1..n
      /\ \A k \in 1..n : m[k] \in EventRow
  BY EmptyDerivedType
<1>2. \A t \in Derived, k \in 1..n : applyDerived(t, m[k]) \in Derived
  BY <1>1, DerivedType
<1>3. rebuildDerived(m) = (CHOOSE iter : Iter(iter))[DOMAIN m]
  BY DEF rebuildDerived, FoldLeft, MapThenFoldSet
<1>4. /\ F \in [Derived \X (1..n) -> Derived]
      /\ \A t \in Derived, k \in 1..n : F[<<t, k>>] = applyDerived(t, m[k])
  BY <1>2
<1>5. \A s \in SUBSET (1..n) : s # {} => Max(s) \in 1..n
  BY <1>1, MaxInSet
<1>6. PICK g : IsFold(g, Derived, F, emptyDerived, n)
  BY <1>1, <1>4, FoldExists
<1>7. Iter(g)
  <2>1. ASSUME NEW s \in SUBSET (1..n), s # {}
        PROVE  g[s] = applyDerived(g[s \ {Max(s)}], m[Max(s)])
    <3>1. g[s \ {Max(s)}] \in Derived
      BY <1>6 DEF IsFold
    <3> QED
      BY <1>4, <1>5, <1>6, <2>1, <3>1 DEF IsFold
  <2>2. g[{}] = emptyDerived
    BY <1>6 DEF IsFold
  <2>3. g = [s \in SUBSET (1..n) |-> g[s]]
    BY <1>6 DEF IsFold
  <2> QED
    BY <1>1, <2>1, <2>2, <2>3
<1>8. PICK iter : Iter(iter) /\ rebuildDerived(m) = iter[1..n]
  <2> HIDE DEF Iter
  <2> QED
    BY <1>1, <1>3, <1>7
<1>9. iter[{}] = emptyDerived
  BY <1>8
<1>10. ASSUME NEW s \in SUBSET (1..n), s # {}, iter[s \ {Max(s)}] \in Derived
       PROVE  iter[s] = F[<<iter[s \ {Max(s)}], Max(s)>>]
  <2>1. iter[s] = applyDerived(iter[s \ {Max(s)}], m[Max(s)])
    BY <1>1, <1>8, <1>10
  <2> QED
    BY <1>4, <1>5, <1>10, <2>1
<1>11. FoldsIn(iter, Derived, F, emptyDerived, n)
  BY <1>1, <1>4, <1>9, <1>10 DEF FoldsIn
<1>12. \E h : IsRun(h, Derived, F, emptyDerived, n) /\ h[n] = iter[1..n]
  BY <1>11, FoldRuns
<1> QED
  BY <1>4, <1>8, <1>12

\* An event at the end is the last one that is applied.
LEMMA DerivedOneMore ==
    ASSUME NEW m \in Seq(EventRow), NEW x \in EventRow
    PROVE  /\ rebuildDerived(m) \in Derived
           /\ rebuildDerived(Append(m, x)) = applyDerived(rebuildDerived(m), x)
<1> DEFINE n == Len(m)
           all == Append(m, x)
           F == [p \in Derived \X (1..n) |-> applyDerived(p[1], m[p[2]])]
           G == [p \in Derived \X (1..(n + 1)) |-> applyDerived(p[1], all[p[2]])]
<1>1. /\ n \in Nat /\ all \in Seq(EventRow) /\ Len(all) = n + 1 /\ all[n + 1] = x
      /\ \A k \in 1..n : all[k] = m[k]
  OBVIOUS
<1>2. PICK h : IsRun(h, Derived, F, emptyDerived, n) /\ h[n] = rebuildDerived(m)
  BY DerivedRuns
<1>3. PICK g : IsRun(g, Derived, G, emptyDerived, n + 1) /\ g[n + 1] = rebuildDerived(all)
  <2> HIDE DEF all, n
  <2> QED
    BY <1>1, DerivedRuns
<1>4. \A t \in Derived, k \in 1..n : F[<<t, k>>] = applyDerived(t, m[k])
  OBVIOUS
<1>5. \A t \in Derived, k \in 1..(n + 1) : G[<<t, k>>] = applyDerived(t, all[k])
  OBVIOUS
<1> HIDE DEF F, G, all, n
<1>6. \A k \in 1..n : k \in 1..(n + 1) /\ k - 1 \in 0..n /\ k - 1 \in 0..(n + 1)
  BY <1>1
<1>7. \A k \in 1..n : g[k] = F[<<g[k - 1], k>>] /\ h[k] = F[<<h[k - 1], k>>]
  <2> SUFFICES ASSUME NEW k \in 1..n
               PROVE  g[k] = F[<<g[k - 1], k>>] /\ h[k] = F[<<h[k - 1], k>>]
    OBVIOUS
  <2>1. g[k - 1] \in Derived /\ h[k - 1] \in Derived
    BY <1>2, <1>3, <1>6 DEF IsRun
  <2>2. g[k] = G[<<g[k - 1], k>>] /\ h[k] = F[<<h[k - 1], k>>]
    BY <1>2, <1>3, <1>6 DEF IsRun
  <2>3. G[<<g[k - 1], k>>] = applyDerived(g[k - 1], m[k])
    BY <1>1, <1>5, <1>6, <2>1
  <2>4. F[<<g[k - 1], k>>] = applyDerived(g[k - 1], m[k])
    BY <1>4, <2>1
  <2> QED
    BY <2>2, <2>3, <2>4
<1>8. g[n] = h[n]
  <2>1. g[0] = h[0]
    BY <1>2, <1>3 DEF IsRun
  <2>2. n \in Nat
    BY <1>1
  <2>3. RunAlike(g, h, F, n)
    BY <1>7, <2>1 DEF RunAlike
  <2> QED
    BY <2>2, <2>3, SameRuns
<1>9. n + 1 \in 1..(n + 1) /\ (n + 1) - 1 = n /\ n \in 0..(n + 1) /\ n \in 0..n
  BY <1>1
<1>10. g[n + 1] = applyDerived(g[n], x) /\ h[n] \in Derived
  BY <1>1, <1>2, <1>3, <1>5, <1>9 DEF IsRun
<1> QED
  BY <1>2, <1>3, <1>8, <1>10 DEF all

\* The first event of a list.
LEMMA DerivedOfNothing == rebuildDerived(<<>>) = emptyDerived
<1>1. <<>> \in Seq(EventRow) /\ Len(<<>>) = 0
  BY EmptySeq
<1>2. PICK h, F : IsRun(h, Derived, F, emptyDerived, 0) /\ h[0] = rebuildDerived(<<>>)
  BY <1>1, DerivedRuns
<1> QED
  BY <1>2 DEF IsRun

(***************************************************************************)
(* appendMany stores the incoming events.                                  *)
(***************************************************************************)

\* A task's entry in the store.
Task == [events : Seq(EventRow), lastSeq : Nat, derived : Derived]

\* Its events are rows, sorted, and lastSeq is the number of the last one.
Orderly(t, rows) ==
    /\ t \in Task /\ Sorted(t.events)
    /\ \A i \in 1..Len(t.events) : t.events[i] \in rows /\ t.events[i].seq <= t.lastSeq
    /\ t.lastSeq = 0 \/ \E i \in 1..Len(t.events) : t.events[i].seq = t.lastSeq

\* What appendMany has when it has stored some of the incoming events.
Partial(rows) ==
    {acc \in [task : Task, needsRebuild : BOOLEAN] :
        /\ Orderly(acc.task, rows)
        /\ ~acc.needsRebuild => acc.task.derived = rebuildDerived(acc.task.events)}

\* u shows what t shows, and event ev.
Gains(t, u, ev) ==
    /\ \A i \in 1..Len(t.events) : \E k \in 1..Len(u.events) : u.events[k] = t.events[i]
    /\ \E k \in 1..Len(u.events) : u.events[k].seq = ev.seq
    /\ \A k \in 1..Len(u.events) :
         u.events[k] = ev \/ \E i \in 1..Len(t.events) : u.events[k] = t.events[i]

\* One event is stored.
LEMMA AppendOneGood ==
    ASSUME NEW rows, rows \subseteq EventRow, NEW acc \in Partial(rows), NEW ev \in rows
    PROVE  /\ AppendOne(acc, ev) \in Partial(rows)
           /\ Gains(acc.task, AppendOne(acc, ev).task, ev)
<1> DEFINE t == acc.task
<1>1. /\ acc \in [task : Task, needsRebuild : BOOLEAN] /\ Orderly(t, rows) /\ t \in Task
      /\ ~acc.needsRebuild => t.derived = rebuildDerived(t.events)
  BY DEF Partial, Orderly
<1>2. /\ t.events \in Seq(EventRow) /\ Sorted(t.events) /\ t.lastSeq \in Nat /\ t.derived \in Derived
      /\ ev \in EventRow /\ ev.seq \in Nat /\ ev.seq # 0
  BY <1>1 DEF Task, Orderly, EventRow
<1>3. PICK events : events = insertSorted(t.events, ev)
  OBVIOUS
<1>4. /\ events \in Seq(EventRow) /\ Sorted(events)
      /\ \A k \in 1..Len(events) : events[k] = ev \/ \E j \in 1..Len(t.events) : events[k] = t.events[j]
      /\ \A j \in 1..Len(t.events) : \E k \in 1..Len(events) : events[k] = t.events[j]
      /\ \E k \in 1..Len(events) : events[k].seq = ev.seq
      /\ \/ events = t.events
         \/ events # t.events /\ \A j \in 1..Len(t.events) : t.events[j].seq # ev.seq
      /\ (\A j \in 1..Len(t.events) : t.events[j].seq < ev.seq) => events = Append(t.events, ev)
  <2>1. SortedWith(events, t.events, ev)
    BY <1>2, <1>3, InsertSorted
  <2> QED
    BY <2>1 DEF SortedWith
<1>5. CASE events = t.events
  <2>1. AppendOne(acc, ev) = acc
    BY <1>3, <1>5 DEF AppendOne
  <2>2. Gains(acc.task, acc.task, ev)
    BY <1>4, <1>5 DEF Gains
  <2> QED
    BY <2>1, <2>2
<1>6. CASE events # t.events
  <2>1. PICK last : last = IF ev.seq > t.lastSeq THEN ev.seq ELSE t.lastSeq
    OBVIOUS
  <2>2. PICK derived : derived = IF ev.seq < t.lastSeq THEN t.derived ELSE applyDerived(t.derived, ev)
    OBVIOUS
  <2>3. PICK u : u = [events |-> events, lastSeq |-> last, derived |-> derived]
    OBVIOUS
  <2>4. PICK again : again = (acc.needsRebuild \/ ev.seq < t.lastSeq)
    OBVIOUS
  <2>5. AppendOne(acc, ev) = [task |-> u, needsRebuild |-> again]
    BY <1>3, <1>6, <2>1, <2>2, <2>3, <2>4, Zenon DEF AppendOne
  <2>6. last \in Nat /\ last >= ev.seq /\ last >= t.lastSeq /\ (last = ev.seq \/ last = t.lastSeq)
    BY <1>2, <2>1
  <2>7. derived \in Derived
    BY <1>2, <2>2, DerivedType
  <2>8. /\ u \in Task /\ u.events = events /\ u.lastSeq = last /\ u.derived = derived
    BY <1>4, <2>3, <2>6, <2>7 DEF Task
  <2>9. Gains(t, u, ev)
    BY <1>4, <2>8 DEF Gains
  <2>10. ASSUME NEW k \in 1..Len(events)
         PROVE  events[k] \in rows /\ events[k].seq <= last
    <3>1. CASE events[k] = ev
      BY <1>2, <2>6, <3>1
    <3>2. ASSUME NEW j \in 1..Len(t.events), events[k] = t.events[j]
          PROVE  events[k] \in rows /\ events[k].seq <= last
      <4>1. t.events[j] \in rows /\ t.events[j].seq <= t.lastSeq /\ t.events[j].seq \in Nat
        BY <1>1 DEF Orderly, EventRow
      <4> QED
        BY <1>2, <2>6, <3>2, <4>1
    <3> QED
      BY <1>4, <3>1, <3>2
  <2>11. last = 0 \/ \E k \in 1..Len(events) : events[k].seq = last
    <3>1. CASE last = ev.seq
      BY <1>4, <3>1
    <3>2. CASE last = t.lastSeq /\ last # 0
      <4>1. PICK i \in 1..Len(t.events) : t.events[i].seq = last
        BY <1>1, <3>2 DEF Orderly
      <4>2. PICK k \in 1..Len(events) : events[k] = t.events[i]
        BY <1>4
      <4> QED
        BY <4>1, <4>2
    <3> QED
      BY <2>6, <3>1, <3>2
  <2>12. Orderly(u, rows)
    BY <1>4, <2>8, <2>10, <2>11 DEF Orderly
  <2>13. ASSUME ~again
         PROVE  derived = rebuildDerived(events)
    <3>1. ~acc.needsRebuild /\ ~(ev.seq < t.lastSeq)
      BY <2>4, <2>13
    <3>2. \A j \in 1..Len(t.events) : t.events[j].seq < ev.seq
      <4>1. ASSUME NEW j \in 1..Len(t.events)
            PROVE  t.events[j].seq < ev.seq
        <5>1. t.events[j].seq <= t.lastSeq /\ t.events[j].seq # ev.seq /\ t.events[j].seq \in Nat
          BY <1>1, <1>2, <1>4, <1>6 DEF Orderly, EventRow
        <5> QED
          BY <1>2, <3>1, <5>1
      <4> QED
        BY <4>1
    <3>3. events = Append(t.events, ev)
      BY <1>4, <3>2
    <3>4. derived = applyDerived(rebuildDerived(t.events), ev)
      BY <1>1, <2>2, <3>1
    <3> QED
      BY <1>2, <3>3, <3>4, DerivedOneMore
  <2>14. again \in BOOLEAN
    BY <2>4
  <2>15. PICK v : v = [task |-> u, needsRebuild |-> again]
    OBVIOUS
  <2>16. v \in [task : Task, needsRebuild : BOOLEAN] /\ v.task = u /\ v.needsRebuild = again
    BY <2>8, <2>14, <2>15
  <2>17. v \in Partial(rows)
    BY <2>8, <2>12, <2>13, <2>16 DEF Partial
  <2> QED
    BY <2>5, <2>9, <2>15, <2>16, <2>17
<1> QED
  BY <1>5, <1>6

\* What appendMany has after each of the incoming events.
Appends(h, rows, base, m) ==
    /\ h \in [0..Len(m) -> Partial(rows)]
    /\ h[0] = base /\ h[Len(m)] = FoldLeft(AppendOne, base, m)
    /\ \A k \in 1..Len(m) : h[k] = AppendOne(h[k - 1], m[k])

\* appendMany goes through the incoming events in their order.
LEMMA AppendRuns ==
    ASSUME NEW rows, rows \subseteq EventRow, NEW m \in Seq(rows), NEW base \in Partial(rows)
    PROVE  \E h : Appends(h, rows, base, m)
<1>0. PICK n : n = Len(m)
  OBVIOUS
<1> DEFINE T == Partial(rows)
           F == [p \in T \X (1..n) |-> AppendOne(p[1], m[p[2]])]
           Iter(iter) ==
             iter = [s \in SUBSET (DOMAIN m) |->
                       IF s = {} THEN base ELSE AppendOne(iter[s \ {Max(s)}], m[Max(s)])]
<1>1. n \in Nat /\ base \in T /\ DOMAIN m = 1..n /\ \A k \in 1..n : m[k] \in rows
  BY <1>0
<1>2. \A t \in T, k \in 1..n : AppendOne(t, m[k]) \in T
  BY <1>1, AppendOneGood
<1>3. FoldLeft(AppendOne, base, m) = (CHOOSE iter : Iter(iter))[DOMAIN m]
  BY DEF FoldLeft, MapThenFoldSet
<1> HIDE DEF T
<1>4. F \in [T \X (1..n) -> T] /\ \A t \in T, k \in 1..n : F[<<t, k>>] = AppendOne(t, m[k])
  BY <1>2
<1>5. \A s \in SUBSET (1..n) : s # {} => Max(s) \in 1..n
  BY <1>1, MaxInSet
<1> HIDE DEF F
<1>6. PICK g : IsFold(g, T, F, base, n)
  BY <1>1, <1>4, FoldExists
<1>7. Iter(g)
  <2>1. ASSUME NEW s \in SUBSET (1..n), s # {}
        PROVE  g[s] = AppendOne(g[s \ {Max(s)}], m[Max(s)])
    <3>1. g[s \ {Max(s)}] \in T
      BY <1>6 DEF IsFold
    <3> QED
      BY <1>4, <1>5, <1>6, <2>1, <3>1 DEF IsFold
  <2>2. g[{}] = base
    BY <1>6 DEF IsFold
  <2>3. g = [s \in SUBSET (1..n) |-> g[s]]
    BY <1>6 DEF IsFold
  <2> QED
    BY <1>1, <2>1, <2>2, <2>3
<1>8. PICK iter : Iter(iter) /\ FoldLeft(AppendOne, base, m) = iter[1..n]
  <2> HIDE DEF Iter
  <2> QED
    BY <1>1, <1>3, <1>7
<1>9. iter[{}] = base
  BY <1>8
<1>10. ASSUME NEW s \in SUBSET (1..n), s # {}, iter[s \ {Max(s)}] \in T
       PROVE  iter[s] = F[<<iter[s \ {Max(s)}], Max(s)>>]
  <2>1. iter[s] = AppendOne(iter[s \ {Max(s)}], m[Max(s)])
    BY <1>1, <1>8, <1>10
  <2> QED
    BY <1>4, <1>5, <1>10, <2>1
<1>11. FoldsIn(iter, T, F, base, n)
  BY <1>1, <1>4, <1>9, <1>10 DEF FoldsIn
<1>12. PICK h : IsRun(h, T, F, base, n) /\ h[n] = iter[1..n]
  BY <1>11, FoldRuns
<1>13. h \in [0..n -> T] /\ h[0] = base
  BY <1>12 DEF IsRun
<1>14. ASSUME NEW k \in 1..n
       PROVE  h[k] = AppendOne(h[k - 1], m[k])
  <2>1. k - 1 \in 0..n
    BY <1>1
  <2>2. h[k - 1] \in T /\ h[k] = F[<<h[k - 1], k>>]
    BY <1>12, <1>13, <2>1 DEF IsRun
  <2> QED
    BY <1>4, <2>2
<1>15. h[n] = FoldLeft(AppendOne, base, m)
  BY <1>8, <1>12
<1> QED
  BY <1>0, <1>13, <1>14, <1>15 DEF T, Appends

\* t is stored with the events of m.
StoredWith(u, t, rows, m) ==
    /\ Orderly(u, rows) /\ u.derived = rebuildDerived(u.events)
    /\ \A i \in 1..Len(t.events) : \E k \in 1..Len(u.events) : u.events[k] = t.events[i]
    /\ \A j \in 1..Len(m) : \E k \in 1..Len(u.events) : u.events[k].seq = m[j].seq
    /\ \A k \in 1..Len(u.events) : \/ \E j \in 1..Len(m) : u.events[k] = m[j]
                                   \/ \E i \in 1..Len(t.events) : u.events[k] = t.events[i]

\* appendMany stores the incoming events, and what is derived is what they stand for.
LEMMA AppendManyGood ==
    ASSUME NEW rows, rows \subseteq EventRow, NEW m \in Seq(rows), NEW t, Orderly(t, rows),
           t.derived = rebuildDerived(t.events)
    PROVE  StoredWith(appendMany(t, m), t, rows, m)
<1> DEFINE base == [task |-> t, needsRebuild |-> FALSE]
<1>1. base \in Partial(rows) /\ base.task = t
  BY DEF Partial, Orderly
<1>2. PICK n \in Nat : n = Len(m)
  BY LenProperties
<1>3. PICK acc : acc = FoldLeft(AppendOne, base, m)
  OBVIOUS
<1>4. PICK h \in [0..n -> Partial(rows)] :
        h[0] = base /\ h[n] = acc /\ \A k \in 1..n : h[k] = AppendOne(h[k - 1], m[k])
  <2> HIDE DEF base
  <2> QED
    <3>1. \E h : Appends(h, rows, base, m)
      BY <1>1, AppendRuns
    <3> QED
      BY <1>2, <1>3, <3>1 DEF Appends
<1> HIDE DEF base
<1> DEFINE Has(k) ==
             /\ \A i \in 1..Len(t.events) :
                  \E e \in 1..Len(h[k].task.events) : h[k].task.events[e] = t.events[i]
             /\ \A j \in 1..k :
                  \E e \in 1..Len(h[k].task.events) : h[k].task.events[e].seq = m[j].seq
             /\ \A e \in 1..Len(h[k].task.events) :
                  \/ \E j \in 1..n : h[k].task.events[e] = m[j]
                  \/ \E i \in 1..Len(t.events) : h[k].task.events[e] = t.events[i]
           S == {k \in 0..n : Has(k)}
<1>5. 0 \in S
  <2>1. h[0].task = t /\ 1..0 = {} /\ 0 \in 0..n
    BY <1>1, <1>4
  <2> QED
    BY <2>1
<1>6. ASSUME NEW k \in 0..(n - 1), k \in S
      PROVE  k + 1 \in S
  <2>1. k + 1 \in 1..n /\ (k + 1) - 1 = k /\ k + 1 \in 0..n /\ k \in 0..n
    OBVIOUS
  <2>2. h[k + 1] = AppendOne(h[k], m[k + 1]) /\ h[k] \in Partial(rows) /\ m[k + 1] \in rows
    BY <1>2, <1>4, <2>1
  <2>3. Gains(h[k].task, h[k + 1].task, m[k + 1])
    BY <2>2, AppendOneGood
  <2>4. PICK a, b : a = h[k].task.events /\ b = h[k + 1].task.events
    OBVIOUS
  <2>5. /\ \A i \in 1..Len(a) : \E e \in 1..Len(b) : b[e] = a[i]
        /\ \E e \in 1..Len(b) : b[e].seq = m[k + 1].seq
        /\ \A e \in 1..Len(b) : b[e] = m[k + 1] \/ \E i \in 1..Len(a) : b[e] = a[i]
    BY <2>3, <2>4 DEF Gains
  <2>6. /\ \A i \in 1..Len(t.events) : \E e \in 1..Len(a) : a[e] = t.events[i]
        /\ \A j \in 1..k : \E e \in 1..Len(a) : a[e].seq = m[j].seq
        /\ \A e \in 1..Len(a) : \/ \E j \in 1..n : a[e] = m[j]
                                \/ \E i \in 1..Len(t.events) : a[e] = t.events[i]
    BY <1>6, <2>4
  <2>7. /\ \A i \in 1..Len(t.events) : \E e \in 1..Len(b) : b[e] = t.events[i]
        /\ \A e \in 1..Len(b) : \/ \E j \in 1..n : b[e] = m[j]
                                \/ \E i \in 1..Len(t.events) : b[e] = t.events[i]
    <3>1. ASSUME NEW i \in 1..Len(t.events)
          PROVE  \E e \in 1..Len(b) : b[e] = t.events[i]
      <4>1. PICK d \in 1..Len(a) : a[d] = t.events[i]
        BY <2>6
      <4> QED
        BY <2>5, <4>1
    <3>2. ASSUME NEW e \in 1..Len(b)
          PROVE  \/ \E j \in 1..n : b[e] = m[j]
                 \/ \E i \in 1..Len(t.events) : b[e] = t.events[i]
      <4>1. CASE b[e] = m[k + 1]
        BY <2>1, <4>1
      <4>2. ASSUME NEW d \in 1..Len(a), b[e] = a[d]
            PROVE  \/ \E j \in 1..n : b[e] = m[j]
                   \/ \E i \in 1..Len(t.events) : b[e] = t.events[i]
        BY <2>6, <4>2
      <4> QED
        BY <2>5, <4>1, <4>2
    <3> QED
      BY <3>1, <3>2
  <2>8. \A j \in 1..(k + 1) : \E e \in 1..Len(b) : b[e].seq = m[j].seq
    <3>1. \A j \in 1..(k + 1) : j \in 1..k \/ j = k + 1
      OBVIOUS
    <3>2. ASSUME NEW j \in 1..k
          PROVE  \E e \in 1..Len(b) : b[e].seq = m[j].seq
      <4>1. PICK d \in 1..Len(a) : a[d].seq = m[j].seq
        BY <2>6
      <4>2. PICK e \in 1..Len(b) : b[e] = a[d]
        BY <2>5
      <4>3. b[e].seq = m[j].seq
        BY <4>1, <4>2
      <4> QED
        BY <4>3
    <3> QED
      BY <2>5, <3>1, <3>2
  <2> QED
    BY <2>1, <2>4, <2>7, <2>8
<1>7. n \in S
  <2>1. n \in 0..n
    OBVIOUS
  <2> HIDE DEF S
  <2> QED
    BY <1>5, <1>6, <2>1, CountUp
<1>8. acc \in Partial(rows)
  BY <1>4
<1>9. PICK u : u = appendMany(t, m)
  OBVIOUS
<1>10. u = IF acc.needsRebuild THEN [acc.task EXCEPT !.derived = rebuildDerived(acc.task.events)]
           ELSE acc.task
  BY <1>3, <1>9 DEF appendMany, base
<1>11. /\ acc.task \in Task /\ Orderly(acc.task, rows)
       /\ ~acc.needsRebuild => acc.task.derived = rebuildDerived(acc.task.events)
  BY <1>8 DEF Partial
<1>12. Orderly(u, rows) /\ u.derived = rebuildDerived(u.events) /\ u.events = acc.task.events
  <2>1. CASE ~acc.needsRebuild
    BY <1>10, <1>11, <2>1
  <2>2. CASE acc.needsRebuild
    <3>1. PICK d : d = rebuildDerived(acc.task.events)
      OBVIOUS
    <3>2. d \in Derived
      <4>1. acc.task.events \in Seq(EventRow)
        BY <1>11 DEF Task
      <4>2. \E x : x \in EventRow
        <5>1. [seq |-> 1, type |-> "other", call |-> "none"] \in EventRow
          BY DEF EventRow
        <5> QED
          BY <5>1
      <4> QED
        BY <3>1, <4>1, <4>2, DerivedOneMore
    <3>3. u = [acc.task EXCEPT !.derived = d]
      BY <1>10, <2>2, <3>1
    <3>4. u \in Task /\ u.events = acc.task.events /\ u.lastSeq = acc.task.lastSeq /\ u.derived = d
      BY <1>11, <3>2, <3>3 DEF Task
    <3> QED
      BY <1>11, <3>1, <3>4 DEF Orderly
  <2> QED
    BY <2>1, <2>2
<1>13. Has(n) /\ h[n] = acc
  BY <1>4, <1>7
<1>14. /\ \A i \in 1..Len(t.events) : \E e \in 1..Len(u.events) : u.events[e] = t.events[i]
       /\ \A j \in 1..n : \E e \in 1..Len(u.events) : u.events[e].seq = m[j].seq
       /\ \A e \in 1..Len(u.events) :
            \/ \E j \in 1..n : u.events[e] = m[j]
            \/ \E i \in 1..Len(t.events) : u.events[e] = t.events[i]
  BY <1>12, <1>13
<1> QED
  BY <1>2, <1>9, <1>12, <1>14 DEF StoredWith

(***************************************************************************)
(* The inductive invariant of the store.                                   *)
(***************************************************************************)

\* The rows of the task's events.
Rows == {Event(n) : n \in 1..Len(log)}

\* A run of syncTaskEvents on a log of n rows: its cursor and its page are about rows.
Run(n) ==
    [after : 0..n, through : Nat, page : [read : BOOLEAN, items : Seq(1..n), next : 0..n]]

\* A query on a log of n rows.
Query(n) ==
    [data : BOOLEAN, invalid : BOOLEAN, error : BOOLEAN, load : Run(n), tries : Nat]

\* The rows and what is still to be published of them.
Server ==
    /\ IsScene(scene) /\ log \in Seq(scene.bodies)
    /\ unsent \subseteq 1..Len(log)
    /\ \A p \in after : p \in Seq(1..Len(log)) /\ p # <<>>

\* What is in transit between the bus and the tab, on a log of n rows.
Queued(n) ==
    /\ hub \in {"none", "accepted", "serving", "overflow"} /\ tasks \in BOOLEAN /\ refused \in BOOLEAN
    /\ chan \in Seq(1..n) /\ Len(chan) <= Capacity

Replaying(n) ==
    /\ replay \in [after : 0..n, upto : 0..n]
    /\ replay = NoReplay \/ replay.after < replay.upto

Asked(n) ==
    /\ commands \in Seq(Command)
    /\ \A i \in 1..Len(commands) : commands[i].from <= n

Sent(n) == wire \in Seq(1..n) /\ Len(wire) <= WireCapacity

Link == Queued(Len(log)) /\ Replaying(Len(log)) /\ Asked(Len(log)) /\ Sent(Len(log))

\* The query and the runs of the tab.
Tab ==
    /\ page \in {"on", "off"} /\ sock \in {"new", "open", "closed"}
    /\ query \in Query(Len(log))
    /\ syncs \subseteq [gap : BOOLEAN, run : Run(Len(log))]
    /\ skipped \subseteq 1..Len(log)

\* What the store shows: sorted rows, and what they stand for.
Shown == Orderly(view, Rows) /\ view.derived = rebuildDerived(view.events)

\* The inductive invariant.
Inv == Server /\ Link /\ Tab /\ Shown

\* A row is an event with its number.
LEMMA RowsAreEvents ==
    ASSUME Server
    PROVE  Rows \subseteq EventRow /\ \A n \in 1..Len(log) : Event(n) \in Rows /\ Event(n).seq = n
<1>1. ASSUME NEW n \in 1..Len(log)
      PROVE  Event(n) \in EventRow
  <2>1. PICK b : b = log[n]
    OBVIOUS
  <2>2. b \in EventBody /\ n \in Nat \ {0}
    BY <2>1 DEF Server, IsScene
  <2>3. Event(n) = [seq |-> n, type |-> b.type, call |-> b.call]
    BY <2>1 DEF Event
  <2> QED
    BY <2>2, <2>3 DEF EventBody, EventRow
<1> QED
  BY <1>1 DEF Rows, Event

\* The events of a sequence of numbers.
Bodies(seqs) == [i \in DOMAIN seqs |-> Event(seqs[i])]

\* What the store holds after it took some events.
LEMMA StoresRows ==
    ASSUME Server, Shown, NEW seqs \in Seq(1..Len(log))
    PROVE  StoredWith(Stored(seqs), view, Rows, Bodies(seqs))
<1>1. Bodies(seqs) \in Seq(Rows)
  <2>1. \A i \in 1..Len(seqs) : Event(seqs[i]) \in Rows
    BY RowsAreEvents
  <2>2. DOMAIN seqs = 1..Len(seqs) /\ Len(seqs) \in Nat
    OBVIOUS
  <2> QED
    BY <2>1, <2>2, IsASeq DEF Bodies
<1>2. Stored(seqs) = appendMany(view, Bodies(seqs))
  BY DEF Stored, Bodies
<1> QED
  BY <1>1, <1>2, RowsAreEvents, AppendManyGood DEF Shown

\* The last number of a store of rows is the number of a row.
LEMMA LastInRows ==
    ASSUME Server, NEW t, Orderly(t, Rows)
    PROVE  t.lastSeq \in 0..Len(log)
<1>1. CASE t.lastSeq = 0
  BY <1>1 DEF Server
<1>2. ASSUME NEW i \in 1..Len(t.events), t.events[i].seq = t.lastSeq
      PROVE  t.lastSeq \in 0..Len(log)
  <2>1. t.events[i] \in Rows
    BY DEF Orderly
  <2>2. PICK n \in 1..Len(log) : t.events[i] = Event(n)
    BY <2>1 DEF Rows
  <2> QED
    BY <1>2, <2>2, RowsAreEvents
<1> QED
  BY <1>1, <1>2 DEF Orderly

\* The number of the last event that is shown is the number of a row.
LEMMA LastIsRow ==
    ASSUME Server, Shown
    PROVE  view.lastSeq \in 0..Len(log)
BY LastInRows DEF Shown

\* A hole is the number of a row.
LEMMA HolesAreRows ==
    ASSUME Server, NEW t, Orderly(t, Rows), NEW q
    PROVE  Holes(t, q) \subseteq 1..Len(log)
<1>1. t.lastSeq \in 0..Len(log) /\ Len(log) \in Nat
  BY LastInRows DEF Server
<1>2. 1..t.lastSeq \subseteq 1..Len(log)
  BY <1>1
<1>3. Holes(t, q) \subseteq 1..t.lastSeq
  BY Zenon DEF Holes
<1> QED
  BY <1>2, <1>3, Zenon

\* What is about the rows of a log is about the rows of a longer one.
LEMMA RunsGrow ==
    ASSUME NEW m \in Nat, NEW n \in Nat, m <= n
    PROVE  /\ 1..m \subseteq 1..n /\ 0..m \subseteq 0..n /\ Seq(1..m) \subseteq Seq(1..n)
           /\ Run(m) \subseteq Run(n)
<1>1. 1..m \subseteq 1..n /\ 0..m \subseteq 0..n
  OBVIOUS
<1>2. Seq(1..m) \subseteq Seq(1..n)
  <2>1. ASSUME NEW s \in Seq(1..m)
        PROVE  s \in Seq(1..n)
    <3>1. \A i \in 1..Len(s) : s[i] \in 1..n
      BY <1>1
    <3> QED
      BY <3>1
  <2> QED
    BY <2>1
<1> QED
  BY <1>1, <1>2 DEF Run

\* Rows that stay where they are keep what is shown sound.
LEMMA ShownStays ==
    ASSUME Shown, view' = view, Rows \subseteq Rows'
    PROVE  Shown'
<1>1. Orderly(view, Rows')
  BY DEF Shown, Orderly
<1>2. Shown' <=> Orderly(view', Rows') /\ view'.derived = rebuildDerived(view'.events)
  BY Zenon DEF Shown
<1> QED
  BY <1>1, <1>2 DEF Shown

\* Nothing but Emit adds rows.
LEMMA RowsStay ==
    ASSUME log' = log
    PROVE  Rows' = Rows
BY DEF Rows, Event

\* What the store takes in is shown.
LEMMA ShownStored ==
    ASSUME Server, Shown, NEW seqs \in Seq(1..Len(log)), view' = Stored(seqs), log' = log
    PROVE  Shown'
<1>1. Orderly(view', Rows) /\ view'.derived = rebuildDerived(view'.events)
  BY StoresRows DEF StoredWith
<1>2. Rows' = Rows
  BY RowsStay
<1>3. Shown' <=> Orderly(view', Rows') /\ view'.derived = rebuildDerived(view'.events)
  BY Zenon DEF Shown
<1> QED
  BY <1>1, <1>2, <1>3

\* A disturbance leaves a scene.
LEMMA SceneStays ==
    ASSUME IsScene(scene), NEW what, Spend(what)
    PROVE  IsScene(scene') /\ scene'.bodies = scene.bodies
<1>1. PICK b : b = [scene.bounds EXCEPT ![what] = @ - 1]
  OBVIOUS
<1>2. scene' = [scene EXCEPT !.bounds = b]
  BY <1>1 DEF Spend
<1>3. b \in Disturbances
  BY <1>1 DEF Spend, IsScene, Disturbances
<1> QED
  BY <1>2, <1>3 DEF IsScene

\* The server's part does not change while its rows and its scene's sorts stay.
LEMMA ServerStays ==
    ASSUME Server, serverVars' = serverVars, \/ scene' = scene
                                             \/ \E what : Spend(what)
    PROVE  Server'
<1>1. IsScene(scene)' /\ scene'.bodies = scene.bodies
  BY SceneStays DEF Server
<1> QED
  BY <1>1 DEF Server, serverVars

\* The first load of a query, and no load at all, are runs.
LEMMA FirstRuns ==
    ASSUME NEW n \in Nat, NEW from \in 0..n, NEW through \in Nat
    PROVE  NewSync(from, through) \in Run(n) /\ NoPage \in [read : BOOLEAN, items : Seq(1..n), next : 0..n]
BY DEF NewSync, NoPage, Run

\* A query is a query after a load was started.
LEMMA StartsLoad ==
    ASSUME NEW n \in Nat, NEW q \in Query(n)
    PROVE  StartLoad(q) \in Query(n) /\ Refetched(q) \in Query(n)
<1>1. 0 \in 0..n /\ Infinity \in Nat
  BY StreamAssumption DEF Infinity
<1>2. PICK r \in Run(n) : r = NewSync(0, Infinity)
  BY <1>1, FirstRuns
<1>3. StartLoad(q) \in Query(n)
  BY <1>2 DEF StartLoad, Query
<1> QED
  BY <1>3 DEF Refetched

\* A load that is abandoned is a run.
LEMMA Abandons ==
    ASSUME NEW n \in Nat, NEW q \in Query(n)
    PROVE  Abandoned(q) \subseteq [gap : BOOLEAN, run : Run(n)]
<1>1. {[gap |-> FALSE, run |-> q.load]} \subseteq [gap : BOOLEAN, run : Run(n)]
  BY DEF Query
<1>2. Abandoned(q) = {[gap |-> FALSE, run |-> q.load]} \/ Abandoned(q) = {}
  BY Zenon DEF Abandoned
<1> QED
  BY <1>1, <1>2

\* invalidateQueries leaves a query and runs of syncTaskEvents.
LEMMA Invalidates ==
    ASSUME NEW n \in Nat, query \in Query(n), NEW others, others \subseteq [gap : BOOLEAN, run : Run(n)],
           Invalidate(others)
    PROVE  query' \in Query(n) /\ syncs' \subseteq [gap : BOOLEAN, run : Run(n)]
<1>1. PICK q : q = [query EXCEPT !.invalid = TRUE]
  OBVIOUS
<1>2. q \in Query(n)
  BY <1>1 DEF Query
<1>3. Refetched(q) \in Query(n)
  BY <1>2, StartsLoad
<1>4. Abandoned(q) \subseteq [gap : BOOLEAN, run : Run(n)]
  BY <1>2, Abandons
<1>5. \/ query' = Refetched(q) /\ syncs' = others \cup Abandoned(q)
      \/ query' = q /\ syncs' = others
  BY <1>1 DEF Invalidate
<1> QED
  BY <1>2, <1>3, <1>4, <1>5

\* A page of rows.
LEMMA Fetches ==
    ASSUME NEW run \in Run(Len(log)), Len(log) \in Nat
    PROVE  Fetched(run) \in Run(Len(log))
<1>1. PICK k : k = Len(log) - run.after
  OBVIOUS
<1>2. k \in Nat /\ run.after + k = Len(log) /\ run.after \in Nat /\ PageSize \in Nat \ {0}
  BY <1>1, StreamAssumption DEF Run
<1>3. PICK m : m = Min({PageSize, k})
  OBVIOUS
<1>4. m \in {PageSize, k} /\ m <= PageSize /\ m <= k
  <2>1. \E x \in {PageSize, k} : \A y \in {PageSize, k} : x <= y
    BY <1>2
  <2> QED
    BY <1>3, <2>1 DEF Min
<1>5. PICK items : items = [i \in 1..m |-> run.after + i]
  OBVIOUS
<1>6. items \in Seq(1..Len(log))
  BY <1>2, <1>4, <1>5
<1>7. PICK next : next = IF m = PageSize THEN run.after + m ELSE 0
  OBVIOUS
<1>8. next \in 0..Len(log)
  BY <1>2, <1>4, <1>7
<1>9. PICK p : p = [read |-> TRUE, items |-> items, next |-> next]
  OBVIOUS
<1>10. p \in [read : BOOLEAN, items : Seq(1..Len(log)), next : 0..Len(log)]
  BY <1>6, <1>8, <1>9
<1>11. Fetched(run) = [run EXCEPT !.page = p]
  BY <1>1, <1>3, <1>5, <1>7, <1>9, Zenon DEF Fetched
<1> QED
  BY <1>10, <1>11 DEF Run

\* The next page of a run.
LEMMA GoesOn ==
    ASSUME NEW n \in Nat, NEW run \in Run(n)
    PROVE  NextPage(run) \in Run(n)
<1>1. PICK p : p = NoPage
  OBVIOUS
<1>2. p \in [read : BOOLEAN, items : Seq(1..n), next : 0..n]
  BY <1>1, FirstRuns
<1> QED
  BY <1>1, <1>2 DEF NextPage, Run

(***************************************************************************)
(* Every step keeps it.                                                    *)
(***************************************************************************)

\* A sequence that is empty.
LEMMA NothingYet ==
    ASSUME NEW S
    PROVE  <<>> \in Seq(S) /\ Len(<<>>) = 0 /\ 1..0 = {}
BY EmptySeq

\* The first element of a sequence, and the others.
LEMMA HeadAndTail ==
    ASSUME NEW S, NEW s \in Seq(S), s # <<>>
    PROVE  /\ Head(s) \in S /\ Head(s) = s[1] /\ Len(s) \in Nat \ {0}
           /\ Tail(s) \in Seq(S) /\ Len(Tail(s)) = Len(s) - 1
           /\ \A i \in 1..(Len(s) - 1) : Tail(s)[i] = s[i + 1]
           /\ Len(s) # 1 => Tail(s) # <<>>
<1>1. Head(s) \in S /\ Tail(s) \in Seq(S) /\ Len(Tail(s)) = Len(s) - 1
  BY HeadTailProperties
<1>2. Len(s) \in Nat \ {0} /\ Head(s) = s[1]
  OBVIOUS
<1>3. \A i \in 1..(Len(s) - 1) : Tail(s)[i] = s[i + 1]
  OBVIOUS
<1>4. Len(s) # 1 => Tail(s) # <<>>
  <2>1. PICK k, t : k = Len(s) /\ t = Tail(s)
    OBVIOUS
  <2>2. k \in Nat \ {0} /\ Len(t) = k - 1
    BY <1>1, <1>2, <2>1
  <2>3. k # 1 => t # <<>>
    BY <2>2
  <2> QED
    BY <2>1, <2>3, Zenon
<1> QED
  BY <1>1, <1>2, <1>3, <1>4

\* A sequence with room for one more.
LEMMA OneMore ==
    ASSUME NEW S, NEW s \in Seq(S), NEW x \in S, NEW c \in Nat, Len(s) < c
    PROVE  /\ Append(s, x) \in Seq(S) /\ Len(Append(s, x)) <= c /\ Len(Append(s, x)) = Len(s) + 1
           /\ \A i \in 1..Len(s) : Append(s, x)[i] = s[i]
           /\ Append(s, x)[Len(s) + 1] = x
OBVIOUS

\* Two sequences, one behind the other.
LEMMA Behind ==
    ASSUME NEW S, NEW s \in Seq(S), NEW t \in Seq(S)
    PROVE  /\ s \o t \in Seq(S) /\ Len(s \o t) = Len(s) + Len(t)
           /\ \A i \in 1..Len(s) : (s \o t)[i] = s[i]
           /\ Len(s) \in Nat /\ Len(t) \in Nat
OBVIOUS

\* A transaction's events are new rows behind the others.
LEMMA EmitKeeps ==
    ASSUME Inv, NEW b \in Batches, Emit(b)
    PROVE  Inv'
<1> DEFINE m == Len(log)
           n == Len(log')
           p == [i \in 1..Len(b) |-> Len(log) + i]
<1>1. PICK k \in 1..scene.txEvents : b \in [1..k -> scene.bodies]
  BY DEF Batches
<1>2. k \in Nat \ {0} /\ b \in Seq(scene.bodies) /\ Len(b) = k /\ log \in Seq(scene.bodies) /\ m \in Nat
  <2>1. scene.txEvents \in Nat \ {0} /\ log \in Seq(scene.bodies)
    BY DEF Inv, Server, IsScene
  <2>2. k \in Nat \ {0}
    BY <2>1
  <2>3. b \in Seq(scene.bodies) /\ Len(b) = k
    BY <1>1, <2>2
  <2> QED
    BY <2>1, <2>2, <2>3
<1>3. /\ log' = log \o b /\ log' \in Seq(scene.bodies) /\ n = m + k /\ n \in Nat /\ m <= n
      /\ \A i \in 1..m : log'[i] = log[i]
  <2>1. log' = log \o b
    BY DEF Emit
  <2> QED
    <3>1. /\ log \o b \in Seq(scene.bodies) /\ Len(log \o b) = m + k
          /\ \A i \in 1..m : (log \o b)[i] = log[i]
      BY <1>2, Behind, Zenon
    <3>2. m + k \in Nat /\ m <= m + k
      BY <1>2
    <3> QED
      BY <2>1, <3>1, <3>2, Zenon
<1>4. p \in Seq(1..n) /\ p # <<>>
  <2>1. \A i \in 1..k : m + i \in 1..n
    BY <1>2, <1>3
  <2>2. p \in Seq(1..n) /\ Len(p) = k
    BY <1>2, <2>1
  <2> QED
    BY <1>2, <2>2
<1>5. 1..m \subseteq 1..n /\ 0..m \subseteq 0..n /\ Seq(1..m) \subseteq Seq(1..n) /\ Run(m) \subseteq Run(n)
  BY <1>2, <1>3, RunsGrow
<1>6. Server'
  <2>1. IsScene(scene') /\ scene'.bodies = scene.bodies
    BY SceneStays DEF Emit, Inv, Server
  <2>2. log' \in Seq(scene'.bodies)
    BY <1>3, <2>1
  <2>3. unsent' \subseteq 1..n
    <3>1. unsent \subseteq 1..n
      BY <1>5 DEF Inv, Server
    <3>2. (m + 1)..(m + Len(b)) \subseteq 1..n
      BY <1>2, <1>3
    <3> QED
      BY <3>1, <3>2 DEF Emit
  <2>4. \A x \in after' : x \in Seq(1..n) /\ x # <<>>
    <3>1. after' = after \cup {p} \/ after' = after
      BY DEF Emit
    <3>2. \A x \in after : x \in Seq(1..n) /\ x # <<>>
      BY <1>5 DEF Inv, Server
    <3> HIDE DEF p, n
    <3> QED
      BY <1>4, <3>1, <3>2
  <2> QED
    BY <2>1, <2>2, <2>3, <2>4 DEF Server
<1>7. Link'
  <2>1. hub' = hub /\ chan' = chan /\ tasks' = tasks /\ refused' = refused /\ replay' = replay /\ commands' = commands /\ wire' = wire
    BY DEF Emit, hubVars
  <2>2. Queued(Len(log))' /\ Sent(Len(log))'
    BY <1>5, <2>1 DEF Inv, Link, Queued, Sent
  <2>3. Replaying(Len(log))'
    BY <1>5, <2>1 DEF Inv, Link, Replaying
  <2>4. Asked(Len(log))'
    <3>1. ASSUME NEW i \in 1..Len(commands)
          PROVE  commands[i].from <= n
      <4>1. commands[i].from <= m /\ commands[i].from \in Nat
        <5>1. commands \in Seq(Command) /\ commands[i].from <= m
          BY DEF Inv, Link, Asked
        <5>2. commands[i] \in Command
          BY <5>1
        <5> QED
          BY <5>1, <5>2 DEF Command
      <4> HIDE DEF m, n
      <4> QED
        BY <1>2, <1>3, <4>1
    <3>2. commands \in Seq(Command)
      BY DEF Inv, Link, Asked
    <3> QED
      BY <2>1, <3>1, <3>2, Zenon DEF Asked
  <2> QED
    BY <2>2, <2>3, <2>4 DEF Link
<1>8. Tab'
  <2>1. page' = page /\ sock' = sock /\ query' = query /\ syncs' = syncs /\ skipped' = skipped
    BY DEF Emit, tabVars
  <2>2. query \in Query(n)
    BY <1>5 DEF Inv, Tab, Query
  <2>3. syncs \subseteq [gap : BOOLEAN, run : Run(n)]
    BY <1>5 DEF Inv, Tab
  <2>4. skipped \subseteq 1..n
    BY <1>5 DEF Inv, Tab
  <2> QED
    BY <2>1, <2>2, <2>3, <2>4 DEF Inv, Tab
<1>9. Shown'
  <2>1. Rows \subseteq Rows'
    <3>1. ASSUME NEW i \in 1..m
          PROVE  Event(i) \in Rows'
      <4>1. i \in 1..n /\ log'[i] = log[i]
        BY <1>3, <1>5
      <4>2. Event(i)' = Event(i)
        BY <4>1 DEF Event
      <4> QED
        BY <4>1, <4>2 DEF Rows
    <3> QED
      BY <3>1 DEF Rows
  <2> QED
    BY <2>1, ShownStays DEF Emit, Inv, tabVars
<1> QED
  BY <1>6, <1>7, <1>8, <1>9 DEF Inv

\* The tab's part does not change.
LEMMA TabStays ==
    ASSUME Tab, log' = log, page' = page, sock' = sock, query' = query, syncs' = syncs,
           skipped' = skipped
    PROVE  Tab'
BY DEF Tab

\* Nor does what is in transit.
LEMMA LinkStays ==
    ASSUME Link, log' = log
    PROVE  /\ hub' = hub /\ chan' = chan /\ tasks' = tasks /\ refused' = refused => Queued(Len(log))'
           /\ replay' = replay => Replaying(Len(log))'
           /\ commands' = commands => Asked(Len(log))'
           /\ wire' = wire => Sent(Len(log))'
<1>1. hub' = hub /\ chan' = chan /\ tasks' = tasks /\ refused' = refused => Queued(Len(log))'
  BY Zenon DEF Link, Queued
<1>2. replay' = replay => Replaying(Len(log))'
  BY Zenon DEF Link, Replaying
<1>3. commands' = commands => Asked(Len(log))'
  BY Zenon DEF Link, Asked
<1>4. wire' = wire => Sent(Len(log))'
  BY Zenon DEF Link, Sent
<1> QED
  BY <1>1, <1>2, <1>3, <1>4

\* Publication puts a row's number into the channel.
LEMMA PublishKeeps ==
    ASSUME Inv, NEW p \in after, Publish(p)
    PROVE  Inv'
<1>1. p \in Seq(1..Len(log)) /\ p # <<>>
  BY DEF Inv, Server
<1>2. Head(p) \in 1..Len(log) /\ Tail(p) \in Seq(1..Len(log)) /\ (Len(p) # 1 => Tail(p) # <<>>)
  BY <1>1, HeadAndTail
<1>3. Server'
  <2>1. /\ log' = log /\ unsent' = unsent /\ scene' = scene
        /\ \A x \in after' : x \in after \/ (x = Tail(p) /\ Len(p) # 1)
    BY DEF Publish
  <2> QED
    BY <1>2, <2>1 DEF Inv, Server
<1>4. Link'
  <2>1. log' = log /\ tasks' = tasks /\ refused' = refused /\ replay' = replay /\ commands' = commands /\ wire' = wire
    BY DEF Publish
  <2>2. Replaying(Len(log))' /\ Asked(Len(log))' /\ Sent(Len(log))'
    BY <2>1, LinkStays DEF Inv
  <2>3. chan \in Seq(1..Len(log)) /\ Len(chan) <= Capacity
    BY DEF Inv, Link, Queued
  <2>4. chan' = chan \/ (Len(chan) < Capacity /\ chan' = Append(chan, Head(p)))
    BY DEF Publish, Deliver
  <2>5. chan' \in Seq(1..Len(log)) /\ Len(chan') <= Capacity
    <3>1. CASE chan' = chan
      BY <2>3, <3>1
    <3>2. CASE Len(chan) < Capacity /\ chan' = Append(chan, Head(p))
      <4>1. Capacity \in Nat
        BY StreamAssumption
      <4> QED
        BY <1>2, <2>3, <3>2, <4>1, OneMore, Zenon
    <3> QED
      BY <2>4, <3>1, <3>2
  <2>6. hub' = hub \/ hub' = "overflow"
    BY DEF Publish, Deliver
  <2>7. Queued(Len(log))'
    BY <2>1, <2>5, <2>6 DEF Inv, Link, Queued
  <2> QED
    BY <2>2, <2>7 DEF Link
<1>5. Tab' /\ Shown'
  BY TabStays, ShownStays, RowsStay DEF Publish, tabVars, Inv
<1> QED
  BY <1>3, <1>4, <1>5 DEF Inv

\* The hub's steps.
LEMMA HubKeeps ==
    ASSUME Inv, HubSubscribe \/ HubEvent \/ HubCommand \/ HubReplay
    PROVE  Inv'
<1>1. /\ log' = log /\ serverVars' = serverVars /\ tabVars' = tabVars /\ view' = view
      /\ scene' = scene \/ \E what : Spend(what)
  BY Zenon DEF HubSubscribe, HubEvent, HubCommand, HubReplay, serverVars, tabVars
<1>2. Server' /\ Tab' /\ Shown'
  BY <1>1, ServerStays, TabStays, ShownStays, RowsStay DEF tabVars, Inv
<1>3. Len(log) \in Nat
  BY DEF Inv, Server
<1> SUFFICES Link'
  BY <1>2 DEF Inv
<1>4. CASE HubSubscribe
  <2>1. Replaying(Len(log))' /\ Asked(Len(log))' /\ Sent(Len(log))'
    BY <1>1, <1>4, LinkStays DEF HubSubscribe, Inv
  <2>2. Queued(Len(log))'
    BY <1>1, <1>4, NothingYet, StreamAssumption DEF HubSubscribe, Inv, Link, Queued
  <2> QED
    BY <2>1, <2>2 DEF Link
<1>5. CASE HubEvent
  <2>1. Replaying(Len(log))' /\ Asked(Len(log))'
    BY <1>1, <1>5, LinkStays DEF HubEvent, Inv
  <2>2. Head(chan) \in 1..Len(log) /\ Tail(chan) \in Seq(1..Len(log)) /\ Len(Tail(chan)) <= Capacity
    <3>1. chan \in Seq(1..Len(log)) /\ chan # <<>> /\ Len(chan) <= Capacity
      BY <1>5 DEF HubEvent, Inv, Link, Queued
    <3> QED
      BY <3>1, HeadAndTail, StreamAssumption
  <2>3. Sent(Len(log))'
    <3>1. wire \in Seq(1..Len(log)) /\ Len(wire) <= WireCapacity
      BY DEF Inv, Link, Sent
    <3>2. wire' = wire \/ (Len(wire) < WireCapacity /\ wire' = Append(wire, Head(chan)))
      BY <1>5 DEF HubEvent
    <3>3. wire' \in Seq(1..Len(log)) /\ Len(wire') <= WireCapacity
      <4>1. CASE wire' = wire
        BY <3>1, <4>1
      <4>2. CASE Len(wire) < WireCapacity /\ wire' = Append(wire, Head(chan))
        <5>1. WireCapacity \in Nat
          BY StreamAssumption
        <5> QED
          BY <2>2, <3>1, <4>2, <5>1, OneMore, Zenon
      <4> QED
        BY <3>2, <4>1, <4>2
    <3> QED
      BY <1>1, <3>3 DEF Sent
  <2>4. Queued(Len(log))'
    BY <1>1, <1>5, <2>2 DEF HubEvent, Inv, Link, Queued
  <2> QED
    BY <2>1, <2>3, <2>4 DEF Link
<1>6. CASE HubCommand
  <2>1. PICK c : c = Head(commands)
    OBVIOUS
  <2>2. /\ c \in Command /\ c.from <= Len(log) /\ c.from \in Nat /\ Tail(commands) \in Seq(Command)
        /\ \A i \in 1..Len(Tail(commands)) : Tail(commands)[i].from <= Len(log)
    <3>1. PICK s : s = commands
      OBVIOUS
    <3>2. s \in Seq(Command) /\ s # <<>> /\ \A i \in 1..Len(s) : s[i].from <= Len(log)
      BY <1>6, <3>1 DEF HubCommand, Inv, Link, Asked
    <3>3. /\ c = s[1] /\ 1 \in 1..Len(s) /\ Tail(s) \in Seq(Command)
          /\ \A i \in 1..Len(Tail(s)) : i + 1 \in 1..Len(s) /\ Tail(s)[i] = s[i + 1]
      BY <2>1, <3>1, <3>2
    <3>4. \A i \in 1..Len(s) : s[i] \in Command
      BY <3>2
    <3> QED
      BY <3>1, <3>2, <3>3, <3>4 DEF Command
  <2>3. replay' = replay \/ replay' = ReplayOf(c.from)
    BY <1>6, <2>1 DEF HubCommand
  <2>4. Replaying(Len(log))
    BY DEF Inv, Link
  <2>5. ASSUME replay' = ReplayOf(c.from)
        PROVE  Replaying(Len(log))'
    BY <1>1, <1>3, <2>2, <2>5 DEF Replaying, ReplayOf, NoReplay
  <2>6. Replaying(Len(log))'
    BY <1>1, <2>3, <2>5, LinkStays DEF Inv
  <2>7. tasks' \in BOOLEAN /\ refused' \in BOOLEAN
    <3>1. tasks \in BOOLEAN
      BY DEF Inv, Link, Queued
    <3> QED
      BY <1>6, <3>1, Zenon DEF HubCommand
  <2>8. Queued(Len(log))' /\ Sent(Len(log))'
    BY <1>1, <1>6, <2>7 DEF HubCommand, Inv, Link, Queued, Sent
  <2>9. Asked(Len(log))'
    BY <1>1, <1>6, <2>2 DEF HubCommand, Asked
  <2> QED
    BY <2>6, <2>8, <2>9 DEF Link
<1>7. CASE HubReplay
  <2>1. replay \in [after : 0..Len(log), upto : 0..Len(log)] /\ replay.after < replay.upto
    BY <1>7 DEF HubReplay, Inv, Link, Replaying
  <2>2. replay.after + 1 \in 1..Len(log)
    BY <1>3, <2>1
  <2>3. Sent(Len(log))'
    BY <1>1, <1>7, <2>2, StreamAssumption DEF HubReplay, Inv, Link, Sent
  <2>4. Replaying(Len(log))'
    <3>1. CASE replay' = NoReplay
      BY <1>1, <1>3, <3>1 DEF Replaying, NoReplay
    <3>2. CASE replay' = [replay EXCEPT !.after = @ + 1] /\ replay.after + 1 # replay.upto
      <4>1. replay.after + 1 < replay.upto /\ replay.after + 1 \in 0..Len(log)
        BY <1>3, <2>1, <3>2
      <4> QED
        BY <1>1, <2>1, <3>2, <4>1 DEF Replaying
    <3> QED
      BY <1>7, <3>1, <3>2 DEF HubReplay
  <2>5. Queued(Len(log))' /\ Asked(Len(log))'
    BY <1>1, <1>7, LinkStays DEF HubReplay, Inv
  <2> QED
    BY <2>3, <2>4, <2>5 DEF Link
<1> QED
  BY <1>4, <1>5, <1>6, <1>7

\* A connection that is gone has nothing in it.
LEMMA GoneKeeps ==
    ASSUME Inv, log' = log, HubGone, commands' = <<>>, wire' = wire \/ wire' = <<>>
    PROVE  Link'
<1>1. Len(log) \in Nat
  BY DEF Inv, Server
<1>2. Queued(Len(log))'
  <2>1. hub' = "none" /\ tasks' = FALSE /\ refused' = FALSE /\ chan' = <<>>
    BY DEF HubGone
  <2>2. tasks' \in BOOLEAN /\ refused' \in BOOLEAN
    BY <2>1, Zenon
  <2>3. chan' \in Seq(1..Len(log)) /\ Len(chan') <= Capacity
    BY <2>1, NothingYet, StreamAssumption
  <2> QED
    BY <2>1, <2>2, <2>3 DEF Queued
<1>3. Replaying(Len(log))'
  BY <1>1 DEF HubGone, NoReplay, Replaying
<1>4. Asked(Len(log))'
  BY NothingYet DEF Asked
<1>5. Sent(Len(log))'
  <2>1. CASE wire' = wire
    BY <2>1, LinkStays DEF Inv
  <2>2. CASE wire' = <<>>
    BY <2>2, NothingYet, StreamAssumption DEF Sent
  <2> QED
    BY <2>1, <2>2
<1> QED
  BY <1>2, <1>3, <1>4, <1>5 DEF Link

\* The ends of a connection.
LEMMA EndKeeps ==
    ASSUME Inv, HubEnd \/ HubBreak \/ ServerCrash \/ Close \/ GiveUp
    PROVE  Inv'
<1>1. /\ log' = log /\ unsent' = unsent /\ page' = page /\ view' = view /\ query' = query /\ syncs' = syncs
      /\ skipped' = skipped
      /\ HubGone /\ commands' = <<>> /\ (wire' = wire \/ wire' = <<>>) /\ (sock' = sock \/ sock' = "closed")
      /\ (after' = after \/ after' = {}) /\ (scene' = scene \/ \E what : Spend(what))
  BY Zenon DEF HubEnd, HubBreak, ServerCrash, Close, GiveUp, SocketGone, serverVars, tabVars
<1>2. Link'
  BY <1>1, GoneKeeps
<1>3. Shown'
  BY <1>1, ShownStays, RowsStay DEF Inv
<1>4. Tab'
  BY <1>1 DEF Inv, Tab
<1>5. Server'
  <2>1. IsScene(scene') /\ scene'.bodies = scene.bodies
    BY <1>1, SceneStays DEF Inv, Server
  <2> QED
    BY <1>1, <2>1 DEF Inv, Server
<1> QED
  BY <1>2, <1>3, <1>4, <1>5 DEF Inv

\* A command to a hub that serves is queued behind the others.
LEMMA SendKeeps ==
    ASSUME Inv, NEW c \in Command, c.from <= Len(log), Send(c), log' = log
    PROVE  Asked(Len(log))'
<1>1. CASE commands' = commands
  BY <1>1, LinkStays DEF Inv
<1>2. CASE commands' = Append(commands, c)
  <2>1. PICK s, n : s = commands /\ n = Len(log)
    OBVIOUS
  <2>2. s \in Seq(Command) /\ \A i \in 1..Len(s) : s[i].from <= n
    BY <2>1 DEF Inv, Link, Asked
  <2>3. PICK t : t = Append(s, c)
    OBVIOUS
  <2>4. /\ t \in Seq(Command) /\ Len(s) \in Nat /\ Len(t) = Len(s) + 1
        /\ \A i \in 1..Len(s) : t[i] = s[i]
        /\ t[Len(s) + 1] = c
    BY <2>2, <2>3, AppendProperties
  <2>5. \A i \in 1..Len(t) : i \in 1..Len(s) \/ i = Len(s) + 1
    BY <2>4
  <2>6. \A i \in 1..Len(t) : t[i].from <= n
    BY <2>1, <2>2, <2>4, <2>5
  <2> QED
    BY <1>2, <2>1, <2>3, <2>4, <2>6, Zenon DEF Asked
<1> QED
  BY <1>1, <1>2 DEF Send

\* The user's steps.
LEMMA UserKeeps ==
    ASSUME Inv, User
    PROVE  Inv'
<1>1. /\ log' = log /\ serverVars' = serverVars /\ hubVars' = hubVars /\ wire' = wire
      /\ sock' = sock /\ view' = view
      /\ scene' = scene \/ \E what : Spend(what)
  BY Zenon DEF User, Mount, Unmount, UserRetry, serverVars
<1>2. Server' /\ Shown'
  BY <1>1, ServerStays, ShownStays, RowsStay DEF Inv
<1>3. Queued(Len(log))' /\ Replaying(Len(log))' /\ Sent(Len(log))'
  BY <1>1, LinkStays DEF Inv, hubVars
<1>4. Len(log) \in Nat /\ query \in Query(Len(log)) /\ syncs \subseteq [gap : BOOLEAN, run : Run(Len(log))]
  BY DEF Inv, Server, Tab
<1>5. CASE Mount
  <2>1. subscribe(view.lastSeq) \in Command /\ subscribe(view.lastSeq).from <= Len(log)
    BY <1>4, LastIsRow DEF Inv, subscribe, Command
  <2>2. Asked(Len(log))'
    BY <1>1, <1>5, <2>1, SendKeeps DEF Mount
  <2>3. query' \in Query(Len(log))
    BY <1>4, <1>5, StartsLoad DEF Mount
  <2>4. skipped' \subseteq 1..Len(log)
    BY <1>5, HolesAreRows DEF Mount, Inv, Shown
  <2>5. Tab'
    BY <1>1, <1>4, <1>5, <2>3, <2>4 DEF Mount, Tab, Inv
  <2> QED
    BY <1>2, <1>3, <2>2, <2>5 DEF Inv, Link
<1>6. CASE Unmount
  <2>1. unsubscribe \in Command /\ unsubscribe.from <= Len(log)
    BY <1>4 DEF unsubscribe, Command
  <2>2. Asked(Len(log))'
    BY <1>1, <1>6, <2>1, SendKeeps DEF Unmount
  <2>3. Tab'
    BY <1>1, <1>4, <1>6 DEF Unmount, Tab, Inv
  <2> QED
    BY <1>2, <1>3, <2>2, <2>3 DEF Inv, Link
<1>7. CASE UserRetry
  <2>1. Asked(Len(log))'
    BY <1>1, <1>7, LinkStays DEF UserRetry, Inv
  <2>2. Refetched(query) \in Query(Len(log))
    BY <1>4, StartsLoad
  <2>3. Abandoned(query) \subseteq [gap : BOOLEAN, run : Run(Len(log))]
    BY <1>4, Abandons
  <2>4. Tab'
    BY <1>1, <1>4, <1>7, <2>2, <2>3 DEF UserRetry, Tab, Inv
  <2> QED
    BY <1>2, <1>3, <2>1, <2>4 DEF Inv, Link
<1> QED
  BY <1>5, <1>6, <1>7 DEF User

\* A connection opens.
LEMMA OpenKeeps ==
    ASSUME Inv, Open
    PROVE  Inv'
<1>1. /\ log' = log /\ serverVars' = serverVars /\ chan' = chan /\ tasks' = tasks /\ refused' = refused /\ replay' = replay
      /\ wire' = wire /\ page' = page /\ view' = view /\ scene' = scene
  BY DEF Open, serverVars
<1>2. Server' /\ Shown'
  BY <1>1, ServerStays, ShownStays, RowsStay DEF Inv
<1>3. Replaying(Len(log))' /\ Sent(Len(log))'
  BY <1>1, LinkStays DEF Inv
<1>4. Queued(Len(log))'
  BY <1>1, Zenon DEF Open, Queued, Inv, Link
<1>5. Len(log) \in Nat /\ query \in Query(Len(log)) /\ syncs \subseteq [gap : BOOLEAN, run : Run(Len(log))]
  BY DEF Inv, Server, Tab
<1>6. Tab'
  <2>1. query' \in Query(Len(log)) /\ syncs' \subseteq [gap : BOOLEAN, run : Run(Len(log))]
    BY <1>5, Invalidates DEF Open, OpenQuery
  <2>2. skipped' \subseteq 1..Len(log)
    BY HolesAreRows DEF Open, Inv, Shown
  <2> QED
    BY <1>1, <2>1, <2>2 DEF Open, Tab, Inv
<1>7. Asked(Len(log))'
  <2>1. CASE commands' = <<>>
    BY <2>1, NothingYet DEF Asked
  <2>2. CASE commands' = <<subscribe(view.lastSeq)>>
    <3>1. PICK c : c = subscribe(view.lastSeq)
      OBVIOUS
    <3>2. c \in Command /\ c.from <= Len(log)
      BY <1>5, <3>1, LastIsRow DEF Inv, subscribe, Command
    <3>3. <<c>> \in Seq(Command) /\ Len(<<c>>) = 1 /\ <<c>>[1] = c /\ \A i \in 1..1 : i = 1
      BY <3>2
    <3> QED
      BY <1>1, <2>2, <3>1, <3>2, <3>3, Zenon DEF Asked
  <2> QED
    BY <2>1, <2>2 DEF Open
<1> QED
  BY <1>2, <1>3, <1>4, <1>6, <1>7 DEF Inv, Link

\* An event arrives.
LEMMA ReceiveKeeps ==
    ASSUME Inv, Receive
    PROVE  Inv'
<1>1. /\ log' = log /\ serverVars' = serverVars /\ hubVars' = hubVars /\ commands' = commands
      /\ page' = page /\ sock' = sock /\ query' = query /\ scene' = scene
  BY DEF Receive, serverVars
<1>2. Server' /\ Queued(Len(log))' /\ Replaying(Len(log))' /\ Asked(Len(log))'
  BY <1>1, ServerStays, LinkStays DEF Inv, hubVars
<1>3. wire \in Seq(1..Len(log)) /\ wire # <<>> /\ Len(wire) <= WireCapacity
  BY DEF Receive, Inv, Link, Sent
<1>4. PICK x : x = Head(wire)
  OBVIOUS
<1>5. x \in 1..Len(log) /\ Tail(wire) \in Seq(1..Len(log)) /\ Len(Tail(wire)) <= WireCapacity
  BY <1>3, <1>4, HeadAndTail, StreamAssumption
<1>6. Sent(Len(log))'
  BY <1>1, <1>5 DEF Receive, Sent
<1>7. <<x>> \in Seq(1..Len(log))
  BY <1>5
<1>8. Shown'
  BY <1>1, <1>4, <1>7, ShownStored DEF Receive, Inv
<1>9. Len(log) \in Nat /\ syncs \subseteq [gap : BOOLEAN, run : Run(Len(log))]
  BY DEF Inv, Server, Tab
<1>10. PICK r : r = NewSync(view.lastSeq, x)
  OBVIOUS
<1>11. r \in Run(Len(log))
  BY <1>5, <1>9, <1>10, LastIsRow, FirstRuns DEF Inv
<1>12. syncs' \subseteq [gap : BOOLEAN, run : Run(Len(log))]
  <2>1. syncs' = syncs \/ syncs' = syncs \cup {[gap |-> TRUE, run |-> r]}
    BY <1>4, <1>10 DEF Receive
  <2>2. [gap |-> TRUE, run |-> r] \in [gap : BOOLEAN, run : Run(Len(log))]
    BY <1>11
  <2> QED
    BY <1>9, <2>1, <2>2, Zenon
<1>13. skipped' \subseteq 1..Len(log)
  <2>1. Holes(view', query) \subseteq 1..Len(log)
    <3>1. Orderly(view', Rows)
      BY <1>4, <1>7, StoresRows DEF Receive, Inv, StoredWith
    <3> QED
      BY <3>1, HolesAreRows DEF Inv
  <2>2. skipped \subseteq 1..Len(log)
    BY DEF Inv, Tab
  <2> QED
    BY <2>1, <2>2, Zenon DEF Receive
<1>14. Tab'
  BY <1>1, <1>12, <1>13 DEF Tab, Inv
<1> QED
  BY <1>2, <1>6, <1>8, <1>14 DEF Inv, Link

\* The steps of the query's load.
LEMMA LoadKeeps ==
    ASSUME Inv, LoadRead \/ LoadApply \/ LoadFail
    PROVE  Inv'
<1>1. /\ log' = log /\ serverVars' = serverVars /\ hubVars' = hubVars /\ commands' = commands /\ wire' = wire
      /\ page' = page /\ sock' = sock /\ syncs' = syncs /\ skipped' = skipped /\ (scene' = scene \/ \E what : Spend(what))
  BY Zenon DEF LoadRead, LoadApply, LoadFail, serverVars
<1>2. Server' /\ Link'
  BY <1>1, ServerStays, LinkStays DEF Inv, Link, hubVars
<1>3. Len(log) \in Nat /\ query \in Query(Len(log)) /\ query.load \in Run(Len(log))
  BY DEF Inv, Server, Tab, Query
<1> SUFFICES Shown' /\ query' \in Query(Len(log))
  BY <1>1, <1>2 DEF Inv, Tab
<1>4. CASE LoadRead
  <2>1. PICK r : r = Fetched(query.load)
    OBVIOUS
  <2>2. r \in Run(Len(log))
    BY <1>3, <2>1, Fetches
  <2>3. query' = [query EXCEPT !.load = r]
    BY <1>4, <2>1 DEF LoadRead
  <2>4. Shown'
    BY <1>1, <1>4, ShownStays, RowsStay DEF LoadRead, Inv
  <2> QED
    BY <1>3, <2>2, <2>3, <2>4 DEF Query
<1>5. CASE LoadApply
  <2>1. PICK s : s = query.load.page.items
    OBVIOUS
  <2>2. s \in Seq(1..Len(log))
    BY <1>3, <2>1 DEF Run
  <2>3. Shown'
    BY <1>1, <1>5, <2>1, <2>2, ShownStored DEF LoadApply, Inv
  <2>4. CASE query' = [NewQuery EXCEPT !.data = TRUE]
    <3>1. PICK r : r = NoSync
      OBVIOUS
    <3>2. r \in Run(Len(log))
      BY <1>3, <3>1, FirstRuns DEF NoSync
    <3>3. query' \in Query(Len(log))
      BY <2>4, <3>1, <3>2 DEF NewQuery, Query
    <3> QED
      BY <2>3, <3>3
  <2>5. CASE query' = [query EXCEPT !.load = NextPage(@)]
    <3>1. PICK r : r = NextPage(query.load)
      OBVIOUS
    <3>2. r \in Run(Len(log))
      BY <1>3, <3>1, GoesOn
    <3>3. query' \in Query(Len(log))
      BY <1>3, <2>5, <3>1, <3>2 DEF Query
    <3> QED
      BY <2>3, <3>3
  <2> QED
    BY <1>5, <2>4, <2>5 DEF LoadApply
<1>6. CASE LoadFail
  <2>1. PICK r, z : r = NewSync(0, Infinity) /\ z = NoSync
    OBVIOUS
  <2>2. r \in Run(Len(log)) /\ z \in Run(Len(log))
    BY <1>3, <2>1, FirstRuns, StreamAssumption DEF NoSync, Infinity
  <2>3. \/ query' = [query EXCEPT !.load = r, !.tries = @ + 1]
        \/ query' = [query EXCEPT !.load = z, !.tries = 0, !.error = TRUE]
    BY <1>6, <2>1 DEF LoadFail
  <2>4. query' \in Query(Len(log))
    <3>1. CASE query' = [query EXCEPT !.load = r, !.tries = @ + 1]
      <4>1. PICK k : k = query.tries + 1
        OBVIOUS
      <4>2. k \in Nat
        BY <1>3, <4>1 DEF Query
      <4>3. query' = [query EXCEPT !.load = r, !.tries = k]
        BY <3>1, <4>1
      <4> QED
        BY <1>3, <2>2, <4>2, <4>3 DEF Query
    <3>2. CASE query' = [query EXCEPT !.load = z, !.tries = 0, !.error = TRUE]
      <4>1. PICK yes \in BOOLEAN : yes = TRUE
        BY Zenon
      <4>2. query' = [query EXCEPT !.load = z, !.tries = 0, !.error = yes]
        BY <3>2, <4>1, Zenon
      <4> QED
        BY <1>3, <2>2, <4>2 DEF Query
    <3> QED
      BY <2>3, <3>1, <3>2
  <2>5. Shown'
    BY <1>1, <1>6, ShownStays, RowsStay DEF LoadFail, Inv
  <2> QED
    BY <2>4, <2>5
<1> QED
  BY <1>4, <1>5, <1>6

\* The steps of the other runs of syncTaskEvents.
LEMMA SyncKeeps ==
    ASSUME Inv, NEW s \in syncs, SyncRead(s) \/ SyncApply(s) \/ SyncFail(s)
    PROVE  Inv'
<1>1. /\ log' = log /\ serverVars' = serverVars /\ hubVars' = hubVars /\ commands' = commands /\ wire' = wire
      /\ page' = page /\ sock' = sock /\ (scene' = scene \/ \E what : Spend(what))
  BY Zenon DEF SyncRead, SyncApply, SyncFail, serverVars
<1>2. Server' /\ Link'
  BY <1>1, ServerStays, LinkStays DEF Inv, Link, hubVars
<1> DEFINE Others == [gap : BOOLEAN, run : Run(Len(log))]
<1>3. Len(log) \in Nat /\ query \in Query(Len(log)) /\ syncs \subseteq Others /\ s \in Others
  BY DEF Inv, Server, Tab
<1>a. skipped' \subseteq 1..Len(log)
  <2>1. Holes(view, query') \subseteq 1..Len(log)
    BY HolesAreRows DEF Inv, Shown
  <2>2. skipped \subseteq 1..Len(log)
    BY DEF Inv, Tab
  <2> QED
    BY <2>1, <2>2, Zenon DEF SyncRead, SyncApply, SyncFail
<1> SUFFICES Shown' /\ query' \in Query(Len(log)) /\ syncs' \subseteq Others
  BY <1>1, <1>2, <1>a DEF Inv, Tab
<1>4. s.run \in Run(Len(log))
  BY <1>3
<1>5. CASE SyncRead(s)
  <2>1. PICK r : r = Fetched(s.run)
    OBVIOUS
  <2>2. r \in Run(Len(log))
    BY <1>3, <1>4, <2>1, Fetches
  <2>3. [s EXCEPT !.run = r] \in Others
    BY <1>3, <2>2
  <2>4. syncs' = (syncs \ {s}) \cup {[s EXCEPT !.run = r]} /\ query' = query /\ view' = view
    BY <1>5, <2>1 DEF SyncRead
  <2>5. Shown'
    BY <1>1, <2>4, ShownStays, RowsStay DEF Inv
  <2> QED
    BY <1>3, <2>3, <2>4, <2>5
<1>6. CASE SyncApply(s)
  <2>1. PICK items : items = s.run.page.items
    OBVIOUS
  <2>2. items \in Seq(1..Len(log))
    BY <1>4, <2>1 DEF Run
  <2>3. Shown'
    BY <1>1, <1>6, <2>1, <2>2, ShownStored DEF SyncApply, Inv
  <2>4. PICK r : r = NextPage(s.run)
    OBVIOUS
  <2>5. r \in Run(Len(log))
    BY <1>3, <1>4, <2>4, GoesOn
  <2>6. [s EXCEPT !.run = r] \in Others
    BY <1>3, <2>5
  <2>7. query' = query /\ \/ syncs' = syncs \ {s}
                          \/ syncs' = (syncs \ {s}) \cup {[s EXCEPT !.run = r]}
    BY <1>6, <2>4 DEF SyncApply
  <2> QED
    BY <1>3, <2>3, <2>6, <2>7
<1>7. CASE SyncFail(s)
  <2>1. PICK rest : rest = syncs \ {s}
    OBVIOUS
  <2>2. rest \subseteq Others
    BY <1>3, <2>1
  <2>3. Invalidate(rest) \/ (syncs' = rest /\ query' = query)
    BY <1>7, <2>1 DEF SyncFail
  <2>4. query' \in Query(Len(log)) /\ syncs' \subseteq Others
    BY <1>3, <2>2, <2>3, Invalidates
  <2>5. Shown'
    BY <1>1, <1>7, ShownStays, RowsStay DEF SyncFail, Inv
  <2> QED
    BY <2>4, <2>5
<1> QED
  BY <1>5, <1>6, <1>7

(***************************************************************************)
(* The store is sorted and what it derives is current.                     *)
(***************************************************************************)

\* Nothing is there in the beginning.
LEMMA InitInv ==
    ASSUME Init
    PROVE  Inv
<1>1. log = <<>> /\ Len(log) = 0
  BY NothingYet DEF Init
<1>2. Server
  <2>1. IsScene(scene)
    BY StreamAssumption DEF Init
  <2>2. log \in Seq(scene.bodies)
    BY <1>1, NothingYet
  <2> QED
    BY <2>1, <2>2 DEF Server, Init
<1>3. Link
  <2>1. Queued(Len(log))
    <3>1. chan \in Seq(1..Len(log)) /\ Len(chan) <= Capacity
      BY NothingYet, StreamAssumption DEF Init
    <3>2. tasks \in BOOLEAN /\ refused \in BOOLEAN /\ hub = "none"
      BY Zenon DEF Init
    <3> QED
      BY <3>1, <3>2 DEF Queued
  <2>2. Replaying(Len(log))
    BY <1>1 DEF Init, Replaying, NoReplay
  <2>3. Asked(Len(log))
    BY NothingYet DEF Init, Asked
  <2>4. Sent(Len(log))
    BY NothingYet, StreamAssumption DEF Init, Sent
  <2> QED
    BY <2>1, <2>2, <2>3, <2>4 DEF Link
<1>4. Tab
  <2>1. PICK z : z = NoSync
    OBVIOUS
  <2>2. z \in Run(Len(log))
    BY <1>1, <2>1, FirstRuns DEF NoSync
  <2>3. query = [data |-> FALSE, invalid |-> FALSE, error |-> FALSE, load |-> z, tries |-> 0]
    BY <2>1 DEF Init, NewQuery
  <2>4. query \in Query(Len(log))
    BY <2>2, <2>3 DEF Query
  <2> QED
    BY <2>4 DEF Init, Tab
<1>5. Shown
  <2>1. view = [events |-> <<>>, lastSeq |-> 0, derived |-> emptyDerived]
    BY DEF Init, emptyTaskEvents
  <2>2. view.events = <<>> /\ view.lastSeq = 0 /\ view.derived = emptyDerived
    BY <2>1
  <2>3. <<>> \in Seq(EventRow) /\ Len(<<>>) = 0 /\ 1..0 = {}
    BY NothingYet
  <2>4. view \in Task
    BY <2>1, <2>3, EmptyDerivedType DEF Task
  <2>5. Orderly(view, Rows)
    BY <2>2, <2>3, <2>4 DEF Orderly, Sorted
  <2> QED
    BY <2>2, <2>5, DerivedOfNothing DEF Shown
<1> QED
  BY <1>2, <1>3, <1>4, <1>5 DEF Inv

\* Nothing happens.
LEMMA StutterKeeps ==
    ASSUME Inv, UNCHANGED vars
    PROVE  Inv'
<1>1. Server' /\ Link' /\ Tab' /\ Shown'
  BY ServerStays, LinkStays, TabStays, ShownStays, RowsStay DEF Inv, Link, vars, serverVars, hubVars, tabVars
<1> QED
  BY <1>1 DEF Inv

\* Every step keeps the invariant.
LEMMA NextInv ==
    ASSUME Inv, [Next]_vars
    PROVE  Inv'
<1>1. ASSUME NEW b \in Batches, Emit(b)
      PROVE  Inv'
  BY <1>1, EmitKeeps
<1>2. CASE Work
  BY <1>2, PublishKeeps, HubKeeps, EndKeeps, OpenKeeps, ReceiveKeeps, LoadKeeps, SyncKeeps DEF Work
<1>3. CASE Disturbance
  BY <1>3, EndKeeps, LoadKeeps, SyncKeeps DEF Disturbance
<1>4. CASE User
  BY <1>4, UserKeeps
<1>5. CASE Quiet \/ UNCHANGED vars
  BY <1>5, StutterKeeps DEF Quiet
<1> QED
  BY <1>1, <1>2, <1>3, <1>4, <1>5 DEF Next

\* The invariant holds in every state.
LEMMA Invariant == Spec => []Inv
<1>1. Init => Inv
  BY InitInv
<1>2. Inv /\ [Next]_vars => Inv'
  BY NextInv
<1> QED
  BY <1>1, <1>2, PTL DEF Spec

\* The invariant is what TimelineSorted says of the store.
LEMMA InvSorted ==
    ASSUME Inv
    PROVE  TimelineSorted
<1> DEFINE n == Len(log)
           e == view.events
<1>1. n \in Nat /\ view.lastSeq \in 0..n
  BY LastIsRow DEF Inv, Server
<1>2. TypeOK
  <2>1. /\ log \in Seq(scene.bodies) /\ unsent \subseteq 1..n /\ IsScene(scene) /\ after \subseteq Seq(1..n)
    BY DEF Inv, Server
  <2>2. /\ hub \in {"none", "accepted", "serving", "overflow"} /\ tasks \in BOOLEAN /\ refused \in BOOLEAN
        /\ chan \in Seq(1..n) /\ Len(chan) <= Capacity
    BY Zenon DEF Inv, Link, Queued
  <2>3. replay \in [after : 0..n, upto : 0..n] /\ commands \in Seq(Command)
    BY DEF Inv, Link, Replaying, Asked
  <2>4. wire \in Seq(1..n) /\ Len(wire) <= WireCapacity
    BY DEF Inv, Link, Sent
  <2>5. page \in {"on", "off"} /\ sock \in {"new", "open", "closed"}
    BY DEF Inv, Tab
  <2>6. Run(n) \subseteq Sync
    <3>1. ASSUME NEW s \in Seq(1..n)
          PROVE  s \in Seq(Nat)
      <4>1. \A i \in 1..Len(s) : s[i] \in Nat
        BY <1>1
      <4> QED
        BY <4>1
    <3>2. 0..n \subseteq Nat
      BY <1>1
    <3> HIDE DEF n
    <3> QED
      BY <3>1, <3>2 DEF Run, Sync
  <2>7. /\ query \in [data : BOOLEAN, invalid : BOOLEAN, error : BOOLEAN, load : Sync, tries : Nat]
    BY <2>6 DEF Inv, Tab, Query
  <2>8. syncs \subseteq [gap : BOOLEAN, run : Sync] /\ skipped \subseteq 1..n
    BY <2>6 DEF Inv, Tab
  <2>9. view.derived \in Derived
    BY DEF Inv, Shown, Orderly, Task
  <2> QED
    BY <1>1, <2>1, <2>2, <2>3, <2>4, <2>5, <2>7, <2>8, <2>9, Zenon DEF TypeOK
<1>3. e \in Seq(EventRow) /\ DOMAIN e = 1..Len(e) /\ Orderly(view, Rows)
  BY DEF Inv, Shown, Orderly, Task
<1>4. \A i, j \in DOMAIN e : i < j => e[i].seq < e[j].seq
  BY <1>3 DEF Orderly, Sorted
<1>5. view.lastSeq = Max({0} \cup Seqs(e))
  <2>1. \A x \in {0} \cup Seqs(e) : x \in Nat /\ x <= view.lastSeq
    <3>1. ASSUME NEW i \in 1..Len(e)
          PROVE  e[i].seq \in Nat /\ e[i].seq <= view.lastSeq
      <4>1. e[i] \in EventRow
        BY <1>3
      <4> QED
        BY <1>3, <4>1 DEF Orderly, EventRow
    <3> QED
      BY <1>1, <1>3, <3>1 DEF Seqs
  <2>2. view.lastSeq \in {0} \cup Seqs(e)
    <3>1. ASSUME NEW i \in 1..Len(e), e[i].seq = view.lastSeq
          PROVE  view.lastSeq \in Seqs(e)
      BY <1>3, <3>1 DEF Seqs
    <3> QED
      BY <1>3, <3>1 DEF Orderly
  <2>3. PICK S, l : S = {0} \cup Seqs(e) /\ l = view.lastSeq
    OBVIOUS
  <2>4. l \in S /\ \A x \in S : x \in Nat /\ x <= l
    BY <2>1, <2>2, <2>3
  <2>5. Max(S) \in S /\ \A y \in S : Max(S) >= y
    BY <2>4 DEF Max
  <2>6. l = Max(S)
    BY <2>4, <2>5
  <2> QED
    BY <2>3, <2>6
<1>6. \A i \in DOMAIN e : e[i] = Event(e[i].seq)
  <2>1. ASSUME NEW i \in 1..Len(e)
        PROVE  e[i] = Event(e[i].seq)
    <3>1. PICK k \in 1..n : e[i] = Event(k)
      BY <1>3 DEF Orderly, Rows
    <3>2. Event(k).seq = k
      BY RowsAreEvents DEF Inv
    <3> QED
      BY <3>1, <3>2, Zenon
  <2> QED
    BY <1>3, <2>1
<1> QED
  BY <1>2, <1>4, <1>5, <1>6, Zenon DEF TimelineSorted

\* Whatever mix of live events, replays, pages and abandoned loads insertSorted and
\* appendMany are given, and however long the task's log, the store never shows an event
\* twice, out of order, or past the last number.
THEOREM StoreIsSorted == Spec => []TimelineSorted
<1>1. Inv => TimelineSorted
  BY InvSorted
<1> QED
  BY <1>1, Invariant, PTL

\* What applyDerived derives step by step, with rebuildDerived after events from the past,
\* is in every state what the sorted events stand for.
THEOREM ActivityIsCurrent == Spec => []ActivityCurrent
<1>1. Inv => ActivityCurrent
  BY DEF Inv, Shown, ActivityCurrent
<1> QED
  BY <1>1, Invariant, PTL

(***************************************************************************)
(* A page that stays misses nothing: the invariant.                        *)
(***************************************************************************)

\* The page is never left.
Staying == scene.bounds.leaves = 0

\* No acknowledgement of a commit is lost.
Acknowledging == scene.bounds.lostAcks = 0

\* Nothing has reached a page that was never opened.
Absent ==
    page = "off" =>
        /\ view = emptyTaskEvents /\ wire = <<>> /\ replay = NoReplay /\ commands = <<>> /\ tasks = FALSE
        /\ refused = FALSE /\ syncs = {} /\ ~Loading(query) /\ ~query.data /\ ~query.error

\* An open connection has its subscription before it or behind it, or it was refused.
Subscribed ==
    /\ page = "on" /\ sock = "open" /\ hub # "none" =>
          \/ /\ commands # <<>> /\ Len(commands) = 1 /\ commands[1].op = "subscribe"
             /\ tasks = FALSE /\ replay = NoReplay /\ refused = FALSE
          \/ commands = <<>> /\ (tasks = TRUE \/ refused = TRUE)
    /\ tasks = TRUE => hub \in {"serving", "overflow"}
    /\ hub = "none" => commands = <<>> /\ tasks = FALSE /\ replay = NoReplay /\ refused = FALSE
    /\ sock # "open" => hub = "none"

\* A load goes on to the end.
Unending == Loading(query) => query.load.through = Infinity

\* The page shows event n.
Shows(n) == n \in Seqs(view.events)

\* Before the first connection, only the load fills the store, from the front.
Filling ==
    sock = "new" =>
        /\ wire = <<>> /\ syncs = {}
        /\ query.data => ~Loading(query) /\ ~query.error
        /\ \A n \in 1..view.lastSeq : Shows(n)
        /\ query.load.after <= view.lastSeq
        /\ \A i \in 1..Len(query.load.page.items) : query.load.page.items[i] = query.load.after + i
        /\ query.load.page.next \in {0, query.load.after + Len(query.load.page.items)}

\* Event n is on its way from a transaction to the tab.
Passing(n) ==
    \/ \E p \in after : n \in Range(p)
    \/ n \in Range(chan) \/ n \in Range(wire)
    \/ replay.after < n /\ n <= replay.upto

\* Event n will be replayed by the subscription to come, or is on its way.
Live(n) == IF commands # <<>> THEN commands[1].from < n ELSE Passing(n)

\* The query's load brings event n.
Loads(n) == Loading(query) /\ Brings(query.load, n)

\* The page is connected, and its subscription was not refused.
Ready == page = "on" /\ sock = "open" /\ hub \in {"accepted", "serving"} /\ ~refused

\* The page shows no error, or is about to load again.
Sound == ~query.error \/ Loading(query)

\* A page that is connected and shows no error has every published event that it did not
\* skip or will get it, live or from its load: it does not depend on the detection of gaps.
Fresh ==
    Ready /\ Sound =>
        \A n \in (1..Len(log)) \ (unsent \cup skipped) : Shows(n) \/ Live(n) \/ Loads(n)

\* The page stays and the events are within their bound.
Bounded == Staying /\ Len(log) <= MaxEvents

\* The inductive invariant of a page that stays.
Steady == Inv /\ Bounded /\ Absent /\ Subscribed /\ Unending /\ Filling /\ Fresh

\* What the store takes in is shown, and what was shown still is.
LEMMA ShowsMore ==
    ASSUME Inv, NEW seqs \in Seq(1..Len(log)), view' = Stored(seqs), log' = log
    PROVE  /\ \A n : Shows(n) => Shows(n)'
           /\ \A n \in Range(seqs) : Shows(n)'
<1>1. StoredWith(view', view, Rows, Bodies(seqs))
  BY StoresRows DEF Inv
<1>2. PICK e, f : e = view.events /\ f = view'.events
  OBVIOUS
<1>3. e \in Seq(EventRow) /\ f \in Seq(EventRow)
  <2>1. Orderly(view, Rows) /\ Orderly(view', Rows)
    BY <1>1 DEF Inv, Shown, StoredWith
  <2> QED
    BY <1>2, <2>1 DEF Orderly, Task
<1>4. DOMAIN e = 1..Len(e) /\ DOMAIN f = 1..Len(f) /\ DOMAIN seqs = 1..Len(seqs)
  BY <1>3
<1>5. /\ \A n : Shows(n) <=> \E i \in 1..Len(e) : n = e[i].seq
      /\ \A n : Shows(n)' <=> \E i \in 1..Len(f) : n = f[i].seq
  BY <1>2, <1>4 DEF Shows, Seqs
<1>6. ASSUME NEW n, Shows(n)
      PROVE  Shows(n)'
  <2>1. PICK i \in 1..Len(e) : n = e[i].seq
    BY <1>5, <1>6
  <2>2. PICK k \in 1..Len(f) : f[k] = e[i]
    BY <1>1, <1>2 DEF StoredWith
  <2> QED
    BY <1>5, <2>1, <2>2
<1>7. ASSUME NEW n \in Range(seqs)
      PROVE  Shows(n)'
  <2>1. PICK j \in 1..Len(seqs) : n = seqs[j]
    BY <1>4 DEF Range
  <2>2. n \in 1..Len(log)
    BY <2>1
  <2>3. PICK m : m = Bodies(seqs)
    OBVIOUS
  <2>4. m = [i \in 1..Len(seqs) |-> Event(seqs[i])]
    BY <1>4, <2>3 DEF Bodies
  <2>5. m[j] = Event(n)
    BY <2>1, <2>4
  <2>6. m[j].seq = n
    BY <2>2, <2>5, RowsAreEvents DEF Inv
  <2>7. Len(m) = Len(seqs)
    <3>1. Len(seqs) \in Nat
      OBVIOUS
    <3> QED
      BY <2>4, <3>1
  <2>8. \E k \in 1..Len(f) : f[k].seq = m[j].seq
    BY <1>1, <1>2, <2>3, <2>7 DEF StoredWith
  <2> QED
    BY <1>5, <2>6, <2>8
<1> QED
  BY <1>6, <1>7

\* The load that begins at the front brings every event.
LEMMA BringsAll ==
    ASSUME Inv, Len(log) <= MaxEvents, NEW n \in 1..Len(log)
    PROVE  /\ Brings(NewSync(0, Infinity), n) /\ NewSync(0, Infinity) # NoSync
           /\ NewSync(0, Infinity).through = Infinity /\ NewSync(0, Infinity).after = 0
<1>1. Len(log) \in Nat /\ MaxEvents \in Nat
  BY StreamAssumption DEF Inv, Server
<1>2. n > 0 /\ n <= MaxEvents + 1 /\ MaxEvents + 1 # 0
  BY <1>1
<1>3. PICK s : s = NewSync(0, Infinity)
  OBVIOUS
<1>4. s.after = 0 /\ s.through = MaxEvents + 1 /\ s.page.read = FALSE
  BY <1>3 DEF NewSync, Infinity, NoPage
<1>5. NoSync.through = 0
  BY DEF NoSync, NewSync
<1>6. Brings(s, n)
  BY <1>2, <1>4 DEF Brings
<1> QED
  BY <1>2, <1>3, <1>4, <1>5, <1>6 DEF Infinity

\* The query goes on with its load, or starts it anew.
SameLoad(q, r) == r.load = q.load /\ (r.data <=> q.data) /\ (r.error <=> q.error)

Restarted(q, r) == r.load = NewSync(0, Infinity) /\ (r.data <=> q.data)

\* What StartLoad does.
LEMMA StartRestarts ==
    ASSUME NEW n \in Nat, NEW q \in Query(n)
    PROVE  Restarted(q, StartLoad(q))
<1>1. PICK s, e : s = NewSync(0, Infinity) /\ e = (q.error /\ q.data)
  OBVIOUS
<1>2. StartLoad(q) = [q EXCEPT !.load = s, !.tries = 0, !.error = e]
  BY <1>1, Zenon DEF StartLoad
<1>3. StartLoad(q).load = s /\ StartLoad(q).data = q.data
  BY <1>2 DEF Query
<1> QED
  BY <1>1, <1>3, Zenon DEF Restarted

\* A refetch joins the first load or starts anew.
LEMMA RefetchCases ==
    ASSUME NEW n \in Nat, NEW q \in Query(n)
    PROVE  \/ Refetched(q) = q /\ Loading(q) /\ ~q.data
           \/ Restarted(q, Refetched(q)) /\ ~(Loading(q) /\ ~q.data)
BY StartRestarts, Zenon DEF Refetched

\* So does an invalidation while the page is there; otherwise the query is only marked.
LEMMA InvalidateCases ==
    ASSUME NEW n \in Nat, query \in Query(n), NEW others, Invalidate(others)
    PROVE  \/ /\ SameLoad(query, query') /\ syncs' = others
              /\ page = "on" => Loading(query) /\ ~query.data
           \/ page = "on" /\ Restarted(query, query')
<1>1. PICK q : q = [query EXCEPT !.invalid = TRUE]
  OBVIOUS
<1>2. q \in Query(n) /\ q.load = query.load /\ q.data = query.data /\ q.error = query.error
  BY <1>1 DEF Query
<1>3. CASE page = "on"
  <2>1. query' = Refetched(q) /\ syncs' = others \cup Abandoned(q)
    BY <1>1, <1>3 DEF Invalidate
  <2>2. CASE Refetched(q) = q /\ Loading(q) /\ ~q.data
    <3>1. Abandoned(q) = {}
      BY <2>2 DEF Abandoned
    <3>2. SameLoad(query, query') /\ Loading(query) /\ ~query.data
      BY <1>2, <2>1, <2>2, Zenon DEF SameLoad, Loading
    <3>3. syncs' = others
      BY <2>1, <3>1
    <3> QED
      BY <3>2, <3>3
  <2>3. CASE Restarted(q, Refetched(q))
    BY <1>2, <1>3, <2>1, <2>3, Zenon DEF Restarted
  <2> QED
    BY <1>2, <2>2, <2>3, RefetchCases
<1>4. CASE page # "on"
  <2>1. query' = q /\ syncs' = others
    BY <1>1, <1>4 DEF Invalidate
  <2> QED
    BY <1>2, <1>4, <2>1, Zenon DEF SameLoad
<1> QED
  BY <1>3, <1>4

\* A query without a load has no page to store.
LEMMA NoPageWithoutLoad ==
    ASSUME NEW q, ~Loading(q)
    PROVE  q.load = NoSync /\ ~q.load.page.read /\ q.load.after = 0 /\ q.load.page.items = <<>> /\ q.load.page.next = 0
BY DEF Loading, NoSync, NewSync, NoPage

\* A load that was started is a load.
LEMMA RestartLoads ==
    ASSUME NEW q, NEW r, Restarted(q, r)
    PROVE  /\ Loading(r) /\ r.load.through = Infinity /\ r.load.after = 0 /\ ~r.load.page.read
           /\ r.load.page.items = <<>> /\ r.load.page.next = 0
<1>1. PICK s : s = NewSync(0, Infinity)
  OBVIOUS
<1>2. /\ s.after = 0 /\ s.through = MaxEvents + 1 /\ s.page.read = FALSE
      /\ s.page.items = <<>> /\ s.page.next = 0
  BY <1>1 DEF NewSync, Infinity, NoPage
<1>3. NoSync.through = 0 /\ MaxEvents + 1 # 0
  BY StreamAssumption DEF NoSync, NewSync
<1>4. s # NoSync /\ r.load = s
  BY <1>1, <1>2, <1>3 DEF Restarted
<1> QED
  BY <1>2, <1>4 DEF Loading, Infinity

\* No disturbance that is not to come any more happens.
LEMMA SpendLeaves ==
    ASSUME Inv, Bounded, NEW what, Spend(what)
    PROVE  what # "leaves" /\ Staying'
<1>1. PICK b : b = scene.bounds
  OBVIOUS
<1>2. b \in Disturbances /\ b.leaves = 0 /\ b[what] > 0
  BY <1>1 DEF Inv, Server, IsScene, Bounded, Staying, Spend
<1>3. what # "leaves"
  BY <1>2
<1>4. PICK c : c = [b EXCEPT ![what] = @ - 1]
  OBVIOUS
<1>5. c.leaves = 0
  BY <1>2, <1>3, <1>4 DEF Disturbances
<1>6. scene' = [scene EXCEPT !.bounds = c]
  BY <1>1, <1>4 DEF Spend
<1>7. scene'.bounds = c
  BY <1>6 DEF Inv, Server, IsScene
<1> QED
  BY <1>3, <1>5, <1>7, Zenon DEF Staying

\* Only a commit changes what was published or not; every other step leaves the events
\* alone.
LEMMA OnlyEmitCommits ==
    ASSUME [Next]_vars, ~(\E b \in Batches : Emit(b))
    PROVE  log' = log /\ unsent' = unsent /\ (scene' = scene \/ \E what : Spend(what))
<1>1. CASE Work
  BY <1>1, Zenon DEF Work, Publish, HubSubscribe, HubEvent, HubCommand, HubReplay, HubEnd, Open, Receive,
                     Close, SocketGone, LoadRead, LoadApply, SyncRead, SyncApply, serverVars
<1>2. CASE Disturbance
  BY <1>2, Zenon DEF Disturbance, HubBreak, ServerCrash, GiveUp, SocketGone, LoadFail, SyncFail, serverVars
<1>3. CASE User
  BY <1>3, Zenon DEF User, Mount, Unmount, UserRetry, serverVars
<1>4. CASE Quiet \/ UNCHANGED vars
  BY <1>4 DEF Quiet, vars, serverVars
<1> QED
  BY <1>1, <1>2, <1>3, <1>4 DEF Next

\* The page stays, and what is committed is published or its acknowledgement is lost.
LEMMA BoundedStays ==
    ASSUME Inv, Bounded, [Next]_vars
    PROVE  Bounded' /\ ~Unmount
<1>1. ~Unmount
  BY SpendLeaves DEF Unmount
<1>2. ASSUME NEW b \in Batches, Emit(b)
      PROVE  Len(log') <= MaxEvents /\ (scene' = scene \/ \E what : Spend(what))
  <2>1. Len(log') = Len(log) + Len(b)
    <3>1. b \in Seq(scene.bodies)
      <4>1. PICK k \in 1..scene.txEvents : b \in [1..k -> scene.bodies]
        BY DEF Batches
      <4>2. k \in Nat
        BY DEF Inv, Server, IsScene
      <4> QED
        BY <4>1, <4>2
    <3>2. log \in Seq(scene.bodies) /\ log' = log \o b
      BY <1>2 DEF Inv, Server, Emit
    <3> QED
      BY <3>1, <3>2, Behind, Zenon
  <2>2. Len(log') <= scene.events
    BY <1>2, <2>1, Zenon DEF Emit
  <2>3. Len(log') <= MaxEvents
    <3>1. scene.events \in 0..MaxEvents /\ MaxEvents \in Nat
      BY StreamAssumption DEF Inv, Server, IsScene
    <3>2. Len(log') \in Nat
      BY <1>2, EmitKeeps DEF Inv, Server
    <3> QED
      BY <2>2, <3>1, <3>2
  <2> QED
    BY <1>2, <2>3, Zenon DEF Emit
<1>3. Len(log') <= MaxEvents /\ (scene' = scene \/ \E what : Spend(what))
  BY <1>2, OnlyEmitCommits, Zenon DEF Bounded
<1>4. Staying'
  BY <1>3, SpendLeaves DEF Bounded, Staying
<1> QED
  BY <1>1, <1>3, <1>4 DEF Bounded

(***************************************************************************)
(* What comes before freshness: the page, its subscription, its load.      *)
(***************************************************************************)

\* Nothing reaches a page before it is opened.
LEMMA AbsentStays ==
    ASSUME Inv, Bounded, Absent, [Next]_vars
    PROVE  Absent'
<1> SUFFICES ASSUME page' = "off"
             PROVE  Absent'
  BY DEF Absent
<1>1. page = "off" /\ page' = page
  BY BoundedStays, Zenon
     DEF Next, Work, Disturbance, User, Quiet, vars, tabVars, Emit, Publish, HubSubscribe, HubEvent, HubCommand,
         HubReplay, HubEnd, HubBreak, ServerCrash, Mount, UserRetry, Open, Receive, Close, GiveUp, SocketGone,
         LoadRead, LoadApply, LoadFail, SyncRead, SyncApply, SyncFail
<1>2. /\ view = emptyTaskEvents /\ wire = <<>> /\ replay = NoReplay /\ commands = <<>> /\ tasks = FALSE
      /\ refused = FALSE /\ syncs = {} /\ ~Loading(query) /\ ~query.data /\ ~query.error /\ ~query.load.page.read
  BY <1>1, NoPageWithoutLoad DEF Absent
<1>3. /\ view' = view /\ wire' = wire /\ replay' = replay /\ commands' = commands /\ tasks' = FALSE
      /\ refused' = FALSE /\ syncs' = syncs
      /\ query' = query \/ SameLoad(query, query')
  <2>1. CASE \E b \in Batches : Emit(b)
    BY <1>2, <2>1, Zenon DEF Emit, hubVars, tabVars
  <2>2. CASE Work
    <3>1. CASE \E p \in after : Publish(p)
      BY <1>2, <3>1, Zenon DEF Publish, tabVars
    <3>2. CASE HubSubscribe \/ HubEvent
      <4>1. wire' = wire
        BY <1>2, <3>2 DEF HubSubscribe, HubEvent
      <4> QED
        BY <1>2, <3>2, <4>1, Zenon DEF HubSubscribe, HubEvent, tabVars
    <3>3. CASE HubCommand \/ HubReplay \/ Receive \/ LoadRead \/ LoadApply \/ \E s \in syncs : SyncRead(s) \/ SyncApply(s)
      BY <1>2, <3>3, Zenon DEF HubCommand, HubReplay, Receive, LoadRead, LoadApply
    <3>4. CASE HubEnd
      BY <1>2, <3>4, Zenon DEF HubEnd, HubGone, tabVars
    <3>5. CASE Close
      BY <1>2, <3>5, Zenon DEF Close, SocketGone, HubGone
    <3>6. CASE Open
      <4>1. commands' = <<>> /\ view' = view /\ wire' = wire /\ replay' = replay /\ tasks' = tasks /\ refused' = refused /\ Invalidate(syncs)
        BY <1>1, <3>6 DEF Open, OpenQuery
      <4>2. Len(log) \in Nat /\ query \in Query(Len(log))
        BY DEF Inv, Server, Tab
      <4>3. SameLoad(query, query') /\ syncs' = syncs
        BY <1>1, <4>1, <4>2, InvalidateCases
      <4> QED
        BY <1>2, <4>1, <4>3, Zenon
    <3> QED
      BY <2>2, <3>1, <3>2, <3>3, <3>4, <3>5, <3>6 DEF Work
  <2>3. CASE Disturbance
    <3>1. CASE HubBreak
      BY <1>2, <3>1, Zenon DEF HubBreak, HubGone, tabVars
    <3>2. CASE ServerCrash
      BY <1>2, <3>2, Zenon DEF ServerCrash, HubGone, tabVars
    <3>3. CASE GiveUp
      BY <1>2, <3>3, Zenon DEF GiveUp, SocketGone, HubGone
    <3>4. CASE LoadFail \/ \E s \in syncs : SyncFail(s)
      BY <1>2, <3>4, Zenon DEF LoadFail
    <3> QED
      BY <2>3, <3>1, <3>2, <3>3, <3>4 DEF Disturbance
  <2>4. CASE User
    BY <1>1, <2>4, BoundedStays DEF User, Mount, UserRetry
  <2>5. CASE Quiet \/ UNCHANGED vars
    BY <1>2, <2>5, Zenon DEF Quiet, vars, hubVars, tabVars
  <2> QED
    BY <2>1, <2>2, <2>3, <2>4, <2>5 DEF Next
<1>4. ~Loading(query') /\ ~query'.data /\ ~query'.error
  BY <1>2, <1>3, Zenon DEF SameLoad, Loading
<1> QED
  BY <1>2, <1>3, <1>4, Zenon DEF Absent

\* A load is never cut short.
LEMMA UnendingStays ==
    ASSUME Inv, Bounded, Absent, Unending, [Next]_vars
    PROVE  Unending'
<1>1. Len(log) \in Nat /\ query \in Query(Len(log)) /\ query.load \in Run(Len(log))
  BY DEF Inv, Server, Tab, Query
<1>2. \/ query' = query \/ SameLoad(query, query') \/ Restarted(query, query')
      \/ LoadRead \/ LoadApply \/ LoadFail
  <2>1. CASE \E b \in Batches : Emit(b)
    BY <2>1, Zenon DEF Emit, tabVars
  <2>2. CASE Work
    <3>1. CASE Open
      BY <1>1, <3>1, InvalidateCases, Zenon DEF Open, OpenQuery
    <3> QED
      BY <2>2, <3>1, Zenon DEF Work, Publish, HubSubscribe, HubEvent, HubCommand, HubReplay, HubEnd, Receive,
                         Close, SocketGone, SyncRead, SyncApply, tabVars
  <2>3. CASE Disturbance
    <3>1. ASSUME NEW s \in syncs, SyncFail(s)
          PROVE  query' = query \/ SameLoad(query, query') \/ Restarted(query, query')
      <4>1. Invalidate(syncs \ {s}) \/ query' = query
        BY <3>1 DEF SyncFail
      <4> QED
        BY <1>1, <4>1, InvalidateCases, Zenon
    <3> QED
      BY <2>3, <3>1, Zenon DEF Disturbance, HubBreak, ServerCrash, GiveUp, SocketGone, tabVars
  <2>4. CASE User
    <3>1. CASE Mount
      BY <1>1, <3>1, StartRestarts, Zenon DEF Mount
    <3>2. CASE UserRetry
      BY <1>1, <3>2, RefetchCases, Zenon DEF UserRetry
    <3> QED
      BY <2>4, <3>1, <3>2, BoundedStays DEF User
  <2>5. CASE Quiet \/ UNCHANGED vars
    BY <2>5, Zenon DEF Quiet, vars, tabVars
  <2> QED
    BY <2>1, <2>2, <2>3, <2>4, <2>5 DEF Next
<1>3. CASE query' = query
  BY <1>3 DEF Unending
<1>4. CASE SameLoad(query, query')
  BY <1>4 DEF Unending, SameLoad, Loading
<1>5. CASE Restarted(query, query')
  BY <1>5, RestartLoads DEF Unending
<1>6. CASE LoadRead
  <2>1. PICK r : r = Fetched(query.load)
    OBVIOUS
  <2>2. r.through = query.load.through
    BY <1>1, <2>1 DEF Fetched, Run
  <2>3. query' = [query EXCEPT !.load = r]
    BY <1>6, <2>1 DEF LoadRead
  <2>4. query'.load = r
    BY <1>1, <2>3 DEF Query
  <2> QED
    BY <1>6, <2>2, <2>4 DEF Unending, LoadRead
<1>7. CASE LoadApply
  <2>1. Loading(query)
    BY <1>7, NoPageWithoutLoad DEF LoadApply
  <2>2. CASE query' = [NewQuery EXCEPT !.data = TRUE]
    <3>1. query'.load = NoSync
      BY <2>2 DEF NewQuery
    <3> QED
      BY <3>1 DEF Unending, Loading
  <2>3. CASE query' = [query EXCEPT !.load = NextPage(@)]
    <3>1. query'.load = NextPage(query.load)
      BY <1>1, <2>3 DEF Query
    <3>2. NextPage(query.load).through = query.load.through
      BY <1>1 DEF NextPage, Run
    <3> QED
      BY <2>1, <3>1, <3>2 DEF Unending
  <2> QED
    BY <1>7, <2>2, <2>3 DEF LoadApply
<1>8. CASE LoadFail
  <2>1. PICK s : s = NewSync(0, Infinity)
    OBVIOUS
  <2>2. s.through = Infinity
    BY <2>1 DEF NewSync
  <2>3. \/ query' = [query EXCEPT !.load = s, !.tries = @ + 1]
        \/ query' = [query EXCEPT !.load = NoSync, !.tries = 0, !.error = TRUE]
    BY <1>8, <2>1 DEF LoadFail
  <2>4. query'.load = s \/ query'.load = NoSync
    BY <1>1, <2>3 DEF Query
  <2> QED
    BY <2>2, <2>4 DEF Unending, Loading
<1> QED
  BY <1>2, <1>3, <1>4, <1>5, <1>6, <1>7, <1>8

\* A connection is subscribed once.
LEMMA SubscribedStays ==
    ASSUME Inv, Bounded, Absent, Subscribed, [Next]_vars
    PROVE  Subscribed'
<1> DEFINE Same == /\ hub' = hub /\ commands' = commands /\ tasks' = tasks /\ replay' = replay
                   /\ refused' = refused /\ page' = page /\ sock' = sock
           Gone == /\ hub' = "none" /\ commands' = <<>> /\ tasks' = FALSE /\ replay' = NoReplay
                   /\ refused' = FALSE /\ page' = page /\ (sock' = sock \/ sock' = "closed")
<1>1. CASE Same
  BY <1>1, Zenon DEF Subscribed
<1>2. CASE Gone
  BY <1>2 DEF Subscribed
<1>3. ASSUME NEW p \in after, Publish(p)
      PROVE  Subscribed'
  <2>1. /\ commands' = commands /\ tasks' = tasks /\ replay' = replay /\ refused' = refused
        /\ page' = page /\ sock' = sock
        /\ hub' = hub \/ (hub = "serving" /\ hub' = "overflow")
    BY <1>3 DEF Publish, Deliver, tabVars
  <2>2. hub' = "none" <=> hub = "none"
    BY <2>1
  <2>3. hub \in {"serving", "overflow"} => hub' \in {"serving", "overflow"}
    BY <2>1
  <2> QED
    BY <2>1, <2>2, <2>3, Zenon DEF Subscribed
<1>4. CASE HubSubscribe
  <2>1. /\ commands' = commands /\ tasks' = tasks /\ replay' = replay /\ refused' = refused
        /\ page' = page /\ sock' = sock
        /\ hub # "none" /\ hub' = "serving" /\ hub' # "none" /\ hub' \in {"serving", "overflow"}
    BY <1>4 DEF HubSubscribe, tabVars
  <2> QED
    BY <2>1, Zenon DEF Subscribed
<1>5. CASE HubEvent
  <2>1. Same
    BY <1>5 DEF HubEvent, tabVars
  <2> QED
    BY <1>1, <2>1
<1>6. CASE HubCommand
  <2>1. Serving /\ hub # "none" /\ commands # <<>> /\ hub' = hub /\ page' = page /\ sock' = sock /\ commands' = Tail(commands)
    BY <1>6 DEF HubCommand, Serving, tabVars
  <2>2. sock = "open" /\ page = "on"
    BY <2>1 DEF Subscribed, Absent, Inv, Tab
  <2>3. Len(commands) = 1 /\ commands[1].op = "subscribe" /\ commands \in Seq(Command)
    BY <2>1, <2>2 DEF Subscribed, Inv, Link, Asked
  <2>4. Head(commands).op = "subscribe" /\ Tail(commands) = <<>>
    BY <2>1, <2>3
  <2>5. tasks' = TRUE \/ refused' = TRUE
    BY <1>6, <2>4, Zenon DEF HubCommand
  <2>6. hub' # "none" /\ hub' \in {"serving", "overflow"}
    BY <2>1 DEF Serving
  <2> QED
    BY <2>1, <2>2, <2>4, <2>5, <2>6 DEF Subscribed
<1>7. CASE HubReplay
  <2>1. Serving /\ hub # "none" /\ replay # NoReplay /\ hub' = hub /\ commands' = commands /\ tasks' = tasks
        /\ refused' = refused /\ page' = page /\ sock' = sock
    BY <1>7 DEF HubReplay, Serving, tabVars
  <2> QED
    BY <2>1, Zenon DEF Subscribed
<1>8. CASE Open
  <2>1. /\ sock # "open" /\ sock' = "open" /\ hub' = "accepted" /\ tasks' = tasks /\ replay' = replay /\ page' = page
        /\ refused' = refused /\ commands' = IF page = "on" THEN <<subscribe(view.lastSeq)>> ELSE <<>>
    BY <1>8 DEF Open
  <2>2. tasks = FALSE /\ replay = NoReplay /\ refused = FALSE
    BY <2>1 DEF Subscribed
  <2>3. PICK c : c = subscribe(view.lastSeq)
    OBVIOUS
  <2>4. c.op = "subscribe" /\ <<c>> # <<>> /\ Len(<<c>>) = 1 /\ <<c>>[1] = c
    BY <2>3 DEF subscribe
  <2>5. tasks' # TRUE
    BY <2>1, <2>2, Zenon
  <2> QED
    BY <2>1, <2>2, <2>3, <2>4, <2>5 DEF Subscribed
<1>9. CASE Mount
  <2>1. /\ page = "off" /\ hub' = hub /\ tasks' = tasks /\ replay' = replay /\ sock' = sock
        /\ refused' = refused /\ commands' = IF sock = "open" /\ hub # "none" THEN Append(commands, subscribe(view.lastSeq)) ELSE commands
    BY <1>9 DEF Mount, Send, hubVars
  <2>2. commands = <<>> /\ tasks = FALSE /\ replay = NoReplay /\ refused = FALSE
    BY <2>1 DEF Absent
  <2>3. PICK c : c = subscribe(view.lastSeq)
    OBVIOUS
  <2>4. c.op = "subscribe" /\ <<c>> # <<>> /\ Len(<<c>>) = 1 /\ <<c>>[1] = c /\ Append(<<>>, c) = <<c>>
    BY <2>3 DEF subscribe
  <2>5. IF sock = "open" /\ hub # "none" THEN commands' = <<c>> ELSE commands' = <<>>
    BY <2>1, <2>2, <2>3, <2>4
  <2>6. tasks' # TRUE
    BY <2>1, <2>2, Zenon
  <2> QED
    BY <2>1, <2>2, <2>4, <2>5, <2>6 DEF Subscribed
<1>10. CASE \E b \in Batches : Emit(b)
  BY <1>1, <1>10, Zenon DEF Emit, hubVars, tabVars
<1>11. CASE HubEnd \/ HubBreak \/ ServerCrash \/ Close \/ GiveUp
  BY <1>2, <1>11, Zenon DEF HubEnd, HubBreak, ServerCrash, Close, GiveUp, SocketGone, HubGone, tabVars
<1>12. CASE Receive \/ LoadRead \/ LoadApply \/ LoadFail \/ UserRetry
            \/ \E s \in syncs : SyncRead(s) \/ SyncApply(s) \/ SyncFail(s)
  BY <1>1, <1>12, Zenon DEF Receive, LoadRead, LoadApply, LoadFail, UserRetry, SyncRead, SyncApply, SyncFail, hubVars
<1>13. CASE Quiet \/ UNCHANGED vars
  BY <1>1, <1>13 DEF Quiet, vars, hubVars, tabVars
<1> HIDE DEF Same, Gone
<1> QED
  BY <1>3, <1>4, <1>5, <1>6, <1>7, <1>8, <1>9, <1>10, <1>11, <1>12, <1>13, BoundedStays
     DEF Next, Work, Disturbance, User

\* A page holds the events behind the cursor, and tells whether there may be more.
PageOf(r, run) ==
    /\ r.after = run.after /\ r.through = run.through /\ r.page.read = TRUE
    /\ r.page.items \in Seq(1..Len(log))
    /\ \A i \in 1..Len(r.page.items) : r.page.items[i] = run.after + i
    /\ r.page.next \in {0, run.after + Len(r.page.items)}
    /\ \A n \in 1..Len(log) : n > run.after => n \in Range(r.page.items) \/ (r.page.next # 0 /\ n > r.page.next)

\* FetchEvents returns such a page.
LEMMA FetchedPage ==
    ASSUME NEW run \in Run(Len(log)), Len(log) \in Nat
    PROVE  PageOf(Fetched(run), run)
<1>1. PICK k : k = Len(log) - run.after
  OBVIOUS
<1>2. k \in Nat /\ run.after + k = Len(log) /\ run.after \in Nat /\ PageSize \in Nat \ {0}
  BY <1>1, StreamAssumption DEF Run
<1>3. PICK m : m = Min({PageSize, k})
  OBVIOUS
<1>4. m \in {PageSize, k} /\ m <= PageSize /\ m <= k
  <2>1. \E x \in {PageSize, k} : \A y \in {PageSize, k} : x <= y
    BY <1>2
  <2> QED
    BY <1>3, <2>1 DEF Min
<1>5. PICK items : items = [i \in 1..m |-> run.after + i]
  OBVIOUS
<1>6. m \in Nat /\ items \in Seq(1..Len(log)) /\ Len(items) = m /\ DOMAIN items = 1..m
  BY <1>2, <1>4, <1>5
<1>7. PICK next : next = IF m = PageSize THEN run.after + m ELSE 0
  OBVIOUS
<1>8. PICK r : r = Fetched(run)
  OBVIOUS
<1>9. PICK p : p = [read |-> TRUE, items |-> items, next |-> next]
  OBVIOUS
<1>10. r = [run EXCEPT !.page = p]
  BY <1>1, <1>3, <1>5, <1>7, <1>8, <1>9, Zenon DEF Fetched
<1>11. r.after = run.after /\ r.through = run.through /\ r.page = p
  BY <1>10 DEF Run
<1>12. p.read = TRUE /\ p.items = items /\ p.next = next
  BY <1>9
<1>13. \A i \in 1..m : items[i] = run.after + i
  BY <1>5
<1>14. ASSUME NEW n \in 1..Len(log), n > run.after
       PROVE  n \in Range(items) \/ (next # 0 /\ n > next)
  <2>1. CASE n <= run.after + m
    <3>1. PICK i \in 1..m : n = run.after + i
      <4>1. n - run.after \in 1..m /\ n = run.after + (n - run.after)
        BY <1>2, <1>6, <1>14, <2>1
      <4> QED
        BY <4>1
    <3> QED
      BY <1>6, <1>13, <3>1 DEF Range
  <2>2. CASE n > run.after + m
    BY <1>2, <1>4, <1>7, <2>2
  <2> QED
    BY <1>2, <1>6, <2>1, <2>2
<1>15. next \in {0, run.after + Len(items)}
  BY <1>6, <1>7
<1> QED
  BY <1>6, <1>8, <1>11, <1>12, <1>13, <1>14, <1>15 DEF PageOf

\* The last number that is shown is shown, and no number behind it is.
LEMMA LastOfTask ==
    ASSUME NEW t, NEW rows, Orderly(t, rows)
    PROVE  /\ t.lastSeq \in Nat /\ (t.lastSeq # 0 => t.lastSeq \in Seqs(t.events))
           /\ \A n \in Seqs(t.events) : n \in Nat /\ n <= t.lastSeq
<1>1. t \in Task
  BY DEF Orderly
<1>2. PICK e : e = t.events
  OBVIOUS
<1>3. e \in Seq(EventRow) /\ t.lastSeq \in Nat /\ DOMAIN e = 1..Len(e)
  BY <1>1, <1>2 DEF Task
<1>4. \A n : n \in Seqs(t.events) <=> \E i \in 1..Len(e) : n = e[i].seq
  BY <1>2, <1>3 DEF Seqs
<1>5. \A i \in 1..Len(e) : e[i].seq \in Nat /\ e[i].seq <= t.lastSeq
  <2>1. \A i \in 1..Len(e) : e[i] \in EventRow
    BY <1>3
  <2> QED
    BY <1>2, <2>1 DEF Orderly, EventRow
<1>6. t.lastSeq # 0 => \E i \in 1..Len(e) : t.lastSeq = e[i].seq
  BY <1>2 DEF Orderly
<1> QED
  BY <1>3, <1>4, <1>5, <1>6

\* So it is for the page.
LEMMA LastShown ==
    ASSUME Shown
    PROVE  /\ view.lastSeq \in Nat /\ (view.lastSeq # 0 => Shows(view.lastSeq))
           /\ \A n : Shows(n) => n \in Nat /\ n <= view.lastSeq
BY LastOfTask DEF Shown, Shows

\* Only what the store takes in is shown besides what was.
LEMMA ShowsNoOther ==
    ASSUME Inv, NEW seqs \in Seq(1..Len(log)), view' = Stored(seqs), NEW x, Shows(x)'
    PROVE  Shows(x) \/ x \in Range(seqs)
<1>1. StoredWith(view', view, Rows, Bodies(seqs))
  BY StoresRows DEF Inv
<1>2. PICK e, f : e = view.events /\ f = view'.events
  OBVIOUS
<1>3. e \in Seq(EventRow) /\ f \in Seq(EventRow)
  <2>1. Orderly(view, Rows) /\ Orderly(view', Rows)
    BY <1>1 DEF Inv, Shown, StoredWith
  <2> QED
    BY <1>2, <2>1 DEF Orderly, Task
<1>4. DOMAIN e = 1..Len(e) /\ DOMAIN f = 1..Len(f) /\ DOMAIN seqs = 1..Len(seqs) /\ Len(seqs) \in Nat
  BY <1>3
<1>5. /\ Shows(x) <=> \E i \in 1..Len(e) : x = e[i].seq
      /\ Shows(x)' <=> \E i \in 1..Len(f) : x = f[i].seq
  BY <1>2, <1>4 DEF Shows, Seqs
<1>6. PICK k \in 1..Len(f) : x = f[k].seq
  BY <1>5
<1>7. PICK m : m = Bodies(seqs)
  OBVIOUS
<1>8. m = [i \in 1..Len(seqs) |-> Event(seqs[i])] /\ Len(m) = Len(seqs)
  BY <1>4, <1>7 DEF Bodies
<1>9. \/ \E j \in 1..Len(m) : f[k] = m[j]
      \/ \E i \in 1..Len(e) : f[k] = e[i]
  BY <1>1, <1>2, <1>7 DEF StoredWith
<1>10. ASSUME NEW j \in 1..Len(m), f[k] = m[j]
       PROVE  x \in Range(seqs)
  <2>1. j \in 1..Len(seqs) /\ seqs[j] \in 1..Len(log)
    BY <1>8
  <2>2. m[j] = Event(seqs[j]) /\ Event(seqs[j]).seq = seqs[j]
    BY <1>8, <2>1, RowsAreEvents DEF Inv
  <2>3. x = seqs[j]
    BY <1>6, <1>10, <2>2
  <2> QED
    BY <1>4, <2>1, <2>3 DEF Range
<1> QED
  BY <1>5, <1>6, <1>9, <1>10

\* Before the first connection the store has no holes.
LEMMA FillingStays ==
    ASSUME Inv, Bounded, Absent, Subscribed, Filling, Inv', [Next]_vars
    PROVE  Filling'
<1> SUFFICES ASSUME sock' = "new" PROVE Filling'
  BY DEF Filling
<1>1. sock = "new"
  <2>1. sock' = sock \/ sock' \in {"open", "closed"}
    BY Zenon DEF Next, Work, Disturbance, User, Quiet, vars, tabVars, Emit, Publish, HubSubscribe, HubEvent, HubCommand,
         HubReplay, HubEnd, HubBreak, ServerCrash, Mount, Unmount, UserRetry, Open, Receive, Close, GiveUp, SocketGone,
         LoadRead, LoadApply, LoadFail, SyncRead, SyncApply, SyncFail
  <2> QED
    BY <2>1
<1>2. /\ hub = "none" /\ wire = <<>> /\ syncs = {}
      /\ query.data => ~Loading(query) /\ ~query.error
      /\ \A n \in 1..view.lastSeq : Shows(n)
      /\ query.load.after <= view.lastSeq
      /\ \A i \in 1..Len(query.load.page.items) : query.load.page.items[i] = query.load.after + i
      /\ query.load.page.next \in {0, query.load.after + Len(query.load.page.items)}
  BY <1>1 DEF Filling, Subscribed
<1>3. Len(log) \in Nat /\ query \in Query(Len(log)) /\ query.load \in Run(Len(log)) /\ view.lastSeq \in Nat
  BY LastShown DEF Inv, Server, Tab, Query
<1> DEFINE Rest == wire' = <<>> /\ syncs' = {} /\ view' = view
<1>4. CASE Rest /\ query' = query
  BY <1>2, <1>4, Zenon DEF Filling, Shows
<1>5. CASE Rest /\ Restarted(query, query') /\ ~query.data
  <2>1. /\ query'.load.after = 0 /\ query'.load.page.items = <<>> /\ query'.load.page.next = 0 /\ ~query'.data
    BY <1>5, RestartLoads DEF Restarted
  <2>2. Len(<<>>) = 0 /\ 1..0 = {} /\ 0 <= view.lastSeq
    BY <1>3, NothingYet
  <2> QED
    BY <1>2, <1>5, <2>1, <2>2, Zenon DEF Filling, Shows
<1>6. CASE Rest /\ ~Loading(query') /\ ~query'.data
  <2>1. query'.load.after = 0 /\ query'.load.page.items = <<>> /\ query'.load.page.next = 0
    BY <1>6, NoPageWithoutLoad
  <2>2. Len(<<>>) = 0 /\ 1..0 = {} /\ 0 <= view.lastSeq
    BY <1>3, NothingYet
  <2> QED
    BY <1>2, <1>6, <2>1, <2>2, Zenon DEF Filling, Shows
<1>7. CASE LoadRead
  <2>1. Loading(query) /\ ~query.data
    BY <1>2, <1>7 DEF LoadRead
  <2>2. PICK r : r = Fetched(query.load)
    OBVIOUS
  <2>3. PageOf(r, query.load)
    BY <1>3, <2>2, FetchedPage
  <2>4. query' = [query EXCEPT !.load = r]
    BY <1>7, <2>2 DEF LoadRead
  <2>5. query'.load = r /\ query'.data = query.data
    BY <1>3, <2>4 DEF Query
  <2>6. Rest
    BY <1>2, <1>7 DEF LoadRead
  <2>7. ~query'.data
    BY <2>1, <2>5, Zenon
  <2>8. /\ r.after = query.load.after /\ \A i \in 1..Len(r.page.items) : r.page.items[i] = r.after + i
        /\ r.page.next \in {0, r.after + Len(r.page.items)}
    BY <2>3 DEF PageOf
  <2> QED
    BY <1>2, <2>5, <2>6, <2>7, <2>8, Zenon DEF Filling, Shows
<1>8. CASE LoadApply
  <2>1. Loading(query) /\ ~query.data
    BY <1>2, <1>8, NoPageWithoutLoad DEF LoadApply
  <2>2. PICK s, a, old, new : s = query.load.page.items /\ a = query.load.after
                              /\ old = view.lastSeq /\ new = view'.lastSeq
    OBVIOUS
  <2>3. s \in Seq(1..Len(log)) /\ a \in Nat /\ Len(s) \in Nat /\ DOMAIN s = 1..Len(s)
    BY <1>3, <2>2 DEF Run
  <2>4. view' = Stored(s) /\ log' = log /\ wire' = wire /\ syncs' = syncs
    BY <1>8, <2>2 DEF LoadApply, serverVars
  <2>5. /\ \A n : Shows(n) => Shows(n)'
        /\ \A n \in Range(s) : Shows(n)'
    BY <2>3, <2>4, ShowsMore
  <2>6. new \in Nat /\ (new # 0 => Shows(new)') /\ \A n : Shows(n)' => n \in Nat /\ n <= new
    <3>1. Orderly(view', Rows')
      BY Zenon DEF Inv, Shown
    <3>2. /\ view'.lastSeq \in Nat /\ (view'.lastSeq # 0 => view'.lastSeq \in Seqs(view'.events))
          /\ \A n \in Seqs(view'.events) : n \in Nat /\ n <= view'.lastSeq
      BY <3>1, LastOfTask, Zenon
    <3> QED
      BY <2>2, <3>2, Zenon DEF Shows
  <2>7. \A i \in 1..Len(s) : s[i] = a + i
    BY <1>2, <2>2
  <2>8. ASSUME NEW x, Shows(x)'
        PROVE  Shows(x) \/ x \in Range(s)
    BY <2>3, <2>4, <2>8, ShowsNoOther
  <2>9. old \in Nat /\ a <= old /\ (\A n \in 1..old : Shows(n)) /\ \A n : Shows(n) => n <= old
    BY <1>2, <1>3, <2>2, LastShown DEF Inv
  <2>10. ASSUME NEW n \in 1..new
         PROVE  Shows(n)'
    <3>1. CASE n <= old
      <4>1. n \in 1..old
        BY <2>6, <2>9, <3>1
      <4> QED
        BY <2>5, <2>9, <4>1
    <3>2. CASE n > old
      <4>1. new # 0 /\ new > old
        BY <2>6, <2>9, <3>2
      <4>2. Shows(new) \/ new \in Range(s)
        BY <2>6, <2>8, <4>1
      <4>3. new \in Range(s)
        BY <2>6, <2>9, <4>1, <4>2
      <4>4. PICK j \in 1..Len(s) : new = a + j
        BY <2>3, <2>7, <4>3 DEF Range
      <4>5. PICK i : i = n - a
        OBVIOUS
      <4>6. i \in 1..Len(s) /\ n = a + i
        BY <2>3, <2>6, <2>9, <3>2, <4>4, <4>5
      <4>7. n \in Range(s)
        BY <2>3, <2>7, <4>6 DEF Range
      <4> QED
        BY <2>5, <4>7
    <3> QED
      BY <2>6, <2>9, <3>1, <3>2
  <2>11. old <= new
    <3>1. CASE old = 0
      BY <2>6, <3>1
    <3>2. CASE old # 0
      <4>1. Shows(old)
        BY <2>9, <3>2
      <4> QED
        BY <2>5, <2>6, <4>1
    <3> QED
      BY <3>1, <3>2
  <2>12. CASE query' = [NewQuery EXCEPT !.data = TRUE]
    <3>1. query'.load = NoSync /\ query'.error = FALSE
      BY <2>12 DEF NewQuery
    <3>2. ~Loading(query') /\ ~query'.error
      BY <3>1 DEF Loading
    <3>3. query'.load.after = 0 /\ query'.load.page.items = <<>> /\ query'.load.page.next = 0
      BY <3>2, NoPageWithoutLoad
    <3>4. Len(<<>>) = 0 /\ 1..0 = {} /\ 0 <= new
      BY <2>6, NothingYet
    <3> QED
      BY <1>2, <2>2, <2>4, <2>10, <3>2, <3>3, <3>4, Zenon DEF Filling
  <2>13. CASE query' = [query EXCEPT !.load = NextPage(@)] /\ ~LastPage(query.load)
    <3>1. PICK r : r = NextPage(query.load)
      OBVIOUS
    <3>2. r.after = query.load.page.next /\ r.page = NoPage
      BY <1>3, <3>1 DEF NextPage, Run
    <3>3. query' = [query EXCEPT !.load = r]
      BY <2>13, <3>1
    <3>4. query'.load = r /\ query'.data = query.data
      BY <1>3, <3>3 DEF Query
    <3>5. r.page.items = <<>> /\ r.page.next = 0
      BY <3>2 DEF NoPage
    <3>6. r.after # 0 /\ r.after \in {0, a + Len(s)}
      BY <1>2, <2>2, <2>13, <3>2 DEF LastPage
    <3>7. a + Len(s) <= new
      <4>1. CASE Len(s) = 0
        BY <2>3, <2>6, <2>9, <2>11, <4>1
      <4>2. CASE Len(s) # 0
        <5>1. Len(s) \in 1..Len(s)
          BY <2>3, <4>2
        <5>2. a + Len(s) \in Range(s)
          BY <2>3, <2>7, <5>1 DEF Range
        <5> QED
          BY <2>5, <2>6, <5>2
      <4> QED
        BY <4>1, <4>2
    <3>8. r.after <= new
      BY <3>6, <3>7
    <3>9. Len(<<>>) = 0 /\ 1..0 = {} /\ ~query'.data
      BY <2>1, <3>4, NothingYet
    <3> QED
      BY <1>2, <2>2, <2>4, <2>10, <3>4, <3>5, <3>8, <3>9, Zenon DEF Filling
  <2> QED
    BY <1>8, <2>12, <2>13 DEF LoadApply
<1>9. CASE LoadFail
  <2>1. PICK s, z : s = NewSync(0, Infinity) /\ z = NoSync
    OBVIOUS
  <2>2. \/ query' = [query EXCEPT !.load = s, !.tries = @ + 1]
        \/ query' = [query EXCEPT !.load = z, !.tries = 0, !.error = TRUE]
    BY <1>9, <2>1 DEF LoadFail
  <2>3. query'.data = query.data /\ (query'.load = s \/ query'.load = z)
    BY <1>3, <2>2 DEF Query
  <2>4. ~query.data
    BY <1>2, <1>9 DEF LoadFail
  <2>5. Rest
    BY <1>2, <1>9 DEF LoadFail
  <2>6. Restarted(query, query') \/ (~Loading(query') /\ ~query'.data)
    BY <2>1, <2>3, <2>4, Zenon DEF Restarted, Loading
  <2> QED
    BY <1>5, <1>6, <2>4, <2>5, <2>6
<1>10. CASE Mount
  <2>1. Rest /\ (query' = query \/ query' = StartLoad(query)) /\ page = "off"
    BY <1>2, <1>10 DEF Mount
  <2>2. ~query.data
    BY <2>1 DEF Absent
  <2> QED
    BY <1>3, <1>4, <1>5, <2>1, <2>2, StartRestarts
<1>11. CASE UserRetry
  <2>1. query.error /\ ~query.data
    BY <1>2, <1>11 DEF UserRetry
  <2>2. Abandoned(query) = {}
    BY <2>1 DEF Abandoned
  <2>3. Rest /\ query' = Refetched(query)
    BY <1>2, <1>11, <2>2 DEF UserRetry
  <2> QED
    BY <1>3, <1>4, <1>5, <2>1, <2>3, RefetchCases
<1>12. CASE (\E b \in Batches : Emit(b)) \/ (\E p \in after : Publish(p)) \/ ServerCrash \/ Quiet \/ UNCHANGED vars
  <2>1. Rest /\ query' = query
    BY <1>2, <1>12, Zenon DEF Emit, Publish, ServerCrash, Quiet, vars, tabVars
  <2> QED
    BY <1>4, <2>1
<1>13. ~(HubSubscribe \/ HubEvent \/ HubCommand \/ HubReplay \/ HubEnd \/ HubBreak \/ Receive \/ Close \/ GiveUp \/ Open)
  BY <1>1, <1>2 DEF HubSubscribe, HubEvent, HubCommand, HubReplay, HubEnd, HubBreak, Serving, Receive, Close, GiveUp, Open
<1> HIDE DEF Rest
<1> QED
  BY <1>2, <1>7, <1>8, <1>9, <1>10, <1>11, <1>12, <1>13, BoundedStays
     DEF Next, Work, Disturbance, User

(***************************************************************************)
(* Every step keeps the page fresh.                                        *)
(***************************************************************************)

\* An element of a sequence is its first one or one of the others.
LEMMA RangeOfTail ==
    ASSUME NEW S, NEW s \in Seq(S), s # <<>>, NEW n \in Range(s)
    PROVE  n = Head(s) \/ n \in Range(Tail(s))
<1>1. PICK t, k : t = Tail(s) /\ k = Len(s)
  OBVIOUS
<1>2. /\ Head(s) = s[1] /\ k \in Nat \ {0} /\ t \in Seq(S) /\ Len(t) = k - 1
      /\ \A i \in 1..(k - 1) : t[i] = s[i + 1]
  BY <1>1, HeadAndTail
<1>3. DOMAIN s = 1..k /\ DOMAIN t = 1..(k - 1)
  BY <1>1, <1>2
<1>4. PICK i \in 1..k : n = s[i]
  BY <1>3 DEF Range
<1>5. CASE i = 1
  BY <1>2, <1>4, <1>5
<1>6. CASE i # 1
  <2>1. PICK j \in 1..(k - 1) : i = j + 1
    <3>1. i - 1 \in 1..(k - 1) /\ i = (i - 1) + 1
      BY <1>2, <1>6
    <3> QED
      BY <3>1
  <2>2. t[j] = n
    BY <1>2, <1>4, <2>1
  <2> QED
    BY <1>1, <1>3, <2>2 DEF Range
<1> QED
  BY <1>5, <1>6

\* What is appended is an element, and so is what was one.
LEMMA RangeOfAppend ==
    ASSUME NEW S, NEW s \in Seq(S), NEW x \in S
    PROVE  x \in Range(Append(s, x)) /\ \A n \in Range(s) : n \in Range(Append(s, x))
<1>1. PICK t, k : t = Append(s, x) /\ k = Len(s)
  OBVIOUS
<1>2. k \in Nat /\ t \in Seq(S) /\ Len(t) = k + 1 /\ t[k + 1] = x /\ \A i \in 1..k : t[i] = s[i]
  BY <1>1, AppendProperties
<1>3. DOMAIN s = 1..k /\ DOMAIN t = 1..(k + 1) /\ k + 1 \in 1..(k + 1) /\ \A i \in 1..k : i \in 1..(k + 1)
  BY <1>1, <1>2
<1>4. x \in Range(t)
  BY <1>2, <1>3 DEF Range
<1>5. ASSUME NEW n \in Range(s)
      PROVE  n \in Range(t)
  <2>1. PICK i \in 1..k : n = s[i]
    BY <1>3 DEF Range
  <2> QED
    BY <1>2, <1>3, <2>1 DEF Range
<1> QED
  BY <1>1, <1>4, <1>5

\* Event n is there or on its way.
Has(n) == Shows(n) \/ Live(n) \/ Loads(n)

\* A new event is on its way.
LEMMA EmitFresh ==
    ASSUME Steady, NEW b \in Batches, Emit(b), [Next]_vars
    PROVE  Fresh'
<1> SUFFICES ASSUME Ready', Sound', NEW n \in 1..Len(log'), n \notin unsent', n \notin skipped'
             PROVE  Has(n)'
  BY Zenon DEF Fresh, Has
<1>1. /\ hub' = hub /\ chan' = chan /\ replay' = replay /\ commands' = commands /\ wire' = wire /\ page' = page
      /\ sock' = sock /\ view' = view /\ query' = query /\ skipped' = skipped /\ refused' = refused
  BY DEF Emit, hubVars, tabVars
<1> DEFINE p == [i \in 1..Len(b) |-> Len(log) + i]
<1>2. /\ log' = log \o b /\ after \subseteq after' /\ unsent \subseteq unsent'
      /\ p \in after' \/ (Len(log) + 1)..(Len(log) + Len(b)) \subseteq unsent'
  BY DEF Emit
<1>3. b \in Seq(scene.bodies) /\ log \in Seq(scene.bodies)
  <2>1. PICK k \in 1..scene.txEvents : b \in [1..k -> scene.bodies]
    BY DEF Batches
  <2>2. k \in Nat
    BY DEF Steady, Inv, Server, IsScene
  <2> QED
    BY <2>1, <2>2 DEF Steady, Inv, Server
<1>4. PICK m, k : m = Len(log) /\ k = Len(b)
  OBVIOUS
<1>5. m \in Nat /\ k \in Nat /\ n \in 1..(m + k)
  <2>1. Len(log') = Len(log) + Len(b) /\ Len(log) \in Nat /\ Len(b) \in Nat
    BY <1>2, <1>3, Behind, Zenon
  <2> QED
    BY <1>4, <2>1
<1>6. CASE n \in 1..m
  <2>1. Ready /\ Sound
    BY <1>1, Zenon DEF Ready, Sound, Loading
  <2>2. Has(n)
    BY <1>1, <1>2, <1>4, <1>6, <2>1 DEF Steady, Fresh, Has
  <2>3. Shows(n) => Shows(n)'
    BY <1>1 DEF Shows
  <2>4. Loads(n) => Loads(n)'
    BY <1>1, Zenon DEF Loads, Loading, Brings, LastPage
  <2>5. Passing(n) => Passing(n)'
    BY <1>1, <1>2 DEF Passing
  <2>6. Live(n) => Live(n)'
    BY <1>1, <2>5, Zenon DEF Live
  <2> QED
    BY <2>2, <2>3, <2>4, <2>6 DEF Has
<1>7. CASE n \notin 1..m
  <2>1. PICK i \in 1..k : n = m + i
    <3>1. n - m \in 1..k /\ n = m + (n - m)
      BY <1>5, <1>7
    <3> QED
      BY <3>1
  <2>2. CASE commands # <<>>
    <3>1. commands \in Seq(Command) /\ \A j \in 1..Len(commands) : commands[j].from <= m
      BY <1>4 DEF Steady, Inv, Link, Asked
    <3>2. 1 \in 1..Len(commands)
      BY <2>2, <3>1
    <3>3. commands[1].from <= m /\ commands[1] \in Command
      BY <3>1, <3>2
    <3>4. commands[1].from < n
      BY <1>5, <2>1, <3>3 DEF Command
    <3>5. Live(n)'
      BY <1>1, <2>2, <3>4, Zenon DEF Live
    <3> QED
      BY <3>5 DEF Has
  <2>3. CASE commands = <<>>
    <3>1. p[i] = n /\ i \in DOMAIN p
      BY <1>4, <2>1
    <3>2. p \in after' /\ n \in Range(p)
      <4>1. n \in (m + 1)..(m + k)
        BY <1>5, <1>7
      <4>2. p \in after'
        <5> HIDE DEF p
        <5> QED
          BY <1>2, <1>4, <4>1
      <4> QED
        BY <3>1, <4>2 DEF Range
    <3>3. Passing(n)'
      <4> HIDE DEF p
      <4> QED
        BY <3>2, Zenon DEF Passing
    <3>4. Live(n)'
      BY <1>1, <2>3, <3>3, Zenon DEF Live
    <3> QED
      BY <3>4 DEF Has
  <2> QED
    BY <2>2, <2>3
<1> QED
  BY <1>6, <1>7

\* A published event is in the channel.
LEMMA PublishFresh ==
    ASSUME Steady, NEW p \in after, Publish(p)
    PROVE  Fresh'
<1> SUFFICES ASSUME Ready', Sound', NEW n \in 1..Len(log'), n \notin unsent', n \notin skipped'
             PROVE  Has(n)'
  BY Zenon DEF Fresh, Has
<1>1. /\ log' = log /\ unsent' = unsent /\ replay' = replay /\ commands' = commands /\ wire' = wire /\ page' = page
      /\ sock' = sock /\ view' = view /\ query' = query /\ skipped' = skipped /\ refused' = refused
      /\ after' = (after \ {p}) \cup (IF Len(p) = 1 THEN {} ELSE {Tail(p)})
  BY DEF Publish, tabVars
<1>2. /\ hub' = hub /\ hub \in {"accepted", "serving"}
      /\ hub = "serving" => chan' = Append(chan, Head(p))
      /\ hub # "serving" => chan' = chan
  BY DEF Publish, Deliver, Ready
<1>3. Ready /\ Sound /\ n \in (1..Len(log)) \ (unsent \cup skipped)
  BY <1>1, <1>2, Zenon DEF Ready, Sound, Loading
<1>4. Has(n)
  BY <1>3 DEF Steady, Fresh, Has
<1>5. Shows(n) => Shows(n)'
  BY <1>1 DEF Shows
<1>6. Loads(n) => Loads(n)'
  BY <1>1, Zenon DEF Loads, Loading, Brings, LastPage
<1>7. Live(n) => Live(n)'
  <2>1. CASE commands # <<>>
    BY <1>1, <2>1, Zenon DEF Live
  <2>2. CASE commands = <<>>
    <3>1. hub = "serving"
      BY <1>2, <1>3, <2>2 DEF Steady, Subscribed, Ready
    <3>2. p \in Seq(1..Len(log)) /\ p # <<>> /\ chan \in Seq(1..Len(log))
      BY DEF Steady, Inv, Server, Link, Queued
    <3>3. Head(p) \in 1..Len(log) /\ Len(p) \in Nat \ {0} /\ Len(Tail(p)) = Len(p) - 1 /\ Tail(p) \in Seq(1..Len(log))
      BY <3>2, HeadAndTail
    <3>4. Head(p) \in Range(chan') /\ \A x \in Range(chan) : x \in Range(chan')
      BY <1>2, <3>1, <3>2, <3>3, RangeOfAppend
    <3>5. ASSUME NEW q \in after, n \in Range(q)
          PROVE  n \in Range(chan') \/ \E r \in after' : n \in Range(r)
      <4>1. CASE q # p
        <5>1. q \in after'
          BY <1>1, <4>1
        <5> QED
          BY <3>5, <5>1
      <4>2. CASE q = p
        <5>1. n = Head(p) \/ n \in Range(Tail(p))
          BY <3>2, <3>5, <4>2, RangeOfTail
        <5>2. ASSUME n \in Range(Tail(p))
              PROVE  Tail(p) \in after'
          <6>1. PICK t : t = Tail(p)
            OBVIOUS
          <6>2. DOMAIN t # {} /\ t \in Seq(1..Len(log))
            BY <3>3, <5>2, <6>1 DEF Range
          <6>3. Len(t) # 0
            BY <6>2
          <6>4. Len(p) # 1
            BY <3>3, <6>1, <6>3
          <6> QED
            BY <1>1, <6>4
        <5> QED
          BY <3>4, <5>1, <5>2
      <4> QED
        BY <4>1, <4>2
    <3>6. Passing(n) => Passing(n)'
      BY <1>1, <3>4, <3>5, Zenon DEF Passing
    <3> QED
      BY <1>1, <2>2, <3>6, Zenon DEF Live
  <2> QED
    BY <2>1, <2>2
<1> QED
  BY <1>4, <1>5, <1>6, <1>7 DEF Has

\* The hub loses nothing.
LEMMA HubFresh ==
    ASSUME Steady, HubSubscribe \/ HubEvent \/ HubCommand \/ HubReplay
    PROVE  Fresh'
<1> SUFFICES ASSUME Ready', Sound', NEW n \in 1..Len(log'), n \notin unsent', n \notin skipped'
             PROVE  Has(n)'
  BY Zenon DEF Fresh, Has
<1>1. /\ log' = log /\ unsent' = unsent /\ after' = after /\ page' = page /\ sock' = sock /\ view' = view /\ query' = query
      /\ skipped' = skipped
  BY Zenon DEF HubSubscribe, HubEvent, HubCommand, HubReplay, serverVars, tabVars
<1>2. page = "on" /\ sock = "open" /\ hub \in {"accepted", "serving"} /\ hub # "none" /\ ~refused'
  BY <1>1 DEF Ready, HubSubscribe, HubEvent, HubCommand, HubReplay
<1>a. refused = FALSE
  <2>1. CASE commands # <<>>
    BY <1>2, <2>1 DEF Steady, Subscribed
  <2>2. CASE commands = <<>>
    <3>1. refused' = refused
      BY <2>2 DEF HubSubscribe, HubEvent, HubCommand, HubReplay
    <3> QED
      BY <1>2, <3>1 DEF Steady, Inv, Link, Queued
  <2> QED
    BY <2>1, <2>2
<1>3. Ready /\ Sound /\ n \in 1..Len(log)
  BY <1>1, <1>2, <1>a, Zenon DEF Ready, Sound, Loading
<1>4. Has(n)
  BY <1>1, <1>3 DEF Steady, Fresh, Has
<1>5. Shows(n) => Shows(n)'
  BY <1>1 DEF Shows
<1>6. Loads(n) => Loads(n)'
  BY <1>1, Zenon DEF Loads, Loading, Brings, LastPage
<1>7. \/ /\ commands # <<>> /\ Len(commands) = 1 /\ commands[1].op = "subscribe"
         /\ tasks = FALSE /\ replay = NoReplay
      \/ commands = <<>> /\ tasks = TRUE
  BY <1>2, <1>a DEF Steady, Subscribed
<1>8. Len(log) \in Nat /\ chan \in Seq(1..Len(log)) /\ wire \in Seq(1..Len(log)) /\ commands \in Seq(Command)
  BY DEF Steady, Inv, Server, Link, Queued, Sent, Asked
<1>9. CASE HubSubscribe
  <2>1. commands' = commands /\ commands # <<>>
    BY <1>7, <1>9 DEF HubSubscribe, Steady, Subscribed
  <2>2. Live(n) => Live(n)'
    BY <2>1, Zenon DEF Live
  <2> QED
    BY <1>4, <1>5, <1>6, <2>2 DEF Has
<1>10. CASE HubEvent
  <2>1. commands' = commands /\ replay' = replay /\ chan # <<>> /\ chan' = Tail(chan)
    BY <1>10 DEF HubEvent
  <2>2. CASE commands # <<>>
    <3>1. Live(n) => Live(n)'
      BY <2>1, <2>2, Zenon DEF Live
    <3> QED
      BY <1>4, <1>5, <1>6, <3>1 DEF Has
  <2>3. CASE commands = <<>>
    <3>1. tasks = TRUE
      BY <1>7, <2>3
    <3>2. wire' = Append(wire, Head(chan))
      BY <1>10, <3>1 DEF HubEvent
    <3>3. Head(chan) \in 1..Len(log)
      BY <1>8, <2>1, HeadAndTail
    <3>4. Head(chan) \in Range(wire') /\ \A x \in Range(wire) : x \in Range(wire')
      BY <1>8, <3>2, <3>3, RangeOfAppend
    <3>5. n \in Range(chan) => n = Head(chan) \/ n \in Range(chan')
      BY <1>8, <2>1, RangeOfTail
    <3>6. Passing(n) => Passing(n)'
      BY <1>1, <2>1, <3>4, <3>5, Zenon DEF Passing
    <3>7. Live(n) => Live(n)'
      BY <2>1, <2>3, <3>6, Zenon DEF Live
    <3> QED
      BY <1>4, <1>5, <1>6, <3>7 DEF Has
  <2> QED
    BY <2>2, <2>3
<1>11. CASE HubCommand
  <2>1. commands # <<>> /\ commands' = Tail(commands)
    BY <1>11 DEF HubCommand
  <2>2. Len(commands) = 1 /\ commands[1].op = "subscribe"
    BY <1>7, <2>1
  <2>3. PICK c : c = commands[1]
    OBVIOUS
  <2>4. Head(commands) = c /\ Tail(commands) = <<>> /\ c \in Command
    <3>1. PICK s : s = commands
      OBVIOUS
    <3>2. s \in Seq(Command) /\ Len(s) = 1 /\ s # <<>>
      BY <1>8, <2>1, <2>2, <3>1
    <3>3. Head(s) = s[1] /\ Head(s) \in Command
      BY <3>2, HeadAndTail
    <3>4. Tail(s) = <<>>
      <4>1. PICK t : t = Tail(s)
        OBVIOUS
      <4>2. t \in Seq(Command) /\ Len(t) = 0
        BY <3>2, <4>1, HeadAndTail
      <4> QED
        BY <4>1, <4>2, EmptySeq
    <3> QED
      BY <2>3, <3>1, <3>3, <3>4
  <2>5. replay' = ReplayOf(c.from)
    BY <1>2, <1>11, <2>2, <2>3, <2>4 DEF HubCommand
  <2>6. ASSUME c.from < n
        PROVE  replay'.after < n /\ n <= replay'.upto
    <3>1. c.from \in Nat
      BY <2>4 DEF Command
    <3>2. c.from < Len(log) /\ n <= Len(log)
      BY <1>3, <1>8, <2>6, <3>1
    <3>3. replay' = [after |-> c.from, upto |-> Len(log)]
      BY <2>5, <3>2 DEF ReplayOf
    <3> QED
      BY <2>6, <3>2, <3>3
  <2>7. Live(n) => c.from < n
    BY <2>1, <2>3, Zenon DEF Live
  <2>8. Live(n) => Live(n)'
    BY <2>1, <2>4, <2>6, <2>7, Zenon DEF Live, Passing
  <2> QED
    BY <1>4, <1>5, <1>6, <2>8 DEF Has
<1>12. CASE HubReplay
  <2>1. /\ replay # NoReplay /\ commands' = commands /\ chan' = chan /\ wire' = Append(wire, replay.after + 1)
        /\ replay' = IF replay.after + 1 = replay.upto THEN NoReplay ELSE [replay EXCEPT !.after = @ + 1]
    BY <1>12 DEF HubReplay
  <2>2. commands = <<>>
    BY <1>7, <2>1
  <2>3. replay \in [after : 0..Len(log), upto : 0..Len(log)] /\ replay.after < replay.upto
    BY <2>1 DEF Steady, Inv, Link, Replaying
  <2>4. PICK a, u : a = replay.after /\ u = replay.upto
    OBVIOUS
  <2>5. a \in 0..Len(log) /\ u \in 0..Len(log) /\ a < u /\ a + 1 \in 1..Len(log)
    BY <1>8, <2>3, <2>4
  <2>6. a + 1 \in Range(wire') /\ \A x \in Range(wire) : x \in Range(wire')
    BY <1>8, <2>1, <2>4, <2>5, RangeOfAppend
  <2>7. ASSUME a < n, n <= u, n # a + 1
        PROVE  replay'.after < n /\ n <= replay'.upto
    <3>1. a + 1 # u /\ a + 1 < n
      BY <1>3, <1>8, <2>5, <2>7
    <3>2. replay'.after = a + 1 /\ replay'.upto = u
      BY <2>1, <2>3, <2>4, <3>1
    <3> QED
      BY <2>7, <3>1, <3>2
  <2>8. Passing(n) => Passing(n)'
    BY <1>1, <2>1, <2>4, <2>6, <2>7, Zenon DEF Passing
  <2>9. Live(n) => Live(n)'
    BY <2>1, <2>2, <2>8, Zenon DEF Live
  <2> QED
    BY <1>4, <1>5, <1>6, <2>9 DEF Has
<1> QED
  BY <1>9, <1>10, <1>11, <1>12

\* A load that was started brings every event.
LEMMA RestartHas ==
    ASSUME Inv, Bounded, Restarted(query, query'), NEW n \in 1..Len(log)
    PROVE  Loads(n)'
<1>1. query'.load = NewSync(0, Infinity)
  BY DEF Restarted
<1>2. Brings(query'.load, n)
  BY <1>1, BringsAll DEF Bounded
<1>3. Loading(query')
  BY RestartLoads
<1> QED
  BY <1>2, <1>3, Zenon DEF Loads, Loading, Brings, LastPage

\* A connection that opens asks for what is missing, or the load brings it.
LEMMA OpenFresh ==
    ASSUME Steady, Open
    PROVE  Fresh'
<1> SUFFICES ASSUME Ready', Sound', NEW n \in 1..Len(log'), n \notin unsent', n \notin skipped'
             PROVE  Has(n)'
  BY Zenon DEF Fresh, Has
<1>1. log' = log /\ page' = page /\ view' = view /\ page = "on" /\ skipped' = Holes(view, query')
  BY DEF Open, serverVars, Ready
<1>2. n \in 1..Len(log) /\ Len(log) \in Nat /\ view.lastSeq \in 0..Len(log)
  BY <1>1, LastIsRow DEF Steady, Inv, Server
<1>3. CASE n <= view.lastSeq
  <2>1. n \in 1..view.lastSeq
    BY <1>2, <1>3
  <2>2. Shows(n) \/ (Loading(query') /\ Brings(query'.load, n))
    BY <1>1, <2>1, Zenon DEF Holes, Shows
  <2>3. Shows(n) => Shows(n)'
    BY <1>1 DEF Shows
  <2>4. Loading(query') /\ Brings(query'.load, n) => Loads(n)'
    BY Zenon DEF Loads, Loading, Brings, LastPage
  <2> QED
    BY <2>2, <2>3, <2>4 DEF Has
<1>4. CASE view.lastSeq < n
  <2>1. PICK c : c = subscribe(view.lastSeq)
    OBVIOUS
  <2>2. commands' = <<c>> /\ c.from = view.lastSeq
    BY <1>1, <2>1 DEF Open, subscribe
  <2>3. commands' # <<>> /\ commands'[1] = c
    BY <2>2
  <2>4. Live(n)'
    BY <1>4, <2>2, <2>3, Zenon DEF Live
  <2> QED
    BY <2>4 DEF Has
<1> QED
  BY <1>2, <1>3, <1>4

\* An event that arrives is shown.
LEMMA ReceiveFresh ==
    ASSUME Steady, Receive
    PROVE  Fresh'
<1> SUFFICES ASSUME Ready', Sound', NEW n \in 1..Len(log'), n \notin unsent', n \notin skipped'
             PROVE  Has(n)'
  BY Zenon DEF Fresh, Has
<1>1. /\ log' = log /\ unsent' = unsent /\ after' = after /\ hub' = hub /\ chan' = chan /\ replay' = replay /\ commands' = commands
      /\ page' = page /\ sock' = sock /\ query' = query /\ wire # <<>> /\ wire' = Tail(wire)
      /\ view' = Stored(<<Head(wire)>>) /\ refused' = refused
  BY DEF Receive, serverVars, hubVars
<1>2. Ready /\ Sound /\ n \in 1..Len(log) /\ Inv
  BY <1>1, Zenon DEF Ready, Sound, Loading, Steady
<1>3. Has(n)
  <2>1. n \notin skipped
    BY Zenon DEF Receive
  <2> QED
    BY <1>1, <1>2, <2>1 DEF Steady, Fresh, Has
<1>4. wire \in Seq(1..Len(log)) /\ Head(wire) \in 1..Len(log)
  <2>1. wire \in Seq(1..Len(log))
    BY <1>2 DEF Inv, Link, Sent
  <2> QED
    BY <1>1, <2>1, HeadAndTail
<1>5. PICK x \in 1..Len(log) : x = Head(wire)
  BY <1>4
<1>6. <<x>> \in Seq(1..Len(log)) /\ x \in Range(<<x>>)
  BY DEF Range
<1>7. (\A k : Shows(k) => Shows(k)') /\ Shows(x)'
  BY <1>1, <1>2, <1>5, <1>6, ShowsMore
<1>8. n \in Range(wire) => n = x \/ n \in Range(wire')
  BY <1>1, <1>4, <1>5, RangeOfTail
<1>9. Loads(n) => Loads(n)'
  BY <1>1, Zenon DEF Loads, Loading, Brings, LastPage
<1>10. Passing(n) => Passing(n)' \/ n = x
  BY <1>1, <1>8, Zenon DEF Passing
<1>11. Live(n) => Live(n)' \/ n = x
  BY <1>1, <1>10, Zenon DEF Live
<1> QED
  BY <1>3, <1>7, <1>9, <1>11 DEF Has

\* What the connection brings does not change with the tab's own steps.
LEMMA LiveStays ==
    ASSUME serverVars' = serverVars, hubVars' = hubVars, commands' = commands, wire' = wire, page' = page,
           sock' = sock, NEW n
    PROVE  (Live(n) <=> Live(n)') /\ (Ready <=> Ready') /\ log' = log /\ unsent' = unsent
<1>1. /\ log' = log /\ unsent' = unsent /\ refused' = refused /\ after' = after /\ hub' = hub /\ chan' = chan /\ replay' = replay
  BY DEF serverVars, hubVars
<1> QED
  BY <1>1, Zenon DEF Live, Passing, Ready

\* A page of a load is shown, and the load goes on to the next.
LEMMA LoadFresh ==
    ASSUME Steady, LoadRead \/ LoadApply \/ LoadFail
    PROVE  Fresh'
<1> SUFFICES ASSUME Ready', Sound', NEW n \in 1..Len(log'), n \notin unsent', n \notin skipped'
             PROVE  Has(n)'
  BY Zenon DEF Fresh, Has
<1>1. serverVars' = serverVars /\ hubVars' = hubVars /\ commands' = commands /\ wire' = wire /\ page' = page /\ sock' = sock
  BY Zenon DEF LoadRead, LoadApply, LoadFail
<1>2. (Live(n) => Live(n)') /\ Ready /\ log' = log /\ n \notin unsent /\ n \notin skipped
  <2>1. n \notin skipped
    BY Zenon DEF LoadRead, LoadApply, LoadFail
  <2> QED
    BY <1>1, <2>1, LiveStays
<1>3. Loading(query)
  BY NoPageWithoutLoad DEF LoadRead, LoadApply, LoadFail
<1>4. Inv /\ Bounded /\ Has(n) /\ query.load.through = Infinity /\ n \in 1..Len(log)
  BY <1>2, <1>3 DEF Steady, Fresh, Sound, Has, Unending
<1>5. PICK r : r = query.load
  OBVIOUS
<1>6. Len(log) \in Nat /\ query \in Query(Len(log)) /\ r \in Run(Len(log)) /\ r.through = MaxEvents + 1
      /\ MaxEvents \in Nat /\ n <= MaxEvents /\ Len(log) <= MaxEvents
  <2>1. Len(log) \in Nat /\ query \in Query(Len(log)) /\ r \in Run(Len(log))
    BY <1>4, <1>5 DEF Inv, Server, Tab, Query
  <2>2. Len(log) <= MaxEvents /\ MaxEvents \in Nat
    BY <1>4, StreamAssumption DEF Bounded
  <2> QED
    BY <1>4, <1>5, <2>1, <2>2 DEF Infinity
<1>7. CASE LoadRead
  <2>1. view' = view /\ ~r.page.read
    BY <1>5, <1>7 DEF LoadRead
  <2>2. PICK f : f = Fetched(r)
    OBVIOUS
  <2>3. PageOf(f, r)
    BY <1>6, <2>2, FetchedPage
  <2>4. query' = [query EXCEPT !.load = f]
    BY <1>5, <1>7, <2>2 DEF LoadRead
  <2>5. query'.load = f
    BY <1>6, <2>4 DEF Query
  <2>6. f.through = r.through /\ f.page.read = TRUE /\ f.page.next \in Nat
        /\ (n > r.after => n \in Range(f.page.items) \/ (f.page.next # 0 /\ n > f.page.next))
    <3>1. f \in Run(Len(log))
      BY <1>6, <2>2, Fetches
    <3> QED
      BY <1>4, <1>6, <2>3, <3>1 DEF PageOf, Run
  <2>7. ASSUME Brings(r, n)
        PROVE  Loads(n)'
    <3>1. n > r.after
      BY <2>1, <2>7 DEF Brings
    <3>2. Brings(f, n)
      <4>1. CASE n \in Range(f.page.items)
        BY <2>6, <4>1 DEF Brings
      <4>2. CASE f.page.next # 0 /\ n > f.page.next
        <5>1. ~(f.page.next >= f.through) /\ n <= f.through
          BY <1>4, <1>6, <2>6, <4>2
        <5>2. ~LastPage(f)
          BY <4>2, <5>1 DEF LastPage
        <5> QED
          BY <2>6, <4>2, <5>1, <5>2 DEF Brings
      <4> QED
        BY <2>6, <3>1, <4>1, <4>2
    <3>3. f # NoSync
      BY <2>6 DEF NoSync, NewSync, NoPage
    <3> QED
      BY <2>5, <3>2, <3>3, Zenon DEF Loads, Loading, Brings, LastPage
  <2>8. Shows(n) => Shows(n)'
    BY <2>1 DEF Shows
  <2>9. Loads(n) => Brings(r, n)
    BY <1>5 DEF Loads
  <2> QED
    BY <1>2, <1>4, <2>7, <2>8, <2>9 DEF Has
<1>8. CASE LoadApply
  <2>1. PICK s : s = r.page.items
    OBVIOUS
  <2>2. s \in Seq(1..Len(log)) /\ view' = Stored(s) /\ r.page.read
    BY <1>5, <1>6, <1>8, <2>1 DEF LoadApply, Run
  <2>3. (\A k : Shows(k) => Shows(k)') /\ (\A k \in Range(s) : Shows(k)')
    BY <1>2, <1>4, <2>2, ShowsMore
  <2>4. Loads(n) => n \in Range(s) \/ (~LastPage(r) /\ n > r.page.next /\ n <= r.through)
    BY <1>5, <2>1, <2>2 DEF Loads, Brings
  <2>5. ASSUME ~LastPage(r), n > r.page.next, n <= r.through
        PROVE  Loads(n)'
    <3>1. PICK g : g = NextPage(r)
      OBVIOUS
    <3>2. g.after = r.page.next /\ g.through = r.through /\ g.page = NoPage
      BY <1>6, <3>1 DEF NextPage, Run
    <3>3. query' = [query EXCEPT !.load = g]
      BY <1>5, <1>8, <2>5, <3>1 DEF LoadApply
    <3>4. query'.load = g
      BY <1>6, <3>3 DEF Query
    <3>5. g.page.read = FALSE
      BY <3>2 DEF NoPage
    <3>6. Brings(g, n)
      BY <2>5, <3>2, <3>5 DEF Brings
    <3>7. g # NoSync
      <4>1. NoSync.through = 0
        BY DEF NoSync, NewSync
      <4>2. g.through # 0
        BY <1>6, <3>2
      <4> QED
        BY <4>1, <4>2
    <3> QED
      BY <3>4, <3>6, <3>7, Zenon DEF Loads, Loading, Brings, LastPage
  <2> QED
    BY <1>2, <1>4, <2>3, <2>4, <2>5 DEF Has
<1>9. CASE LoadFail
  <2>1. PICK s, z : s = NewSync(0, Infinity) /\ z = NoSync
    OBVIOUS
  <2>2. \/ query' = [query EXCEPT !.load = s, !.tries = @ + 1]
        \/ query' = [query EXCEPT !.load = z, !.tries = 0, !.error = TRUE]
    BY <1>9, <2>1 DEF LoadFail
  <2>3. CASE query' = [query EXCEPT !.load = s, !.tries = @ + 1]
    <3>1. query'.load = s /\ query'.data = query.data
      BY <1>6, <2>3 DEF Query
    <3>2. Restarted(query, query')
      BY <2>1, <3>1, Zenon DEF Restarted
    <3>3. Loads(n)'
      BY <1>4, <3>2, RestartHas
    <3> QED
      BY <3>3 DEF Has
  <2>4. CASE query' = [query EXCEPT !.load = z, !.tries = 0, !.error = TRUE]
    <3>1. query'.load = z /\ query'.error = TRUE
      BY <1>6, <2>4 DEF Query
    <3>2. ~Sound'
      BY <2>1, <3>1, Zenon DEF Sound, Loading
    <3> QED
      BY <3>2
  <2> QED
    BY <2>2, <2>3, <2>4
<1> QED
  BY <1>7, <1>8, <1>9

\* The other runs of syncTaskEvents only add to what is shown, or start the load anew.
LEMMA SyncFresh ==
    ASSUME Steady, NEW s \in syncs, SyncRead(s) \/ SyncApply(s) \/ SyncFail(s)
    PROVE  Fresh'
<1> SUFFICES ASSUME Ready', Sound', NEW n \in 1..Len(log'), n \notin unsent', n \notin skipped'
             PROVE  Has(n)'
  BY Zenon DEF Fresh, Has
<1>1. serverVars' = serverVars /\ hubVars' = hubVars /\ commands' = commands /\ wire' = wire /\ page' = page /\ sock' = sock
  BY Zenon DEF SyncRead, SyncApply, SyncFail
<1>2. (Live(n) => Live(n)') /\ Ready /\ log' = log /\ n \notin unsent /\ n \notin skipped
  <2>1. n \notin skipped
    BY Zenon DEF SyncRead, SyncApply, SyncFail
  <2> QED
    BY <1>1, <2>1, LiveStays
<1>3. Inv /\ Bounded /\ n \in 1..Len(log) /\ Len(log) \in Nat /\ query \in Query(Len(log)) /\ page = "on"
  BY <1>2 DEF Steady, Inv, Server, Tab, Ready
<1>4. CASE query' = query /\ (\A k : Shows(k) => Shows(k)')
  <2>1. Sound
    BY <1>4, Zenon DEF Sound, Loading
  <2>2. Has(n)
    BY <1>2, <1>3, <2>1 DEF Steady, Fresh, Has
  <2>3. Loads(n) => Loads(n)'
    BY <1>4, Zenon DEF Loads, Loading, Brings, LastPage
  <2> QED
    BY <1>2, <1>4, <2>2, <2>3 DEF Has
<1>5. CASE SyncRead(s)
  <2>1. query' = query /\ view' = view
    BY <1>5 DEF SyncRead
  <2>2. \A k : Shows(k) => Shows(k)'
    BY <2>1 DEF Shows
  <2> QED
    BY <1>4, <2>1, <2>2
<1>6. CASE SyncApply(s)
  <2>1. PICK items : items = s.run.page.items
    OBVIOUS
  <2>2. s.run \in Run(Len(log))
    BY <1>3 DEF Inv, Tab
  <2>3. items \in Seq(1..Len(log)) /\ view' = Stored(items) /\ query' = query
    BY <1>6, <2>1, <2>2 DEF SyncApply, Run
  <2>4. \A k : Shows(k) => Shows(k)'
    BY <1>2, <1>3, <2>3, ShowsMore
  <2> QED
    BY <1>4, <2>3, <2>4
<1>7. CASE SyncFail(s)
  <2>1. view' = view /\ (Invalidate(syncs \ {s}) \/ query' = query)
    BY <1>7 DEF SyncFail
  <2>2. \A k : Shows(k) => Shows(k)'
    BY <2>1 DEF Shows
  <2>3. CASE query' = query
    BY <1>4, <2>2, <2>3
  <2>4. CASE Invalidate(syncs \ {s})
    <3>1. CASE Restarted(query, query')
      <4>1. Loads(n)'
        BY <1>3, <3>1, RestartHas
      <4> QED
        BY <4>1 DEF Has
    <3>2. CASE SameLoad(query, query') /\ Loading(query)
      <4>1. Has(n)
        BY <1>2, <1>3, <3>2 DEF Steady, Fresh, Sound, Has
      <4>2. Loads(n) => Loads(n)'
        BY <3>2, Zenon DEF SameLoad, Loads, Loading, Brings, LastPage
      <4> QED
        BY <1>2, <2>2, <4>1, <4>2 DEF Has
    <3> QED
      BY <1>3, <2>4, <3>1, <3>2, InvalidateCases
  <2> QED
    BY <2>1, <2>3, <2>4
<1> QED
  BY <1>5, <1>6, <1>7

\* A page that mounts asks for everything.
LEMMA MountFresh ==
    ASSUME Steady, Mount
    PROVE  Fresh'
<1> SUFFICES ASSUME Ready', Sound', NEW n \in 1..Len(log'), n \notin unsent', n \notin skipped'
             PROVE  Has(n)'
  BY Zenon DEF Fresh, Has
<1>1. /\ page = "off" /\ log' = log /\ sock' = sock /\ hub' = hub
      /\ commands' = IF sock = "open" /\ hub # "none" THEN Append(commands, subscribe(view.lastSeq)) ELSE commands
  BY DEF Mount, Send, serverVars, hubVars
<1>2. commands = <<>> /\ view.lastSeq = 0
  BY <1>1 DEF Steady, Absent, emptyTaskEvents
<1>3. sock = "open" /\ hub # "none"
  BY <1>1 DEF Ready
<1>4. PICK c : c = subscribe(view.lastSeq)
  OBVIOUS
<1>5. c.from = 0 /\ Append(<<>>, c) = <<c>> /\ <<c>> # <<>> /\ <<c>>[1] = c
  BY <1>2, <1>4 DEF subscribe
<1>6. commands' = <<c>>
  BY <1>1, <1>2, <1>3, <1>4, <1>5
<1>7. 0 < n
  BY <1>1 DEF Steady, Inv, Server
<1>8. Live(n)'
  BY <1>5, <1>6, <1>7, Zenon DEF Live
<1> QED
  BY <1>8 DEF Has

\* A retry starts the load anew.
LEMMA RetryFresh ==
    ASSUME Steady, UserRetry
    PROVE  Fresh'
<1> SUFFICES ASSUME Ready', Sound', NEW n \in 1..Len(log'), n \notin unsent', n \notin skipped'
             PROVE  Has(n)'
  BY Zenon DEF Fresh, Has
<1>1. /\ serverVars' = serverVars /\ hubVars' = hubVars /\ commands' = commands /\ wire' = wire /\ page' = page /\ sock' = sock
      /\ view' = view /\ query' = Refetched(query)
  BY DEF UserRetry
<1>2. (Live(n) => Live(n)') /\ Ready /\ log' = log /\ n \notin unsent /\ n \notin skipped
  <2>1. n \notin skipped
    BY Zenon DEF UserRetry
  <2> QED
    BY <1>1, <2>1, LiveStays
<1>3. Inv /\ Bounded /\ n \in 1..Len(log) /\ Len(log) \in Nat /\ query \in Query(Len(log))
  BY <1>2 DEF Steady, Inv, Server, Tab
<1>4. CASE query' = query /\ Loading(query)
  <2>1. Has(n)
    BY <1>2, <1>3, <1>4 DEF Steady, Fresh, Sound, Has
  <2>2. Loads(n) => Loads(n)'
    BY <1>4, Zenon DEF Loads, Loading, Brings, LastPage
  <2>3. Shows(n) => Shows(n)'
    BY <1>1 DEF Shows
  <2> QED
    BY <1>2, <2>1, <2>2, <2>3 DEF Has
<1>5. CASE Restarted(query, query')
  <2>1. Loads(n)'
    BY <1>3, <1>5, RestartHas
  <2> QED
    BY <2>1 DEF Has
<1> QED
  BY <1>1, <1>3, <1>4, <1>5, RefetchCases

\* A connection that is gone promises nothing.
LEMMA EndFresh ==
    ASSUME HubEnd \/ HubBreak \/ ServerCrash \/ Close \/ GiveUp
    PROVE  Fresh'
<1>1. hub' = "none"
  BY DEF HubEnd, HubBreak, ServerCrash, Close, GiveUp, SocketGone, HubGone
<1>2. hub' \notin {"accepted", "serving"}
  BY <1>1
<1>3. ~Ready'
  BY <1>2, Zenon DEF Ready
<1> QED
  BY <1>3, Zenon DEF Fresh

\* Nothing happens.
LEMMA StutterFresh ==
    ASSUME Steady, UNCHANGED vars
    PROVE  Fresh'
<1> SUFFICES ASSUME Ready', Sound', NEW n \in 1..Len(log'), n \notin unsent', n \notin skipped'
             PROVE  Has(n)'
  BY Zenon DEF Fresh, Has
<1>1. /\ serverVars' = serverVars /\ hubVars' = hubVars /\ commands' = commands /\ wire' = wire /\ page' = page /\ sock' = sock
      /\ view' = view /\ query' = query
  BY DEF vars, tabVars
<1>2. (Live(n) => Live(n)') /\ Ready /\ log' = log /\ n \notin unsent /\ n \notin skipped
  <2>1. n \notin skipped
    BY Zenon DEF vars, tabVars
  <2> QED
    BY <1>1, <2>1, LiveStays
<1>3. Sound
  BY <1>1, Zenon DEF Sound, Loading
<1>4. Has(n)
  BY <1>2, <1>3 DEF Steady, Fresh, Has
<1>5. (Loads(n) => Loads(n)') /\ (Shows(n) => Shows(n)')
  BY <1>1, Zenon DEF Loads, Loading, Brings, LastPage, Shows
<1> QED
  BY <1>2, <1>4, <1>5 DEF Has

\* Every step keeps the page fresh.
LEMMA SteadyStays ==
    ASSUME Steady, [Next]_vars
    PROVE  Steady'
<1>1. Inv /\ Bounded /\ Absent /\ Subscribed /\ Unending /\ Filling
  BY DEF Steady
<1>2. Inv'
  BY <1>1, NextInv
<1>3. Bounded' /\ Absent' /\ Subscribed' /\ Unending'
  BY <1>1, BoundedStays, AbsentStays, SubscribedStays, UnendingStays
<1>4. Filling'
  BY <1>1, <1>2, FillingStays
<1>5. Fresh'
  <2>1. ASSUME NEW b \in Batches, Emit(b)
        PROVE  Fresh'
    BY <2>1, EmitFresh
  <2>2. CASE Work
    BY <2>2, PublishFresh, HubFresh, EndFresh, OpenFresh, ReceiveFresh, LoadFresh, SyncFresh DEF Work
  <2>3. CASE Disturbance
    BY <2>3, EndFresh, LoadFresh, SyncFresh DEF Disturbance
  <2>4. CASE User
    BY <1>1, <2>4, BoundedStays, MountFresh, RetryFresh DEF User
  <2>5. CASE Quiet \/ UNCHANGED vars
    BY <2>5, StutterFresh DEF Quiet
  <2> QED
    BY <2>1, <2>2, <2>3, <2>4, <2>5 DEF Next
<1> QED
  BY <1>2, <1>3, <1>4, <1>5 DEF Steady

\* So it is in the beginning.
LEMMA SteadyFirst ==
    ASSUME Init, Staying
    PROVE  Steady
<1>1. Inv
  BY InitInv
<1>2. Bounded
  BY NothingYet, StreamAssumption DEF Init, Bounded
<1>3. ~Loading(query) /\ ~query.data /\ ~query.error
  BY DEF Init, NewQuery, Loading
<1>4. Absent /\ Subscribed /\ Unending /\ Fresh
  BY <1>3, Zenon DEF Init, Absent, Subscribed, Unending, Fresh, Ready
<1>5. Filling
  <2>1. query.load.after = 0 /\ query.load.page.items = <<>> /\ query.load.page.next = 0
    BY <1>3, NoPageWithoutLoad
  <2>2. view.lastSeq = 0
    BY DEF Init, emptyTaskEvents
  <2>3. Len(<<>>) = 0 /\ 1..0 = {} /\ 0 <= 0
    BY NothingYet
  <2> QED
    BY <1>3, <2>1, <2>2, <2>3, Zenon DEF Init, Filling
<1> QED
  BY <1>1, <1>2, <1>4, <1>5 DEF Steady

\* A mounted page shows every event that was published, or the event is on its way, or the
\* page shows that its events may be incomplete: NothingMissed without what it says of
\* unpublished events, and with its two exceptions (refused, skipped).
PublishedArrive ==
    page = "on" /\ ~refused =>
        \A n \in (1..Len(log)) \ (unsent \cup skipped) : n \in Seqs(view.events) \/ Covered(n)

\* A page that is fresh misses nothing that was published.
LEMMA SteadyArrives ==
    ASSUME Steady
    PROVE  PublishedArrive
<1> SUFFICES ASSUME page = "on", ~refused, NEW n \in (1..Len(log)) \ (unsent \cup skipped), ~Covered(n)
             PROVE  n \in Seqs(view.events)
  BY DEF PublishedArrive
<1>1. sock = "open" /\ hub \notin {"none", "overflow"} /\ ~query.error
  BY Zenon DEF Covered
<1>2. hub \in {"accepted", "serving"} /\ hub # "none"
  BY <1>1 DEF Steady, Inv, Link, Queued
<1>3. Shows(n) \/ Live(n) \/ Loads(n)
  BY <1>1, <1>2, Zenon DEF Steady, Fresh, Ready, Sound
<1>4. ~Loads(n)
  BY Zenon DEF Covered, Loads
<1>5. ~Passing(n)
  BY Zenon DEF Covered, Passing
<1>6. ~Live(n)
  <2>1. CASE commands = <<>>
    BY <1>5, <2>1 DEF Live
  <2>2. CASE commands # <<>>
    <3>1. Len(commands) = 1 /\ commands[1].op = "subscribe" /\ commands \in Seq(Command)
      BY <1>1, <1>2, <2>2 DEF Steady, Subscribed, Inv, Link, Asked
    <3>2. 1 \in DOMAIN commands
      BY <3>1
    <3>3. ~(commands[1].from < n)
      BY <3>1, <3>2, Zenon DEF Covered
    <3> QED
      BY <2>2, <3>3 DEF Live
  <2> QED
    BY <2>1, <2>2
<1> QED
  BY <1>3, <1>4, <1>6 DEF Shows

\* In every behaviour in which the user stays on the page, each stored event that was
\* published and that the page does not show is on its way to it, or the page shows that it
\* may be incomplete: for any number of events, of concurrent transactions that publish out
\* of order, of lost acknowledgements, broken connections, overflows, crashes, failed loads
\* and retries, and any capacities (ServeHTTP, Bus.Publish, onopen, syncTaskEvents).  What
\* can be lost is what a connection with a refused subscription carries, and the holes that
\* a reconnection found while the first load was still running.
THEOREM PublishedReachThePage == Spec /\ Staying => []PublishedArrive
<1>1. Init /\ Staying => Steady
  BY SteadyFirst
<1>2. Steady /\ [Next]_vars => Steady'
  BY SteadyStays
<1>3. Steady => PublishedArrive
  BY SteadyArrives
<1> QED
  BY <1>1, <1>2, <1>3, PTL DEF Spec

\* A load that is started anew leaves no hole.
LEMMA RestartFills ==
    ASSUME Inv, Bounded, Restarted(query, query')
    PROVE  Holes(view, query') = {}
<1>1. view.lastSeq \in 0..Len(log) /\ Len(log) \in Nat
  BY LastIsRow DEF Inv, Server
<1>2. 1..view.lastSeq \subseteq 1..Len(log)
  BY <1>1
<1>3. query'.load = NewSync(0, Infinity) /\ Loading(query')
  BY RestartLoads DEF Restarted
<1>4. \A n \in 1..view.lastSeq : Brings(query'.load, n)
  BY <1>2, <1>3, BringsAll DEF Bounded
<1> QED
  BY <1>3, <1>4, Zenon DEF Holes

\* A step that leaves holes behind while the page is there is a reconnection that joins the
\* first load.
LEMMA JoiningStep ==
    ASSUME Steady, [Next]_vars, page = "on", page' = "on",
           ~(sock = "closed" /\ sock' = "open" /\ Loading(query) /\ ~query.data)
    PROVE  skipped' \subseteq skipped \cup unsent
<1>1. CASE skipped' = skipped
  BY <1>1
<1>2. CASE Open
  <2>1. Inv /\ Bounded /\ query \in Query(Len(log)) /\ Len(log) \in Nat /\ sock \in {"new", "open", "closed"}
    BY DEF Steady, Inv, Server, Tab
  <2>2. sock # "open" /\ sock' = "open" /\ skipped' = Holes(view, query') /\ Invalidate(syncs)
    BY <1>2 DEF Open, OpenQuery
  <2>3. CASE Restarted(query, query')
    BY <2>1, <2>2, <2>3, RestartFills
  <2>4. CASE Loading(query) /\ ~query.data
    <3>1. sock = "new"
      BY <2>1, <2>2, <2>4
    <3>2. \A n \in 1..view.lastSeq : n \in Seqs(view.events)
      BY <3>1 DEF Steady, Filling, Shows
    <3>3. Holes(view, query') = {}
      BY <3>2, Zenon DEF Holes
    <3> QED
      BY <2>2, <3>3
  <2> QED
    BY <2>1, <2>2, <2>3, <2>4, InvalidateCases
<1>3. CASE Receive
  BY <1>3, Zenon DEF Receive
<1>4. ASSUME NEW s \in syncs, SyncFail(s)
      PROVE  skipped' \subseteq skipped \cup unsent
  BY <1>4, Zenon DEF SyncFail
<1>5. CASE \E b \in Batches : Emit(b)
  BY <1>1, <1>5, Zenon DEF Emit, tabVars
<1>6. CASE Work
  BY <1>1, <1>2, <1>3, <1>6, Zenon
     DEF Work, Publish, HubSubscribe, HubEvent, HubCommand, HubReplay, HubEnd, Close, SocketGone,
         LoadRead, LoadApply, SyncRead, SyncApply, tabVars
<1>7. CASE Disturbance
  BY <1>1, <1>4, <1>7, Zenon DEF Disturbance, HubBreak, ServerCrash, GiveUp, SocketGone, LoadFail, tabVars
<1>8. CASE User
  <2>1. ~Mount
    BY DEF Mount
  <2> QED
    BY <1>1, <1>8, <2>1, Zenon DEF User, Unmount, UserRetry
<1>9. CASE Quiet \/ UNCHANGED vars
  BY <1>1, <1>9, Zenon DEF Quiet, vars, tabVars
<1> QED
  BY <1>5, <1>6, <1>7, <1>8, <1>9 DEF Next

\* On a page that stays, the only step that gives up events that were published is a
\* reconnection while the first load still runs: the query library then joins that load,
\* and the subscription asks only for what is behind the last event (onopen, appendMany).
THEOREM ReconnectionsLoad == Spec /\ Staying => OnlyJoiningSkips
<1>1. Init /\ Staying => Steady
  BY SteadyFirst
<1>2. Steady /\ [Next]_vars => Steady'
  BY SteadyStays
<1>3. Steady /\ [Next]_vars =>
        [page = "on" /\ page' = "on" /\ ~(sock = "closed" /\ sock' = "open" /\ Loading(query) /\ ~query.data)
           => skipped' \subseteq skipped \cup unsent]_vars
  BY JoiningStep
<1> QED
  BY <1>1, <1>2, <1>3, PTL DEF Spec, OnlyJoiningSkips

\* Where no acknowledgement is lost, every event is published.
AllPublished == Acknowledging /\ unsent = {}

\* It stays so: only a lost acknowledgement keeps an event from publication.
LEMMA AllPublishedStays ==
    ASSUME Inv, AllPublished, [Next]_vars
    PROVE  AllPublished'
<1>1. PICK b : b = scene.bounds
  OBVIOUS
<1>2. b \in Disturbances /\ b.lostAcks = 0
  BY <1>1 DEF Inv, Server, IsScene, AllPublished, Acknowledging
<1>3. ASSUME NEW what, Spend(what)
      PROVE  what # "lostAcks" /\ scene'.bounds.lostAcks = 0
  <2>1. what # "lostAcks"
    BY <1>1, <1>2, <1>3 DEF Spend
  <2>2. PICK c : c = [b EXCEPT ![what] = @ - 1]
    OBVIOUS
  <2>3. c.lostAcks = 0
    BY <1>2, <2>1, <2>2 DEF Disturbances
  <2>4. scene' = [scene EXCEPT !.bounds = c]
    BY <1>1, <1>3, <2>2 DEF Spend
  <2>5. scene'.bounds = c
    BY <2>4 DEF Inv, Server, IsScene
  <2> QED
    BY <2>1, <2>3, <2>5, Zenon
<1>4. ASSUME NEW e \in Batches, Emit(e)
      PROVE  unsent' = unsent /\ scene' = scene
  BY <1>3, <1>4, Zenon DEF Emit
<1>5. unsent' = unsent /\ (scene' = scene \/ \E what : Spend(what))
  BY <1>4, OnlyEmitCommits, Zenon
<1> QED
  BY <1>3, <1>5 DEF AllPublished, Acknowledging

\* If in addition every commit is acknowledged, nothing that is stored is missed.
THEOREM PageMissesNothing == Spec /\ Staying /\ Acknowledging => []NothingMissed
<1>1. Init /\ Acknowledging => AllPublished
  BY DEF Init, AllPublished
<1>2. Inv /\ AllPublished /\ [Next]_vars => AllPublished'
  BY AllPublishedStays
<1>3. AllPublished /\ PublishedArrive => NothingMissed
  BY Zenon DEF AllPublished, PublishedArrive, NothingMissed
<1> QED
  BY <1>1, <1>2, <1>3, Invariant, PublishedReachThePage, PTL DEF Spec
=============================================================================
