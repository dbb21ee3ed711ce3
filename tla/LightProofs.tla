----------------------------- MODULE LightProofs -----------------------------
(***************************************************************************)
(* What keeps the light true to what it stands for.  The lobby: any number *)
(* of devices and slots, every timing of the flashes and ceremonies, and   *)
(* queues of any length.  Then the mutes of Surfaces: any number of        *)
(* devices and fixtures, colours and flashes of any length, and queues of  *)
(* any length again.  The two share the TimedQueue and what is proved of   *)
(* it, and nothing else.                                                   *)
(***************************************************************************)
EXTENDS Lobby, Surfaces, FiniteSetTheorems, SequenceTheorems, TLAPS

Kind == {"white", "red", "green", "bell", "chime"}
Load == [kind : Kind, dev : Devices]
Item == [left : Nat, load : Load]

\* The items of a queue, and that they are in release order.
Items(q) == {q[i] : i \in DOMAIN q}
Ordered(q) == \A i, j \in DOMAIN q : i < j => q[i].left <= q[j].left
Queue == {q \in Seq(Item) : Ordered(q)}

-----------------------------------------------------------------------------
(* Queues                                                                  *)

LEMMA QueueParts ==
    ASSUME NEW q \in Queue
    PROVE  /\ Len(q) \in Nat /\ DOMAIN q = 1 .. Len(q)
           /\ \A i \in 1 .. Len(q) : q[i] \in Item /\ q[i].left \in Nat
           /\ \A i, j \in 1 .. Len(q) : i < j => q[i].left <= q[j].left
<1>1. q \in Seq(Item) /\ Ordered(q)
  BY DEF Queue
<1>2. Len(q) \in Nat /\ DOMAIN q = 1 .. Len(q)
  BY <1>1, LenProperties
<1>3. \A i \in 1 .. Len(q) : q[i] \in Item
  BY <1>1, ElementOfSeq
<1>. QED BY <1>1, <1>2, <1>3 DEF Item, Ordered

\* The payloads due by a time are the first ones of the queue.
LEMMA FirstAreDue ==
    ASSUME NEW q \in Queue, NEW t \in Nat
    PROVE  /\ DueBy(q, t) \in 0 .. Len(q)
           /\ \A i \in 1 .. Len(q) : i <= DueBy(q, t) <=> q[i].left <= t
<1>. DEFINE early == {i \in DOMAIN q : q[i].left <= t}
            n == Cardinality(early)
<1>1. /\ Len(q) \in Nat /\ DOMAIN q = 1 .. Len(q)
      /\ \A i \in 1 .. Len(q) : q[i].left \in Nat
      /\ \A i, j \in 1 .. Len(q) : i < j => q[i].left <= q[j].left
  BY QueueParts
<1>2. \A k \in Nat : IsFiniteSet(1 .. k) /\ Cardinality(1 .. k) = k
  <2>. TAKE k \in Nat
  <2>1. 1 \in Int /\ k \in Int
    OBVIOUS
  <2>. QED BY <2>1, FS_Interval
<1>3. early \subseteq 1 .. Len(q)
  BY <1>1
<1>4. IsFiniteSet(early) /\ n \in Nat /\ n <= Len(q)
  BY <1>1, <1>2, <1>3, FS_Subset, FS_CardinalityType
<1>5. early \subseteq 1 .. n
  <2>. SUFFICES ASSUME NEW i \in early PROVE i <= n
    BY <1>1, <1>4
  <2>1. i \in 1 .. Len(q) /\ i \in Nat
    BY <1>1
  <2>2. \A j \in 1 .. i : j \in early
    <3>. TAKE j \in 1 .. i
    <3>1. j \in 1 .. Len(q) /\ q[j].left <= q[i].left
      BY <1>1, <2>1
    <3>. QED BY <1>1, <2>1, <3>1
  <2>3. Cardinality(1 .. i) <= n
    BY <1>4, <2>2, FS_Subset
  <2>. QED BY <1>2, <2>1, <2>3
<1>6. early = 1 .. n
  BY <1>2, <1>4, <1>5, FS_Subset
<1>. QED BY <1>1, <1>4, <1>6 DEF DueBy

\* Where the elements of three sequences are once they are put together.
LEMMA ThreeJoined ==
    ASSUME NEW S, NEW a \in Seq(S), NEW b \in Seq(S), NEW c \in Seq(S)
    PROVE  /\ (a \o b) \o c \in Seq(S)
           /\ Len((a \o b) \o c) = Len(a) + Len(b) + Len(c)
           /\ \A i \in 1 .. Len(a) + Len(b) + Len(c) :
                 ((a \o b) \o c)[i] = IF i <= Len(a) THEN a[i]
                                      ELSE IF i <= Len(a) + Len(b) THEN b[i - Len(a)]
                                      ELSE c[i - (Len(a) + Len(b))]
OBVIOUS

\* Loads pushed for one moment go between what waits no longer and the rest.
LEMMA PushedAll ==
    ASSUME NEW q \in Queue, NEW left \in Nat, NEW loads \in Seq(Load)
    PROVE  /\ PushAll(q, left, loads) \in Queue
           /\ Items(PushAll(q, left, loads))
                \subseteq Items(q) \cup {[left |-> left, load |-> loads[i]] : i \in DOMAIN loads}
<1>. DEFINE n == DueBy(q, left)
            m == Len(loads)
            p == PushAll(q, left, loads)
<1>1. /\ Len(q) \in Nat /\ DOMAIN q = 1 .. Len(q) /\ m \in Nat /\ DOMAIN loads = 1 .. m
      /\ \A i \in 1 .. Len(q) : q[i] \in Item /\ q[i].left \in Nat
      /\ \A i \in 1 .. m : loads[i] \in Load
  BY QueueParts, LenProperties, ElementOfSeq
<1>2. /\ n \in 0 .. Len(q)
      /\ \A i \in 1 .. Len(q) : i <= n <=> q[i].left <= left
  BY FirstAreDue
<1>. DEFINE a == SubSeq(q, 1, n)
            b == [i \in DOMAIN loads |-> [left |-> left, load |-> loads[i]]]
            c == SubSeq(q, n + 1, Len(q))
<1>3. p = (a \o b) \o c
  BY DEF PushAll
<1>. HIDE DEF n
<1>4. /\ a \in Seq(Item) /\ Len(a) = n /\ \A i \in 1 .. n : a[i] = q[i]
      /\ c \in Seq(Item) /\ Len(c) = Len(q) - n
      /\ \A i \in 1 .. Len(q) - n : c[i] = q[n + i]
  <2>1. q \in Seq(Item) /\ n \in 0 .. Len(q) /\ Len(q) \in Nat
    BY <1>1, <1>2 DEF Queue
  <2>2. a \in Seq(Item) /\ Len(a) = n /\ \A i \in 1 .. n : a[i] = q[i]
    BY <2>1
  <2>3. /\ c \in Seq(Item) /\ Len(c) = Len(q) - n
        /\ \A i \in 1 .. Len(q) - n : c[i] = q[n + i]
    BY <2>1
  <2>. QED BY <2>2, <2>3
<1>5. b \in Seq(Item) /\ Len(b) = m /\ \A i \in 1 .. m : b[i] = [left |-> left, load |-> loads[i]]
  <2>1. b = [i \in 1 .. m |-> [left |-> left, load |-> loads[i]]]
    BY <1>1
  <2>2. \A i \in 1 .. m : [left |-> left, load |-> loads[i]] \in Item
    BY <1>1 DEF Item
  <2>. QED BY <1>1, <2>1, <2>2
<1>. HIDE DEF a, b, c, m, p
<1>6. n \in Nat /\ m \in Nat /\ Len(q) - n \in Nat /\ n + m + (Len(q) - n) = Len(q) + m
  <2>1. n \in Nat /\ m \in Nat /\ Len(q) \in Nat /\ n <= Len(q)
    BY <1>1, <1>2
  <2>. QED BY <2>1
<1>7. p \in Seq(Item) /\ Len(p) = Len(q) + m
  <2>1. (a \o b) \o c \in Seq(Item)
    BY <1>4, <1>5
  <2>2. Len((a \o b) \o c) = Len(a) + Len(b) + Len(c)
    <3>1. a \in Seq(Item) /\ b \in Seq(Item) /\ c \in Seq(Item)
      BY <1>4, <1>5
    <3>. QED BY <3>1, ThreeJoined
  <2>. QED BY <1>3, <1>4, <1>5, <1>6, <2>1, <2>2
<1>8. \A i \in 1 .. Len(q) + m :
         p[i] = IF i <= n THEN a[i] ELSE IF i <= n + m THEN b[i - n] ELSE c[i - (n + m)]
  <2>. TAKE i \in 1 .. Len(q) + m
  <2>1. i \in 1 .. Len(a) + Len(b) + Len(c)
    BY <1>4, <1>5, <1>6
  <2>2. ((a \o b) \o c)[i] = IF i <= Len(a) THEN a[i]
                             ELSE IF i <= Len(a) + Len(b) THEN b[i - Len(a)]
                             ELSE c[i - (Len(a) + Len(b))]
    <3>1. a \in Seq(Item) /\ b \in Seq(Item) /\ c \in Seq(Item)
      BY <1>4, <1>5
    <3>. QED BY <2>1, <3>1, ThreeJoined
  <2>. QED BY <1>3, <1>4, <1>5, <2>2
<1>. DEFINE Place(i) ==
       \/ i <= n /\ i \in 1 .. Len(q) /\ p[i] = q[i]
       \/ n < i /\ i <= n + m /\ i - n \in 1 .. m /\ p[i] = [left |-> left, load |-> loads[i - n]]
       \/ n + m < i /\ i - m \in n + 1 .. Len(q) /\ p[i] = q[i - m]
<1>9. \A i \in 1 .. Len(q) + m : Place(i)
  <2>. TAKE i \in 1 .. Len(q) + m
  <2>. i \in Nat /\ n \in Nat /\ m \in Nat /\ Len(q) \in Nat /\ n <= Len(q)
    BY <1>1, <1>2, <1>6
  <2>1. CASE i <= n
    <3>1. i \in 1 .. n /\ i \in 1 .. Len(q)
      BY <2>1
    <3>. QED BY <1>4, <1>8, <2>1, <3>1
  <2>2. CASE n < i /\ i <= n + m
    <3>1. i - n \in 1 .. m /\ ~(i <= n)
      BY <2>2
    <3>2. p[i] = b[i - n]
      BY <1>8, <2>2, <3>1
    <3>. QED BY <1>5, <2>2, <3>1, <3>2
  <2>3. CASE n + m < i
    <3>1. /\ i - (n + m) \in 1 .. Len(q) - n /\ ~(i <= n + m) /\ ~(i <= n)
          /\ n + (i - (n + m)) = i - m /\ i - m \in n + 1 .. Len(q)
      BY <2>3
    <3>2. p[i] = c[i - (n + m)]
      BY <1>8, <3>1
    <3>. QED BY <1>4, <2>3, <3>1, <3>2
  <2>. QED BY <2>1, <2>2, <2>3
<1>10. DOMAIN p = 1 .. Len(q) + m
  BY <1>1, <1>7
<1>. DEFINE AtMost(k) == p[k].left \in Nat /\ p[k].left <= left
<1>11. Ordered(p)
  <2>1. ASSUME NEW k \in 1 .. Len(q) + m, k <= n
        PROVE  k \in 1 .. Len(q) /\ p[k] = q[k] /\ AtMost(k)
    <3>1. Place(k) /\ k \in Nat /\ n \in Nat /\ m \in Nat
      BY <1>1, <1>6, <1>9
    <3>2. k \in 1 .. Len(q) /\ p[k] = q[k]
      BY <2>1, <3>1
    <3>. QED BY <1>1, <1>2, <2>1, <3>2
  <2>2. ASSUME NEW k \in 1 .. Len(q) + m, n < k, k <= n + m
        PROVE  p[k].left = left
    <3>1. Place(k) /\ k \in Nat /\ n \in Nat /\ m \in Nat
      BY <1>1, <1>6, <1>9
    <3>. QED BY <2>2, <3>1
  <2>3. ASSUME NEW k \in 1 .. Len(q) + m, n + m < k
        PROVE  k - m \in 1 .. Len(q) /\ p[k] = q[k - m] /\ p[k].left \in Nat /\ left < p[k].left
    <3>1. Place(k) /\ k \in Nat /\ n \in Nat /\ m \in Nat
      BY <1>1, <1>6, <1>9
    <3>2. p[k] = q[k - m] /\ k - m \in n + 1 .. Len(q)
      BY <2>3, <3>1
    <3>3. k - m \in 1 .. Len(q) /\ ~(k - m <= n)
      BY <3>1, <3>2
    <3>4. q[k - m].left \in Nat /\ ~(q[k - m].left <= left)
      BY <1>1, <1>2, <3>3
    <3>. QED BY <3>2, <3>3, <3>4
  <2>. SUFFICES ASSUME NEW i \in 1 .. Len(q) + m, NEW j \in 1 .. Len(q) + m, i < j
                PROVE  p[i].left <= p[j].left
    BY <1>10 DEF Ordered
  <2>. i \in Nat /\ j \in Nat /\ n \in Nat /\ m \in Nat
    BY <1>1, <1>6
  <2>. HIDE DEF Place
  <2>4. \A k, l \in 1 .. Len(q) : k < l => q[k].left <= q[l].left
    BY QueueParts
  <2>5. CASE j <= n
    <3>1. i <= n
      BY <2>5
    <3>. QED BY <2>1, <2>4, <2>5, <3>1
  <2>6. CASE n < j /\ j <= n + m
    <3>1. p[j].left = left
      BY <2>2, <2>6
    <3>2. i <= n \/ (n < i /\ i <= n + m)
      BY <2>6
    <3>. QED BY <2>1, <2>2, <3>1, <3>2
  <2>7. CASE n + m < j
    <3>1. p[j].left \in Nat /\ left < p[j].left /\ j - m \in 1 .. Len(q) /\ p[j] = q[j - m]
      BY <2>3, <2>7
    <3>2. CASE i <= n
      <4>1. AtMost(i)
        BY <2>1, <3>2
      <4>. QED BY <3>1, <4>1
    <3>3. CASE n < i /\ i <= n + m
      <4>1. p[i].left = left
        BY <2>2, <3>3
      <4>. QED BY <3>1, <4>1
    <3>4. CASE n + m < i
      <4>1. i - m \in 1 .. Len(q) /\ p[i] = q[i - m] /\ i - m < j - m
        BY <2>3, <3>4
      <4>. QED BY <2>4, <3>1, <4>1
    <3>. QED BY <3>2, <3>3, <3>4
  <2>. QED BY <2>5, <2>6, <2>7
<1>12. \A i \in 1 .. Len(q) + m :
         p[i] \in Items(q) \cup {[left |-> left, load |-> loads[k]] : k \in 1 .. m}
  <2>. TAKE i \in 1 .. Len(q) + m
  <2>1. n + m < i /\ i - m \in n + 1 .. Len(q) => i - m \in 1 .. Len(q)
    BY <1>1, <1>2
  <2>. QED BY <1>1, <1>9, <2>1 DEF Items
<1>. QED BY <1>1, <1>7, <1>10, <1>11, <1>12 DEF Queue, Items, p

\* One load pushed is one such.
LEMMA Pushed ==
    ASSUME NEW q \in Queue, NEW left \in Nat, NEW load \in Load
    PROVE  /\ Push(q, left, load) \in Queue
           /\ Items(Push(q, left, load)) \subseteq Items(q) \cup {[left |-> left, load |-> load]}
<1>. DEFINE loads == <<load>>
<1>1. loads \in Seq(Load) /\ DOMAIN loads = {1} /\ loads[1] = load
  OBVIOUS
<1>2. Push(q, left, load) = PushAll(q, left, loads)
  BY DEF Push
<1>. HIDE DEF loads
<1>. QED BY <1>1, <1>2, PushedAll

\* What is due waits no longer, and what stays still waits.
LEMMA DueAndRest ==
    ASSUME NEW q \in Queue
    PROVE  /\ Rest(q) \in Queue /\ Items(Rest(q)) \subseteq {x \in Items(q) : x.left > 0}
           /\ DueBy(q, 0) \in Nat /\ Due(q) = [i \in 1 .. DueBy(q, 0) |-> q[i].load]
           /\ \A i \in 1 .. DueBy(q, 0) : q[i] \in Items(q)
<1>. DEFINE n == DueBy(q, 0)
            r == [i \in 1 .. Len(q) - n |-> q[n + i]]
<1>1. /\ Len(q) \in Nat /\ DOMAIN q = 1 .. Len(q)
      /\ \A i \in 1 .. Len(q) : q[i] \in Item /\ q[i].left \in Nat
      /\ \A i, j \in 1 .. Len(q) : i < j => q[i].left <= q[j].left
  BY QueueParts
<1>2. n \in 0 .. Len(q) /\ \A i \in 1 .. Len(q) : i <= n <=> q[i].left <= 0
  BY FirstAreDue
<1>. HIDE DEF n
<1>3. Rest(q) = r
  <2>1. Rest(q) = SubSeq(q, n + 1, Len(q))
    BY DEF Rest, n
  <2>2. q \in Seq(Item)
    BY DEF Queue
  <2>. QED BY <1>1, <1>2, <2>1, <2>2
<1>4. n \in Nat /\ Len(q) \in Nat /\ n <= Len(q)
  BY <1>1, <1>2
<1>5. \A i \in 1 .. Len(q) - n : n + i \in 1 .. Len(q) /\ ~(n + i <= n)
  BY <1>4
<1>6. \A i \in 1 .. Len(q) - n : r[i] \in Item /\ r[i] \in Items(q) /\ r[i].left > 0
  <2>. TAKE i \in 1 .. Len(q) - n
  <2>1. r[i] = q[n + i] /\ n + i \in 1 .. Len(q) /\ ~(n + i <= n)
    BY <1>5
  <2>. QED BY <1>1, <1>2, <2>1 DEF Items
<1>7. r \in Seq(Item) /\ DOMAIN r = 1 .. Len(q) - n
  <2>. DEFINE k == Len(q) - n
  <2>1. k \in Nat
    BY <1>4
  <2>2. r = [i \in 1 .. k |-> r[i]] /\ \A i \in 1 .. k : r[i] \in Item
    BY <1>6
  <2>. HIDE DEF k
  <2>3. r \in Seq(Item) /\ DOMAIN r = 1 .. k
    <3>. HIDE DEF r
    <3>. QED BY <2>1, <2>2
  <2>. QED BY <2>3 DEF k
<1>8. Ordered(r)
  <2>. SUFFICES ASSUME NEW i \in 1 .. Len(q) - n, NEW j \in 1 .. Len(q) - n, i < j
                PROVE  r[i].left <= r[j].left
    BY <1>7 DEF Ordered
  <2>1. /\ r[i] = q[n + i] /\ r[j] = q[n + j]
        /\ n + i \in 1 .. Len(q) /\ n + j \in 1 .. Len(q) /\ n + i < n + j
    BY <1>4, <1>5
  <2>. QED BY <1>1, <2>1
<1>9. Items(r) \subseteq {x \in Items(q) : x.left > 0}
  BY <1>6, <1>7 DEF Items
<1>10. \A i \in 1 .. n : q[i] \in Items(q)
  BY <1>1, <1>4 DEF Items
<1>. QED BY <1>3, <1>4, <1>7, <1>8, <1>9, <1>10 DEF Queue, Due, n

\* With a unit of time every wait is one shorter, down to none.
LEMMA Elapsed ==
    ASSUME NEW q \in Queue
    PROVE  /\ Elapse(q) \in Queue
           /\ \A x \in Items(Elapse(q)) : \E y \in Items(q) :
                 /\ x.load = y.load
                 /\ x.left = IF y.left = 0 THEN 0 ELSE y.left - 1
<1>. DEFINE e == Elapse(q)
            Less(n) == IF n = 0 THEN 0 ELSE n - 1
<1>1. /\ Len(q) \in Nat /\ DOMAIN q = 1 .. Len(q)
      /\ \A i \in 1 .. Len(q) : q[i] \in Item /\ q[i].left \in Nat
      /\ \A i, j \in 1 .. Len(q) : i < j => q[i].left <= q[j].left
  BY QueueParts
<1>2. /\ e = [i \in 1 .. Len(q) |-> [q[i] EXCEPT !.left = Less(q[i].left)]]
      /\ DOMAIN e = 1 .. Len(q)
  BY <1>1 DEF Elapse
<1>. HIDE DEF e
<1>3. \A i \in 1 .. Len(q) :
         e[i] \in Item /\ e[i].load = q[i].load /\ e[i].left = Less(q[i].left)
  <2>. TAKE i \in 1 .. Len(q)
  <2>1. q[i] \in [left : Nat, load : Load] /\ Less(q[i].left) \in Nat
    BY <1>1 DEF Item
  <2>2. e[i] = [q[i] EXCEPT !.left = Less(q[i].left)]
    BY <1>2
  <2>. QED BY <2>1, <2>2 DEF Item
<1>4. e \in Seq(Item)
  <2>1. e = [i \in 1 .. Len(q) |-> e[i]]
    BY <1>2
  <2>. QED BY <1>1, <1>3, <2>1
<1>5. Ordered(e)
  <2>. SUFFICES ASSUME NEW i \in 1 .. Len(q), NEW j \in 1 .. Len(q), i < j
                PROVE  e[i].left <= e[j].left
    BY <1>2 DEF Ordered
  <2>1. q[i].left \in Nat /\ q[j].left \in Nat /\ q[i].left <= q[j].left
    BY <1>1
  <2>2. e[i].left = Less(q[i].left) /\ e[j].left = Less(q[j].left)
    BY <1>3
  <2>. QED BY <2>1, <2>2
<1>6. \A x \in Items(e) : \E y \in Items(q) : x.load = y.load /\ x.left = Less(y.left)
  <2>. TAKE x \in Items(e)
  <2>1. PICK i \in 1 .. Len(q) : x = e[i]
    BY <1>2 DEF Items
  <2>2. q[i] \in Items(q)
    BY <1>1 DEF Items
  <2>. QED BY <1>3, <2>1, <2>2
<1>. QED BY <1>4, <1>5, <1>6 DEF Queue, e

\* The n-th place among the kept positions of a queue is taken, by one of them.
LEMMA EveryPlaceTaken ==
    ASSUME NEW k \in Nat, NEW kept \in SUBSET (1 .. k)
    PROVE  LET place(i) == Cardinality({j \in kept : j <= i})
           IN  /\ IsFiniteSet(kept) /\ Cardinality(kept) \in Nat
               /\ \A i \in kept : place(i) \in 1 .. Cardinality(kept)
               /\ \A i, j \in kept : i < j => place(i) < place(j)
               /\ \A n \in 1 .. Cardinality(kept) : \E i \in kept : place(i) = n
<1>. DEFINE place(i) == Cardinality({j \in kept : j <= i})
            N == Cardinality(kept)
            f == [i \in kept |-> place(i)]
<1>1. IsFiniteSet(1 .. k) /\ 1 \in Int /\ k \in Int
  BY FS_Interval
<1>2. IsFiniteSet(kept) /\ N \in Nat
  BY <1>1, FS_Subset, FS_CardinalityType
<1>3. \A i \in kept : i \in 1 .. k /\ i \in Nat
  OBVIOUS
<1>4. \A i \in Nat : IsFiniteSet({j \in kept : j <= i}) /\ place(i) \in Nat /\ place(i) <= N
  <2>. TAKE i \in Nat
  <2>1. {j \in kept : j <= i} \in SUBSET kept
    OBVIOUS
  <2>. QED BY <1>2, <2>1, FS_Subset, FS_CardinalityType
<1>5. \A i, j \in kept : i < j => place(i) < place(j)
  <2>. SUFFICES ASSUME NEW i \in kept, NEW j \in kept, i < j PROVE place(i) < place(j)
    OBVIOUS
  <2>. DEFINE A == {x \in kept : x <= i}
              B == {x \in kept : x <= j}
  <2>. i \in Nat /\ j \in Nat
    BY <1>3
  <2>1. A \in SUBSET B /\ j \in B /\ j \notin A
    <3>1. \A x \in kept : x <= i => x <= j
      BY <1>3
    <3>2. j <= j /\ ~(j <= i)
      OBVIOUS
    <3>. QED BY <3>1, <3>2
  <2>2. IsFiniteSet(B) /\ Cardinality(A) \in Nat /\ Cardinality(B) \in Nat
    BY <1>3, <1>4
  <2>. HIDE DEF A, B
  <2>3. Cardinality(A) <= Cardinality(B) /\ Cardinality(A) # Cardinality(B)
    BY <2>1, <2>2, FS_Subset
  <2>4. Cardinality(A) < Cardinality(B)
    BY <2>2, <2>3
  <2>. QED BY <2>4 DEF A, B
<1>6. \A i \in kept : place(i) \in 1 .. N
  <2>. TAKE i \in kept
  <2>1. i \in {j \in kept : j <= i}
    BY <1>3
  <2>2. place(i) # 0
    BY <1>3, <1>4, <2>1, FS_EmptySet
  <2>. QED BY <1>2, <1>3, <1>4, <2>2
<1>. HIDE DEF place
<1>7. f \in Injection(kept, 1 .. N)
  <2>1. \A i, j \in kept : i # j => place(i) # place(j)
    <3>. SUFFICES ASSUME NEW i \in kept, NEW j \in kept, i # j, place(i) = place(j) PROVE FALSE
      OBVIOUS
    <3>1. i < j \/ j < i
      BY <1>3
    <3>. QED BY <1>2, <1>5, <1>6, <3>1
  <2>. QED BY <1>6, <2>1 DEF Injection, IsInjective
<1>8. IsFiniteSet(1 .. N) /\ Cardinality(1 .. N) = N
  <2>1. 1 \in Int /\ N \in Int
    BY <1>2
  <2>. QED BY <1>2, <2>1, FS_Interval
<1>9. f \in Surjection(kept, 1 .. N)
  BY <1>7, <1>8, FS_Injection
<1>10. \A n \in 1 .. N : \E i \in kept : place(i) = n
  BY <1>9 DEF Surjection
<1>. QED BY <1>2, <1>5, <1>6, <1>10 DEF place

\* A purge drops what it is asked to and keeps the rest as it is.
LEMMA Purged ==
    ASSUME NEW q \in Queue, NEW dropped
    PROVE  /\ Purge(q, dropped) \in Queue
           /\ Items(Purge(q, dropped)) \subseteq {x \in Items(q) : x.load \notin dropped}
<1>. DEFINE kept == {i \in DOMAIN q : q[i].load \notin dropped}
            place(i) == Cardinality({j \in kept : j <= i})
            N == Cardinality(kept)
            At(n) == CHOOSE i \in kept : place(i) = n
            p == Purge(q, dropped)
<1>1. /\ Len(q) \in Nat /\ DOMAIN q = 1 .. Len(q)
      /\ \A i \in 1 .. Len(q) : q[i] \in Item /\ q[i].left \in Nat
      /\ \A i, j \in 1 .. Len(q) : i < j => q[i].left <= q[j].left
  BY QueueParts
<1>2. kept \in SUBSET (1 .. Len(q)) /\ \A i \in kept : q[i].load \notin dropped
  BY <1>1
<1>3. p = [n \in 1 .. N |-> q[At(n)]]
  BY DEF Purge
<1>. HIDE DEF kept, p
<1>4. /\ N \in Nat
      /\ \A i \in kept : place(i) \in 1 .. N
      /\ \A i, j \in kept : i < j => place(i) < place(j)
      /\ \A n \in 1 .. N : \E i \in kept : place(i) = n
  BY <1>1, <1>2, EveryPlaceTaken
<1>. HIDE DEF place, N
<1>5. \A n \in 1 .. N : At(n) \in kept /\ place(At(n)) = n
  BY <1>4
<1>. HIDE DEF At
<1>6. \A n \in 1 .. N : p[n] = q[At(n)] /\ p[n] \in Item /\ p[n] \in Items(q)
                        /\ p[n].load \notin dropped
  BY <1>1, <1>2, <1>3, <1>5 DEF Items
<1>7. p \in Seq(Item) /\ DOMAIN p = 1 .. N
  <2>1. p = [n \in 1 .. N |-> p[n]]
    BY <1>3
  <2>. QED BY <1>4, <1>6, <2>1
<1>8. Ordered(p)
  <2>. SUFFICES ASSUME NEW m \in 1 .. N, NEW n \in 1 .. N, m < n
                PROVE  p[m].left <= p[n].left
    BY <1>7 DEF Ordered
  <2>1. /\ At(m) \in kept /\ At(n) \in kept /\ place(At(m)) = m /\ place(At(n)) = n
        /\ At(m) \in 1 .. Len(q) /\ At(n) \in 1 .. Len(q)
    BY <1>2, <1>5
  <2>2. ~(At(n) < At(m)) /\ At(m) # At(n)
    <3>1. At(n) < At(m) => n < m
      BY <1>4, <2>1
    <3>. QED BY <1>4, <2>1, <3>1
  <2>3. At(m) < At(n)
    BY <1>1, <2>1, <2>2
  <2>. QED BY <1>1, <1>6, <2>1, <2>3
<1>. QED BY <1>6, <1>7, <1>8 DEF Queue, Items, p

-----------------------------------------------------------------------------
(* What the lobby queues                                                   *)

LEMMA Timings ==
    /\ FlashOn \in Nat /\ FlashStep \in Nat /\ BellAt \in Nat /\ ChimeAt \in Nat
    /\ CeremonyGap \in Nat /\ InviteEvery \in Nat /\ Train \in Nat
    /\ FlashOn > 0 /\ FlashStep > 0 /\ FlashStep < Train /\ InviteEvery > 0
    /\ None # "white" /\ None # "green"
<1>1. /\ FlashOn \in Nat /\ FlashStep \in Nat /\ BellAt \in Nat /\ ChimeAt \in Nat
      /\ CeremonyGap \in Nat /\ InviteEvery \in Nat
      /\ FlashOn > 0 /\ FlashStep >= FlashOn /\ InviteEvery > 0
  BY LobbyAssumption
<1>2. Train = 2 * FlashStep
  BY DEF Train
<1>. QED BY <1>1, <1>2, LobbyAssumption

\* Items of the queue, apart from a device's invites.
LEMMA InvitesGone ==
    ASSUME NEW q \in Queue, NEW d \in Devices
    PROVE  /\ WithoutInvites(q, d) \in Queue
           /\ Items(WithoutInvites(q, d))
                \subseteq {x \in Items(q) : ~(x.load.kind = "white" /\ x.load.dev = d)}
<1>1. /\ WithoutInvites(q, d) \in Queue
      /\ Items(WithoutInvites(q, d))
           \subseteq {x \in Items(q) : x.load \notin {Cue("white", d)}}
  BY Purged DEF WithoutInvites
<1>2. \A x \in Items(q) : x.load \in Load
  BY QueueParts DEF Items, Item
<1>3. \A y \in Load : y.kind = "white" /\ y.dev = d => y = Cue("white", d)
  BY DEF Load, Kind, Cue
<1>. QED BY <1>1, <1>2, <1>3

LEMMA TrainPushed ==
    ASSUME NEW q \in Queue, NEW left \in Nat, NEW kind \in Kind, NEW d \in Devices
    PROVE  /\ PushTrain(q, left, kind, d) \in Queue
           /\ Items(PushTrain(q, left, kind, d))
                \subseteq Items(q) \cup {[left |-> left, load |-> Cue(kind, d)],
                                         [left |-> left + FlashStep, load |-> Cue(kind, d)]}
<1>. DEFINE once == Push(q, left, Cue(kind, d))
<1>1. Cue(kind, d) \in Load /\ left + FlashStep \in Nat
  BY Timings DEF Cue, Load
<1>2. once \in Queue /\ Items(once) \subseteq Items(q) \cup {[left |-> left, load |-> Cue(kind, d)]}
  BY <1>1, Pushed
<1>. HIDE DEF once
<1>3. /\ Push(once, left + FlashStep, Cue(kind, d)) \in Queue
      /\ Items(Push(once, left + FlashStep, Cue(kind, d)))
           \subseteq Items(once) \cup {[left |-> left + FlashStep, load |-> Cue(kind, d)]}
  BY <1>1, <1>2, Pushed
<1>4. PushTrain(q, left, kind, d) = Push(once, left + FlashStep, Cue(kind, d))
  BY DEF PushTrain, once
<1>. QED BY <1>2, <1>3, <1>4

LEMMA CeremonyPushed ==
    ASSUME NEW q \in Queue, NEW at \in Nat, NEW d \in Devices
    PROVE  /\ PushCeremony(q, at, d) \in Queue
           /\ Items(PushCeremony(q, at, d))
                \subseteq Items(q) \cup {[left |-> at, load |-> Cue("green", d)],
                                         [left |-> at + FlashStep, load |-> Cue("green", d)],
                                         [left |-> at + BellAt, load |-> Cue("bell", d)],
                                         [left |-> at + ChimeAt, load |-> Cue("chime", d)]}
<1>. DEFINE flashes == PushTrain(q, at, "green", d)
            bell == Push(flashes, at + BellAt, Cue("bell", d))
<1>1. /\ Cue("bell", d) \in Load /\ Cue("chime", d) \in Load /\ "green" \in Kind
      /\ at + BellAt \in Nat /\ at + ChimeAt \in Nat
  BY Timings DEF Cue, Load, Kind
<1>2. /\ flashes \in Queue
      /\ Items(flashes) \subseteq Items(q) \cup {[left |-> at, load |-> Cue("green", d)],
                                          [left |-> at + FlashStep, load |-> Cue("green", d)]}
  BY <1>1, TrainPushed
<1>. HIDE DEF flashes
<1>3. /\ bell \in Queue
      /\ Items(bell) \subseteq Items(flashes) \cup {[left |-> at + BellAt, load |-> Cue("bell", d)]}
  BY <1>1, <1>2, Pushed
<1>. HIDE DEF bell
<1>4. /\ Push(bell, at + ChimeAt, Cue("chime", d)) \in Queue
      /\ Items(Push(bell, at + ChimeAt, Cue("chime", d)))
           \subseteq Items(bell) \cup {[left |-> at + ChimeAt, load |-> Cue("chime", d)]}
  BY <1>1, <1>3, Pushed
<1>5. PushCeremony(q, at, d) = Push(bell, at + ChimeAt, Cue("chime", d))
  BY DEF PushCeremony, bell, flashes
<1>. QED BY <1>2, <1>3, <1>4, <1>5

\* The devices of a set, in some order.
LEMMA SetInSequence ==
    ASSUME NEW S, IsFiniteSet(S)
    PROVE  SetToSeq(S) \in Seq(S)
<1>. DEFINE n == Cardinality(S)
<1>1. n \in Nat /\ ExistsBijection(1 .. n, S)
  BY FS_CardinalityType
<1>2. \E f \in [1 .. n -> S] : IsInjective(f)
  BY <1>1 DEF ExistsBijection, Bijection, Injection
<1>3. SetToSeq(S) = CHOOSE f \in [1 .. n -> S] : IsInjective(f)
  BY DEF SetToSeq
<1>4. SetToSeq(S) \in [1 .. n -> S]
  BY <1>2, <1>3
<1>. QED BY <1>1, <1>4

LEMMA InvitesPushed ==
    ASSUME NEW q \in Queue, NEW devs \in Seq(Devices)
    PROVE  /\ PushInvites(q, devs) \in Queue
           /\ \A x \in Items(PushInvites(q, devs)) :
                 \/ x \in Items(q)
                 \/ /\ x.left <= FlashStep /\ x.load.kind = "white"
                    /\ \E i \in DOMAIN devs : x.load.dev = devs[i]
<1>. DEFINE cues == [i \in DOMAIN devs |-> Cue("white", devs[i])]
            once == PushAll(q, 0, cues)
            New(left) == {[left |-> left, load |-> cues[i]] : i \in DOMAIN cues}
<1>1. Len(devs) \in Nat /\ DOMAIN devs = 1 .. Len(devs) /\ \A i \in 1 .. Len(devs) : devs[i] \in Devices
  BY LenProperties, ElementOfSeq
<1>2. cues \in Seq(Load) /\ DOMAIN cues = DOMAIN devs
      /\ \A i \in DOMAIN devs : cues[i].kind = "white" /\ cues[i].dev = devs[i]
  <2>1. \A i \in 1 .. Len(devs) : Cue("white", devs[i]) \in Load
    BY <1>1 DEF Cue, Load, Kind
  <2>. QED BY <1>1, <2>1 DEF Cue
<1>. HIDE DEF cues
<1>3. once \in Queue /\ Items(once) \subseteq Items(q) \cup New(0)
  <2>1. cues \in Seq(Load) /\ 0 \in Nat
    BY <1>2
  <2>. QED BY <2>1, PushedAll
<1>. HIDE DEF once
<1>4. /\ PushAll(once, FlashStep, cues) \in Queue
      /\ Items(PushAll(once, FlashStep, cues)) \subseteq Items(once) \cup New(FlashStep)
  BY <1>2, <1>3, Timings, PushedAll
<1>5. PushInvites(q, devs) = PushAll(once, FlashStep, cues)
  BY DEF PushInvites, once, cues
<1>6. \A x \in New(0) \cup New(FlashStep) :
         /\ x.left <= FlashStep /\ x.load.kind = "white"
         /\ \E i \in DOMAIN devs : x.load.dev = devs[i]
  BY <1>2, Timings
<1>. QED BY <1>3, <1>4, <1>5, <1>6

-----------------------------------------------------------------------------
(* The invariant                                                           *)

\* The runtime runs exactly during setup, and knows whether a slot is left.
Stage ==
    /\ phase = "setup" <=> lobby = "up"
    /\ lobby = "up" => mode = Mode(where, cap)

\* Whoever has a pulse stands where its color says, and what shines on a device is
\* its pulse.
PulseOf(d) ==
    /\ status[d] # None =>
          /\ lobby = "up"
          /\ status[d].rgb = "white" => where[d] = "pool" /\ mode = "WAITING"
          /\ status[d].rgb = "green" => where[d] = "validated"
    /\ base[d] # None => status[d] # None /\ status[d].rgb = base[d]

\* A queued flash: an invite is for one in the pool, white and red come soon, and
\* green before the next ceremony could.
Fits(x, at, ph, fr) ==
    /\ x.load.kind = "white" => at[x.load.dev] = "pool" /\ ph = "setup"
    /\ x.load.kind \in {"white", "red"} => x.left <= FlashStep
    /\ x.load.kind = "green" => x.left < fr + Train

\* It comes while its device's pulse is dark.
InTheDark(x, at, st) ==
    Color(x.load.kind) /\ st[x.load.dev] # None
        /\ (x.load.kind = "green" => at[x.load.dev] = "validated")
        => x.left < st[x.load.dev].left

Cues(q, at, ph, fr, st) == \A x \in Items(q) : Fits(x, at, ph, fr) /\ InTheDark(x, at, st)

LobbyInv ==
    /\ TypeOK /\ Ordered(queue) /\ Stage
    /\ \A d \in Devices : PulseOf(d)
    /\ Cues(queue, where, phase, free, status)

Pulse == [rgb : {"white", "green"}, left : Nat]

LEMMA NotAPulse == None \notin Pulse
BY LobbyAssumption DEF Pulse

\* What of it the actions need.
LEMMA Holds ==
    ASSUME LobbyInv
    PROVE  /\ queue \in Queue /\ free \in Nat /\ cap \in Nat
           /\ where \in [Devices -> {"away", "pool", "validated", "bound", "seated"}]
           /\ status \in [Devices -> {None} \cup Pulse]
           /\ \A d \in Devices : status[d] # None =>
                 status[d] \in Pulse /\ status[d].left \in Nat
                 /\ (status[d].rgb = "white" \/ status[d].rgb = "green")
           /\ \A x \in Items(queue) :
                 /\ x.left \in Nat /\ x.load.dev \in Devices /\ x.load.kind \in Kind
                 /\ Fits(x, where, phase, free) /\ InTheDark(x, where, status)
<1>1. queue \in Queue
  BY DEF LobbyInv, TypeOK, Queue, Item, Load, Kind
<1>2. \A x \in Items(queue) : x \in Item
  BY <1>1, QueueParts DEF Items
<1>3. cap \in Nat /\ free \in Nat
  BY LobbyAssumption DEF LobbyInv, TypeOK
<1>4. status \in [Devices -> {None} \cup Pulse]
  BY DEF LobbyInv, TypeOK, Pulse
<1>5. where \in [Devices -> {"away", "pool", "validated", "bound", "seated"}]
  BY DEF LobbyInv, TypeOK
<1>6. \A d \in Devices : status[d] # None =>
         status[d] \in Pulse /\ status[d].left \in Nat
         /\ (status[d].rgb = "white" \/ status[d].rgb = "green")
  BY <1>4 DEF Pulse
<1>7. \A x \in Items(queue) : x.left \in Nat /\ x.load.dev \in Devices /\ x.load.kind \in Kind
  BY <1>2 DEF Item, Load
<1>. QED BY <1>1, <1>3, <1>4, <1>5, <1>6, <1>7 DEF LobbyInv, Cues

\* A typed queue in release order is what the variable holds.
LEMMA QueueTyped ==
    ASSUME NEW q \in Queue
    PROVE  /\ q \in Seq([left : Nat, load : [kind : {"white", "red", "green", "bell", "chime"},
                                             dev : Devices]])
           /\ Ordered(q)
BY DEF Queue, Item, Load, Kind

LEMMA NoQueue == <<>> \in Queue /\ Items(<<>>) = {}
<1>1. <<>> \in Seq(Item) /\ DOMAIN <<>> = {}
  OBVIOUS
<1>. QED BY <1>1 DEF Queue, Ordered, Items

LEMMA InitKeeps == Init => LobbyInv
<1>. SUFFICES ASSUME Init PROVE LobbyInv
  OBVIOUS
<1>1. queue \in Queue /\ Items(queue) = {}
  BY NoQueue DEF Init
<1>2. TypeOK
  BY <1>1, QueueTyped DEF Init, TypeOK, Nobody
<1>3. Stage /\ \A d \in Devices : PulseOf(d)
  BY DEF Init, Stage, PulseOf, Nobody
<1>. QED BY <1>1, <1>2, <1>3, QueueTyped DEF LobbyInv, Cues

\* A device that registers elsewhere than among the validated fills no slot.
LEMMA HelloKeeps ==
    ASSUME LobbyInv, NEW d \in Devices, Hello(d)
    PROVE  LobbyInv'
<1>1. where[d] = "away" /\ where' = [where EXCEPT ![d] = where'[d]]
      /\ where'[d] \in {"pool", "seated"}
  BY Holds DEF Hello
<1>2. UNCHANGED <<cap, phase, lobby, mode, queue, invite, status, free, paint, base, rung>>
  BY DEF Hello, runtime, lights
<1>3. \A e \in Devices : e # d => where'[e] = where[e]
  BY <1>1, Holds
<1>4. where' \in [Devices -> {"away", "pool", "validated", "bound", "seated"}]
  BY <1>1, Holds
<1>5. TypeOK' /\ Ordered(queue)'
  BY <1>2, <1>4 DEF LobbyInv, TypeOK, Ordered
<1>6. Validated(where') = Validated(where)
  BY <1>1, <1>3 DEF Validated
<1>7. Stage'
  BY <1>2, <1>6 DEF LobbyInv, Stage, Mode
<1>8. \A e \in Devices : PulseOf(e)'
  <2>. TAKE e \in Devices
  <2>1. PulseOf(e)
    BY DEF LobbyInv
  <2>2. status[e] # None => e # d
    BY <1>1, <2>1, Holds DEF PulseOf
  <2>. QED BY <1>2, <1>3, <2>1, <2>2 DEF PulseOf
<1>9. Cues(queue, where', phase, free, status)
  <2>. SUFFICES ASSUME NEW x \in Items(queue)
                PROVE  Fits(x, where', phase, free) /\ InTheDark(x, where', status)
    BY DEF Cues
  <2>1. Fits(x, where, phase, free) /\ InTheDark(x, where, status) /\ x.load.dev \in Devices
    BY Holds
  <2>2. Fits(x, where', phase, free)
    BY <1>1, <1>3, <2>1 DEF Fits
  <2>3. InTheDark(x, where', status)
    BY <1>1, <1>3, <2>1 DEF InTheDark
  <2>. QED BY <2>2, <2>3
<1>. QED BY <1>2, <1>5, <1>7, <1>8, <1>9 DEF LobbyInv

\* A validation: its flashes end before its pulse begins, and those of an earlier
\* ceremony of the same device do too; if it fills the lobby no white pulse is left.
LEMMA ValidateKeeps ==
    ASSUME LobbyInv, NEW d \in Devices, Validate(d)
    PROVE  LobbyInv'
<1>. DEFINE first == WithoutInvites(queue, d)
            full == Mode(where', cap)
            green == [rgb |-> "green", left |-> free + Train]
            st == Hold([status EXCEPT ![d] = None], d, "green", free + Train)
<1>1. /\ phase = "setup" /\ where[d] = "pool" /\ Cardinality(Validated(where)) < cap
      /\ where' = [where EXCEPT ![d] = "validated"]
      /\ UNCHANGED <<cap, phase, lobby, paint>>
      /\ invite' = [invite EXCEPT ![d] = None] /\ rung' = rung \ {d}
      /\ mode' = full /\ free' = free + ChimeAt + CeremonyGap
      /\ queue' = PushCeremony(first, free, d)
      /\ status' = Synced(st, full)
      /\ base' = [e \in Devices |-> IF e = d \/ (status'[e] = None /\ status[e] # None)
                                    THEN None ELSE base[e]]
  BY DEF Validate, Reserve
<1>. HIDE DEF full
<1>2. lobby = "up" /\ mode = "WAITING" /\ full \in {"WAITING", "FULL"}
  <2>1. lobby = "up" /\ mode = Mode(where, cap)
    BY <1>1 DEF LobbyInv, Stage
  <2>2. Validated(where) \in SUBSET Devices
    BY DEF Validated
  <2>3. Cardinality(Validated(where)) \in Nat
    BY <2>2, LobbyAssumption, FS_Subset, FS_CardinalityType
  <2>4. ~(Cardinality(Validated(where)) >= cap)
    BY <1>1, <2>3, Holds
  <2>. QED BY <2>1, <2>4 DEF Mode, full
<1>3. st = [status EXCEPT ![d] = green]
  <2>1. [status EXCEPT ![d] = None] \in [Devices -> {None} \cup Pulse]
        /\ [status EXCEPT ![d] = None][d] = None
    BY Holds
  <2>2. st = [[status EXCEPT ![d] = None] EXCEPT ![d] = green]
    BY <2>1 DEF Hold
  <2>. QED BY <2>2, Holds
<1>4. /\ green \in Pulse /\ green.rgb = "green" /\ green.left = free + Train
      /\ free' \in Nat /\ free <= free'
  BY <1>1, Holds, Timings DEF Pulse
<1>5. \A e \in Devices :
         status'[e] = IF full = "FULL" /\ st[e] # None /\ st[e].rgb = "white" THEN None ELSE st[e]
  BY <1>1, <1>2 DEF Synced
<1>6. /\ status'[d] = green
      /\ \A e \in Devices : e # d /\ status'[e] # None =>
            status'[e] = status[e] /\ (status[e].rgb = "white" => full = "WAITING")
  BY <1>2, <1>3, <1>4, <1>5, Holds
<1>. HIDE DEF st, green
<1>7. status' \in [Devices -> {None} \cup Pulse]
  <2>1. \A e \in Devices : status'[e] \in {None} \cup Pulse
    BY <1>4, <1>6, Holds
  <2>2. status' = [e \in Devices |-> status'[e]]
    BY <1>1 DEF Synced
  <2>. QED BY <2>1, <2>2
<1>8. /\ queue' \in Queue
      /\ Items(queue') \subseteq
            {x \in Items(queue) : ~(x.load.kind = "white" /\ x.load.dev = d)}
               \cup {[left |-> free, load |-> Cue("green", d)],
                     [left |-> free + FlashStep, load |-> Cue("green", d)],
                     [left |-> free + BellAt, load |-> Cue("bell", d)],
                     [left |-> free + ChimeAt, load |-> Cue("chime", d)]}
  BY <1>1, Holds, InvitesGone, CeremonyPushed
<1>9. \A e \in Devices : where'[e] = IF e = d THEN "validated" ELSE where[e]
  BY <1>1, Holds
<1>10. TypeOK'
  <2>1. where' \in [Devices -> {"away", "pool", "validated", "bound", "seated"}]
    BY <1>1, Holds
  <2>2. invite' \in [Devices -> {None} \cup 0 .. InviteEvery]
    BY <1>1 DEF LobbyInv, TypeOK
  <2>3. base' \in [Devices -> {None, "white", "green"}]
    BY <1>1 DEF LobbyInv, TypeOK
  <2>. QED BY <1>1, <1>2, <1>4, <1>7, <1>8, <2>1, <2>2, <2>3, QueueTyped DEF LobbyInv, TypeOK, Pulse
<1>11. Stage'
  BY <1>1 DEF LobbyInv, Stage, full
<1>12. \A e \in Devices : PulseOf(e)'
  <2>. TAKE e \in Devices
  <2>1. CASE e = d
    BY <1>1, <1>2, <1>4, <1>6, <1>9, <2>1 DEF PulseOf
  <2>2. CASE e # d
    <3>1. PulseOf(e)
      BY DEF LobbyInv
    <3>. QED BY <1>1, <1>2, <1>6, <1>9, <2>2, <3>1 DEF PulseOf
  <2>. QED BY <2>1, <2>2
<1>13. Cues(queue', where', phase, free', status')
  <2>. SUFFICES ASSUME NEW x \in Items(queue')
                PROVE  Fits(x, where', phase, free') /\ InTheDark(x, where', status')
    BY DEF Cues
  <2>1. CASE x \in Items(queue) /\ ~(x.load.kind = "white" /\ x.load.dev = d)
    <3>1. /\ x.left \in Nat /\ x.load.dev \in Devices /\ x.load.kind \in Kind
          /\ Fits(x, where, phase, free) /\ InTheDark(x, where, status)
      BY <2>1, Holds
    <3>2. Fits(x, where', phase, free')
      BY <1>4, <1>9, <2>1, <3>1, Holds, Timings DEF Fits
    <3>3. InTheDark(x, where', status')
      <4>1. CASE x.load.dev = d
        <5>1. Color(x.load.kind) => x.left < free + Train
          BY <2>1, <3>1, <4>1, Holds, Timings DEF Fits, Color
        <5>. QED BY <1>4, <1>6, <4>1, <5>1 DEF InTheDark
      <4>2. CASE x.load.dev # d
        BY <1>6, <1>9, <3>1, <4>2 DEF InTheDark
      <4>. QED BY <4>1, <4>2
    <3>. QED BY <3>2, <3>3
  <2>2. CASE x \in {[left |-> free, load |-> Cue("green", d)],
                    [left |-> free + FlashStep, load |-> Cue("green", d)]}
    <3>1. x.load.kind = "green" /\ x.load.dev = d /\ x.left < free + Train
      BY <2>2, Holds, Timings DEF Cue
    <3>2. x.left \in Nat
      BY <2>2, Holds, Timings
    <3>3. Fits(x, where', phase, free')
      BY <1>4, <3>1, <3>2, Holds, Timings DEF Fits
    <3>. QED BY <1>4, <1>6, <3>1, <3>3 DEF InTheDark
  <2>3. CASE x \in {[left |-> free + BellAt, load |-> Cue("bell", d)],
                    [left |-> free + ChimeAt, load |-> Cue("chime", d)]}
    <3>1. x.load.kind \in {"bell", "chime"}
      BY <2>3 DEF Cue
    <3>. QED BY <3>1 DEF Fits, InTheDark, Color
  <2>. QED BY <1>8, <2>1, <2>2, <2>3
<1>. QED BY <1>1, <1>8, <1>10, <1>11, <1>12, <1>13, QueueTyped DEF LobbyInv


\* A denial: the red train ends before the pulse is back.
LEMMA DenyKeeps ==
    ASSUME LobbyInv, NEW d \in Devices, Deny(d)
    PROVE  LobbyInv'
<1>. DEFINE first == WithoutInvites(queue, d)
<1>1. /\ UNCHANGED <<cap, phase, where, lobby, mode, invite, free, paint, base, rung>>
      /\ queue' = PushTrain(first, 0, "red", d)
      /\ status' = [status EXCEPT ![d] = IF @ = None THEN None ELSE DarkUntil(@, Train)]
  BY DEF Deny, lights
<1>2. /\ queue' \in Queue
      /\ Items(queue') \subseteq
            {x \in Items(queue) : ~(x.load.kind = "white" /\ x.load.dev = d)}
               \cup {[left |-> 0, load |-> Cue("red", d)],
                     [left |-> 0 + FlashStep, load |-> Cue("red", d)]}
  <2>1. "red" \in Kind /\ 0 \in Nat
    BY DEF Kind
  <2>. QED BY <1>1, <2>1, Holds, InvitesGone, TrainPushed
<1>3. /\ \A e \in Devices : e # d => status'[e] = status[e]
      /\ status[d] = None => status'[d] = None
  BY <1>1, Holds
<1>4. status[d] # None =>
         /\ status'[d] \in Pulse /\ status'[d].rgb = status[d].rgb
         /\ status'[d].left \in Nat
         /\ status[d].left <= status'[d].left /\ Train <= status'[d].left
  <2>. SUFFICES ASSUME status[d] # None
                PROVE  /\ status'[d] \in Pulse /\ status'[d].rgb = status[d].rgb
                       /\ status'[d].left \in Nat
                       /\ status[d].left <= status'[d].left /\ Train <= status'[d].left
    OBVIOUS
  <2>1. status[d] \in Pulse /\ status[d].left \in Nat /\ Train \in Nat
    BY Holds, Timings
  <2>2. Larger(status[d].left, Train) \in Nat
    BY <2>1 DEF Larger
  <2>3. status'[d] = [status[d] EXCEPT !.left = Larger(status[d].left, Train)]
    BY <1>1, Holds DEF DarkUntil
  <2>4. /\ status'[d] \in Pulse /\ status'[d].rgb = status[d].rgb
        /\ status'[d].left = Larger(status[d].left, Train)
    BY <2>1, <2>2, <2>3 DEF Pulse
  <2>. QED BY <2>1, <2>2, <2>4 DEF Larger
<1>5. status' \in [Devices -> {None} \cup Pulse]
  <2>1. \A e \in Devices : status'[e] \in {None} \cup Pulse
    BY <1>3, <1>4, Holds
  <2>2. status' = [e \in Devices |-> status'[e]]
    BY <1>1, Holds
  <2>. QED BY <2>1, <2>2
<1>6. TypeOK'
  BY <1>1, <1>2, <1>5, QueueTyped DEF LobbyInv, TypeOK, Pulse
<1>7. Stage'
  BY <1>1 DEF LobbyInv, Stage
<1>8. \A e \in Devices : PulseOf(e)'
  <2>. TAKE e \in Devices
  <2>1. PulseOf(e)
    BY DEF LobbyInv
  <2>2. /\ status'[e] # None => status[e] # None /\ status'[e].rgb = status[e].rgb
        /\ status[e] # None => status'[e] # None
    <3>1. CASE e = d
      <4>1. status[d] # None => status'[d] # None
        BY <1>4, NotAPulse
      <4>. QED BY <1>3, <1>4, <3>1, <4>1
    <3>2. CASE e # d
      BY <1>3, <3>2
    <3>. QED BY <3>1, <3>2
  <2>. QED BY <1>1, <2>1, <2>2 DEF PulseOf
<1>9. Cues(queue', where, phase, free, status')
  <2>. SUFFICES ASSUME NEW x \in Items(queue')
                PROVE  Fits(x, where, phase, free) /\ InTheDark(x, where, status')
    BY DEF Cues
  <2>1. CASE x \in Items(queue)
    <3>1. /\ x.left \in Nat /\ x.load.dev \in Devices
          /\ Fits(x, where, phase, free) /\ InTheDark(x, where, status)
      BY <2>1, Holds
    <3>2. InTheDark(x, where, status')
      BY <1>3, <1>4, <3>1, Holds DEF InTheDark
    <3>. QED BY <3>1, <3>2
  <2>2. CASE x \in {[left |-> 0, load |-> Cue("red", d)],
                    [left |-> 0 + FlashStep, load |-> Cue("red", d)]}
    <3>1. x.load.kind = "red" /\ x.load.dev = d /\ x.left \in Nat /\ x.left <= FlashStep
      BY <2>2, Timings DEF Cue
    <3>2. Fits(x, where, phase, free)
      BY <3>1 DEF Fits
    <3>3. status'[d] # None => x.left < status'[d].left
      BY <1>3, <1>4, <3>1, Timings
    <3>. QED BY <3>1, <3>2, <3>3 DEF InTheDark
  <2>. QED BY <1>2, <2>1, <2>2
<1>. QED BY <1>1, <1>2, <1>6, <1>7, <1>8, <1>9, QueueTyped DEF LobbyInv

\* A device that is forgotten has no pulse and no invite; nobody else's changes, and
\* a slot it gave back reopens the lobby at once.
LEMMA ForgetKeeps ==
    ASSUME LobbyInv, NEW d \in Devices, NEW to \in {"bound", "away"},
           where' = [where EXCEPT ![d] = to], Forget(d)
    PROVE  LobbyInv'
<1>1. /\ UNCHANGED <<cap, phase, lobby, free, rung>>
      /\ mode' = IF lobby = "up" THEN Mode(where', cap) ELSE mode
      /\ status' = [status EXCEPT ![d] = None]
      /\ invite' = [invite EXCEPT ![d] = None]
      /\ queue' = IF lobby = "up" THEN WithoutInvites(queue, d) ELSE queue
      /\ paint' = [paint EXCEPT ![d] = None]
      /\ base' = [base EXCEPT ![d] = None]
  BY DEF Forget
<1>2. /\ where' \in [Devices -> {"away", "pool", "validated", "bound", "seated"}]
      /\ where'[d] = to /\ status'[d] = None
      /\ \A e \in Devices : e # d => where'[e] = where[e] /\ status'[e] = status[e]
  BY <1>1, Holds
<1>3. /\ queue' \in Queue /\ Items(queue') \subseteq Items(queue)
      /\ \A x \in Items(queue') : x.load.kind = "white" => x.load.dev # d
  <2>1. CASE lobby = "up"
    BY <1>1, <2>1, Holds, InvitesGone
  <2>2. CASE lobby # "up"
    <3>1. phase # "setup"
      BY <2>2 DEF LobbyInv, Stage
    <3>. QED BY <1>1, <2>2, <3>1, Holds DEF Fits
  <2>. QED BY <2>1, <2>2
<1>4. mode' \in {"WAITING", "FULL"}
  BY <1>1 DEF LobbyInv, TypeOK, Mode
<1>5. status' \in [Devices -> {None} \cup Pulse]
  BY <1>1, Holds
<1>6. TypeOK'
  <2>1. invite' \in [Devices -> {None} \cup 0 .. InviteEvery]
    BY <1>1 DEF LobbyInv, TypeOK
  <2>2. base' \in [Devices -> {None, "white", "green"}]
    BY <1>1 DEF LobbyInv, TypeOK
  <2>3. paint' \in [Devices -> {None} \cup
                       [rgb : {"white", "red", "green"}, left : 1 .. FlashOn]]
    BY <1>1 DEF LobbyInv, TypeOK
  <2>. QED BY <1>1, <1>2, <1>3, <1>4, <1>5, <2>1, <2>2, <2>3, QueueTyped
           DEF LobbyInv, TypeOK, Pulse
<1>7. Stage'
  BY <1>1 DEF LobbyInv, Stage
<1>8. \A e \in Devices : PulseOf(e)'
  <2>. TAKE e \in Devices
  <2>1. PulseOf(e)
    BY DEF LobbyInv
  <2>2. CASE e = d
    <3>1. status'[e] = None /\ base'[e] = None
      BY <1>1, <1>2, <2>2 DEF LobbyInv, TypeOK
    <3>. QED BY <3>1 DEF PulseOf
  <2>3. CASE e # d
    <3>1. base'[e] = base[e]
      BY <1>1, <2>3 DEF LobbyInv, TypeOK
    <3>2. status[e] # None /\ status[e].rgb = "white" => mode' = "WAITING"
      <4>. SUFFICES ASSUME status[e] # None, status[e].rgb = "white" PROVE mode' = "WAITING"
        OBVIOUS
      <4>1. lobby = "up" /\ mode = "WAITING" /\ mode = Mode(where, cap)
        BY <2>1 DEF PulseOf, LobbyInv, Stage
      <4>2. Validated(where') \in SUBSET Validated(where) /\ Validated(where) \in SUBSET Devices
        BY <1>2, Holds DEF Validated
      <4>3. /\ IsFiniteSet(Validated(where)) /\ Cardinality(Validated(where)) \in Nat
            /\ IsFiniteSet(Validated(where')) /\ Cardinality(Validated(where')) \in Nat
        BY <4>2, LobbyAssumption, FS_Subset, FS_CardinalityType
      <4>4. Cardinality(Validated(where')) <= Cardinality(Validated(where))
        BY <4>2, <4>3, FS_Subset
      <4>5. ~(Cardinality(Validated(where)) >= cap)
        BY <4>1 DEF Mode
      <4>6. ~(Cardinality(Validated(where')) >= cap)
        BY <4>3, <4>4, <4>5, Holds
      <4>. QED BY <1>1, <4>1, <4>6 DEF Mode
    <3>. QED BY <1>1, <1>2, <2>1, <2>3, <3>1, <3>2 DEF PulseOf
  <2>. QED BY <2>2, <2>3
<1>9. Cues(queue', where', phase, free, status')
  <2>. SUFFICES ASSUME NEW x \in Items(queue')
                PROVE  Fits(x, where', phase, free) /\ InTheDark(x, where', status')
    BY DEF Cues
  <2>1. /\ x.left \in Nat /\ x.load.dev \in Devices
        /\ Fits(x, where, phase, free) /\ InTheDark(x, where, status)
    BY <1>3, Holds
  <2>2. Fits(x, where', phase, free)
    BY <1>2, <1>3, <2>1 DEF Fits
  <2>3. InTheDark(x, where', status')
    BY <1>2, <2>1 DEF InTheDark
  <2>. QED BY <2>2, <2>3
<1>. QED BY <1>1, <1>3, <1>6, <1>7, <1>8, <1>9, QueueTyped DEF LobbyInv

LEMMA BindAndReapKeep ==
    ASSUME LobbyInv, NEW d \in Devices, Bind(d) \/ Reap(d)
    PROVE  LobbyInv'
BY ForgetKeeps DEF Bind, Reap

\* A fresh runtime has nothing queued and no pulse.
LEMMA EnterKeeps ==
    ASSUME LobbyInv, Enter
    PROVE  LobbyInv'
<1>1. /\ phase = "idle" /\ phase' = "setup" /\ cap' \in Caps
      /\ lobby' = "up" /\ mode' = Mode(where, cap') /\ queue' = <<>>
      /\ invite' = Nobody /\ status' = Nobody /\ free' = 0
      /\ UNCHANGED <<where, paint, base, rung>>
  BY DEF Enter, lights
<1>2. queue' \in Queue /\ Items(queue') = {}
  BY <1>1, NoQueue
<1>3. \A d \in Devices : base[d] = None
  <2>1. lobby # "up"
    BY <1>1 DEF LobbyInv, Stage
  <2>. QED BY <2>1 DEF LobbyInv, PulseOf
<1>4. TypeOK'
  BY <1>1, <1>2, QueueTyped DEF LobbyInv, TypeOK, Nobody, Mode
<1>5. Stage' /\ \A d \in Devices : PulseOf(d)'
  BY <1>1, <1>3 DEF Stage, PulseOf, Nobody
<1>. QED BY <1>2, <1>4, <1>5, QueueTyped DEF LobbyInv, Cues

\* Once the lobby is stopped nobody has a pulse.
LEMMA StopKeeps ==
    ASSUME LobbyInv, Stop, lobby' # "up", phase' # "setup"
    PROVE  /\ Stage' /\ \A d \in Devices : PulseOf(d)' /\ status'[d] = None
           /\ invite' \in [Devices -> {None} \cup 0 .. InviteEvery]
           /\ status' \in [Devices -> {None} \cup Pulse]
           /\ base' \in [Devices -> {None, "white", "green"}]
           /\ UNCHANGED <<mode, free, paint>>
BY DEF Stop, Nobody, Stage, PulseOf

LEMMA EndKeeps ==
    ASSUME LobbyInv, End
    PROVE  LobbyInv'
<1>1. /\ phase' = "idle" /\ cap' = 0 /\ Stop /\ queue' = <<>> /\ lobby' = "none" /\ UNCHANGED rung
      /\ where' = [d \in Devices |-> IF where[d] \in {"seated", "validated"}
                                     THEN "pool" ELSE where[d]]
  BY DEF End
<1>2. queue' \in Queue /\ Items(queue') = {}
  BY <1>1, NoQueue
<1>3. /\ Stage' /\ \A d \in Devices : PulseOf(d)'
      /\ invite' \in [Devices -> {None} \cup 0 .. InviteEvery]
      /\ status' \in [Devices -> {None} \cup Pulse]
      /\ base' \in [Devices -> {None, "white", "green"}]
      /\ UNCHANGED <<mode, free, paint>>
  BY <1>1, StopKeeps
<1>4. where' \in [Devices -> {"away", "pool", "validated", "bound", "seated"}]
  BY <1>1, Holds
<1>5. TypeOK'
  BY <1>1, <1>2, <1>3, <1>4, QueueTyped DEF LobbyInv, TypeOK, Pulse
<1>. QED BY <1>2, <1>3, <1>5, QueueTyped DEF LobbyInv, Cues

\* Of what was queued the ceremonies alone outlast the start of the round.
LEMMA StartKeeps ==
    ASSUME LobbyInv, Start
    PROVE  LobbyInv'
<1>1. /\ phase' = "running" /\ Stop /\ queue' = Ceremonies(queue) /\ UNCHANGED <<cap, rung>>
      /\ lobby' \in {"none", "draining"}
      /\ where' = [d \in Devices |-> IF where[d] \in {"pool", "validated"}
                                     THEN "seated" ELSE where[d]]
  BY DEF Start
<1>2. /\ queue' \in Queue
      /\ \A x \in Items(queue') : x \in Items(queue) /\ x.load.kind \notin {"white", "red"}
  <2>. DEFINE gone == {Cue(kind, d) : kind \in {"white", "red"}, d \in Devices}
  <2>1. /\ queue' \in Queue
        /\ Items(queue') \subseteq {x \in Items(queue) : x.load \notin gone}
    BY <1>1, Holds, Purged DEF Ceremonies
  <2>2. \A x \in Items(queue) : x.load \in Load
    BY Holds, QueueParts DEF Items, Item
  <2>3. \A y \in Load : y.kind \in {"white", "red"} => y \in gone
    <3>. SUFFICES ASSUME NEW y \in Load, y.kind \in {"white", "red"} PROVE y \in gone
      OBVIOUS
    <3>1. y = Cue(y.kind, y.dev) /\ y.dev \in Devices
      BY DEF Load, Cue
    <3>. QED BY <3>1
  <2>. QED BY <2>1, <2>2, <2>3
<1>3. /\ Stage' /\ \A d \in Devices : PulseOf(d)' /\ status'[d] = None
      /\ invite' \in [Devices -> {None} \cup 0 .. InviteEvery]
      /\ status' \in [Devices -> {None} \cup Pulse]
      /\ base' \in [Devices -> {None, "white", "green"}]
      /\ UNCHANGED <<mode, free, paint>>
  BY <1>1, StopKeeps
<1>4. where' \in [Devices -> {"away", "pool", "validated", "bound", "seated"}]
  BY <1>1, Holds
<1>5. TypeOK'
  BY <1>1, <1>2, <1>3, <1>4, QueueTyped DEF LobbyInv, TypeOK, Pulse
<1>6. Cues(queue', where', phase', free', status')
  <2>. SUFFICES ASSUME NEW x \in Items(queue')
                PROVE  Fits(x, where', phase', free') /\ InTheDark(x, where', status')
    BY DEF Cues
  <2>1. /\ x.load.kind \notin {"white", "red"} /\ x.load.dev \in Devices
        /\ Fits(x, where, phase, free)
    BY <1>2, Holds
  <2>2. Fits(x, where', phase', free')
    BY <1>3, <2>1 DEF Fits
  <2>. QED BY <1>3, <2>1, <2>2 DEF InTheDark
<1>. QED BY <1>2, <1>3, <1>5, <1>6, QueueTyped DEF LobbyInv


-----------------------------------------------------------------------------
(* A poll                                                                  *)

\* The last of some places of a sequence is one of them.
LEMMA LastIsOne ==
    ASSUME NEW k \in Nat, NEW S \in SUBSET (1 .. k), S # {}
    PROVE  Max(S) \in S
<1>. DEFINE place(i) == Cardinality({j \in S : j <= i})
            N == Cardinality(S)
<1>1. /\ IsFiniteSet(S) /\ N \in Nat
      /\ \A i \in S : place(i) \in 1 .. N
      /\ \A i, j \in S : i < j => place(i) < place(j)
      /\ \A n \in 1 .. N : \E i \in S : place(i) = n
  BY EveryPlaceTaken
<1>2. N # 0
  BY <1>1, FS_EmptySet
<1>. HIDE DEF place, N
<1>3. PICK i \in S : place(i) = N
  BY <1>1, <1>2
<1>4. \A j \in S : i >= j
  <2>. SUFFICES ASSUME NEW j \in S, ~(i >= j) PROVE FALSE
    OBVIOUS
  <2>1. i \in Nat /\ j \in Nat
    OBVIOUS
  <2>2. i < j
    BY <2>1
  <2>. QED BY <1>1, <1>3, <2>2
<1>5. \E x \in S : \A y \in S : x >= y
  BY <1>4
<1>. QED BY <1>5 DEF Max

\* A device is painted in the color of a cue of its own that was due, or keeps what is
\* left of an earlier paint.
LEMMA PaintIsACue ==
    ASSUME NEW q \in Queue, NEW d \in Devices
    PROVE  \/ \E x \in Items(q) :
                 /\ x.load.dev = d /\ x.load.kind \in {"white", "red", "green"}
                 /\ Painted(Due(q), d) = [rgb |-> x.load.kind, left |-> FlashOn]
           \/ Painted(Due(q), d) = IF paint[d] = None \/ paint[d].left <= 1 THEN None
                                   ELSE [paint[d] EXCEPT !.left = @ - 1]
<1>. DEFINE n == DueBy(q, 0)
            due == Due(q)
            mine == {i \in DOMAIN due : due[i].dev = d /\ Color(due[i].kind)}
<1>1. /\ n \in Nat /\ due = [i \in 1 .. n |-> q[i].load]
      /\ \A i \in 1 .. n : q[i] \in Items(q)
  BY DueAndRest
<1>. HIDE DEF n, due
<1>2. CASE mine = {}
  BY <1>2 DEF Painted, due
<1>3. CASE mine # {}
  <2>1. mine \in SUBSET (1 .. n)
    BY <1>1
  <2>2. Max(mine) \in mine
    BY <1>1, <1>3, <2>1, LastIsOne
  <2>. DEFINE m == Max(mine)
  <2>3. Painted(due, d) = [rgb |-> due[m].kind, left |-> FlashOn]
    BY <1>3 DEF Painted
  <2>. HIDE DEF m, mine
  <2>4. m \in 1 .. n /\ due[m] = q[m].load /\ q[m] \in Items(q)
    BY <1>1, <2>1, <2>2 DEF m
  <2>5. q[m].load.dev = d /\ q[m].load.kind \in {"white", "red", "green"}
    BY <2>2, <2>4 DEF m, mine, Color
  <2>. QED BY <2>3, <2>4, <2>5 DEF due
<1>. QED BY <1>2, <1>3

\* The pulses as the poll's invites leave them, before time passes.
Held(d) == IF d \in Invited THEN Hold(status, d, "white", Train)[d] ELSE status[d]

\* What a poll finds queued, its own invites included.
Asked == PushInvites(queue, SetToSeq(Invited))

LEMMA WhoIsInvited ==
    ASSUME LobbyInv, NEW d \in Invited
    PROVE  /\ d \in Devices /\ lobby = "up" /\ mode = "WAITING" /\ phase = "setup"
           /\ where[d] = "pool"
           /\ Held(d) \in Pulse /\ Held(d).rgb = "white" /\ Held(d).left \in Nat
           /\ Held(d).left >= Train
           /\ status[d] # None => Held(d).left >= status[d].left
<1>1. /\ d \in Devices /\ lobby = "up" /\ mode = "WAITING" /\ where[d] = "pool"
  BY DEF Invited, Candidates
<1>2. phase = "setup"
  BY <1>1 DEF LobbyInv, Stage
<1>. DEFINE plain == [rgb |-> "white", left |-> Train]
<1>3. plain \in Pulse /\ plain.rgb = "white" /\ plain.left = Train /\ Train \in Nat
  BY Timings DEF Pulse
<1>4. CASE status[d] = None
  <2>1. Held(d) = plain
    BY <1>1, <1>4, Holds DEF Held, Hold
  <2>. QED BY <1>1, <1>2, <1>3, <1>4, <2>1
<1>5. CASE status[d] # None
  <2>1. status[d] \in Pulse /\ status[d].left \in Nat /\ status[d].rgb = "white"
    <3>1. PulseOf(d)
      BY <1>1 DEF LobbyInv
    <3>. QED BY <1>1, <1>5, <3>1, Holds DEF PulseOf
  <2>2. Held(d) = [status[d] EXCEPT !.left = Larger(status[d].left, Train)]
    BY <1>1, <1>5, <2>1, Holds DEF Held, Hold, DarkUntil
  <2>3. /\ Larger(status[d].left, Train) \in Nat
        /\ Larger(status[d].left, Train) >= Train
        /\ Larger(status[d].left, Train) >= status[d].left
    BY <1>3, <2>1 DEF Larger
  <2>4. /\ Held(d) \in Pulse /\ Held(d).rgb = "white"
        /\ Held(d).left = Larger(status[d].left, Train)
    BY <2>1, <2>2, <2>3 DEF Pulse
  <2>. QED BY <1>1, <1>2, <2>3, <2>4
<1>. QED BY <1>4, <1>5


\* What a poll finds queued fits who stands where, and comes before the pulse.
LEMMA AskedFits ==
    ASSUME LobbyInv
    PROVE  /\ Asked \in Queue
           /\ \A x \in Items(Asked) :
                 /\ x.left \in Nat /\ x.load.dev \in Devices /\ x.load.kind \in Kind
                 /\ Fits(x, where, phase, free)
                 /\ Color(x.load.kind) /\ Held(x.load.dev) # None
                       /\ (x.load.kind = "green" => where[x.load.dev] = "validated")
                       => x.left < Held(x.load.dev).left
<1>1. Invited \in SUBSET Devices
  BY DEF Invited, Candidates
<1>2. SetToSeq(Invited) \in Seq(Invited)
  <2>1. IsFiniteSet(Invited)
    BY <1>1, LobbyAssumption, FS_Subset
  <2>. QED BY <2>1, SetInSequence
<1>. DEFINE devs == SetToSeq(Invited)
<1>. HIDE DEF devs
<1>3. devs \in Seq(Devices) /\ \A i \in DOMAIN devs : devs[i] \in Invited
  <2>1. Len(devs) \in Nat /\ DOMAIN devs = 1 .. Len(devs) /\ \A i \in 1 .. Len(devs) : devs[i] \in Invited
    BY <1>2, LenProperties, ElementOfSeq DEF devs
  <2>2. devs = [i \in 1 .. Len(devs) |-> devs[i]]
    BY <1>2 DEF devs
  <2>. QED BY <1>1, <2>1, <2>2
<1>4. /\ Asked \in Queue
      /\ \A x \in Items(Asked) :
            \/ x \in Items(queue)
            \/ x.left <= FlashStep /\ x.load.kind = "white" /\ x.load.dev \in Invited
  BY <1>3, Holds, InvitesPushed DEF Asked, devs
<1>5. \A x \in Items(Asked) :
         x.left \in Nat /\ x.load.dev \in Devices /\ x.load.kind \in Kind
  BY <1>4, QueueParts DEF Items, Item, Load
<1>6. ASSUME NEW x \in Items(Asked)
      PROVE  /\ Fits(x, where, phase, free)
             /\ Color(x.load.kind) /\ Held(x.load.dev) # None
                   /\ (x.load.kind = "green" => where[x.load.dev] = "validated")
                   => x.left < Held(x.load.dev).left
  <2>1. CASE x \in Items(queue)
    <3>1. /\ x.left \in Nat /\ x.load.dev \in Devices
          /\ Fits(x, where, phase, free) /\ InTheDark(x, where, status)
      BY <2>1, Holds
    <3>2. CASE x.load.dev \in Invited
      <4>1. Color(x.load.kind) /\ (x.load.kind = "green" => where[x.load.dev] = "validated")
              => x.left <= FlashStep
        BY <3>1, <3>2, WhoIsInvited DEF Fits, Color
      <4>. QED BY <3>1, <3>2, <4>1, WhoIsInvited, Timings
    <3>3. CASE x.load.dev \notin Invited
      BY <3>1, <3>3 DEF Held, InTheDark
    <3>. QED BY <3>1, <3>2, <3>3
  <2>2. CASE x.left <= FlashStep /\ x.load.kind = "white" /\ x.load.dev \in Invited
    <3>1. /\ where[x.load.dev] = "pool" /\ phase = "setup"
          /\ Held(x.load.dev).left \in Nat /\ Held(x.load.dev).left >= Train
      BY <2>2, WhoIsInvited
    <3>. QED BY <1>5, <2>2, <3>1, Timings DEF Fits
  <2>. QED BY <1>4, <2>1, <2>2
<1>. QED BY <1>4, <1>5, <1>6

\* The poll, by the names above.
LEMMA PollParts ==
    ASSUME Poll
    PROVE  /\ queue' = Elapse(Rest(Asked))
           /\ invite' = [d \in Devices |-> IF d \in Invited THEN InviteEvery - 1
                                           ELSE IF invite[d] = None THEN None
                                           ELSE Sooner(invite[d])]
           /\ status' = [d \in Devices |-> IF Held(d) = None THEN None
                                           ELSE [Held(d) EXCEPT !.left = Sooner(@)]]
           /\ paint' = [d \in Devices |-> Painted(Due(Asked), d)]
           /\ base' = [d \in Devices |-> IF lobby = "up" /\ Held(d) # None
                                         THEN Held(d).rgb ELSE base[d]]
           /\ rung' = rung \cup {x.dev : x \in {y \in ToSet(Due(Asked)) : y.kind = "bell"}}
           /\ free' = Sooner(free) /\ lobby' = Drained(queue')
           /\ UNCHANGED <<cap, phase, where, mode>>
<1>. DEFINE held == [d \in Devices |-> IF d \in Invited THEN Hold(status, d, "white", Train)[d]
                                       ELSE status[d]]
<1>1. \A d \in Devices : held[d] = Held(d)
  BY DEF Held
<1>2. /\ queue' = Elapse(Rest(Asked))
      /\ invite' = [d \in Devices |-> IF d \in Invited THEN InviteEvery - 1
                                      ELSE IF invite[d] = None THEN None
                                      ELSE Sooner(invite[d])]
      /\ status' = [d \in Devices |-> IF held[d] = None THEN None
                                      ELSE [held[d] EXCEPT !.left = Sooner(@)]]
      /\ paint' = [d \in Devices |-> Painted(Due(Asked), d)]
      /\ base' = [d \in Devices |-> IF lobby = "up" /\ held[d] # None
                                    THEN held[d].rgb ELSE base[d]]
      /\ rung' = rung \cup {x.dev : x \in {y \in ToSet(Due(Asked)) : y.kind = "bell"}}
      /\ free' = Sooner(free) /\ lobby' = Drained(queue')
      /\ UNCHANGED <<cap, phase, where, mode>>
  BY DEF Poll, Asked
<1>. HIDE DEF held
<1>. QED BY <1>1, <1>2


LEMMA PollKeeps ==
    ASSUME LobbyInv, Poll
    PROVE  LobbyInv'
<1>. DEFINE rest == Rest(Asked)
<1>1. /\ queue' = Elapse(rest) /\ free' = Sooner(free) /\ lobby' = Drained(queue')
      /\ UNCHANGED <<cap, phase, where, mode>>
  BY PollParts
<1>2. /\ Asked \in Queue /\ rest \in Queue
      /\ Items(rest) \subseteq {x \in Items(Asked) : x.left > 0}
  BY AskedFits, DueAndRest
<1>. HIDE DEF rest
<1>3. /\ queue' \in Queue
      /\ \A x \in Items(queue') : \E y \in Items(rest) :
            x.load = y.load /\ x.left = IF y.left = 0 THEN 0 ELSE y.left - 1
  BY <1>1, <1>2, Elapsed
<1>4. free' \in Nat /\ free <= free' + 1
  BY <1>1, Holds DEF Sooner
<1>5. \A d \in Devices : Held(d) # None =>
         /\ Held(d) \in Pulse /\ Held(d).left \in Nat /\ lobby = "up"
         /\ Held(d).rgb = "white" => where[d] = "pool" /\ mode = "WAITING"
         /\ Held(d).rgb = "green" => where[d] = "validated"
  <2>. SUFFICES ASSUME NEW d \in Devices, Held(d) # None
                PROVE  /\ Held(d) \in Pulse /\ Held(d).left \in Nat /\ lobby = "up"
                       /\ Held(d).rgb = "white" => where[d] = "pool" /\ mode = "WAITING"
                       /\ Held(d).rgb = "green" => where[d] = "validated"
    OBVIOUS
  <2>1. CASE d \in Invited
    BY <2>1, WhoIsInvited
  <2>2. CASE d \notin Invited
    <3>1. Held(d) = status[d] /\ PulseOf(d)
      BY <2>2 DEF Held, LobbyInv
    <3>. QED BY <3>1, Holds DEF PulseOf
  <2>. QED BY <2>1, <2>2
<1>6. \A d \in Devices :
         /\ Held(d) = None => status'[d] = None
         /\ Held(d) # None => /\ status'[d] \in Pulse /\ status'[d] # None
                              /\ status'[d].rgb = Held(d).rgb
                              /\ status'[d].left = Sooner(Held(d).left)
  <2>. TAKE d \in Devices
  <2>1. CASE Held(d) = None
    BY <2>1, PollParts
  <2>2. CASE Held(d) # None
    <3>1. status'[d] = [Held(d) EXCEPT !.left = Sooner(Held(d).left)]
      BY <2>2, PollParts
    <3>2. Held(d) \in Pulse /\ Sooner(Held(d).left) \in Nat
      BY <1>5, <2>2 DEF Sooner
    <3>3. /\ status'[d] \in Pulse /\ status'[d].rgb = Held(d).rgb
          /\ status'[d].left = Sooner(Held(d).left)
      BY <3>1, <3>2 DEF Pulse
    <3>. QED BY <2>2, <3>3, NotAPulse
  <2>. QED BY <2>1, <2>2
<1>7. \A d \in Devices : base'[d] = IF lobby = "up" /\ Held(d) # None THEN Held(d).rgb ELSE base[d]
  BY PollParts
<1>8. TypeOK'
  <2>1. invite' \in [Devices -> {None} \cup 0 .. InviteEvery]
    <3>1. \A d \in Devices : invite[d] \in {None} \cup 0 .. InviteEvery
      BY DEF LobbyInv, TypeOK
    <3>2. InviteEvery - 1 \in 0 .. InviteEvery
      BY Timings
    <3>3. \A i \in 0 .. InviteEvery : Sooner(i) \in 0 .. InviteEvery
      BY Timings DEF Sooner
    <3>. QED BY <3>1, <3>2, <3>3, PollParts
  <2>2. status' \in [Devices -> {None} \cup Pulse]
    <3>1. \A d \in Devices : status'[d] \in {None} \cup Pulse
      BY <1>6
    <3>2. status' = [d \in Devices |-> status'[d]]
      BY PollParts
    <3>. QED BY <3>1, <3>2
  <2>3. base' \in [Devices -> {None, "white", "green"}]
    <3>1. \A d \in Devices : base'[d] \in {None, "white", "green"}
      BY <1>5, <1>7 DEF LobbyInv, TypeOK, Pulse
    <3>2. base' = [d \in Devices |-> base'[d]]
      BY PollParts
    <3>. QED BY <3>1, <3>2
  <2>4. paint' \in [Devices -> {None} \cup
                       [rgb : {"white", "red", "green"}, left : 1 .. FlashOn]]
    <3>. DEFINE Colour == [rgb : {"white", "red", "green"}, left : 1 .. FlashOn]
    <3>1. \A d \in Devices : Painted(Due(Asked), d) \in {None} \cup Colour
      <4>. TAKE d \in Devices
      <4>1. paint[d] \in {None} \cup Colour
        BY DEF LobbyInv, TypeOK
      <4>2. CASE \E x \in Items(Asked) :
                    /\ x.load.dev = d /\ x.load.kind \in {"white", "red", "green"}
                    /\ Painted(Due(Asked), d) = [rgb |-> x.load.kind, left |-> FlashOn]
        <5>1. FlashOn \in 1 .. FlashOn
          BY Timings
        <5>. QED BY <4>2, <5>1
      <4>3. CASE Painted(Due(Asked), d) = IF paint[d] = None \/ paint[d].left <= 1 THEN None
                                          ELSE [paint[d] EXCEPT !.left = @ - 1]
        <5>1. CASE paint[d] = None \/ paint[d].left <= 1
          BY <4>3, <5>1
        <5>2. CASE ~(paint[d] = None \/ paint[d].left <= 1)
          <6>1. paint[d] \in Colour /\ paint[d].left - 1 \in 1 .. FlashOn
            BY <4>1, <5>2, Timings
          <6>. QED BY <4>3, <5>2, <6>1
        <5>. QED BY <5>1, <5>2
      <4>. QED BY <1>2, <4>2, <4>3, PaintIsACue
    <3>. HIDE DEF Colour
    <3>2. paint' \in [Devices -> {None} \cup Colour]
      BY <3>1, PollParts
    <3>. QED BY <3>2 DEF Colour
  <2>5. rung' \subseteq Devices
    <3>1. \A y \in ToSet(Due(Asked)) : y.dev \in Devices
      <4>. TAKE y \in ToSet(Due(Asked))
      <4>1. PICK i \in DOMAIN Due(Asked) : y = Due(Asked)[i]
        BY DEF ToSet
      <4>2. /\ DueBy(Asked, 0) \in Nat /\ Due(Asked) = [k \in 1 .. DueBy(Asked, 0) |-> Asked[k].load]
            /\ \A k \in 1 .. DueBy(Asked, 0) : Asked[k] \in Items(Asked)
        BY <1>2, DueAndRest
      <4>3. i \in 1 .. DueBy(Asked, 0)
        BY <4>1, <4>2
      <4>4. y = Asked[i].load /\ Asked[i] \in Items(Asked)
        BY <4>1, <4>2, <4>3
      <4>. QED BY <4>4, AskedFits
    <3>. QED BY <3>1, PollParts DEF LobbyInv, TypeOK
  <2>6. lobby' \in {"none", "up", "draining"}
    BY <1>1 DEF Drained, LobbyInv, TypeOK
  <2>. QED BY <1>1, <1>3, <1>4, <2>1, <2>2, <2>3, <2>4, <2>5, <2>6, QueueTyped
           DEF LobbyInv, TypeOK, Pulse
<1>9. Stage'
  BY <1>1 DEF LobbyInv, Stage, Drained
<1>10. \A d \in Devices : PulseOf(d)'
  <2>. TAKE d \in Devices
  <2>1. status'[d] # None =>
           /\ lobby' = "up"
           /\ status'[d].rgb = "white" => where'[d] = "pool" /\ mode' = "WAITING"
           /\ status'[d].rgb = "green" => where'[d] = "validated"
    BY <1>1, <1>5, <1>6 DEF Drained
  <2>2. base'[d] # None => status'[d] # None /\ status'[d].rgb = base'[d]
    <3>1. CASE lobby = "up" /\ Held(d) # None
      BY <1>6, <1>7, <3>1
    <3>2. CASE ~(lobby = "up" /\ Held(d) # None)
      <4>1. base[d] # None => lobby = "up" /\ status[d] # None
        BY DEF LobbyInv, PulseOf
      <4>2. status[d] # None => Held(d) # None
        BY WhoIsInvited, NotAPulse DEF Held
      <4>. QED BY <1>7, <3>2, <4>1, <4>2
    <3>. QED BY <3>1, <3>2
  <2>. QED BY <2>1, <2>2 DEF PulseOf
<1>11. Cues(queue', where, phase, free', status')
  <2>. SUFFICES ASSUME NEW x \in Items(queue')
                PROVE  Fits(x, where, phase, free') /\ InTheDark(x, where, status')
    BY DEF Cues
  <2>1. PICK y \in Items(rest) :
           x.load = y.load /\ x.left = IF y.left = 0 THEN 0 ELSE y.left - 1
    BY <1>3
  <2>2. /\ y \in Items(Asked) /\ y.left \in Nat /\ y.left > 0 /\ y.load.dev \in Devices
        /\ Fits(y, where, phase, free)
        /\ Color(y.load.kind) /\ Held(y.load.dev) # None
              /\ (y.load.kind = "green" => where[y.load.dev] = "validated")
              => y.left < Held(y.load.dev).left
    BY <1>2, <2>1, AskedFits
  <2>3. x.left \in Nat /\ x.left + 1 = y.left
    BY <2>1, <2>2
  <2>4. Fits(x, where, phase, free')
    BY <1>4, <2>1, <2>2, <2>3, Holds, Timings DEF Fits
  <2>5. InTheDark(x, where, status')
    <3>. SUFFICES ASSUME Color(x.load.kind), status'[x.load.dev] # None,
                         x.load.kind = "green" => where[x.load.dev] = "validated"
                  PROVE  x.left < status'[x.load.dev].left
      BY DEF InTheDark
    <3>1. /\ Held(y.load.dev) # None /\ Held(y.load.dev).left \in Nat
          /\ y.left < Held(y.load.dev).left
          /\ status'[x.load.dev].left = Sooner(Held(y.load.dev).left)
      BY <1>5, <1>6, <2>1, <2>2
    <3>. QED BY <2>3, <3>1 DEF Sooner
  <2>. QED BY <2>4, <2>5
<1>. QED BY <1>1, <1>3, <1>8, <1>9, <1>10, <1>11, QueueTyped DEF LobbyInv

-----------------------------------------------------------------------------
(* The theorems                                                            *)

LEMMA StutterKeeps ==
    ASSUME LobbyInv, UNCHANGED vars
    PROVE  LobbyInv'
BY DEF vars, runtime, lights, LobbyInv, TypeOK, Ordered, Stage, Mode, PulseOf

LEMMA Inductive == Spec => []LobbyInv
<1>1. LobbyInv /\ [Next]_vars => LobbyInv'
  <2>. SUFFICES ASSUME LobbyInv, [Next]_vars PROVE LobbyInv'
    OBVIOUS
  <2>1. ASSUME NEW d \in Devices, Hello(d) \/ Validate(d) \/ Deny(d) \/ Bind(d) \/ Reap(d)
        PROVE  LobbyInv'
    BY <2>1, HelloKeeps, ValidateKeeps, DenyKeeps, BindAndReapKeep
  <2>. QED BY <2>1, EnterKeeps, StartKeeps, EndKeeps, PollKeeps, StutterKeeps DEF Next
<1>. QED BY <1>1, InitKeeps, PTL DEF Spec

\* The variables of the lobby have their types, in every state.
THEOREM LobbyIsTyped == Spec => []TypeOK
<1>1. LobbyInv => TypeOK
  BY DEF LobbyInv
<1>. QED BY <1>1, Inductive, PTL

\* PulseIsHonest holds for any number of devices and slots and any timing: the slow
\* pulse is true of the device it is shown on, and no flash that is queued for a
\* device comes when its pulse is back.
THEOREM PulseStaysHonest == Spec => []PulseIsHonest
<1>1. LobbyInv => PulseIsHonest
  <2>. SUFFICES ASSUME LobbyInv PROVE PulseIsHonest
    OBVIOUS
  <2>1. ASSUME NEW d \in Devices
        PROVE  /\ base[d] = "white" => lobby = "up" /\ where[d] = "pool" /\ mode = "WAITING"
               /\ base[d] = "green" => lobby = "up" /\ where[d] = "validated"
    <3>1. PulseOf(d)
      BY DEF LobbyInv
    <3>. QED BY <3>1, Timings DEF PulseOf
  <2>2. DarkUnderFlashes
    <3>. SUFFICES ASSUME NEW i \in DOMAIN queue
                  PROVE  LET cue == queue[i].load
                         IN  Color(cue.kind) /\ status[cue.dev] # None
                                 /\ (cue.kind = "green" => where[cue.dev] = "validated")
                                 => queue[i].left < status[cue.dev].left
      BY DEF DarkUnderFlashes
    <3>1. queue[i] \in Items(queue)
      BY DEF Items
    <3>2. InTheDark(queue[i], where, status)
      BY <3>1, Holds
    <3>. QED BY <3>2 DEF InTheDark
  <2>. QED BY <2>1, <2>2 DEF PulseIsHonest
<1>. QED BY <1>1, Inductive, PTL

\* WhiteMeansInvited: no device is painted white anew unless it waits in the pool while
\* the round is set up.
THEOREM WhiteIsAnInvite == Spec => WhiteMeansInvited
<1>. DEFINE White == \A d \in Devices :
                        PaintedAnew(d) /\ paint'[d].rgb = "white"
                            => where[d] = "pool" /\ phase = "setup"
<1>1. LobbyInv /\ [Next]_vars => [White]_vars
  <2>. SUFFICES ASSUME LobbyInv, [Next]_vars, NEW d \in Devices,
                       PaintedAnew(d), paint'[d].rgb = "white"
                PROVE  where[d] = "pool" /\ phase = "setup"
    OBVIOUS
  <2>1. paint'[d] # None /\ paint'[d] # paint[d]
        /\ (paint[d] = None \/ paint'[d].left >= paint[d].left)
    BY DEF PaintedAnew
  <2>2. CASE Poll
    <3>1. paint'[d] = Painted(Due(Asked), d)
      BY <2>2, PollParts
    <3>2. CASE \E x \in Items(Asked) :
                  /\ x.load.dev = d /\ x.load.kind \in {"white", "red", "green"}
                  /\ Painted(Due(Asked), d) = [rgb |-> x.load.kind, left |-> FlashOn]
      BY <3>1, <3>2, AskedFits DEF Fits
    <3>3. CASE Painted(Due(Asked), d) = IF paint[d] = None \/ paint[d].left <= 1 THEN None
                                        ELSE [paint[d] EXCEPT !.left = @ - 1]
      <4>1. paint[d] # None /\ paint'[d] = [paint[d] EXCEPT !.left = paint[d].left - 1]
        BY <2>1, <3>1, <3>3
      <4>2. paint[d] \in [rgb : {"white", "red", "green"}, left : 1 .. FlashOn]
        BY <4>1 DEF LobbyInv, TypeOK
      <4>3. paint'[d].left = paint[d].left - 1 /\ paint[d].left \in Nat
        BY <4>1, <4>2
      <4>. QED BY <2>1, <4>1, <4>3
    <3>. QED BY <3>2, <3>3, AskedFits, PaintIsACue
  <2>3. CASE ~Poll
    <3>1. \/ paint' = paint
          \/ \E e \in Devices : paint' = [paint EXCEPT ![e] = None]
      BY <2>3 DEF Next, Hello, Validate, Deny, Bind, Reap, Forget, Enter, Start, End, Stop,
                  vars, lights
    <3>2. paint \in [Devices -> {None} \cup
                        [rgb : {"white", "red", "green"}, left : 1 .. FlashOn]]
      BY DEF LobbyInv, TypeOK
    <3>. QED BY <2>1, <3>1, <3>2
  <2>. QED BY <2>2, <2>3
<1>. QED BY <1>1, Inductive, PTL DEF Spec, WhiteMeansInvited

-----------------------------------------------------------------------------
(* Queues of loads of a set, wherever they stand                           *)

Waiting(L) == Seq([left : Nat, load : L])

LEMMA WaitingParts ==
    ASSUME NEW L, NEW q \in Waiting(L)
    PROVE  /\ Len(q) \in Nat /\ DOMAIN q = 1 .. Len(q)
           /\ \A i \in 1 .. Len(q) : q[i] \in [left : Nat, load : L]
           /\ \A t \in Nat : DueBy(q, t) \in 0 .. Len(q)
<1>1. Len(q) \in Nat /\ DOMAIN q = 1 .. Len(q)
  BY LenProperties DEF Waiting
<1>2. \A i \in 1 .. Len(q) : q[i] \in [left : Nat, load : L]
  BY ElementOfSeq DEF Waiting
<1>3. ASSUME NEW t \in Nat PROVE DueBy(q, t) \in 0 .. Len(q)
  <2>1. \A k \in Nat : IsFiniteSet(1 .. k) /\ Cardinality(1 .. k) = k
    <3>. TAKE k \in Nat
    <3>1. 1 \in Int /\ k \in Int
      OBVIOUS
    <3>. QED BY <3>1, FS_Interval
  <2>2. IsFiniteSet(1 .. Len(q)) /\ Cardinality(1 .. Len(q)) = Len(q)
    BY <1>1, <2>1
  <2>. DEFINE early == {i \in DOMAIN q : q[i].left <= t}
  <2>3. early \subseteq 1 .. Len(q)
    BY <1>1
  <2>. HIDE DEF early
  <2>4. Cardinality(early) \in Nat /\ Cardinality(early) <= Len(q)
    BY <2>2, <2>3, FS_Subset, FS_CardinalityType
  <2>. QED BY <1>1, <2>4 DEF DueBy, early
<1>. QED BY <1>1, <1>2, <1>3

LEMMA AllWait ==
    ASSUME NEW L, NEW q \in Waiting(L), NEW left \in Nat, NEW loads \in Seq(L)
    PROVE  PushAll(q, left, loads) \in Waiting(L)
<1>. DEFINE n == DueBy(q, left)
            S == [left : Nat, load : L]
            new == [i \in DOMAIN loads |-> [left |-> left, load |-> loads[i]]]
<1>1. n \in 0 .. Len(q) /\ Len(q) \in Nat /\ q \in Seq(S)
  BY WaitingParts DEF Waiting
<1>2. new \in Seq(S)
  <2>1. /\ Len(loads) \in Nat /\ DOMAIN loads = 1 .. Len(loads)
        /\ \A i \in 1 .. Len(loads) : loads[i] \in L
    BY LenProperties, ElementOfSeq
  <2>2. new = [i \in 1 .. Len(loads) |-> [left |-> left, load |-> loads[i]]]
    BY <2>1
  <2>3. \A i \in 1 .. Len(loads) : [left |-> left, load |-> loads[i]] \in S
    BY <2>1
  <2>. QED BY <2>1, <2>2, <2>3
<1>. HIDE DEF new, S, n
<1>3. SubSeq(q, 1, n) \in Seq(S) /\ SubSeq(q, n + 1, Len(q)) \in Seq(S)
  BY <1>1
<1>4. (SubSeq(q, 1, n) \o new) \o SubSeq(q, n + 1, Len(q)) \in Seq(S)
  BY <1>2, <1>3
<1>. QED BY <1>4 DEF PushAll, Waiting, new, S, n

LEMMA OthersWait ==
    ASSUME NEW L, NEW q \in Waiting(L), NEW dropped
    PROVE  Purge(q, dropped) \in Waiting(L \ dropped)
<1>. DEFINE kept == {i \in DOMAIN q : q[i].load \notin dropped}
            place(i) == Cardinality({j \in kept : j <= i})
            N == Cardinality(kept)
            At(n) == CHOOSE i \in kept : place(i) = n
            p == Purge(q, dropped)
<1>1. /\ Len(q) \in Nat /\ DOMAIN q = 1 .. Len(q)
      /\ \A i \in 1 .. Len(q) : q[i] \in [left : Nat, load : L]
  BY WaitingParts
<1>2. kept \in SUBSET (1 .. Len(q)) /\ \A i \in kept : q[i].load \notin dropped
  BY <1>1
<1>3. p = [n \in 1 .. N |-> q[At(n)]]
  BY DEF Purge
<1>. HIDE DEF kept, p
<1>4. N \in Nat /\ \A n \in 1 .. N : \E i \in kept : place(i) = n
  BY <1>1, <1>2, EveryPlaceTaken
<1>. HIDE DEF place, N
<1>5. \A n \in 1 .. N : At(n) \in kept
  BY <1>4
<1>. HIDE DEF At
<1>. DEFINE S == [left : Nat, load : L \ dropped]
<1>6. \A n \in 1 .. N : q[At(n)] \in S
  BY <1>1, <1>2, <1>5
<1>. HIDE DEF S
<1>7. [n \in 1 .. N |-> q[At(n)]] \in Seq(S)
  BY <1>4, <1>6
<1>. QED BY <1>3, <1>7 DEF Waiting, p, S

LEMMA WiderQueue ==
    ASSUME NEW L, NEW M, L \subseteq M, NEW q \in Waiting(L)
    PROVE  q \in Waiting(M)
<1>. DEFINE S == [left : Nat, load : L]
            T == [left : Nat, load : M]
<1>1. S \subseteq T /\ q \in Seq(S)
  BY DEF Waiting
<1>. HIDE DEF S, T
<1>2. q \in Seq(T)
  <2>1. \A i \in 1 .. Len(q) : q[i] \in T
    BY <1>1
  <2>. QED BY <1>1, <2>1
<1>. QED BY <1>2 DEF Waiting, T

LEMMA RestWaits ==
    ASSUME NEW L, NEW q \in Waiting(L)
    PROVE  /\ Rest(q) \in Waiting(L) /\ Elapse(q) \in Waiting(L)
           /\ Due(q) \in Seq(L)
<1>. DEFINE n == DueBy(q, 0)
            S == [left : Nat, load : L]
<1>1. /\ Len(q) \in Nat /\ DOMAIN q = 1 .. Len(q)
      /\ \A i \in 1 .. Len(q) : q[i] \in S
      /\ n \in 0 .. Len(q) /\ q \in Seq(S)
  BY WaitingParts DEF Waiting
<1>2. Rest(q) \in Waiting(L)
  <2>. HIDE DEF S, n
  <2>1. SubSeq(q, n + 1, Len(q)) \in Seq(S)
    BY <1>1
  <2>. QED BY <2>1 DEF Rest, Waiting, S, n
<1>3. Elapse(q) \in Waiting(L)
  <2>. DEFINE e(i) == [q[i] EXCEPT !.left = IF @ = 0 THEN 0 ELSE @ - 1]
  <2>1. \A i \in 1 .. Len(q) : e(i) \in S
    <3>. TAKE i \in 1 .. Len(q)
    <3>1. q[i] \in S
      BY <1>1
    <3>2. q[i].left \in Nat /\ (IF q[i].left = 0 THEN 0 ELSE q[i].left - 1) \in Nat
      BY <3>1
    <3>. QED BY <3>1, <3>2
  <2>2. Elapse(q) = [i \in 1 .. Len(q) |-> e(i)]
    BY <1>1 DEF Elapse
  <2>. HIDE DEF S, e
  <2>3. [i \in 1 .. Len(q) |-> e(i)] \in Seq(S)
    BY <1>1, <2>1
  <2>. QED BY <2>2, <2>3 DEF Waiting, S
<1>4. Due(q) \in Seq(L)
  <2>. HIDE DEF n
  <2>1. n \in Nat /\ \A i \in 1 .. n : q[i].load \in L
    BY <1>1
  <2>2. Due(q) = [i \in 1 .. n |-> q[i].load]
    BY DEF Due, n
  <2>. QED BY <2>1, <2>2
<1>. QED BY <1>2, <1>3, <1>4

-----------------------------------------------------------------------------
(* The agent's record                                                      *)

LightOrFlash == [kind : {"light", "flash"}, key : Keys]

\* The cues that may wait while some keys are latched.
Unlatched(latched) == {c \in LightOrFlash : c.kind = "light" => c.key \notin latched}

\* The record is typed, no light cue waits for a latched key, and a latched key is
\* dark but for those in `lost`, whose blackout went with a reaped device.
AgentOK(a, lost) ==
    /\ a \in [latched : SUBSET Keys, over : [Keys -> 0 .. Dark], flash : [Keys -> 0 .. FlashFor],
              queue : Waiting(LightOrFlash)]
    /\ a.queue \in Waiting(Unlatched(a.latched))
    /\ \A k \in a.latched \ lost : a.over[k] = Dark /\ a.flash[k] = 0

\* The engine and the agent hold the same mutes, but for those the agent dropped.
Alike(m, latched, dropped) == \A k \in Keys \ dropped : k \in m <=> k \in latched

SurfacesTyped ==
    /\ loaded \in BOOLEAN /\ stage \in {"idle", "setup", "running"}
    /\ bound \in [Fixtures -> Devs \cup {NoDev}] /\ known \in SUBSET Devs
    /\ bridge \in [Devs -> {"none", "on", "fading"}]
    /\ {muted, forgotten, estranged, stirred} \subseteq SUBSET Keys
    /\ agent \in [latched : SUBSET Keys, over : [Keys -> 0 .. Dark],
                  flash : [Keys -> 0 .. FlashFor],
                  queue : Waiting([kind : {"light", "flash"}, key : Keys])]

\* With no Room there is nothing to aim at, and every mute is one that outlived its
\* Room; so is the mute of a device in its own name once a fixture is bound to it.
Outlived ==
    /\ ~loaded => stage = "idle" /\ known = {} /\ bound = Unbound /\ muted \subseteq estranged
    /\ \A d \in Bound : d \in muted => d \in estranged

SurfacesInv ==
    /\ SurfacesTyped
    /\ AgentOK(agent, forgotten)
    /\ Alike(muted, agent.latched, Dropped)
    /\ Outlived
    /\ stirred = {}

LEMMA Spans ==
    /\ PaintFor \in Nat \ {0} /\ FlashFor \in Nat \ {0} /\ StepLater \in Nat
    /\ Dark \in Nat /\ Clear \in 0 .. Dark /\ Dark \in 0 .. Dark /\ PaintFor \in 0 .. Dark
    /\ Dark # Clear /\ Dark \notin 1 .. PaintFor
BY SurfacesAssumption DEF Dark, Clear

LEMMA KeysAreFinite == \A S : S \subseteq Keys => IsFiniteSet(S)
<1>1. IsFiniteSet(Keys)
  BY SurfacesAssumption, FS_Union DEF Keys
<1>. QED BY <1>1, FS_Subset

LEMMA KeyIsAKey ==
    ASSUME NEW b, NEW d \in Keys
    PROVE  KeyIn(b, d) \in Keys
BY DEF KeyIn, Keys

LEMMA SpellingsAreKeys ==
    ASSUME NEW b, NEW S \in SUBSET Keys
    PROVE  Spellings(b, S) \in SUBSET Keys
BY KeyIsAKey DEF Spellings

\* With more lost, the record is no worse.
LEMMA MoreLost ==
    ASSUME NEW a, NEW lost, NEW more, AgentOK(a, lost), lost \subseteq more
    PROVE  AgentOK(a, more)
BY DEF AgentOK

-----------------------------------------------------------------------------
(* What each of the agent's sinks makes of its record                      *)

\* The record by its fields.
LEMMA Fields ==
    ASSUME NEW a, NEW lost, AgentOK(a, lost)
    PROVE  a = [latched |-> a.latched, over |-> a.over, flash |-> a.flash, queue |-> a.queue]
<1>. DEFINE O == [Keys -> 0 .. Dark]
            F == [Keys -> 0 .. FlashFor]
            Q == Waiting(LightOrFlash)
<1>1. a \in [latched : SUBSET Keys, over : O, flash : F, queue : Q]
  BY DEF AgentOK
<1>. HIDE DEF O, F, Q
<1>. QED BY <1>1

\* Its fields written anew.
LEMMA Rewritten ==
    ASSUME NEW a,
           a = [latched |-> a.latched, over |-> a.over, flash |-> a.flash, queue |-> a.queue]
    PROVE  \A l, o, f, q :
           /\ [a EXCEPT !.latched = l, !.over = o]
                 = [latched |-> l, over |-> o, flash |-> a.flash, queue |-> a.queue]
           /\ [a EXCEPT !.over = o, !.flash = f, !.queue = q]
                 = [latched |-> a.latched, over |-> o, flash |-> f, queue |-> q]
<1>. TAKE l, o, f, q
<1>. DEFINE x == a.latched
            y == a.over
            z == a.flash
            w == a.queue
<1>1. a = [latched |-> x, over |-> y, flash |-> z, queue |-> w]
  OBVIOUS
<1>. HIDE DEF x, y, z, w
<1>2. \A b : b = [latched |-> x, over |-> y, flash |-> z, queue |-> w]
                => /\ [b EXCEPT !.latched = l] = [latched |-> l, over |-> y, flash |-> z, queue |-> w]
                   /\ [b EXCEPT !.over = o] = [latched |-> x, over |-> o, flash |-> z, queue |-> w]
  OBVIOUS
<1>3. \A b : b = [latched |-> l, over |-> y, flash |-> z, queue |-> w]
                => [b EXCEPT !.over = o] = [latched |-> l, over |-> o, flash |-> z, queue |-> w]
  OBVIOUS
<1>4. \A b : b = [latched |-> x, over |-> o, flash |-> z, queue |-> w]
                => [b EXCEPT !.flash = f] = [latched |-> x, over |-> o, flash |-> f, queue |-> w]
  OBVIOUS
<1>5. \A b : b = [latched |-> x, over |-> o, flash |-> f, queue |-> w]
                => [b EXCEPT !.queue = q] = [latched |-> x, over |-> o, flash |-> f, queue |-> q]
  OBVIOUS
<1>6. /\ [a EXCEPT !.latched = l, !.over = o]
            = [latched |-> l, over |-> o, flash |-> z, queue |-> w]
      /\ [a EXCEPT !.over = o] = [latched |-> x, over |-> o, flash |-> z, queue |-> w]
  BY <1>1, <1>2, <1>3
<1>7. [a EXCEPT !.over = o, !.flash = f] = [latched |-> x, over |-> o, flash |-> f, queue |-> w]
  BY <1>4, <1>6
<1>8. [a EXCEPT !.over = o, !.flash = f, !.queue = q]
         = [latched |-> x, over |-> o, flash |-> f, queue |-> q]
  BY <1>5, <1>7
<1>. QED BY <1>6, <1>8 DEF x, y, z, w

LEMMA CuesAreFinite ==
    ASSUME NEW S, IsFiniteSet(S)
    PROVE  IsFiniteSet({LightCue(k) : k \in S}) /\ IsFiniteSet({FlashCue(k) : k \in S})
<1>. DEFINE light == [k \in S |-> LightCue(k)]
            flash == [k \in S |-> FlashCue(k)]
<1>1. light \in Surjection(S, {LightCue(k) : k \in S})
  BY DEF Surjection
<1>2. flash \in Surjection(S, {FlashCue(k) : k \in S})
  BY DEF Surjection
<1>. HIDE DEF light, flash
<1>. QED BY <1>1, <1>2, FS_Surjection

LEMMA DarkenKeeps ==
    ASSUME NEW a, NEW lost, AgentOK(a, lost), NEW keys \in SUBSET Keys
    PROVE  AgentOK(Darken(a, keys), lost \ keys) /\ Darken(a, keys).latched = a.latched \cup keys
<1>. DEFINE b == Darken(a, keys)
<1>1. /\ a.latched \in SUBSET Keys /\ a.over \in [Keys -> 0 .. Dark]
      /\ a.flash \in [Keys -> 0 .. FlashFor] /\ a.queue \in Waiting(Unlatched(a.latched))
  BY DEF AgentOK
<1>2. /\ b = [latched |-> a.latched \cup keys, over |-> Set(a.over, keys, Dark),
              flash |-> Set(a.flash, keys, 0),
              queue |-> Purge(a.queue, {LightCue(k) : k \in keys})]
  <2>. DEFINE l == a.latched \cup keys
              o == Set(a.over, keys, Dark)
              f == Set(a.flash, keys, 0)
              q == Purge(a.queue, {LightCue(k) : k \in keys})
  <2>1. b = [a EXCEPT !.latched = l, !.over = o, !.flash = f, !.queue = q]
    BY DEF Darken
  <2>. DEFINE x == a.latched
              y == a.over
              z == a.flash
              w == a.queue
  <2>. HIDE DEF b, l, o, f, q
  <2>11. a = [latched |-> x, over |-> y, flash |-> z, queue |-> w]
    BY Fields
  <2>. HIDE DEF x, y, z, w
  <2>12. \A c : c = [latched |-> x, over |-> y, flash |-> z, queue |-> w]
                  => [c EXCEPT !.latched = l] = [latched |-> l, over |-> y, flash |-> z, queue |-> w]
    OBVIOUS
  <2>13. \A c : c = [latched |-> l, over |-> y, flash |-> z, queue |-> w]
                  => [c EXCEPT !.over = o] = [latched |-> l, over |-> o, flash |-> z, queue |-> w]
    OBVIOUS
  <2>2. [a EXCEPT !.latched = l, !.over = o]
           = [latched |-> l, over |-> o, flash |-> z, queue |-> w]
    BY <2>11, <2>12, <2>13
  <2>3. \A c : c = [latched |-> l, over |-> o, flash |-> z, queue |-> w]
                  => [c EXCEPT !.flash = f] = [latched |-> l, over |-> o, flash |-> f, queue |-> w]
    OBVIOUS
  <2>4. \A c : c = [latched |-> l, over |-> o, flash |-> f, queue |-> w]
                  => [c EXCEPT !.queue = q] = [latched |-> l, over |-> o, flash |-> f, queue |-> q]
    OBVIOUS
  <2>5. [a EXCEPT !.latched = l, !.over = o, !.flash = f]
           = [latched |-> l, over |-> o, flash |-> f, queue |-> w]
    BY <2>2, <2>3
  <2>6. b = [latched |-> l, over |-> o, flash |-> f, queue |-> q]
    BY <2>1, <2>4, <2>5
  <2>. QED BY <2>6, Zenon DEF l, o, f, q
<1>. HIDE DEF b
<1>3. Purge(a.queue, {LightCue(k) : k \in keys})
         \in Waiting(Unlatched(a.latched) \ {LightCue(k) : k \in keys})
  BY <1>1, OthersWait
<1>4. Unlatched(a.latched) \ {LightCue(k) : k \in keys} \subseteq Unlatched(b.latched)
  <2>. SUFFICES ASSUME NEW c \in Unlatched(a.latched), c \notin {LightCue(k) : k \in keys}
                PROVE  c \in Unlatched(b.latched)
    OBVIOUS
  <2>1. c \in LightOrFlash /\ c = [kind |-> c.kind, key |-> c.key]
    BY DEF Unlatched, LightOrFlash
  <2>2. c.kind = "light" => c.key \notin keys
    BY <2>1 DEF LightCue
  <2>3. b.latched = a.latched \cup keys
    BY <1>2
  <2>. QED BY <2>1, <2>2, <2>3 DEF Unlatched
<1>5. b.queue \in Waiting(Unlatched(b.latched))
  BY <1>2, <1>3, <1>4, WiderQueue
<1>6. b.queue \in Waiting(LightOrFlash)
  BY <1>5, WiderQueue DEF Unlatched
<1>7. /\ b.over \in [Keys -> 0 .. Dark] /\ b.flash \in [Keys -> 0 .. FlashFor]
      /\ \A k \in Keys : b.over[k] = IF k \in keys THEN Dark ELSE a.over[k]
      /\ \A k \in Keys : b.flash[k] = IF k \in keys THEN 0 ELSE a.flash[k]
  <2>1. Dark \in 0 .. Dark /\ 0 \in 0 .. FlashFor
    BY Spans
  <2>. QED BY <1>1, <1>2, <2>1 DEF Set
<1>8. \A k \in b.latched \ (lost \ keys) : b.over[k] = Dark /\ b.flash[k] = 0
  BY <1>1, <1>2, <1>7 DEF AgentOK
<1>9. b \in [latched : SUBSET Keys, over : [Keys -> 0 .. Dark], flash : [Keys -> 0 .. FlashFor],
             queue : Waiting(LightOrFlash)]
  BY <1>1, <1>2, <1>6, <1>7
<1>. QED BY <1>2, <1>5, <1>8, <1>9 DEF AgentOK, b

LEMMA LiftKeeps ==
    ASSUME NEW a, NEW lost, AgentOK(a, lost), NEW b, NEW S \in SUBSET Keys
    PROVE  /\ AgentOK(Lift(a, b, S), lost \ Spellings(b, S))
           /\ Lift(a, b, S).latched = a.latched \ Spellings(b, S)
<1>. DEFINE keys == Spellings(b, S)
            c == Lift(a, b, S)
<1>1. /\ a.latched \in SUBSET Keys /\ a.over \in [Keys -> 0 .. Dark]
      /\ a.flash \in [Keys -> 0 .. FlashFor] /\ a.queue \in Waiting(Unlatched(a.latched))
      /\ a.queue \in Waiting(LightOrFlash)
  BY DEF AgentOK
<1>2. c = [latched |-> a.latched \ keys, over |-> Set(a.over, keys, Clear),
           flash |-> a.flash, queue |-> a.queue]
  <2>. DEFINE l == a.latched \ keys
              o == Set(a.over, keys, Clear)
  <2>1. c = [a EXCEPT !.latched = l, !.over = o]
    BY Zenon DEF Lift
  <2>. HIDE DEF c, l, o
  <2>2. c = [latched |-> l, over |-> o, flash |-> a.flash, queue |-> a.queue]
    BY <2>1, Fields, Rewritten, Zenon
  <2>. QED BY <2>2 DEF l, o
<1>. HIDE DEF c, keys
<1>3. c.queue \in Waiting(Unlatched(c.latched))
  <2>1. Unlatched(a.latched) \subseteq Unlatched(a.latched \ keys)
    BY DEF Unlatched
  <2>. QED BY <1>1, <1>2, <2>1, WiderQueue
<1>4. /\ c.over \in [Keys -> 0 .. Dark]
      /\ \A k \in Keys : c.over[k] = IF k \in keys THEN Clear ELSE a.over[k]
  BY <1>1, <1>2, Spans DEF Set
<1>5. \A k \in c.latched \ (lost \ keys) : c.over[k] = Dark /\ c.flash[k] = 0
  BY <1>1, <1>2, <1>4 DEF AgentOK
<1>6. c \in [latched : SUBSET Keys, over : [Keys -> 0 .. Dark], flash : [Keys -> 0 .. FlashFor],
             queue : Waiting(LightOrFlash)]
  BY <1>1, <1>2, <1>4
<1>. QED BY <1>2, <1>3, <1>5, <1>6 DEF AgentOK, c, keys

\* What leaves the latches, what is dark and what may wait as they are, keeps all.
LEMMA SinksKeep ==
    ASSUME NEW a, NEW lost, AgentOK(a, lost), NEW over \in [Keys -> 0 .. Dark],
           NEW flash \in [Keys -> 0 .. FlashFor], NEW waits \in Waiting(Unlatched(a.latched)),
           \A k \in a.latched : /\ a.over[k] = Dark => over[k] = Dark
                                /\ a.flash[k] = 0 => flash[k] = 0
    PROVE  AgentOK([latched |-> a.latched, over |-> over, flash |-> flash, queue |-> waits], lost)
<1>1. waits \in Waiting(LightOrFlash)
  BY WiderQueue DEF Unlatched
<1>. QED BY <1>1 DEF AgentOK

LEMMA PaintKeeps ==
    ASSUME NEW a, NEW lost, AgentOK(a, lost), NEW keys \in SUBSET Keys
    PROVE  AgentOK(Paint(a, keys), lost) /\ Paint(a, keys).latched = a.latched
<1>. DEFINE over == Set(a.over, keys \ a.latched, PaintFor)
<1>1. Paint(a, keys) = [latched |-> a.latched, over |-> over, flash |-> a.flash, queue |-> a.queue]
  BY Fields DEF Paint
<1>2. /\ over \in [Keys -> 0 .. Dark]
      /\ \A k \in Keys : over[k] = IF k \in keys \ a.latched THEN PaintFor ELSE a.over[k]
  <2>1. a.over \in [Keys -> 0 .. Dark]
    BY DEF AgentOK
  <2>. QED BY <2>1, Spans DEF Set
<1>. HIDE DEF over
<1>3. /\ a.flash \in [Keys -> 0 .. FlashFor] /\ a.queue \in Waiting(Unlatched(a.latched))
      /\ a.latched \subseteq Keys
  BY DEF AgentOK
<1>. QED BY <1>1, <1>2, <1>3, SinksKeep

LEMMA FlashKeeps ==
    ASSUME NEW a, NEW lost, AgentOK(a, lost), NEW keys \in SUBSET Keys
    PROVE  AgentOK(Flash(a, keys), lost) /\ Flash(a, keys).latched = a.latched
<1>. DEFINE flash == Set(a.flash, keys \ a.latched, FlashFor)
<1>1. Flash(a, keys) = [latched |-> a.latched, over |-> a.over, flash |-> flash, queue |-> a.queue]
  BY Fields DEF Flash
<1>2. /\ flash \in [Keys -> 0 .. FlashFor]
      /\ \A k \in Keys : flash[k] = IF k \in keys \ a.latched THEN FlashFor ELSE a.flash[k]
  <2>1. a.flash \in [Keys -> 0 .. FlashFor] /\ FlashFor \in 0 .. FlashFor
    BY Spans DEF AgentOK
  <2>. QED BY <2>1 DEF Set
<1>. HIDE DEF flash
<1>3. /\ a.over \in [Keys -> 0 .. Dark] /\ a.queue \in Waiting(Unlatched(a.latched))
      /\ a.latched \subseteq Keys
  BY DEF AgentOK
<1>. QED BY <1>1, <1>2, <1>3, SinksKeep

LEMMA DeferKeeps ==
    ASSUME NEW a, NEW lost, AgentOK(a, lost), NEW keys \in SUBSET Keys
    PROVE  AgentOK(Defer(a, keys), lost) /\ Defer(a, keys).latched = a.latched
<1>. DEFINE cues == {LightCue(k) : k \in keys \ a.latched}
            waits == PushAll(a.queue, StepLater, SetToSeq(cues))
<1>1. Defer(a, keys) = [latched |-> a.latched, over |-> a.over, flash |-> a.flash, queue |-> waits]
  BY Fields DEF Defer
<1>2. SetToSeq(cues) \in Seq(cues)
  <2>1. IsFiniteSet(keys \ a.latched)
    BY KeysAreFinite
  <2>2. IsFiniteSet(cues)
    BY <2>1, CuesAreFinite
  <2>. QED BY <2>2, SetInSequence
<1>3. cues \subseteq Unlatched(a.latched)
  BY DEF Unlatched, LightOrFlash, LightCue
<1>. HIDE DEF cues
<1>4. SetToSeq(cues) \in Seq(Unlatched(a.latched))
  BY <1>2, <1>3
<1>5. /\ a.over \in [Keys -> 0 .. Dark] /\ a.flash \in [Keys -> 0 .. FlashFor]
      /\ a.queue \in Waiting(Unlatched(a.latched))
  BY DEF AgentOK
<1>6. waits \in Waiting(Unlatched(a.latched))
  BY <1>4, <1>5, Spans, AllWait
<1>. HIDE DEF waits
<1>. QED BY <1>1, <1>5, <1>6, SinksKeep

LEMMA AcceptKeeps ==
    ASSUME NEW a, NEW lost, AgentOK(a, lost)
    PROVE  AgentOK(AcceptFlashes(a), lost) /\ AcceptFlashes(a).latched = a.latched
<1>. DEFINE cues == {FlashCue(f) : f \in Fixtures}
            each == SetToSeq(cues)
            waits == PushAll(PushAll(a.queue, 0, each), FlashFor, each)
<1>1. AcceptFlashes(a) = [latched |-> a.latched, over |-> a.over, flash |-> a.flash, queue |-> waits]
  BY Fields DEF AcceptFlashes
<1>2. each \in Seq(cues)
  <2>1. IsFiniteSet(cues)
    BY SurfacesAssumption, CuesAreFinite
  <2>. QED BY <2>1, SetInSequence
<1>3. cues \subseteq Unlatched(a.latched)
  BY DEF Unlatched, LightOrFlash, FlashCue, Keys
<1>. HIDE DEF cues
<1>4. each \in Seq(Unlatched(a.latched))
  BY <1>2, <1>3
<1>. HIDE DEF each
<1>5. /\ a.over \in [Keys -> 0 .. Dark] /\ a.flash \in [Keys -> 0 .. FlashFor]
      /\ a.queue \in Waiting(Unlatched(a.latched))
  BY DEF AgentOK
<1>6. PushAll(a.queue, 0, each) \in Waiting(Unlatched(a.latched))
  BY <1>4, <1>5, AllWait
<1>7. waits \in Waiting(Unlatched(a.latched))
  BY <1>4, <1>6, Spans, AllWait
<1>. HIDE DEF waits
<1>. QED BY <1>1, <1>5, <1>7, SinksKeep

LEMMA TickKeeps ==
    ASSUME NEW a, NEW lost, AgentOK(a, lost)
    PROVE  AgentOK(Ticked(a), lost) /\ Ticked(a).latched = a.latched
<1>. DEFINE over == [k \in Keys |-> IF a.over[k] \in {Clear, Dark} THEN a.over[k] ELSE a.over[k] - 1]
            flash == [k \in Keys |-> IF a.flash[k] = 0 THEN 0 ELSE a.flash[k] - 1]
            waits == Elapse(a.queue)
<1>1. Ticked(a) = [latched |-> a.latched, over |-> over, flash |-> flash, queue |-> waits]
  <2>. DEFINE t == Ticked(a)
  <2>1. t = [a EXCEPT !.over = over, !.flash = flash, !.queue = waits]
    BY Zenon DEF Ticked
  <2>. HIDE DEF t, over, flash, waits
  <2>. QED BY <2>1, Fields, Rewritten, Zenon DEF t
<1>2. /\ a.over \in [Keys -> 0 .. Dark] /\ a.flash \in [Keys -> 0 .. FlashFor]
      /\ a.queue \in Waiting(Unlatched(a.latched)) /\ a.latched \subseteq Keys
  BY DEF AgentOK
<1>3. over \in [Keys -> 0 .. Dark] /\ flash \in [Keys -> 0 .. FlashFor]
  <2>1. ASSUME NEW k \in Keys PROVE over[k] \in 0 .. Dark /\ flash[k] \in 0 .. FlashFor
    BY <1>2, Spans DEF Clear
  <2>. QED BY <2>1
<1>4. \A k \in a.latched : /\ a.over[k] = Dark => over[k] = Dark
                           /\ a.flash[k] = 0 => flash[k] = 0
  BY <1>2
<1>5. waits \in Waiting(Unlatched(a.latched))
  BY <1>2, RestWaits
<1>. HIDE DEF over, flash, waits
<1>. QED BY <1>1, <1>3, <1>4, <1>5, SinksKeep

LEMMA DrainKeeps ==
    ASSUME NEW a, NEW lost, AgentOK(a, lost)
    PROVE  AgentOK(Drain(a, Due(a.queue)), lost) /\ Drain(a, Due(a.queue)).latched = a.latched
<1>. DEFINE b == [a EXCEPT !.queue = Rest(a.queue)]
            flashes == {c \in ToSet(Due(a.queue)) : c.kind = "flash" /\ c.key \notin a.latched}
            keys == {Key(c.key) : c \in flashes}
<1>1. Drain(a, Due(a.queue)) = Paint(b, keys)
  BY DEF Drain
<1>2. AgentOK(b, lost) /\ b.latched = a.latched
  <2>1. Rest(a.queue) \in Waiting(Unlatched(a.latched))
    BY RestWaits DEF AgentOK
  <2>2. b = [latched |-> a.latched, over |-> a.over, flash |-> a.flash, queue |-> Rest(a.queue)]
    BY DEF AgentOK
  <2>3. a.over \in [Keys -> 0 .. Dark] /\ a.flash \in [Keys -> 0 .. FlashFor]
    BY DEF AgentOK
  <2>. HIDE DEF b
  <2>. QED BY <2>1, <2>2, <2>3, SinksKeep
<1>3. keys \in SUBSET Keys
  <2>1. Due(a.queue) \in Seq(LightOrFlash)
    BY RestWaits DEF AgentOK
  <2>2. \A c \in flashes : c \in LightOrFlash
    BY <2>1 DEF ToSet
  <2>3. \A c \in flashes : Key(c.key) \in Keys
    BY <2>2, KeyIsAKey DEF Key, LightOrFlash
  <2>. QED BY <2>3
<1>. HIDE DEF b, keys
<1>. QED BY <1>1, <1>2, <1>3, PaintKeeps

-----------------------------------------------------------------------------
(* Mutes and their forgiveness                                             *)

\* What a fire makes of the mutes: outside some keys nothing has moved, inside them
\* the engine and the agent are one, and no bound device is muted by its own name.
Moved(s, keys) ==
    /\ keys \in SUBSET Keys /\ s.muted \in SUBSET Keys
    /\ s = [muted |-> s.muted, agent |-> s.agent]
    /\ AgentOK(s.agent, forgotten \ keys)
    /\ \A k \in Keys \ keys : /\ k \in s.muted <=> k \in muted
                              /\ k \in s.agent.latched <=> k \in agent.latched
    /\ \A k \in keys : k \in s.muted <=> k \in s.agent.latched
    /\ (s.muted \ muted) \cap Bound = {}

LEMMA NoKeyIsBound ==
    ASSUME SurfacesTyped, NEW d \in Keys
    PROVE  Key(d) \in Keys /\ Key(d) \notin Bound
<1>1. CASE \E f \in Fixtures : bound[f] = d
  <2>1. Key(d) \in Fixtures
    BY <1>1 DEF Key, KeyIn
  <2>2. Bound \subseteq Devs
    BY DEF Bound, SurfacesTyped
  <2>. QED BY <2>1, <2>2, SurfacesAssumption DEF Keys
<1>2. CASE ~ \E f \in Fixtures : bound[f] = d
  BY <1>2 DEF Key, KeyIn, Bound
<1>. QED BY <1>1, <1>2

LEMMA NowIsUnmoved ==
    ASSUME SurfacesInv
    PROVE  Moved(Now, {})
BY DEF SurfacesInv, SurfacesTyped, Now, Moved

LEMMA ForgiveMoves ==
    ASSUME SurfacesTyped, NEW s, Moved(s, {}), NEW surfaces \in SUBSET Keys
    PROVE  \E keys : Moved(Forgive(s, surfaces), keys)
<1>. DEFINE found == {d \in surfaces : {Key(d), d} \cap s.muted # {}}
            keys == Spellings(bound, found)
            t == Forgive(s, surfaces)
<1>1. t = [muted |-> s.muted \ keys, agent |-> Lift(s.agent, bound, found)]
  BY DEF Forgive
<1>2. found \in SUBSET Keys
  OBVIOUS
<1>. HIDE DEF found
<1>3. keys \in SUBSET Keys
  BY <1>2, SpellingsAreKeys
<1>4. AgentOK(s.agent, forgotten)
  BY DEF Moved
<1>5. /\ AgentOK(Lift(s.agent, bound, found), forgotten \ keys)
      /\ Lift(s.agent, bound, found).latched = s.agent.latched \ keys
  BY <1>2, <1>4, LiftKeeps
<1>. HIDE DEF keys, t
<1>6. /\ t.muted = s.muted \ keys /\ t.agent = Lift(s.agent, bound, found)
      /\ t = [muted |-> t.muted, agent |-> t.agent]
  BY <1>1
<1>. HIDE DEF t
<1>7. Moved(t, keys)
  BY <1>3, <1>5, <1>6 DEF Moved
<1>. QED BY <1>7 DEF t

LEMMA LandMoves ==
    ASSUME SurfacesTyped, NEW s, NEW moved, Moved(s, moved), NEW surfaces \in SUBSET Keys,
           NEW kind \in Kinds
    PROVE  \E keys : Moved(Land(s, surfaces, kind), keys)
<1>. DEFINE keys == {Key(d) : d \in surfaces}
            t == Land(s, surfaces, kind)
<1>1. keys \in SUBSET Keys /\ keys \cap Bound = {}
  BY NoKeyIsBound
<1>2. /\ AgentOK(s.agent, forgotten \ moved) /\ s.muted \in SUBSET Keys
      /\ s = [muted |-> s.muted, agent |-> s.agent]
  BY DEF Moved
<1>3. CASE kind = "mute"
  <2>1. t = [muted |-> s.muted \cup keys, agent |-> Darken(s.agent, keys)]
    BY <1>3 DEF Land
  <2>. HIDE DEF t, keys
  <2>2. /\ AgentOK(Darken(s.agent, keys), (forgotten \ moved) \ keys)
        /\ Darken(s.agent, keys).latched = s.agent.latched \cup keys
    BY <1>1, <1>2, DarkenKeeps
  <2>3. (forgotten \ moved) \ keys = forgotten \ (moved \cup keys)
    OBVIOUS
  <2>4. /\ t.muted = s.muted \cup keys /\ t.agent = Darken(s.agent, keys)
        /\ t = [muted |-> t.muted, agent |-> t.agent]
    BY <2>1
  <2>5. Moved(t, moved \cup keys)
    BY <1>1, <1>2, <2>2, <2>3, <2>4 DEF Moved
  <2>. QED BY <2>5 DEF t
<1>4. CASE kind # "mute"
  <2>1. \E b : /\ t = [muted |-> s.muted, agent |-> b]
               /\ AgentOK(b, forgotten \ moved) /\ b.latched = s.agent.latched
    <3>1. \A b : [s EXCEPT !.agent = b] = [muted |-> s.muted, agent |-> b]
      BY <1>2
    <3>2. CASE kind = "paint"
      <4>1. t = [s EXCEPT !.agent = Paint(s.agent, keys)]
        BY <3>2 DEF Land
      <4>. HIDE DEF t, keys
      <4>2. t = [muted |-> s.muted, agent |-> Paint(s.agent, keys)]
        BY <3>1, <4>1, Zenon
      <4>. QED BY <1>1, <1>2, <4>2, PaintKeeps
    <3>3. CASE kind = "flash"
      <4>. DEFINE heard == keys \ s.muted
      <4>1. t = [s EXCEPT !.agent = Flash(s.agent, heard)]
        BY <3>3 DEF Land
      <4>2. heard \in SUBSET Keys
        BY <1>1
      <4>. HIDE DEF t, heard
      <4>3. t = [muted |-> s.muted, agent |-> Flash(s.agent, heard)]
        BY <3>1, <4>1, Zenon
      <4>. QED BY <1>2, <4>2, <4>3, FlashKeeps
    <3>4. CASE kind = "later"
      <4>1. t = [s EXCEPT !.agent = Defer(s.agent, keys)]
        BY <3>4 DEF Land
      <4>. HIDE DEF t, keys
      <4>2. t = [muted |-> s.muted, agent |-> Defer(s.agent, keys)]
        BY <3>1, <4>1, Zenon
      <4>. QED BY <1>1, <1>2, <4>2, DeferKeeps
    <3>. QED BY <1>4, <3>2, <3>3, <3>4 DEF Kinds
  <2>. HIDE DEF t
  <2>2. PICK b : /\ t = [muted |-> s.muted, agent |-> b]
                 /\ AgentOK(b, forgotten \ moved) /\ b.latched = s.agent.latched
    BY <2>1
  <2>3. t.muted = s.muted /\ t.agent = b /\ t = [muted |-> t.muted, agent |-> t.agent]
    BY <2>2
  <2>4. Moved(t, moved)
    BY <2>2, <2>3 DEF Moved
  <2>. QED BY <2>4 DEF t
<1>. QED BY <1>3, <1>4

\* A step that becomes what was so moved keeps what the invariant says of the mutes.
LEMMA BecomeKeeps ==
    ASSUME SurfacesInv, NEW s, NEW keys, Moved(s, keys), Become(s), loaded,
           UNCHANGED <<loaded, bound>>
    PROVE  /\ AgentOK(agent', forgotten') /\ muted' \in SUBSET Keys
           /\ forgotten' \in SUBSET Keys /\ estranged' \in SUBSET Keys
           /\ Alike(muted', agent'.latched, Dropped') /\ Outlived'
<1>. DEFINE moved == (muted \ s.muted) \cup (s.muted \ muted)
                        \cup (agent.latched \ s.agent.latched)
                        \cup (s.agent.latched \ agent.latched)
<1>1. /\ muted' = s.muted /\ agent' = s.agent
      /\ forgotten' = forgotten \ moved /\ estranged' = estranged \ moved
  BY DEF Become
<1>2. /\ {muted, forgotten, estranged} \subseteq SUBSET Keys
      /\ agent.latched \in SUBSET Keys /\ s.agent.latched \in SUBSET Keys
      /\ Bound \subseteq Devs
  BY DEF SurfacesInv, SurfacesTyped, AgentOK, Moved, Bound
<1>3. moved \subseteq keys
  BY <1>2 DEF Moved
<1>4. AgentOK(agent', forgotten')
  <2>1. AgentOK(s.agent, forgotten \ keys)
    BY DEF Moved
  <2>. HIDE DEF moved
  <2>. QED BY <1>1, <1>3, <2>1, MoreLost
<1>5. Alike(muted', agent'.latched, Dropped')
  <2>. SUFFICES ASSUME NEW k \in Keys, k \notin Dropped'
                PROVE  k \in muted' <=> k \in agent'.latched
    BY DEF Alike
  <2>1. CASE k \in keys
    BY <1>1, <2>1 DEF Moved
  <2>2. CASE k \notin keys
    <3>1. k \notin Dropped
      BY <1>1, <1>3, <2>2 DEF Dropped
    <3>2. k \in muted <=> k \in agent.latched
      BY <3>1 DEF SurfacesInv, Alike
    <3>. QED BY <1>1, <2>2, <3>2 DEF Moved
  <2>. QED BY <2>1, <2>2
<1>6. Outlived'
  <2>1. Bound' = Bound
    BY DEF Bound
  <2>2. ASSUME NEW d \in Bound, d \in muted' PROVE d \in estranged'
    <3>1. d \in Keys /\ d \notin Dropped /\ d \notin Dropped'
      BY <1>2, SurfacesAssumption DEF Keys, Dropped
    <3>2. d \in muted
      BY <1>1, <2>2 DEF Moved
    <3>3. d \in agent.latched /\ d \in agent'.latched
      BY <1>5, <2>2, <3>1, <3>2 DEF SurfacesInv, Alike
    <3>4. d \notin moved
      BY <1>1, <2>2, <3>2, <3>3
    <3>. QED BY <1>1, <3>2, <3>4 DEF SurfacesInv, Outlived
  <2>. QED BY <2>1, <2>2 DEF Outlived
<1>. HIDE DEF moved
<1>7. muted' \in SUBSET Keys /\ forgotten' \in SUBSET Keys /\ estranged' \in SUBSET Keys
  BY <1>1, <1>2 DEF Moved
<1>. QED BY <1>4, <1>5, <1>6, <1>7

-----------------------------------------------------------------------------
(* Every step                                                              *)

LEMMA SurfacesStart ==
    ASSUME SurfacesInit
    PROVE  SurfacesInv
<1>1. /\ agent = [latched |-> {}, over |-> [k \in Keys |-> Clear],
                  flash |-> [k \in Keys |-> 0], queue |-> <<>>]
      /\ muted = {} /\ forgotten = {} /\ estranged = {} /\ stirred = {}
  BY DEF SurfacesInit
<1>2. agent.latched = {} /\ agent.queue = <<>> /\ agent.over = [k \in Keys |-> Clear]
         /\ agent.flash = [k \in Keys |-> 0]
  BY <1>1
<1>3. agent.queue \in Waiting(LightOrFlash) /\ agent.queue \in Waiting(Unlatched({}))
  BY <1>2 DEF Waiting
<1>4. AgentOK(agent, forgotten)
  <2>1. agent.over \in [Keys -> 0 .. Dark] /\ agent.flash \in [Keys -> 0 .. FlashFor]
    BY <1>2, Spans
  <2>. QED BY <1>1, <1>2, <1>3, <2>1 DEF AgentOK
<1>5. Alike(muted, agent.latched, Dropped)
  BY <1>1, <1>2 DEF Alike
<1>6. Outlived
  BY <1>1, SurfacesAssumption DEF Outlived, SurfacesInit, Bound, Unbound
<1>7. SurfacesTyped
  <2>1. bound \in [Fixtures -> Devs \cup {NoDev}] /\ bridge \in [Devs -> {"none", "on", "fading"}]
    BY DEF SurfacesInit, Unbound
  <2>2. loaded \in BOOLEAN /\ stage \in {"idle", "setup", "running"} /\ known \in SUBSET Devs
    BY DEF SurfacesInit
  <2>. QED BY <1>1, <1>4, <2>1, <2>2 DEF SurfacesTyped, AgentOK, LightOrFlash
<1>. QED BY <1>1, <1>4, <1>5, <1>6, <1>7 DEF SurfacesInv

\* A typed state that keeps what it says of the mutes.
LEMMA TypedStill ==
    ASSUME /\ loaded' \in BOOLEAN /\ stage' \in {"idle", "setup", "running"}
           /\ bound' \in [Fixtures -> Devs \cup {NoDev}] /\ known' \in SUBSET Devs
           /\ bridge' \in [Devs -> {"none", "on", "fading"}],
           muted' \in SUBSET Keys, forgotten' \in SUBSET Keys, estranged' \in SUBSET Keys,
           stirred' = {},
           AgentOK(agent', forgotten'), Alike(muted', agent'.latched, Dropped'), Outlived'
    PROVE  SurfacesInv'
<1>1. SurfacesTyped'
  BY DEF SurfacesTyped, AgentOK, LightOrFlash
<1>2. AgentOK(agent, forgotten)' /\ Alike(muted, agent.latched, Dropped)'
  BY DEF AgentOK, Alike
<1>. QED BY <1>1, <1>2 DEF SurfacesInv

\* A step that becomes something leaves the Room and the bridges, or ends a round.
LEMMA BecomeIsSafe ==
    ASSUME SurfacesInv, NEW s, NEW keys, Moved(s, keys), Become(s), loaded,
           UNCHANGED <<loaded, bound, known, stirred>>,
           stage' \in {"idle", "setup", "running"},
           bridge' \in [Devs -> {"none", "on", "fading"}]
    PROVE  SurfacesInv'
<1>1. /\ AgentOK(agent', forgotten') /\ muted' \in SUBSET Keys
      /\ forgotten' \in SUBSET Keys /\ estranged' \in SUBSET Keys
      /\ Alike(muted', agent'.latched, Dropped')
  BY BecomeKeeps
<1>2. Outlived'
  BY BecomeKeeps
<1>. QED BY <1>1, <1>2, TypedStill DEF SurfacesInv, SurfacesTyped

LEMMA AimsAreKeys ==
    ASSUME SurfacesTyped
    PROVE  /\ \A devs \in Aims : devs \in SUBSET Keys
           /\ RoomDevs \in SUBSET Keys /\ Bound \subseteq Devs
<1>1. \A f \in Fixtures : Target(f) \in Keys
  BY DEF SurfacesTyped, Target, Keys
<1>2. Bound \subseteq Devs
  BY DEF SurfacesTyped, Bound
<1>3. RoomDevs \in SUBSET Keys
  BY <1>1 DEF RoomDevs
<1>4. known \in SUBSET Keys /\ known \cup Bound \subseteq Keys
  BY <1>2 DEF SurfacesTyped, Keys
<1>. QED BY <1>1, <1>2, <1>3, <1>4 DEF Aims

\* With no Room there is nothing to aim at.
LEMMA AimsNeedARoom ==
    ASSUME SurfacesInv, NEW devs \in Aims, devs # {}
    PROVE  loaded
<1>. SUFFICES ASSUME ~loaded PROVE FALSE
  BY DEF SurfacesInv, SurfacesTyped
<1>1. known = {} /\ bound = Unbound
  BY DEF SurfacesInv, Outlived
<1>2. RoomDevs = {} /\ Bound = {}
  BY <1>1 DEF RoomDevs, Bound, Unbound
<1>. QED BY <1>1, <1>2 DEF Aims

LEMMA FireIsSafe ==
    ASSUME SurfacesInv, NEW devs \in SUBSET Keys, NEW kind \in Kinds, loaded, Fire(devs, kind)
    PROVE  SurfacesInv'
<1>. DEFINE s == IF kind = "mute" THEN Now ELSE Forgive(Now, devs)
<1>1. SurfacesTyped /\ Moved(Now, {})
  BY NowIsUnmoved DEF SurfacesInv
<1>2. \E keys : Moved(s, keys)
  BY <1>1, ForgiveMoves
<1>3. Become(Land(s, devs, kind)) /\ UNCHANGED <<places, bridge, stirred>>
  BY DEF Fire
<1>. HIDE DEF s
<1>4. PICK keys : Moved(Land(s, devs, kind), keys)
  BY <1>1, <1>2, LandMoves
<1>5. UNCHANGED <<loaded, bound, known, stirred, stage, bridge>>
  BY <1>3 DEF places
<1>6. stage' \in {"idle", "setup", "running"} /\ bridge' \in [Devs -> {"none", "on", "fading"}]
  BY <1>1, <1>5 DEF SurfacesTyped
<1>. QED BY <1>3, <1>4, <1>5, <1>6, BecomeIsSafe

LEMMA CueIsSafe ==
    ASSUME SurfacesInv, NEW dev \in Keys, NEW kind \in Kinds, BitCue(dev, kind)
    PROVE  SurfacesInv'
<1>1. SurfacesTyped /\ Moved(Now, {}) /\ {dev} \in SUBSET Keys
  BY NowIsUnmoved DEF SurfacesInv
<1>2. PICK keys : Moved(Land(Now, {dev}, kind), keys)
  BY <1>1, LandMoves
<1>3. /\ stage # "idle" /\ Become(Land(Now, {dev}, kind))
      /\ UNCHANGED <<loaded, bound, known, stirred, stage, bridge>>
  BY DEF BitCue, places
<1>4. loaded
  BY <1>3 DEF SurfacesInv, SurfacesTyped, Outlived
<1>5. stage' \in {"idle", "setup", "running"} /\ bridge' \in [Devs -> {"none", "on", "fading"}]
  BY <1>1, <1>3 DEF SurfacesTyped
<1>. QED BY <1>2, <1>3, <1>4, <1>5, BecomeIsSafe

LEMMA EndIsSafe ==
    ASSUME SurfacesInv, EndRound
    PROVE  SurfacesInv'
<1>. DEFINE b == [agent EXCEPT !.queue = <<>>]
            s == [muted |-> muted, agent |-> b]
<1>1. Become(Forgive(s, muted))
  <2>1. [Now EXCEPT !.agent.queue = <<>>] = s
    BY DEF Now
  <2>. QED BY <2>1 DEF EndRound
<1>2. SurfacesTyped /\ muted \in SUBSET Keys /\ loaded
  BY DEF SurfacesInv, SurfacesTyped, Outlived, EndRound
<1>3. Moved(s, {})
  <2>1. <<>> \in Waiting(Unlatched(agent.latched))
    BY DEF Waiting
  <2>2. AgentOK(agent, forgotten)
    BY DEF SurfacesInv
  <2>3. b = [latched |-> agent.latched, over |-> agent.over, flash |-> agent.flash, queue |-> <<>>]
    BY <2>2, Fields
  <2>4. agent.over \in [Keys -> 0 .. Dark] /\ agent.flash \in [Keys -> 0 .. FlashFor]
    BY <2>2 DEF AgentOK
  <2>. HIDE DEF b
  <2>5. AgentOK(b, forgotten) /\ b.latched = agent.latched
    BY <2>1, <2>2, <2>3, <2>4, SinksKeep
  <2>. QED BY <1>2, <2>5 DEF Moved
<1>. HIDE DEF s
<1>4. PICK keys : Moved(Forgive(s, muted), keys)
  BY <1>2, <1>3, ForgiveMoves
<1>5. UNCHANGED <<loaded, bound, known, stirred>> /\ stage' = "idle"
  BY DEF EndRound
<1>6. bridge' \in [Devs -> {"none", "on", "fading"}]
  BY <1>2 DEF EndRound, SurfacesTyped
<1>. QED BY <1>1, <1>2, <1>4, <1>5, <1>6, BecomeIsSafe

\* The other steps that touch the agent leave the mutes as they are.
LEMMA PollIsSafe ==
    ASSUME SurfacesInv, AgentPoll
    PROVE  SurfacesInv'
<1>. DEFINE a == Ticked(agent)
            due == Due(a.queue)
            fed == {cue \in ToSet(due) : /\ cue.kind = "light" /\ cue.key \notin a.latched
                                         /\ HasSession(Key(cue.key))}
<1>1. /\ agent' = Drain(a, due)
      /\ stirred' = stirred \cup ({cue.key : cue \in {c \in fed : Key(c.key) = c.key}}
                                     \cap (muted \ Dropped))
      /\ UNCHANGED <<loaded, stage, bound, known, bridge, muted, forgotten, estranged>>
  BY DEF AgentPoll, places
<1>2. AgentOK(a, forgotten) /\ a.latched = agent.latched
  BY TickKeeps DEF SurfacesInv
<1>3. AgentOK(agent', forgotten) /\ agent'.latched = agent.latched
  BY <1>1, <1>2, DrainKeeps
<1>4. stirred' = {}
  <2>1. \A k \in muted \ Dropped : k \in agent.latched
    BY DEF SurfacesInv, SurfacesTyped, Alike
  <2>2. \A c \in fed : c.key \notin agent.latched
    BY <1>2
  <2>. HIDE DEF fed
  <2>. QED BY <1>1, <2>1, <2>2 DEF SurfacesInv
<1>5. Dropped' = Dropped /\ Outlived'
  BY <1>1 DEF Dropped, SurfacesInv, Outlived, Bound, Unbound
<1>. HIDE DEF a, due, fed
<1>. QED BY <1>1, <1>3, <1>4, <1>5, TypedStill DEF SurfacesInv, SurfacesTyped

Blanked(a, d) == [a EXCEPT !.over[d] = Clear, !.flash[d] = 0]

\* A device's blackout goes: it is forgotten, unless the device is not latched.
LEMMA Cleared ==
    ASSUME NEW a, NEW lost, AgentOK(a, lost), NEW d \in Keys
    PROVE  /\ Blanked(a, d).latched = a.latched
           /\ AgentOK(Blanked(a, d), IF d \in a.latched THEN lost \cup {d} ELSE lost)
           /\ d \notin a.latched => AgentOK(Blanked(a, d), lost)
<1>. DEFINE over == [a.over EXCEPT ![d] = Clear]
            flash == [a.flash EXCEPT ![d] = 0]
            b == Blanked(a, d)
            more == IF d \in a.latched THEN lost \cup {d} ELSE lost
<1>1. /\ a.latched \in SUBSET Keys /\ a.over \in [Keys -> 0 .. Dark]
      /\ a.flash \in [Keys -> 0 .. FlashFor] /\ a.queue \in Waiting(Unlatched(a.latched))
      /\ a.queue \in Waiting(LightOrFlash)
      /\ \A k \in a.latched \ lost : a.over[k] = Dark /\ a.flash[k] = 0
  BY DEF AgentOK
<1>2. b.latched = a.latched /\ b.over = over /\ b.flash = flash /\ b.queue = a.queue
         /\ b = [latched |-> a.latched, over |-> over, flash |-> flash, queue |-> a.queue]
  <2>. DEFINE x == a.latched
              y == a.over
              z == a.flash
              w == a.queue
  <2>1. a = [latched |-> x, over |-> y, flash |-> z, queue |-> w]
    BY Fields
  <2>. HIDE DEF x, y, z, w
  <2>2. [a EXCEPT !.over[d] = Clear] = [latched |-> x, over |-> [y EXCEPT ![d] = Clear], flash |-> z, queue |-> w]
    BY <2>1
  <2>3. \A c, u : c = [latched |-> x, over |-> u, flash |-> z, queue |-> w]
           => [c EXCEPT !.flash[d] = 0] = [latched |-> x, over |-> u, flash |-> [z EXCEPT ![d] = 0], queue |-> w]
    OBVIOUS
  <2>4. b = [latched |-> x, over |-> [y EXCEPT ![d] = Clear], flash |-> [z EXCEPT ![d] = 0], queue |-> w]
    BY <2>2, <2>3 DEF Blanked
  <2>. HIDE DEF b
  <2>. QED BY <2>4 DEF x, y, z, w
<1>3. /\ over \in [Keys -> 0 .. Dark] /\ flash \in [Keys -> 0 .. FlashFor]
      /\ \A k \in Keys \ {d} : over[k] = a.over[k] /\ flash[k] = a.flash[k]
  BY <1>1, Spans
<1>. HIDE DEF b, over, flash
<1>4. \A k \in b.latched \ more : b.over[k] = Dark /\ b.flash[k] = 0
  BY <1>1, <1>2, <1>3
<1>5. b \in [latched : SUBSET Keys, over : [Keys -> 0 .. Dark], flash : [Keys -> 0 .. FlashFor],
             queue : Waiting(LightOrFlash)]
  BY <1>1, <1>2, <1>3
<1>6. AgentOK(b, more)
  BY <1>1, <1>2, <1>4, <1>5 DEF AgentOK
<1>. QED BY <1>2, <1>6 DEF b

LEMMA ForgottenIsSafe ==
    ASSUME SurfacesInv, NEW d \in Devs, ForgetReaped(d)
    PROVE  /\ AgentOK(agent', forgotten') /\ agent'.latched = agent.latched
           /\ forgotten' \in SUBSET Keys
<1>1. d \in Keys
  BY DEF Keys
<1>2. AgentOK(agent, forgotten)
  BY DEF SurfacesInv
<1>3. /\ agent'.latched = agent.latched
      /\ AgentOK(agent', IF d \in agent.latched THEN forgotten \cup {d} ELSE forgotten)
  <2>1. agent' = Blanked(agent, d)
    BY DEF ForgetReaped, Blanked
  <2>. QED BY <1>1, <1>2, <2>1, Cleared
<1>4. forgotten' = IF d \in agent.latched THEN forgotten \cup {d} ELSE forgotten
  BY DEF ForgetReaped
<1>. QED BY <1>1, <1>3, <1>4 DEF SurfacesInv, SurfacesTyped

LEMMA ReapIsSafe ==
    ASSUME SurfacesInv, NEW d \in Devs, ReapDevice(d) \/ FadeEnds(d)
    PROVE  SurfacesInv'
<1>1. /\ UNCHANGED <<loaded, stage, bound, muted, estranged, stirred>>
      /\ known' \in SUBSET known
  BY DEF ReapDevice, FadeEnds, places
<1>2. /\ AgentOK(agent', forgotten') /\ agent'.latched = agent.latched
      /\ forgotten' \in SUBSET Keys
  BY ForgottenIsSafe DEF ReapDevice, FadeEnds, SurfacesInv, SurfacesTyped
<1>3. bridge' \in [Devs -> {"none", "on", "fading"}]
  BY DEF ReapDevice, FadeEnds, SurfacesInv, SurfacesTyped
<1>4. Dropped' = Dropped /\ Outlived'
  BY <1>1 DEF Dropped, SurfacesInv, SurfacesTyped, Outlived, Bound, Unbound
<1>. QED BY <1>1, <1>2, <1>3, <1>4, TypedStill DEF SurfacesInv, SurfacesTyped

\* What a device bound to a fixture has of a mute is the fixture's.
LEMMA MoveAgrees ==
    ASSUME SurfacesInv, NEW d \in Devs, NEW f \in Fixtures, BindFixture(d, f), d \in muted
    PROVE  /\ AgentOK(agent', forgotten') /\ Alike(muted', agent'.latched, Dropped')
           /\ muted' = (muted \ {d}) \cup {f} /\ f \in agent'.latched
           /\ forgotten' = forgotten \ {d, f}
           /\ estranged \ {d, f} \subseteq estranged' /\ estranged' \in SUBSET Keys
<1>. DEFINE b == [bound EXCEPT ![f] = d]
            g == KeyIn(b, d)
            lifted == Lift(agent, b, {d})
            a == Darken(lifted, {f})
<1>1. /\ bound' = b /\ muted' = (muted \ {d}) \cup {f}
      /\ agent' = Blanked(a, d)
      /\ forgotten' = forgotten \ {d, f}
      /\ estranged' = (estranged \ {d, f})
                         \cup (IF d \in estranged THEN (muted \cap {KeyIn(bound', d)}) \ {f} ELSE {})
  BY DEF BindFixture, Move, Now, Blanked
<1>2. /\ d \in Keys /\ f \in Keys /\ d # f /\ d \notin Fixtures /\ bound[f] # d
      /\ bound \in [Fixtures -> Devs \cup {NoDev}]
      /\ AgentOK(agent, forgotten) /\ {muted, forgotten, estranged} \subseteq SUBSET Keys
  BY SurfacesAssumption DEF Keys, BindFixture, SurfacesInv, SurfacesTyped
<1>3. b[f] = d /\ g \in Fixtures /\ (g # f => bound[g] = d)
  <2>1. b[f] = d /\ \A x \in Fixtures : x # f => b[x] = bound[x]
    BY <1>2
  <2>. HIDE DEF b
  <2>2. g \in Fixtures /\ b[g] = d
    BY <2>1 DEF KeyIn
  <2>. QED BY <2>1, <2>2
<1>4. Spellings(b, {d}) = {g, d}
  BY DEF Spellings
<1>5. /\ AgentOK(lifted, forgotten \ {g, d}) /\ lifted.latched = agent.latched \ {g, d}
  <2>1. {d} \in SUBSET Keys
    BY <1>2
  <2>2. /\ AgentOK(lifted, forgotten \ Spellings(b, {d}))
        /\ lifted.latched = agent.latched \ Spellings(b, {d})
    BY <1>2, <2>1, LiftKeeps
  <2>. QED BY <1>4, <2>2
<1>. HIDE DEF lifted
<1>6. /\ AgentOK(a, (forgotten \ {g, d}) \ {f}) /\ a.latched = (agent.latched \ {g, d}) \cup {f}
  BY <1>2, <1>5, DarkenKeeps
<1>. HIDE DEF a
<1>7. d \notin a.latched
  BY <1>2, <1>6
<1>8. AgentOK(agent', (forgotten \ {g, d}) \ {f}) /\ agent'.latched = a.latched
  BY <1>1, <1>2, <1>6, <1>7, Cleared
<1>9. AgentOK(agent', forgotten')
  BY <1>1, <1>8, MoreLost
<1>10. bound' = b
  BY <1>1
<1>. HIDE DEF b, g
<1>11. estranged' = (estranged \ {d, f})
                         \cup (IF d \in estranged THEN (muted \cap {g}) \ {f} ELSE {})
  BY <1>1, <1>10 DEF g
<1>12. Alike(muted', agent'.latched, Dropped')
  <2>. SUFFICES ASSUME NEW k \in Keys, k \notin Dropped'
                PROVE  k \in muted' <=> k \in agent'.latched
    BY DEF Alike
  <2>1. CASE k = f \/ k = d
    BY <1>1, <1>2, <1>6, <1>8, <2>1
  <2>2. CASE k = g /\ k # f
    <3>1. d \in Bound /\ d \in estranged
      BY <1>2, <1>3, <2>2, SurfacesAssumption DEF Bound, SurfacesInv, Outlived
    <3>2. k \notin muted
      BY <1>3, <1>11, <2>2, <3>1 DEF Dropped
    <3>. QED BY <1>1, <1>2, <1>3, <1>6, <1>8, <2>2, <3>2
  <2>3. CASE k \notin {f, d, g}
    <3>1. k \notin Dropped
      BY <1>11, <2>3 DEF Dropped
    <3>. QED BY <1>1, <1>6, <1>8, <2>3, <3>1 DEF SurfacesInv, Alike
  <2>. QED BY <2>1, <2>2, <2>3
<1>13. estranged' \in SUBSET Keys
  BY <1>2, <1>11
<1>. QED BY <1>1, <1>6, <1>8, <1>9, <1>11, <1>12, <1>13

LEMMA BindIsSafe ==
    ASSUME SurfacesInv, NEW d \in Devs, NEW f \in Fixtures, BindFixture(d, f)
    PROVE  SurfacesInv'
<1>1. /\ stage # "idle" /\ bound' = [bound EXCEPT ![f] = d] /\ bridge' = [bridge EXCEPT ![d] = "none"]
      /\ UNCHANGED <<loaded, stage, known, stirred>>
  BY DEF BindFixture
<1>2. d \in Keys /\ f \in Keys /\ d \notin Dropped
  BY SurfacesAssumption DEF Keys, Dropped
<1>3. /\ AgentOK(agent', forgotten') /\ Alike(muted', agent'.latched, Dropped')
      /\ {muted', forgotten', estranged'} \subseteq SUBSET Keys
      /\ d \notin muted' /\ muted' \subseteq muted \cup {f} /\ estranged \ {d, f} \subseteq estranged'
  <2>1. CASE d \in muted
    <3>1. d # f
      BY SurfacesAssumption
    <3>. QED BY <1>2, <2>1, <3>1, MoveAgrees DEF SurfacesInv, SurfacesTyped
  <2>2. CASE d \notin muted
    <3>1. /\ muted' = muted /\ agent' = Blanked(agent, d)
          /\ forgotten' = forgotten /\ estranged' = estranged
      BY <2>2 DEF BindFixture, Move, Now, Blanked
    <3>2. d \notin agent.latched
      BY <1>2, <2>2 DEF SurfacesInv, Alike
    <3>3. AgentOK(agent, forgotten)
      BY DEF SurfacesInv
    <3>4. AgentOK(agent', forgotten) /\ agent'.latched = agent.latched
      <4>1. AgentOK(Blanked(agent, d), forgotten) /\ Blanked(agent, d).latched = agent.latched
        BY <1>2, <3>2, <3>3, Cleared
      <4>. QED BY <3>1, <4>1
    <3>5. Dropped' = Dropped
      BY <3>1 DEF Dropped
    <3>. QED BY <2>2, <3>1, <3>4, <3>5 DEF SurfacesInv, SurfacesTyped
  <2>. QED BY <2>1, <2>2
<1>4. Outlived'
  <2>1. loaded'
    BY <1>1 DEF SurfacesInv, SurfacesTyped, Outlived
  <2>2. ASSUME NEW e \in Bound', e \in muted' PROVE e \in estranged'
    <3>1. bound \in [Fixtures -> Devs \cup {NoDev}] /\ Bound' \subseteq Bound \cup {d}
      BY <1>1 DEF Bound, SurfacesInv, SurfacesTyped
    <3>2. e \in Bound /\ e # d /\ e # f
      <4>1. Bound \subseteq Devs
        BY <3>1 DEF Bound
      <4>. QED BY <1>3, <2>2, <3>1, <4>1, SurfacesAssumption
    <3>3. e \in muted
      BY <1>3, <2>2, <3>2
    <3>. QED BY <1>3, <3>2, <3>3 DEF SurfacesInv, Outlived
  <2>. QED BY <2>1, <2>2 DEF Outlived
<1>5. bound' \in [Fixtures -> Devs \cup {NoDev}] /\ bridge' \in [Devs -> {"none", "on", "fading"}]
  BY <1>1 DEF SurfacesInv, SurfacesTyped
<1>. QED BY <1>1, <1>3, <1>4, <1>5, TypedStill DEF SurfacesInv, SurfacesTyped

LEMMA RoomIsSafe ==
    ASSUME SurfacesInv, LoadRoom \/ UnloadRoom
    PROVE  SurfacesInv'
<1>1. CASE LoadRoom
  <2>1. /\ ~loaded /\ loaded' = TRUE
        /\ bound' \in [Fixtures -> Devs \cup {NoDev}]
        /\ UNCHANGED <<stage, known, muted, agent, forgotten, estranged, stirred>>
    BY <1>1 DEF LoadRoom, history
  <2>2. bridge' \in [Devs -> {"none", "on", "fading"}]
    BY <1>1 DEF LoadRoom, SurfacesInv, SurfacesTyped
  <2>3. Dropped' = Dropped /\ Outlived'
    BY <2>1 DEF Dropped, SurfacesInv, Outlived
  <2>. QED BY <2>1, <2>2, <2>3, TypedStill DEF SurfacesInv, SurfacesTyped
<1>2. CASE UnloadRoom
  <2>. DEFINE over == [k \in Keys |-> IF k \in Fixtures \cup Bound THEN Clear ELSE agent.over[k]]
              flash == [k \in Keys |-> IF k \in Fixtures \cup Bound THEN 0 ELSE agent.flash[k]]
  <2>1. /\ stage = "idle" /\ loaded' = FALSE /\ bound' = Unbound /\ known' = {}
        /\ agent' = [latched |-> agent.latched \ Fixtures, over |-> over,
                     flash |-> flash, queue |-> <<>>]
        /\ estranged' = estranged \cup muted
        /\ forgotten' = forgotten \cup (agent.latched \cap Bound)
        /\ UNCHANGED <<stage, bridge, muted, stirred>>
    BY <1>2 DEF UnloadRoom
  <2>2. AgentOK(agent, forgotten) /\ SurfacesTyped
    BY DEF SurfacesInv
  <2>3. over \in [Keys -> 0 .. Dark] /\ flash \in [Keys -> 0 .. FlashFor]
    BY <2>2, Spans DEF AgentOK
  <2>4. <<>> \in Waiting(LightOrFlash) /\ <<>> \in Waiting(Unlatched(agent.latched \ Fixtures))
    BY DEF Waiting
  <2>5. \A k \in agent.latched \ Fixtures : k \notin forgotten' => over[k] = Dark /\ flash[k] = 0
    BY <2>1, <2>2 DEF AgentOK
  <2>. HIDE DEF over, flash
  <2>6. agent'.latched = agent.latched \ Fixtures /\ agent'.over = over
          /\ agent'.flash = flash /\ agent'.queue = <<>>
    BY <2>1
  <2>7. AgentOK(agent', forgotten')
    <3>1. agent.latched \ Fixtures \in SUBSET Keys
      BY <2>2 DEF AgentOK
    <3>2. agent' \in [latched : SUBSET Keys, over : [Keys -> 0 .. Dark],
                      flash : [Keys -> 0 .. FlashFor], queue : Waiting(LightOrFlash)]
      BY <2>1, <2>3, <2>4, <3>1
    <3>. QED BY <2>4, <2>5, <2>6, <3>2 DEF AgentOK
  <2>8. Alike(muted', agent'.latched, Dropped')
    <3>. SUFFICES ASSUME NEW k \in Keys, k \notin Dropped'
                  PROVE  k \in muted' <=> k \in agent'.latched
      BY DEF Alike
    <3>1. k \notin Dropped /\ (k \in Fixtures => k \notin muted)
      BY <2>1 DEF Dropped
    <3>. QED BY <2>1, <2>6, <3>1 DEF SurfacesInv, Alike
  <2>9. Outlived'
    BY <2>1, SurfacesAssumption DEF Outlived, Bound, Unbound
  <2>10. bound' \in [Fixtures -> Devs \cup {NoDev}] /\ forgotten' \in SUBSET Keys
          /\ estranged' \in SUBSET Keys
    BY <2>1, <2>2 DEF Unbound, SurfacesTyped
  <2>. QED BY <2>1, <2>2, <2>7, <2>8, <2>9, <2>10, TypedStill DEF SurfacesInv, SurfacesTyped
<1>. QED BY <1>1, <1>2

LEMMA RoundIsSafe ==
    ASSUME SurfacesInv, LoadBit \/ Run \/ \E d \in Devs : SayHello(d)
    PROVE  SurfacesInv'
<1>1. /\ loaded /\ UNCHANGED <<loaded, bound, muted, forgotten, estranged, stirred>>
      /\ stage' \in {"idle", "setup", "running"} /\ known' \in SUBSET Devs
      /\ bridge' \in [Devs -> {"none", "on", "fading"}]
  <2>1. CASE LoadBit
    BY <2>1 DEF LoadBit, history, SurfacesInv, SurfacesTyped
  <2>2. CASE Run
    BY <2>2 DEF Run, history, SurfacesInv, SurfacesTyped, Outlived
  <2>3. CASE \E d \in Devs : SayHello(d)
    BY <2>3 DEF SayHello, history, SurfacesInv, SurfacesTyped
  <2>. QED BY <2>1, <2>2, <2>3
<1>2. AgentOK(agent, forgotten)
  BY DEF SurfacesInv
<1>3. AgentOK(agent', forgotten) /\ agent'.latched = agent.latched
  BY <1>2, AcceptKeeps DEF LoadBit, Run, SayHello
<1>4. Dropped' = Dropped /\ Outlived'
  BY <1>1 DEF Dropped, SurfacesInv, Outlived, Bound
<1>. QED BY <1>1, <1>3, <1>4, TypedStill DEF SurfacesInv, SurfacesTyped

LEMMA SurfacesStep ==
    ASSUME SurfacesInv, [SurfacesNext]_surfaceVars
    PROVE  SurfacesInv'
<1>1. /\ \A devs \in Aims : devs \in SUBSET Keys
      /\ known \cup RoomDevs \in SUBSET Keys
  BY AimsAreKeys DEF SurfacesInv, SurfacesTyped, Keys
<1>2. ASSUME NEW devs \in Aims, NEW kind \in Kinds, Fire(devs, kind) \/ FireDeclared(devs, kind)
      PROVE  SurfacesInv'
  BY <1>1, <1>2, AimsNeedARoom, FireIsSafe DEF Fire, FireDeclared
<1>3. ASSUME NEW dev \in known \cup RoomDevs, NEW kind \in Kinds,
             BitCue(dev, kind) \/ RunAction(dev, kind) \/ \E d \in Devs : Gesture(d, dev, kind)
      PROVE  SurfacesInv'
  BY <1>1, <1>3, CueIsSafe DEF RunAction, Gesture
<1>4. ASSUME NEW d \in Devs, NEW kind \in Kinds, SoloGesture(d, kind) PROVE SurfacesInv'
  <2>1. loaded /\ {d} \in SUBSET Keys /\ Fire({d}, kind)
    BY <1>4 DEF SoloGesture, SurfacesInv, SurfacesTyped, Outlived, Keys
  <2>. QED BY <2>1, FireIsSafe
<1>5. ASSUME UNCHANGED surfaceVars PROVE SurfacesInv'
  <2>1. UNCHANGED <<loaded, stage, bound, known, bridge, muted, agent, forgotten, estranged, stirred>>
    BY <1>5 DEF surfaceVars, places, history
  <2>2. Dropped' = Dropped /\ Outlived'
    BY <2>1 DEF Dropped, SurfacesInv, Outlived, Bound, Unbound
  <2>. QED BY <2>1, <2>2, TypedStill DEF SurfacesInv, SurfacesTyped
<1>. QED BY <1>2, <1>3, <1>4, <1>5, PollIsSafe, ReapIsSafe, BindIsSafe, RoomIsSafe, RoundIsSafe,
            EndIsSafe DEF SurfacesNext

\* Every variable keeps to its values, the agent's record and its queue of cues too.
THEOREM SurfacesAreTyped == SurfacesSpec => []SurfacesTyped
<1>1. SurfacesInit => SurfacesInv
  BY SurfacesStart
<1>2. SurfacesInv /\ [SurfacesNext]_surfaceVars => SurfacesInv'
  BY SurfacesStep
<1>3. SurfacesInv => SurfacesTyped
  BY DEF SurfacesInv
<1>. QED BY <1>1, <1>2, <1>3, PTL DEF SurfacesSpec

THEOREM SurfacesAreSound == SurfacesSpec => []SurfacesInv
<1>1. SurfacesInit => SurfacesInv
  BY SurfacesStart
<1>2. SurfacesInv /\ [SurfacesNext]_surfaceVars => SurfacesInv'
  BY SurfacesStep
<1>. QED BY <1>1, <1>2, PTL DEF SurfacesSpec

\* DarkWhileMuted, for any devices and fixtures: whatever is fired, painted, bound,
\* reaped or lapses, a latched surface is dark, no session is fed under a mute and no
\* light cue outwaits one (devicelink/agent.py, the sinks and poll).
THEOREM MutedStaysDark == SurfacesSpec => []DarkWhileMuted
<1>1. ASSUME SurfacesInv PROVE DarkWhileMuted
  <2>1. /\ AgentOK(agent, forgotten) /\ stirred = {}
        /\ agent.latched \in SUBSET Keys /\ agent.queue \in Waiting(Unlatched(agent.latched))
    BY <1>1 DEF SurfacesInv, AgentOK
  <2>2. ASSUME NEW k \in agent.latched, k \notin forgotten PROVE ~Lit(k)
    <3>1. agent.over[k] = Dark /\ agent.flash[k] = 0
      BY <2>1, <2>2 DEF AgentOK
    <3>. QED BY <3>1, Spans DEF Lit
  <2>3. ASSUME NEW i \in DOMAIN agent.queue, agent.queue[i].load.kind = "light"
        PROVE  agent.queue[i].load.key \notin agent.latched
    <3>1. agent.queue[i].load \in Unlatched(agent.latched)
      BY <2>1, WaitingParts
    <3>. QED BY <2>3, <3>1 DEF Unlatched
  <2>. QED BY <2>1, <2>2, <2>3 DEF DarkWhileMuted
<1>2. SurfacesInv => DarkWhileMuted
  BY <1>1
<1>. QED BY <1>2, SurfacesAreSound, PTL

LEMMA OneLatchHolds ==
    ASSUME SurfacesInv
    PROVE  OneLatch
BY NoKeyIsBound DEF SurfacesInv, SurfacesTyped, Alike, OneLatch, Dropped

\* Of the actions only a bind gives a loaded Room a device it did not have.
LEMMA OnlyABindBinds ==
    ASSUME [SurfacesNext]_surfaceVars, loaded, loaded', ~ \E d \in Devs : \E f \in Fixtures : BindFixture(d, f)
    PROVE  bound' = bound
BY DEF SurfacesNext, surfaceVars, places, Fire, FireDeclared, BitCue, RunAction, Gesture, SoloGesture,
       AgentPoll, SayHello, ReapDevice, FadeEnds, LoadBit, Run, EndRound, LoadRoom, UnloadRoom

\* MutesAgree, for any devices and fixtures: the engine and the agent hold one latch
\* across every fire, bind, reap, round and Room, and a device muted as a player is
\* muted, in both, as the fixture it becomes (_migrate_mute_on_bind).
THEOREM MutesAreOne == SurfacesSpec => MutesAgree
<1>1. ASSUME SurfacesInv, [SurfacesNext]_surfaceVars,
             NEW d \in Devs, loaded, loaded', Key(d) \in muted, d \in Bound' \ Bound
      PROVE  Key(d)' \in muted' \cap agent'.latched
  <2>1. PICK e \in Devs, f \in Fixtures : BindFixture(e, f)
    BY <1>1, OnlyABindBinds DEF Bound
  <2>2. bound' = [bound EXCEPT ![f] = e] /\ bound \in [Fixtures -> Devs \cup {NoDev}]
    BY <1>1, <2>1 DEF BindFixture, SurfacesInv, SurfacesTyped
  <2>3. \A x \in Fixtures : bound[x] # d
    BY <1>1, SurfacesAssumption DEF Bound
  <2>4. d = e
    BY <1>1, <2>2, <2>3, SurfacesAssumption DEF Bound
  <2>5. Key(d) = d
    BY <2>3 DEF Key, KeyIn
  <2>6. Key(d)' = f
    BY <2>2, <2>3, <2>4 DEF Key, KeyIn
  <2>. QED BY <1>1, <2>1, <2>4, <2>5, <2>6, MoveAgrees
<1>2. SurfacesInv => OneLatch
  BY OneLatchHolds
<1>3. SurfacesInv /\ OneLatch' /\ [SurfacesNext]_surfaceVars
         => [/\ OneLatch'
             /\ \A d \in Devs :
                   loaded /\ loaded' /\ Key(d) \in muted /\ d \in Bound' \ Bound
                      => Key(d)' \in muted' \cap agent'.latched]_surfaceVars
  BY <1>1
<1>. QED BY <1>2, <1>3, SurfacesAreSound, PTL DEF SurfacesSpec, MutesAgree

=============================================================================
