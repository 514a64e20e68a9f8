--------------------------- MODULE DevicesProofs ----------------------------
(***************************************************************************)
(* Theorems about the devices (code/machine: interrupt.cc, disk.cc,        *)
(* console.cc, network.cc, and the threads that use them) for any number   *)
(* of machines, any latencies and any input.                               *)
(***************************************************************************)
EXTENDS Devices, TLAPS, FiniteSetTheorems, SequenceTheorems, WellFoundedInduction

-----------------------------------------------------------------------------
(***************************************************************************)
(* The list of pending interrupts                                          *)
(***************************************************************************)
Item == [when : Nat, type : IntType]

Ascending(list) == \A i, j \in 1..Len(list) : i < j => list[i].when <= list[j].when

\* The list has no interrupt of that type, or exactly one.
None(list, type) == \A i \in 1..Len(list) : list[i].type # type
Once(list, type) == \E i \in 1..Len(list) :
    /\ list[i].type = type
    /\ \A j \in 1..Len(list) : list[j].type = type => j = i
Counted(list, type, wanted) == IF wanted THEN Once(list, type) ELSE None(list, type)

IsDue(list, now) == list # << >> /\ list[1].when <= now
JustTimer(list) == Len(list) = 1 /\ list[1].type = "Timer"

\* What is in the list.
Holding(list, x) == \E i \in 1..Len(list) : list[i] = x

\* A non-empty set of natural numbers has a smallest element.
LEMMA Smallest ==
    ASSUME NEW S, S \subseteq Nat, S # {}
    PROVE  \E x \in S : \A y \in S : x <= y
<1> DEFINE Less == {p \in Nat \X Nat : p[1] < p[2]}
<1>1. IsWellFoundedOn(Less, Nat)
  BY NatLessThanWellFounded, Zenon DEF OpToRel
<1>2. PICK x \in S : \A y \in S : ~ (<<y, x>> \in Less)
  <2> HIDE DEF Less
  <2>1. QED
    BY <1>1, WFMin
<1>3. ASSUME NEW y \in S PROVE x <= y
  <2>1. y \in Nat /\ x \in Nat
    OBVIOUS
  <2>2. y < x => <<y, x>> \in Less
    BY <2>1
  <2>3. QED
    BY <1>2, <2>1, <2>2
<1>4. QED
  BY <1>3

\* r is the list with the item put in at a place.
PutIn(r, list, at, item) ==
    /\ Len(r) = Len(list) + 1
    /\ \A i \in 1..(Len(list) + 1) :
          r[i] = IF i < at THEN list[i] ELSE IF i = at THEN item ELSE list[i - 1]

\* InsertAt, element by element.
LEMMA Inserted ==
    ASSUME NEW S, NEW list \in Seq(S), NEW item \in S, NEW at \in 1..(Len(list) + 1)
    PROVE  /\ InsertAt(list, at, item) \in Seq(S)
           /\ PutIn(InsertAt(list, at, item), list, at, item)
<1>1. PICK n \in Nat : n = Len(list)
  OBVIOUS
<1>2. PICK a : a = SubSeq(list, 1, at - 1)
  OBVIOUS
<1>3. PICK c : c = SubSeq(list, at, Len(list))
  OBVIOUS
<1>4. /\ a \in Seq(S) /\ Len(a) = at - 1
      /\ \A i \in 1..(at - 1) : a[i] = list[i]
  <2>1. 1 \in 1..(Len(list) + 1) /\ at - 1 \in 0..Len(list)
    BY <1>1
  <2>2. a = [i \in 1..(at - 1) |-> list[i]]
    <3>1. a = [i \in 1..(at - 1 - 1 + 1) |-> list[1 + i - 1]]
      BY <1>2, <2>1
    <3>2. at - 1 - 1 + 1 = at - 1 /\ \A i \in 1..(at - 1) : 1 + i - 1 = i
      BY <1>1
    <3>3. QED
      BY <3>1, <3>2
  <2>3. \A i \in 1..(at - 1) : list[i] \in S
    BY <1>1
  <2>4. at - 1 \in Nat /\ a \in [1..(at - 1) -> S]
    BY <2>2, <2>3
  <2>5. QED
    BY <2>2, <2>4
<1>5. /\ c \in Seq(S) /\ Len(c) = n - at + 1
      /\ \A i \in 1..(n - at + 1) : c[i] = list[at + i - 1]
  <2>1. PICK m \in Nat : m = n - at + 1
    BY <1>1
  <2>2. c = [i \in 1..m |-> list[at + i - 1]]
    BY <1>1, <1>3, <2>1
  <2>3. \A i \in 1..m : at + i - 1 \in 1..n
    BY <1>1, <2>1
  <2>4. ASSUME NEW i \in 1..m PROVE list[at + i - 1] \in S
    <3>1. PICK j \in 1..Len(list) : j = at + i - 1
      BY <1>1, <2>3
    <3>2. list[j] \in S
      OBVIOUS
    <3>3. QED
      BY <3>1, <3>2
  <2>5. c \in [1..m -> S]
    BY <2>2, <2>4
  <2>6. c \in Seq(S) /\ Len(c) = m
    BY <2>5
  <2>7. QED
    BY <2>1, <2>2, <2>6
<1>6. PICK b : b = <<item>>
  OBVIOUS
<1>7. b \in Seq(S) /\ Len(b) = 1 /\ b[1] = item
  BY <1>6
<1>8. PICK ab : ab = a \o b
  OBVIOUS
<1>9. /\ ab \in Seq(S) /\ Len(ab) = at
      /\ \A i \in 1..at : ab[i] = IF i < at THEN list[i] ELSE item
  <2>1. /\ ab \in Seq(S) /\ Len(ab) = Len(a) + Len(b)
        /\ \A i \in 1..(Len(a) + Len(b)) : ab[i] = IF i <= Len(a) THEN a[i] ELSE b[i - Len(a)]
    BY <1>4, <1>7, <1>8, ConcatProperties
  <2>2. Len(a) + Len(b) = at
    BY <1>4, <1>7
  <2>3. ASSUME NEW i \in 1..at PROVE ab[i] = IF i < at THEN list[i] ELSE item
    <3>1. ab[i] = IF i <= Len(a) THEN a[i] ELSE b[i - Len(a)]
      BY <2>1, <2>2
    <3>2. CASE i < at
      <4>1. i <= Len(a) /\ i \in 1..(at - 1)
        BY <1>4, <3>2
      <4>2. QED
        BY <1>4, <3>1, <3>2, <4>1
    <3>3. CASE ~(i < at)
      <4>1. ~(i <= Len(a)) /\ i - Len(a) = 1
        BY <1>4, <3>3
      <4>2. QED
        BY <1>7, <3>1, <3>3, <4>1
    <3>4. QED
      BY <3>2, <3>3
  <2>4. QED
    BY <2>1, <2>2, <2>3
<1>10. PICK r : r = ab \o c
  OBVIOUS
<1>11. /\ r \in Seq(S) /\ Len(r) = Len(ab) + Len(c)
       /\ \A i \in 1..(Len(ab) + Len(c)) : r[i] = IF i <= Len(ab) THEN ab[i] ELSE c[i - Len(ab)]
  BY <1>5, <1>9, <1>10, ConcatProperties
<1>12. Len(ab) + Len(c) = n + 1
  BY <1>1, <1>5, <1>9
<1>13. ASSUME NEW i \in 1..(n + 1)
       PROVE  r[i] = IF i < at THEN list[i] ELSE IF i = at THEN item ELSE list[i - 1]
  <2>1. CASE i <= at
    BY <1>9, <1>11, <1>12, <2>1
  <2>2. CASE i > at
    <3>1. i - at \in 1..(n - at + 1) /\ at + (i - at) - 1 = i - 1
      BY <1>1, <2>2
    <3>2. r[i] = c[i - at]
      BY <1>9, <1>11, <1>12, <2>2
    <3>3. c[i - at] = list[at + (i - at) - 1]
      BY <1>5, <3>1
    <3>4. r[i] = list[i - 1]
      BY <3>1, <3>2, <3>3
    <3>5. QED
      BY <2>2, <3>4
  <2>3. QED
    BY <2>1, <2>2
<1>14. PutIn(r, list, at, item)
  BY <1>1, <1>11, <1>12, <1>13 DEF PutIn
<1>15. r = InsertAt(list, at, item)
  BY <1>2, <1>3, <1>6, <1>8, <1>10 DEF InsertAt
<1>16. QED
  BY <1>11, <1>14, <1>15

\* Where SortedInsert puts an item: behind all that are not bigger.
LEMMA SortedInserted ==
    ASSUME NEW list \in Seq(Item), NEW item \in Item
    PROVE  LET r == SortedInsert(list, item)
           IN  /\ r \in Seq(Item)
               /\ \E at \in 1..(Len(list) + 1) :
                     /\ PutIn(r, list, at, item)
                     /\ \A i \in 1..Len(list) : i < at => list[i].when <= item.when
                     /\ at # Len(list) + 1 => item.when < list[at].when
<1> DEFINE bigger == {i \in 1..Len(list) : item.when < list[i].when}
<1> DEFINE at == IF bigger = {} THEN Len(list) + 1
                 ELSE CHOOSE i \in bigger : \A j \in bigger : i <= j
<1>1. \A i \in 1..Len(list) : list[i] \in Item
  OBVIOUS
<1>2. \A i \in 1..Len(list) : list[i].when \in Nat
  BY <1>1 DEF Item
<1>3. item.when \in Nat /\ Len(list) \in Nat
  BY DEF Item
<1>4. SortedInsert(list, item) = InsertAt(list, at, item)
  BY DEF SortedInsert
<1>5. /\ at \in 1..(Len(list) + 1)
      /\ \A i \in 1..Len(list) : i < at => list[i].when <= item.when
      /\ at # Len(list) + 1 => item.when < list[at].when
  <2>1. CASE bigger = {}
    <3>1. at = Len(list) + 1
      BY <2>1
    <3>2. \A i \in 1..Len(list) : ~(item.when < list[i].when)
      BY <2>1
    <3>3. QED
      BY <1>2, <1>3, <3>1, <3>2
  <2>2. CASE bigger # {}
    <3>1. bigger \subseteq Nat
      OBVIOUS
    <3>2. \E x \in bigger : \A y \in bigger : x <= y
      <4> HIDE DEF bigger
      <4>1. QED
        BY <2>2, <3>1, Smallest
    <3>3. at \in bigger /\ \A j \in bigger : at <= j
      <4> HIDE DEF bigger
      <4>1. QED
        BY <2>2, <3>2
    <3>4. at \in 1..Len(list) /\ item.when < list[at].when
      <4> HIDE DEF at
      <4>1. QED
        BY <3>3
    <3> HIDE DEF at
    <3>5. ASSUME NEW i \in 1..Len(list), i < at PROVE list[i].when <= item.when
      <4>1. i \notin bigger
        BY <3>3, <3>4, <3>5
      <4>2. QED
        BY <1>2, <1>3, <4>1
    <3>6. QED
      BY <1>3, <3>4, <3>5
  <2>3. QED
    BY <2>1, <2>2
<1> HIDE DEF at, bigger
<1>6. PICK k : k = at
  OBVIOUS
<1>7. k \in 1..(Len(list) + 1)
  BY <1>5, <1>6
<1>8. /\ InsertAt(list, k, item) \in Seq(Item)
      /\ PutIn(InsertAt(list, k, item), list, k, item)
  BY <1>7, Inserted
<1>9. QED
  BY <1>4, <1>5, <1>6, <1>8

\* Scheduling an interrupt keeps the list in order, adds that one and makes
\* nothing due (Interrupt::Schedule).
LEMMA Scheduled ==
    ASSUME NEW list \in Seq(Item), NEW now \in Nat, NEW fromNow \in Nat \ {0},
           NEW type \in IntType
    PROVE  LET r == Schedule(list, now, fromNow, type)
               item == [when |-> now + fromNow, type |-> type]
           IN  /\ r \in Seq(Item)
               /\ Ascending(list) => Ascending(r)
               /\ None(list, type) => Once(r, type)
               /\ \A t : t # type => /\ Once(list, t) => Once(r, t)
                                     /\ None(list, t) => None(r, t)
               /\ IsDue(r, now) => IsDue(list, now)
               /\ \A x : Holding(r, x) <=> (x = item \/ Holding(list, x))
<1>1. PICK item \in Item : item = [when |-> now + fromNow, type |-> type]
  <2>1. now + fromNow \in Nat
    OBVIOUS
  <2>2. QED
    BY <2>1 DEF Item
<1>2. PICK r : r = Schedule(list, now, fromNow, type)
  OBVIOUS
<1>3. PICK n \in Nat : n = Len(list)
  OBVIOUS
<1>4. PICK at \in 1..(n + 1) :
          /\ r = SortedInsert(list, item) /\ r \in Seq(Item) /\ Len(r) = n + 1
          /\ \A i \in 1..(n + 1) :
                r[i] = IF i < at THEN list[i] ELSE IF i = at THEN item ELSE list[i - 1]
          /\ \A i \in 1..n : i < at => list[i].when <= item.when
          /\ at # n + 1 => item.when < list[at].when
  <2>1. r = SortedInsert(list, item)
    BY <1>1, <1>2 DEF Schedule
  <2>2. r \in Seq(Item) /\ \E at \in 1..(Len(list) + 1) :
            /\ PutIn(r, list, at, item)
            /\ \A i \in 1..Len(list) : i < at => list[i].when <= item.when
            /\ at # Len(list) + 1 => item.when < list[at].when
    BY <2>1, SortedInserted
  <2>3. QED
    BY <1>3, <2>1, <2>2 DEF PutIn
<1>5. item.when \in Nat /\ item.when > now /\ item.type = type
  BY <1>1
<1>6. \A i \in 1..n : list[i].when \in Nat
  <2>1. \A i \in 1..n : list[i] \in Item
    BY <1>3
  <2>2. QED
    BY <2>1 DEF Item
<1>7. /\ \A i \in 1..n : i < at => i \in 1..(n + 1) /\ r[i] = list[i]
      /\ \A i \in 1..n : ~(i < at) => i + 1 \in 1..(n + 1) /\ r[i + 1] = list[i]
      /\ at \in 1..(n + 1) /\ r[at] = item
  <2>1. \A i \in 1..n : i < at => i \in 1..(n + 1) /\ r[i] = list[i]
    BY <1>4
  <2>2. ASSUME NEW i \in 1..n, ~(i < at)
        PROVE  i + 1 \in 1..(n + 1) /\ r[i + 1] = list[i]
    <3>1. i + 1 \in 1..(n + 1) /\ ~(i + 1 < at) /\ i + 1 # at /\ (i + 1) - 1 = i
      BY <2>2
    <3>2. QED
      BY <1>4, <3>1
  <2>3. r[at] = item
    BY <1>4
  <2>4. QED
    BY <2>1, <2>2, <2>3
<1>8. \A i \in 1..(n + 1) :
         \/ i < at /\ i \in 1..n /\ r[i] = list[i]
         \/ i = at /\ r[i] = item
         \/ i > at /\ i - 1 \in 1..n /\ r[i] = list[i - 1]
  <2> SUFFICES ASSUME NEW i \in 1..(n + 1)
               PROVE  \/ i < at /\ i \in 1..n /\ r[i] = list[i]
                      \/ i = at /\ r[i] = item
                      \/ i > at /\ i - 1 \in 1..n /\ r[i] = list[i - 1]
    OBVIOUS
  <2>1. CASE i < at
    <3>1. i \in 1..n
      BY <2>1
    <3>2. QED
      BY <1>7, <2>1, <3>1
  <2>2. CASE i = at
    BY <1>7, <2>2
  <2>3. CASE i > at
    <3>1. i - 1 \in 1..n /\ ~(i < at) /\ i # at
      BY <2>3
    <3>2. QED
      BY <1>4, <2>3, <3>1
  <2>4. QED
    BY <2>1, <2>2, <2>3
<1>9. \A x : Holding(r, x) <=> (x = item \/ Holding(list, x))
  <2>1. ASSUME NEW x, Holding(r, x) PROVE x = item \/ Holding(list, x)
    <3>1. PICK i \in 1..(n + 1) : r[i] = x
      BY <1>4, <2>1 DEF Holding
    <3>2. r[i] = item \/ \E j \in 1..n : r[i] = list[j]
      BY <1>8
    <3>3. QED
      BY <1>3, <3>1, <3>2 DEF Holding
  <2>2. ASSUME NEW x, Holding(list, x) PROVE Holding(r, x)
    <3>1. PICK i \in 1..n : list[i] = x
      BY <1>3, <2>2 DEF Holding
    <3>2. \E j \in 1..(n + 1) : r[j] = list[i]
      BY <1>7
    <3>3. QED
      BY <1>4, <3>1, <3>2 DEF Holding
  <2>3. Holding(r, item)
    BY <1>4, <1>7 DEF Holding
  <2>4. QED
    BY <2>1, <2>2, <2>3
<1>10. ASSUME Ascending(list) PROVE Ascending(r)
  <2>1. \A i, j \in 1..n : i < j => list[i].when <= list[j].when
    BY <1>3, <1>10 DEF Ascending
  <2>2. \A j \in 1..n : ~(j < at) => item.when <= list[j].when
    <3> SUFFICES ASSUME NEW j \in 1..n, ~(j < at) PROVE item.when <= list[j].when
      OBVIOUS
    <3>1. at \in 1..n /\ at # n + 1
      OBVIOUS
    <3>2. list[at].when <= list[j].when
      <4>1. CASE at = j
        BY <1>6, <4>1
      <4>2. CASE at # j
        BY <2>1, <3>1, <4>2
      <4>3. QED
        BY <4>1, <4>2
    <3>3. item.when < list[at].when
      BY <1>4, <3>1
    <3>4. PICK a \in Nat, b \in Nat, c \in Nat :
              a = item.when /\ b = list[at].when /\ c = list[j].when
      BY <1>5, <1>6, <3>1
    <3>5. a < b /\ b <= c
      BY <3>2, <3>3, <3>4, Zenon
    <3>6. a <= c
      BY <3>5
    <3>7. QED
      BY <3>4, <3>6
  <2>3. ASSUME NEW i \in 1..(n + 1), NEW j \in 1..(n + 1), i < j
        PROVE  r[i].when <= r[j].when
    <3>1. CASE j < at
      <4>1. i \in 1..n /\ j \in 1..n /\ i < at
        BY <2>3, <3>1
      <4>2. QED
        BY <1>7, <2>1, <2>3, <3>1, <4>1
    <3>2. CASE j = at
      <4>1. i \in 1..n /\ i < at
        BY <2>3, <3>2
      <4>2. QED
        BY <1>4, <1>7, <3>2, <4>1
    <3>3. CASE j > at
      <4>1. j - 1 \in 1..n /\ ~(j - 1 < at) /\ r[j] = list[j - 1]
        BY <1>8, <3>3
      <4>2. CASE i < at
        <5>1. i \in 1..n /\ i < j - 1 /\ r[i] = list[i]
          BY <1>7, <3>3, <4>2
        <5>2. QED
          BY <2>1, <4>1, <5>1
      <4>3. CASE i = at
        BY <1>7, <2>2, <4>1, <4>3
      <4>4. CASE i > at
        <5>1. i - 1 \in 1..n /\ r[i] = list[i - 1] /\ i - 1 < j - 1
          BY <1>8, <2>3, <4>4
        <5>2. QED
          BY <2>1, <4>1, <5>1
      <4>5. QED
        BY <4>2, <4>3, <4>4
    <3>4. QED
      BY <3>1, <3>2, <3>3
  <2>4. QED
    BY <1>4, <2>3 DEF Ascending
<1>11. ASSUME None(list, type) PROVE Once(r, type)
  <2>1. \A i \in 1..n : list[i].type # type
    BY <1>3, <1>11 DEF None
  <2>2. \A i \in 1..(n + 1) : r[i].type = type => i = at
    BY <1>8, <2>1
  <2>3. QED
    BY <1>4, <1>5, <1>7, <2>2 DEF Once
<1>12. ASSUME NEW t, t # type, Once(list, t) PROVE Once(r, t)
  <2>1. PICK i \in 1..n : list[i].type = t /\ \A j \in 1..n : list[j].type = t => j = i
    BY <1>3, <1>12 DEF Once
  <2>2. PICK k \in 1..(n + 1) : r[k] = list[i] /\ k = IF i < at THEN i ELSE i + 1
    <3>1. CASE i < at
      BY <1>7, <3>1
    <3>2. CASE ~(i < at)
      BY <1>7, <3>2
    <3>3. QED
      BY <3>1, <3>2
  <2>3. ASSUME NEW m \in 1..(n + 1), r[m].type = t PROVE m = k
    <3>1. CASE m < at
      <4>1. m \in 1..n /\ list[m].type = t
        BY <1>8, <2>3, <3>1
      <4>2. QED
        BY <2>1, <2>2, <3>1, <4>1
    <3>2. CASE m = at
      BY <1>5, <1>7, <1>12, <2>3, <3>2
    <3>3. CASE m > at
      <4>1. m - 1 \in 1..n /\ list[m - 1].type = t
        BY <1>8, <2>3, <3>3
      <4>2. m - 1 = i
        BY <2>1, <4>1
      <4>3. QED
        BY <2>2, <3>3, <4>2
    <3>4. QED
      BY <3>1, <3>2, <3>3
  <2>4. QED
    BY <1>4, <2>1, <2>2, <2>3 DEF Once
<1>13. ASSUME NEW t, t # type, None(list, t) PROVE None(r, t)
  <2>1. \A i \in 1..n : list[i].type # t
    BY <1>3, <1>13 DEF None
  <2>2. QED
    BY <1>4, <1>5, <1>8, <1>13, <2>1 DEF None
<1>14. ASSUME IsDue(r, now) PROVE IsDue(list, now)
  <2>1. r[1].when <= now
    BY <1>14 DEF IsDue
  <2>2. 1 \in 1..(n + 1) /\ ~(1 > at)
    OBVIOUS
  <2>3. r[1] # item
    BY <1>5, <2>1
  <2>4. 1 \in 1..n /\ r[1] = list[1]
    BY <1>8, <2>2, <2>3
  <2>5. list # << >>
    BY <1>3, <2>4
  <2>6. QED
    BY <2>1, <2>4, <2>5 DEF IsDue
<1>15. QED
  BY <1>1, <1>2, <1>4, <1>9, <1>10, <1>11, <1>12, <1>13, <1>14

\* Taking the first interrupt off the list (List::SortedRemove).
LEMMA Removed ==
    ASSUME NEW list \in Seq(Item), list # << >>
    PROVE  /\ Tail(list) \in Seq(Item)
           /\ Ascending(list) => Ascending(Tail(list))
           /\ Once(list, list[1].type) => None(Tail(list), list[1].type)
           /\ \A t : t # list[1].type => /\ Once(list, t) => Once(Tail(list), t)
                                         /\ None(list, t) => None(Tail(list), t)
           /\ \A x : Holding(list, x) => x = list[1] \/ Holding(Tail(list), x)
<1>1. PICK r : r = Tail(list)
  OBVIOUS
<1>2. PICK n \in Nat : n = Len(list) /\ n >= 1 /\ Len(r) = n - 1 /\ r \in Seq(Item)
  BY <1>1
<1>3. \A i \in 1..(n - 1) : i + 1 \in 1..n /\ r[i] = list[i + 1]
  BY <1>1, <1>2
<1>4. \A i \in 1..n : i = 1 \/ (i - 1 \in 1..(n - 1) /\ r[i - 1] = list[i])
  <2> SUFFICES ASSUME NEW i \in 1..n, i # 1
               PROVE  i - 1 \in 1..(n - 1) /\ r[i - 1] = list[i]
    OBVIOUS
  <2>1. i - 1 \in 1..(n - 1) /\ (i - 1) + 1 = i
    OBVIOUS
  <2>2. QED
    BY <1>3, <2>1
<1>5. ASSUME Ascending(list) PROVE Ascending(r)
  <2>1. \A i, j \in 1..n : i < j => list[i].when <= list[j].when
    BY <1>2, <1>5 DEF Ascending
  <2>2. \A i, j \in 1..(n - 1) : i < j => i + 1 < j + 1
    OBVIOUS
  <2>3. QED
    BY <1>2, <1>3, <2>1, <2>2 DEF Ascending
<1>6. ASSUME NEW t, NEW i \in 1..n, list[i].type = t,
             \A j \in 1..n : list[j].type = t => j = i
      PROVE  IF i = 1 THEN None(r, t) ELSE Once(r, t)
  <2>1. CASE i = 1
    <3>1. ASSUME NEW k \in 1..(n - 1), r[k].type = t PROVE FALSE
      <4>1. k + 1 \in 1..n /\ list[k + 1].type = t
        BY <1>3, <3>1
      <4>2. k + 1 = 1
        BY <1>6, <2>1, <4>1
      <4>3. QED
        BY <4>2
    <3>2. QED
      BY <1>2, <2>1, <3>1 DEF None
  <2>2. CASE i # 1
    <3>1. i - 1 \in 1..(n - 1) /\ r[i - 1].type = t
      BY <1>4, <1>6, <2>2
    <3>2. ASSUME NEW k \in 1..(n - 1), r[k].type = t PROVE k = i - 1
      <4>1. k + 1 \in 1..n /\ list[k + 1].type = t
        BY <1>3, <3>2
      <4>2. k + 1 = i
        BY <1>6, <4>1
      <4>3. QED
        BY <4>2
    <3>3. Once(r, t)
      BY <1>2, <3>1, <3>2 DEF Once
    <3>4. QED
      BY <2>2, <3>3
  <2>3. QED
    BY <2>1, <2>2
<1>7. 1 \in 1..n
  BY <1>2
<1>8. ASSUME Once(list, list[1].type) PROVE None(r, list[1].type)
  <2>1. PICK i \in 1..n : /\ list[i].type = list[1].type
                          /\ \A j \in 1..n : list[j].type = list[1].type => j = i
    BY <1>2, <1>8 DEF Once
  <2>2. i = 1
    BY <1>7, <2>1
  <2>3. QED
    BY <1>6, <2>1, <2>2
<1>9. ASSUME NEW t, t # list[1].type, Once(list, t) PROVE Once(r, t)
  <2>1. PICK i \in 1..n : /\ list[i].type = t
                          /\ \A j \in 1..n : list[j].type = t => j = i
    BY <1>2, <1>9 DEF Once
  <2>2. i # 1
    BY <1>9, <2>1
  <2>3. QED
    BY <1>6, <2>1, <2>2
<1>10. ASSUME NEW t, None(list, t) PROVE None(r, t)
  BY <1>2, <1>3, <1>10 DEF None
<1>11. ASSUME NEW x, Holding(list, x) PROVE x = list[1] \/ Holding(r, x)
  <2>1. PICK i \in 1..n : list[i] = x
    BY <1>2, <1>11 DEF Holding
  <2>2. QED
    BY <1>2, <1>4, <2>1 DEF Holding
<1>12. QED
  BY <1>1, <1>2, <1>5, <1>8, <1>9, <1>10, <1>11

\* CountOf counts what it should.
LEMMA Counts ==
    ASSUME NEW n, NEW t
    PROVE  /\ None(pending[n], t) => CountOf(n, t) = 0
           /\ Once(pending[n], t) => CountOf(n, t) = 1
<1> DEFINE S == {i \in 1..Len(pending[n]) : pending[n][i].type = t}
<1>1. ASSUME None(pending[n], t) PROVE CountOf(n, t) = 0
  <2>1. S = {}
    BY <1>1 DEF None
  <2>2. Cardinality({}) = 0
    BY FS_EmptySet
  <2>3. QED
    BY <2>1, <2>2 DEF CountOf
<1>2. ASSUME Once(pending[n], t) PROVE CountOf(n, t) = 1
  <2>1. PICK i \in 1..Len(pending[n]) :
           /\ pending[n][i].type = t
           /\ \A j \in 1..Len(pending[n]) : pending[n][j].type = t => j = i
    BY <1>2 DEF Once
  <2>2. S = {i}
    BY <2>1
  <2>3. Cardinality({i}) = 1
    BY FS_Singleton
  <2>4. QED
    BY <2>2, <2>3 DEF CountOf
<1>3. QED
  BY <1>1, <1>2

-----------------------------------------------------------------------------
(***************************************************************************)
(* Where the head of a disk is                                             *)
(***************************************************************************)

\* Quotient and rest (machine/disk.cc divides times and sector numbers).
LEMMA DivMod ==
    ASSUME NEW z \in Nat, NEW p \in Nat \ {0}
    PROVE  /\ (z \div p) \in Nat /\ (z % p) \in 0..(p - 1)
           /\ z = (z \div p) * p + (z % p)
<1>1. z \div p \in Nat
  OBVIOUS
<1>2. (z % p) \in 0..(p - 1)
  OBVIOUS
<1>3. z = (z \div p) * p + (z % p)
  OBVIOUS
<1>4. QED
  BY <1>1, <1>2, <1>3

\* A multiple of a number, increased by less than it, divided by it.
LEMMA Divided ==
    ASSUME NEW a \in Nat, NEW s \in Nat \ {0}, NEW r \in 0..(s - 1)
    PROVE  (a * s + r) \div s = a /\ (a * s + r) % s = r
<1>1. a * s \in Nat
  OBVIOUS
<1>2. PICK z \in Nat : z = a * s + r
  BY <1>1
<1>3. PICK q \in Nat, t \in 0..(s - 1) : q = z \div s /\ t = z % s /\ z = q * s + t
  BY DivMod
<1>4. (q - a) * s = r - t
  <2>1. (q - a) * s = q * s - a * s /\ q * s \in Nat
    OBVIOUS
  <2>2. QED
    BY <1>1, <1>2, <1>3, <2>1
<1>5. q - a = 0
  <2>1. PICK d \in Int : d = q - a
    OBVIOUS
  <2>2. d >= 1 => d * s >= s
    OBVIOUS
  <2>3. d <= -1 => d * s <= -s
    OBVIOUS
  <2>4. QED
    BY <1>4, <2>1, <2>2, <2>3
<1>6. QED
  BY <1>2, <1>3, <1>4, <1>5

\* Different multiples of a number are that number apart.
LEMMA Apart ==
    ASSUME NEW a \in Int, NEW b \in Int, NEW p \in Nat \ {0}, a < b
    PROVE  b * p >= a * p + p
<1>1. (b - a) * p >= p
  <2>1. PICK d \in Int : d = b - a /\ d >= 1
    OBVIOUS
  <2>2. d * p >= p
    BY <2>1
  <2>3. QED
    BY <2>1, <2>2
<1>2. (b - a) * p = b * p - a * p /\ a * p \in Int /\ b * p \in Int
  OBVIOUS
<1>3. QED
  BY <1>1, <1>2

\* So many sectors after sector `from' comes sector `to', and none before
\* (Disk::ModuloDiff).
LEMMA Turns ==
    ASSUME NEW to \in Nat, NEW from \in Nat
    PROVE  /\ ModuloDiff(to, from) \in Nat
           /\ (from + ModuloDiff(to, from)) % SectorsPerTrack = to % SectorsPerTrack
           /\ \A e \in Nat : e < ModuloDiff(to, from) =>
                 (from + e) % SectorsPerTrack # to % SectorsPerTrack
<1>1. PICK p \in Nat \ {0} : p = SectorsPerTrack
  BY DiskAssumption
<1>2. PICK a \in 0..(p - 1) : a = to % p
  BY DivMod
<1>3. PICK fq \in Nat, b \in 0..(p - 1) : b = from % p /\ from = fq * p + b
  BY DivMod
<1>4. PICK c \in Nat : c = (a - b) + p
  OBVIOUS
<1>5. PICK cq \in Nat, m \in 0..(p - 1) : m = c % p /\ c = cq * p + m
  BY DivMod
<1>6. ModuloDiff(to, from) = m
  BY <1>1, <1>2, <1>3, <1>4, <1>5 DEF ModuloDiff
<1>7. cq \in {0, 1}
  <2>1. c < 2 * p
    BY <1>4
  <2>2. cq >= 2 => cq * p >= 2 * p
    OBVIOUS
  <2>3. cq * p \in Nat
    OBVIOUS
  <2>4. QED
    BY <1>5, <2>1, <2>2, <2>3
<1>8. PICK k \in Nat : k = fq + 1 - cq
  BY <1>7
<1>9. from + m = k * p + a
  <2>1. k * p = fq * p + p - cq * p /\ fq * p \in Nat /\ cq * p \in Nat
    BY <1>7, <1>8
  <2>2. QED
    BY <1>3, <1>4, <1>5, <2>1
<1>10. (from + m) % p = a
  <2>1. (k * p + a) % p = a
    BY Divided
  <2>2. QED
    BY <1>9, <2>1
<1>11. ASSUME NEW e \in Nat, e < m, (from + e) % p = a PROVE FALSE
  <2>1. PICK x \in Nat : from + e = x * p + a
    <3>1. PICK z \in Nat : z = from + e
      OBVIOUS
    <3>2. z = (z \div p) * p + (z % p) /\ z \div p \in Nat
      BY DivMod
    <3>3. QED
      BY <1>11, <3>1, <3>2
  <2>2. x * p \in Nat /\ k * p \in Nat
    OBVIOUS
  <2>3. x * p < k * p /\ k * p < x * p + p
    BY <1>9, <1>11, <2>1, <2>2
  <2>4. CASE x < k
    BY <2>2, <2>3, <2>4, Apart
  <2>5. CASE k <= x
    <3>1. k * p <= x * p
      <4>1. CASE k = x
        BY <2>2, <4>1
      <4>2. CASE k < x
        BY <2>2, <4>2, Apart
      <4>3. QED
        BY <2>5, <4>1, <4>2
    <3>2. QED
      BY <2>2, <2>3, <3>1
  <2>6. QED
    BY <2>4, <2>5
<1>12. QED
  BY <1>1, <1>2, <1>6, <1>10, <1>11

\* After the seek the head waits for the start of a sector (Disk::TimeToSeek).
LEMMA Seeks ==
    ASSUME NEW n, NEW s \in Sector, totalTicks[n] \in Nat, lastSector[n] \in Nat
    PROVE  /\ TimeToSeek(n, s).seek \in Nat
           /\ TimeToSeek(n, s).rotation \in 0..(RotationTime - 1)
           /\ \E q \in Nat : totalTicks[n] + TimeToSeek(n, s).seek + TimeToSeek(n, s).rotation
                                = q * RotationTime
<1>1. PICK p \in Nat \ {0} : p = RotationTime
  BY DiskAssumption
<1>2. PICK st \in Nat : st = SeekTime
  BY DiskAssumption
<1>3. PICK tr \in Nat \ {0} : tr = SectorsPerTrack
  BY DiskAssumption
<1>4. PICK x \in Nat, y \in Nat : x = s \div tr /\ y = lastSector[n] \div tr
  <2>1. s \in Nat
    BY DEF Sector
  <2>2. QED
    BY <2>1, DivMod
<1>5. PICK d \in Nat : d = Abs(x - y)
  <2>1. PICK w \in Int : w = x - y
    OBVIOUS
  <2>2. Abs(w) \in Nat
    BY DEF Abs
  <2>3. QED
    BY <2>1, <2>2
<1>6. PICK seek \in Nat : seek = d * st
  OBVIOUS
<1>7. PICK now \in Nat : now = totalTicks[n]
  OBVIOUS
<1>8. PICK z \in Nat : z = now + seek
  OBVIOUS
<1>9. PICK q \in Nat, over \in 0..(p - 1) : over = z % p /\ z = q * p + over
  <2>1. z \div p \in Nat /\ z % p \in 0..(p - 1) /\ z = (z \div p) * p + (z % p)
    BY DivMod
  <2>2. QED
    BY <2>1
<1>10. PICK rotation : rotation = IF over > 0 THEN p - over ELSE 0
  OBVIOUS
<1>11. rotation \in 0..(p - 1)
  BY <1>10
<1>12. TimeToSeek(n, s) = [seek |-> seek, rotation |-> rotation]
  BY <1>1, <1>2, <1>3, <1>4, <1>5, <1>6, <1>7, <1>8, <1>9, <1>10 DEF TimeToSeek
<1>13. \E k \in Nat : now + seek + rotation = k * p
  <2>1. CASE over = 0
    <3>1. q * p \in Nat
      OBVIOUS
    <3>2. now + seek + rotation = q * p
      BY <1>8, <1>9, <1>10, <2>1, <3>1
    <3>3. QED
      BY <3>2
  <2>2. CASE over > 0
    <3>1. (q + 1) * p = q * p + p /\ q * p \in Nat
      OBVIOUS
    <3>2. now + seek + rotation = (q + 1) * p
      BY <1>8, <1>9, <1>10, <2>2, <3>1
    <3>3. q + 1 \in Nat
      OBVIOUS
    <3>4. QED
      BY <3>2, <3>3
  <2>3. QED
    BY <2>1, <2>2
<1>14. TimeToSeek(n, s).seek = seek /\ TimeToSeek(n, s).rotation = rotation
  BY <1>12
<1>15. QED
  BY <1>1, <1>7, <1>11, <1>13, <1>14

\* The head is at a sector at the multiples of RotationTime with the right number.
LEMMA HeadAtMultiple ==
    ASSUME NEW k \in Nat, NEW s
    PROVE  HeadAt(k * RotationTime, s) <=> k % SectorsPerTrack = s % SectorsPerTrack
<1>1. PICK p \in Nat \ {0} : p = RotationTime
  BY DiskAssumption
<1>2. (k * p + 0) \div p = k /\ (k * p + 0) % p = 0
  <2>1. 0 \in 0..(p - 1)
    OBVIOUS
  <2>2. QED
    BY <2>1, Divided
<1>3. k * p + 0 = k * p
  OBVIOUS
<1>4. PICK z : z = k * p
  OBVIOUS
<1>5. z \div p = k /\ z % p = 0
  BY <1>2, <1>3, <1>4
<1>6. QED
  BY <1>1, <1>4, <1>5 DEF HeadAt

\* The head is at the start of a sector only at multiples of RotationTime.
LEMMA HeadAtOnlyMultiples ==
    ASSUME NEW t \in Nat, NEW s, HeadAt(t, s)
    PROVE  \E k \in Nat : t = k * RotationTime
<1>1. PICK p \in Nat \ {0} : p = RotationTime
  BY DiskAssumption
<1>2. t % p = 0
  BY <1>1 DEF HeadAt
<1>3. PICK q \in Nat, r \in 0..(p - 1) : r = t % p /\ t = q * p + r
  BY DivMod
<1>4. q * p \in Nat
  OBVIOUS
<1>5. t = q * p
  BY <1>2, <1>3, <1>4
<1>6. QED
  BY <1>1, <1>5

\* A request r that ends then has waited for its sector to pass the head.
Passed(r, end) ==
    IF r.buffered THEN \E t \in r.since..(end - RotationTime) : HeadAt(t, r.sector)
    ELSE /\ HeadAt(end - RotationTime, r.sector)
         /\ r.ready <= end - RotationTime
         /\ \A t \in r.ready..(end - RotationTime - 1) : ~HeadAt(t, r.sector)

\* What the disk notes of a request.
Requested(n, u, s, writing) ==
    [user |-> u, sector |-> s, ready |-> totalTicks[n] + TimeToSeek(n, s).seek,
     since |-> bufferInit[n],
     buffered |-> InTrackBuffer(n, s, writing)]

\* How long a request takes, and that its sector passes the head in that time
\* (Disk::ComputeLatency).
LEMMA Latency ==
    ASSUME NEW n, NEW u, NEW s \in Sector, NEW writing \in BOOLEAN,
           totalTicks[n] \in Nat, lastSector[n] \in Nat,
           \E b \in Nat : bufferInit[n] = b * RotationTime
    PROVE  /\ ComputeLatency(n, s, writing) \in Nat \ {0}
           /\ Passed(Requested(n, u, s, writing), totalTicks[n] + ComputeLatency(n, s, writing))
<1>1. PICK p \in Nat \ {0} : p = RotationTime
  BY DiskAssumption
<1>2. PICK now \in Nat, seek \in Nat, rot \in 0..(p - 1) :
          /\ now = totalTicks[n]
          /\ seek = TimeToSeek(n, s).seek /\ rot = TimeToSeek(n, s).rotation
  BY <1>1, Seeks
<1>3. PICK q \in Nat : now + seek + rot = q * p
  BY <1>1, <1>2, Seeks
<1>4. PICK b \in Nat : bufferInit[n] = b * p
  BY <1>1
<1>5. PICK after \in Nat : after = q * p /\ after = now + seek + rot
  BY <1>3
<1>6. after \div p = q
  <2>1. 0 \in 0..(p - 1) /\ after = q * p + 0
    BY <1>5
  <2>2. QED
    BY <2>1, Divided
<1>7. s \in Nat
  BY DEF Sector
<1>8. PICK passing : passing = Requested(n, u, s, writing)
  OBVIOUS
<1>9. /\ passing.sector = s /\ passing.ready = now + seek /\ passing.since = b * p
      /\ passing.buffered = InTrackBuffer(n, s, writing)
  BY <1>2, <1>4, <1>8 DEF Requested
<1>10. CASE InTrackBuffer(n, s, writing)
  <2>1. ComputeLatency(n, s, writing) = p
    BY <1>1, <1>10 DEF ComputeLatency
  <2>2. now + p - p = now
    OBVIOUS
  <2>3. b * p \in Nat
    OBVIOUS
  <2>4. (b * p) \div p = b
    <3>1. PICK z : z = b * p
      OBVIOUS
    <3>2. 0 \in 0..(p - 1) /\ z = b * p + 0
      BY <2>3, <3>1
    <3>3. z \div p = b
      BY <3>2, Divided
    <3>4. QED
      BY <3>1, <3>3
  <2>5. PICK m \in Nat : /\ m = ModuloDiff(s, b)
                         /\ (b + m) % SectorsPerTrack = s % SectorsPerTrack
    BY <1>7, Turns
  <2>6. (after - b * p) \div p > m
    BY <1>1, <1>2, <1>4, <1>5, <1>10, <2>4, <2>5 DEF InTrackBuffer
  <2>7. b + m < q
    <3> SUFFICES ASSUME q <= b + m PROVE FALSE
      OBVIOUS
    <3>1. PICK D \in Int : D = after - b * p
      BY <2>3
    <3>2. CASE q <= b
      <4>1. q * p <= b * p
        <5>1. CASE q = b
          BY <2>3, <5>1
        <5>2. CASE q < b
          BY <1>5, <2>3, <5>2, Apart
        <5>3. QED
          BY <3>2, <5>1, <5>2
      <4>2. D <= 0
        BY <1>5, <2>3, <3>1, <4>1
      <4>3. D \div p <= 0
        BY <4>2
      <4>4. QED
        BY <2>6, <3>1, <4>3
    <3>3. CASE q > b
      <4>1. PICK e \in Nat : e = q - b /\ e <= m
        BY <3>3
      <4>2. D = e * p + 0
        <5>1. e * p = q * p - b * p
          BY <4>1
        <5>2. QED
          BY <1>5, <2>3, <3>1, <5>1
      <4>3. D \div p = e
        <5>1. 0 \in 0..(p - 1)
          OBVIOUS
        <5>2. QED
          BY <4>2, <5>1, Divided
      <4>4. QED
        BY <2>6, <3>1, <4>1, <4>3
    <3>4. QED
      BY <3>2, <3>3
  <2>8. PICK t \in Nat : t = (b + m) * p
    OBVIOUS
  <2>9. b * p <= t /\ t <= now
    <3>1. t = b * p + m * p /\ m * p \in Nat
      BY <2>8
    <3>2. q * p >= t + p
      BY <2>7, <2>8, Apart
    <3>3. InTrackBuffer(n, s, writing) => seek = 0
      BY <1>2 DEF InTrackBuffer
    <3>4. QED
      BY <1>3, <1>5, <1>10, <2>3, <3>1, <3>2, <3>3
  <2>10. HeadAt(t, s)
    <3>1. b + m \in Nat
      OBVIOUS
    <3>2. HeadAt((b + m) * RotationTime, s)
      BY <2>5, <3>1, HeadAtMultiple
    <3>3. QED
      BY <1>1, <2>8, <3>2
  <2>11. \E x \in passing.since..now : HeadAt(x, s)
    BY <1>9, <2>3, <2>9, <2>10
  <2>12. Passed(passing, now + p)
    BY <1>1, <1>9, <1>10, <2>2, <2>11 DEF Passed
  <2>13. QED
    BY <1>2, <1>8, <2>1, <2>12
<1>11. CASE ~InTrackBuffer(n, s, writing)
  <2>1. PICK m \in Nat : m = ModuloDiff(s, q)
    BY <1>7, Turns
  <2>2. /\ (q + m) % SectorsPerTrack = s % SectorsPerTrack
        /\ \A e \in Nat : e < m => (q + e) % SectorsPerTrack # s % SectorsPerTrack
    BY <1>7, <2>1, Turns
  <2>3. PICK mp \in Nat : mp = m * p
    OBVIOUS
  <2>4. ComputeLatency(n, s, writing) = seek + rot + p + mp
    BY <1>1, <1>2, <1>5, <1>6, <1>11, <2>1, <2>3 DEF ComputeLatency
  <2>5. PICK t \in Nat : t = (q + m) * p
    OBVIOUS
  <2>6. PICK lat \in Nat : lat = seek + rot + p + mp
    OBVIOUS
  <2>7. now + lat - p = t
    <3>1. t = q * p + m * p
      BY <2>5
    <3>2. QED
      BY <1>5, <2>3, <2>6, <3>1
  <2>8. HeadAt(t, s)
    <3>1. q + m \in Nat
      OBVIOUS
    <3>2. HeadAt((q + m) * RotationTime, s)
      BY <2>2, <3>1, HeadAtMultiple
    <3>3. QED
      BY <1>1, <2>5, <3>2
  <2>9. now + seek <= t
    BY <2>6, <2>7
  <2>10. ASSUME NEW x \in (now + seek)..(t - 1), HeadAt(x, s) PROVE FALSE
    <3>1. x \in Nat
      OBVIOUS
    <3>2. PICK k \in Nat : x = k * p
      BY <1>1, <2>10, <3>1, HeadAtOnlyMultiples
    <3>3. k % SectorsPerTrack = s % SectorsPerTrack
      BY <1>1, <2>10, <3>2, HeadAtMultiple
    <3>4. k >= q
      <4> SUFFICES ASSUME k < q PROVE FALSE
        OBVIOUS
      <4>1. q * p >= x + p
        BY <3>2, Apart
      <4>2. QED
        BY <1>5, <4>1
    <3>5. k < q + m
      <4> SUFFICES ASSUME q + m <= k PROVE FALSE
        OBVIOUS
      <4>1. t <= x
        <5>1. CASE q + m = k
          BY <2>5, <3>2, <5>1
        <5>2. CASE q + m < k
          <6>1. x >= t + p
            BY <2>5, <3>2, <5>2, Apart
          <6>2. QED
            BY <6>1
        <5>3. QED
          BY <5>1, <5>2
      <4>2. QED
        BY <4>1
    <3>6. PICK e \in Nat : k = q + e /\ e < m
      <4>1. k - q \in Nat /\ k = q + (k - q) /\ k - q < m
        BY <3>4, <3>5
      <4>2. QED
        BY <4>1
    <3>7. QED
      BY <2>2, <3>3, <3>6
  <2>11. Passed(passing, now + lat)
    BY <1>1, <1>9, <1>11, <2>7, <2>8, <2>9, <2>10 DEF Passed
  <2>12. lat \in Nat \ {0}
    BY <2>6
  <2>13. QED
    BY <1>2, <1>8, <2>4, <2>6, <2>11, <2>12
<1>12. QED
  BY <1>10, <1>11

-----------------------------------------------------------------------------
(***************************************************************************)
(* The invariant of time and interrupts                                    *)
(***************************************************************************)
DevicesTyped ==
    /\ totalTicks \in [Node -> Nat]
    /\ pending \in [Node -> Seq(Item)]
    /\ phase \in [Node -> {"run", "tick", "idle", "halt", "abort"}]
    /\ value \in [Node -> [SemName -> Nat]]
    /\ active \in [DiskNode -> BOOLEAN]
    /\ lastSector \in [DiskNode -> Nat]
    /\ bufferInit \in [DiskNode -> {b * RotationTime : b \in Nat}]
    /\ DOMAIN job = DiskNode /\ DOMAIN uses = DiskNode
    /\ \A n \in DiskNode : DOMAIN uses[n] = DiskUser[n]
    /\ putBusy \in [ConsoleNode -> BOOLEAN]

\* The types of interrupt whose number the state of a device determines, and
\* those of which one is pending.
Watched(n) ==
    {t \in IntType : \/ t \in {"ConsoleRead", "NetworkRecv"}
                     \/ t = "Disk" /\ n \in DiskNode
                     \/ t = "ConsoleWrite" /\ n \in ConsoleNode}
Wanted(n, t) ==
    \/ t = "Disk" /\ active[n] = TRUE
    \/ t = "ConsoleWrite" /\ putBusy[n] = TRUE
    \/ t = "ConsoleRead" /\ n \in ConsoleNode
    \/ t = "NetworkRecv" /\ n \in MailNode
Matched(n) == \A t \in Watched(n) : Counted(pending[n], t, Wanted(n, t))

\* On a machine without a poller, time passes while no thread can start a request.
Quiet(n) == n \in DiskNode \ ConsoleNode => \A u \in DiskUser[n] : uses[n][u] # "work"

DueIn(n) == IsDue(pending[n], totalTicks[n])

Ordered(n) ==
    /\ Ascending(pending[n])
    /\ Matched(n)
    /\ phase[n] = "idle" \/ (phase[n] = "run" /\ DueIn(n)) => Quiet(n)
    /\ phase[n] = "run" /\ DueIn(n) => JustTimer(pending[n])

TimeInv == DevicesTyped /\ \A n \in Node : Ordered(n)

\* Nothing that Ordered(m) speaks of changes.
Untouched(m) ==
    /\ totalTicks'[m] = totalTicks[m] /\ pending'[m] = pending[m] /\ phase'[m] = phase[m]
    /\ m \in DiskNode => active'[m] = active[m] /\ uses'[m] = uses[m]
    /\ m \in ConsoleNode => putBusy'[m] = putBusy[m]

\* So the list of that machine stays in order.
LEMMA UntouchedOrdered ==
    ASSUME NEW m, Ordered(m), Untouched(m)
    PROVE  Ordered(m)'
<1>1. \A t \in Watched(m) : Wanted(m, t)' <=> Wanted(m, t)
  BY DEF Untouched, Watched, Wanted
<1>2. Matched(m)'
  BY <1>1 DEF Untouched, Ordered, Matched, Counted
<1>3. Quiet(m)' <=> Quiet(m)
  BY DEF Untouched, Quiet
<1>4. QED
  BY <1>2, <1>3 DEF Untouched, Ordered, DueIn

\* What a machine does with its list.
Adds(n, fromNow, type) ==
    /\ pending'[n] = Schedule(pending[n], totalTicks[n], fromNow, type)
    /\ totalTicks'[n] = totalTicks[n] /\ phase'[n] = phase[n]
Takes(n, type) ==
    /\ Fires(n, type) /\ pending'[n] = Rest(n)
    /\ totalTicks'[n] = totalTicks[n] /\ phase'[n] = phase[n]
PutsBack(n, fromNow, type) ==
    /\ Fires(n, type) /\ pending'[n] = Schedule(Rest(n), totalTicks[n], fromNow, type)
    /\ totalTicks'[n] = totalTicks[n] /\ phase'[n] = phase[n]

\* The device of that interrupt changes its state with it, and no other does.
Starting(n, type) ==
    /\ type \in Watched(n) => ~Wanted(n, type) /\ Wanted(n, type)'
    /\ \A t \in Watched(n) : t # type => (Wanted(n, t)' <=> Wanted(n, t))
Stopping(n, type) ==
    /\ type \in Watched(n) => ~Wanted(n, type)'
    /\ \A t \in Watched(n) : t # type => (Wanted(n, t)' <=> Wanted(n, t))

\* The same list with one interrupt more or less.
LEMMA AddsOrdered ==
    ASSUME DevicesTyped, NEW n \in Node, Ordered(n), ~DueIn(n), phase[n] # "idle",
           NEW fromNow \in Nat \ {0}, NEW type \in IntType,
           Adds(n, fromNow, type), Starting(n, type)
    PROVE  Ordered(n)'
<1>1. PICK list \in Seq(Item), now \in Nat : list = pending[n] /\ now = totalTicks[n]
  BY DEF DevicesTyped
<1>2. PICK r : r = Schedule(list, now, fromNow, type)
  OBVIOUS
<1>3. r = pending'[n] /\ totalTicks'[n] = now /\ phase'[n] # "idle"
  BY <1>1, <1>2 DEF Adds
<1>4. /\ Ascending(list) => Ascending(r)
      /\ None(list, type) => Once(r, type)
      /\ \A t : t # type => /\ Once(list, t) => Once(r, t)
                            /\ None(list, t) => None(r, t)
      /\ IsDue(r, now) => IsDue(list, now)
  BY <1>2, Scheduled
<1>5. Ascending(r) /\ ~IsDue(r, now)
  BY <1>1, <1>4 DEF Ordered, DueIn
<1>6. ASSUME NEW t \in Watched(n) PROVE Counted(r, t, Wanted(n, t)')
  <2>1. Counted(list, t, Wanted(n, t))
    BY <1>1, <1>6 DEF Ordered, Matched
  <2>2. CASE t = type
    BY <1>4, <1>6, <2>1, <2>2 DEF Starting, Counted
  <2>3. CASE t # type
    BY <1>4, <1>6, <2>1, <2>3 DEF Starting, Counted
  <2>4. QED
    BY <2>2, <2>3
<1>7. Matched(n)'
  BY <1>3, <1>6 DEF Matched, Watched
<1>8. QED
  BY <1>3, <1>5, <1>7 DEF Ordered, DueIn

\* A step that takes the first interrupt of the list keeps it in order.
LEMMA TakesOrdered ==
    ASSUME DevicesTyped, NEW n \in Node, Ordered(n), NEW type \in IntType,
           Takes(n, type), Stopping(n, type), Quiet(n) => Quiet(n)'
    PROVE  Ordered(n)'
<1>1. PICK list \in Seq(Item) : list = pending[n]
  BY DEF DevicesTyped
<1>2. list # << >> /\ list[1].type = type
  BY <1>1 DEF Takes, Fires, Due
<1>3. /\ Ascending(list) => Ascending(Tail(list))
      /\ Once(list, type) => None(Tail(list), type)
      /\ \A t : t # type => /\ Once(list, t) => Once(Tail(list), t)
                            /\ None(list, t) => None(Tail(list), t)
  BY <1>2, Removed
<1>4. pending'[n] = Tail(list) /\ phase'[n] = phase[n] /\ phase[n] \in {"tick", "idle"}
  BY <1>1 DEF Takes, Rest, Fires
<1>5. ~None(list, type)
  BY <1>2 DEF None
<1>6. ASSUME NEW t \in Watched(n) PROVE Counted(Tail(list), t, Wanted(n, t)')
  <2>1. Counted(list, t, Wanted(n, t))
    BY <1>1, <1>6 DEF Ordered, Matched
  <2>2. CASE t = type
    BY <1>3, <1>5, <1>6, <2>1, <2>2 DEF Stopping, Counted
  <2>3. CASE t # type
    BY <1>3, <1>6, <2>1, <2>3 DEF Stopping, Counted
  <2>4. QED
    BY <2>2, <2>3
<1>7. Matched(n)'
  BY <1>4, <1>6 DEF Matched, Watched
<1>8. QED
  BY <1>1, <1>3, <1>4, <1>7 DEF Ordered

\* So does a poller, which takes the first interrupt and schedules the next.
LEMMA PutsBackOrdered ==
    ASSUME DevicesTyped, NEW n \in Node, Ordered(n), NEW type \in IntType,
           NEW fromNow \in Nat \ {0}, PutsBack(n, fromNow, type),
           \A t \in Watched(n) : Wanted(n, t)' <=> Wanted(n, t), Quiet(n) => Quiet(n)'
    PROVE  Ordered(n)'
<1>1. PICK list \in Seq(Item), now \in Nat : list = pending[n] /\ now = totalTicks[n]
  BY DEF DevicesTyped
<1>2. list # << >> /\ list[1].type = type
  BY <1>1 DEF PutsBack, Fires, Due
<1>3. PICK rest \in Seq(Item) : rest = Tail(list)
  <2>1. Tail(list) \in Seq(Item)
    BY <1>2, Removed
  <2>2. QED
    BY <2>1
<1>4. /\ Ascending(list) => Ascending(rest)
      /\ Once(list, type) => None(rest, type)
      /\ \A t : t # type => /\ Once(list, t) => Once(rest, t)
                            /\ None(list, t) => None(rest, t)
  BY <1>2, <1>3, Removed
<1>5. PICK r : r = Schedule(rest, now, fromNow, type)
  OBVIOUS
<1>6. r = pending'[n] /\ phase'[n] = phase[n] /\ phase[n] \in {"tick", "idle"}
  BY <1>1, <1>3, <1>5 DEF PutsBack, Rest, Fires
<1>7. /\ Ascending(rest) => Ascending(r)
      /\ None(rest, type) => Once(r, type)
      /\ \A t : t # type => /\ Once(rest, t) => Once(r, t)
                            /\ None(rest, t) => None(r, t)
  BY <1>5, Scheduled
<1>8. ~None(list, type)
  BY <1>2 DEF None
<1>9. ASSUME NEW t \in Watched(n) PROVE Counted(r, t, Wanted(n, t)')
  <2>1. Counted(list, t, Wanted(n, t))
    BY <1>1, <1>9 DEF Ordered, Matched
  <2>2. CASE t = type
    BY <1>4, <1>7, <1>8, <1>9, <2>1, <2>2 DEF Counted
  <2>3. CASE t # type
    BY <1>4, <1>7, <1>9, <2>1, <2>3 DEF Counted
  <2>4. QED
    BY <2>2, <2>3
<1>10. Matched(n)'
  BY <1>6, <1>9 DEF Matched, Watched
<1>11. QED
  BY <1>1, <1>4, <1>6, <1>7, <1>10 DEF Ordered

\* The lists that actions make are lists of interrupts.
LEMMA ListsTyped ==
    ASSUME DevicesTyped, NEW n \in Node
    PROVE  /\ \A fromNow \in Nat \ {0} : \A type \in IntType :
                 Schedule(pending[n], totalTicks[n], fromNow, type) \in Seq(Item)
           /\ pending[n] # << >> =>
                 /\ Rest(n) \in Seq(Item)
                 /\ \A fromNow \in Nat \ {0} : \A type \in IntType :
                       Schedule(Rest(n), totalTicks[n], fromNow, type) \in Seq(Item)
<1>1. pending[n] \in Seq(Item) /\ totalTicks[n] \in Nat
  BY DEF DevicesTyped
<1>2. pending[n] # << >> => Rest(n) \in Seq(Item)
  BY <1>1, Removed DEF Rest
<1>3. QED
  BY <1>1, <1>2, Scheduled

\* A machine with a poller has nothing due while a thread runs.
LEMMA NothingLate ==
    ASSUME DevicesTyped, NEW n \in ConsoleNode \cup MailNode, Ordered(n), phase[n] = "run"
    PROVE  ~DueIn(n)
<1>1. PICK t \in {"ConsoleRead", "NetworkRecv"} : Wanted(n, t)
  BY DEF Wanted
<1>2. t \in Watched(n)
  BY <1>1 DEF Watched, IntType
<1>3. Once(pending[n], t)
  BY <1>1, <1>2 DEF Ordered, Matched, Counted
<1>4. ASSUME JustTimer(pending[n]) PROVE FALSE
  <2>1. PICK i \in 1..Len(pending[n]) : pending[n][i].type = t
    BY <1>3 DEF Once
  <2>2. i = 1
    BY <1>4, <2>1 DEF JustTimer
  <2>3. QED
    BY <1>1, <1>4, <2>1, <2>2 DEF JustTimer
<1>5. QED
  BY <1>4 DEF Ordered

\* A step of one machine leaves the others in order.
LEMMA OneMachine ==
    ASSUME TimeInv, NEW n \in Node, DevicesTyped', Ordered(n)',
           \A m \in Node \ {n} : Untouched(m)
    PROVE  TimeInv'
<1>1. ASSUME NEW m \in Node PROVE Ordered(m)'
  <2>1. CASE m = n
    BY <2>1
  <2>2. CASE m # n
    <3>1. Ordered(m) /\ Untouched(m)
      BY <2>2 DEF TimeInv
    <3>2. QED
      BY <3>1, UntouchedOrdered
  <2>3. QED
    BY <2>1, <2>2
<1>2. QED
  BY <1>1 DEF TimeInv

\* Time passes (OneTick).
LEMMA TicksKeep ==
    ASSUME TimeInv, NEW n \in Node, OneTick(n), pending' = pending,
           value' \in [Node -> [SemName -> Nat]],
           active' = active, lastSector' = lastSector, bufferInit' = bufferInit,
           putBusy' = putBusy, DOMAIN job' = DiskNode,
           DOMAIN uses' = DiskNode, \A m \in DiskNode : DOMAIN uses'[m] = DiskUser[m],
           \A m \in DiskNode \ {n} : uses'[m] = uses[m]
    PROVE  TimeInv'
<1>1. DevicesTyped /\ Ordered(n)
  BY DEF TimeInv
<1>2. DevicesTyped'
  <2>1. totalTicks' \in [Node -> Nat]
    BY <1>1, InterruptsAssumption DEF DevicesTyped, OneTick
  <2>2. phase' \in [Node -> {"run", "tick", "idle", "halt", "abort"}]
    BY <1>1 DEF DevicesTyped, OneTick
  <2>3. QED
    BY <1>1, <2>1, <2>2 DEF DevicesTyped
<1>3. Ordered(n)'
  <2>1. phase'[n] = "tick"
    BY <1>1 DEF DevicesTyped, OneTick
  <2>2. \A t \in Watched(n) : Wanted(n, t)' <=> Wanted(n, t)
    BY DEF Wanted
  <2>3. QED
    BY <1>1, <2>1, <2>2 DEF Ordered, Matched, Watched, Counted
<1>4. \A m \in Node \ {n} : Untouched(m)
  BY <1>1 DEF DevicesTyped, Untouched, OneTick
<1>5. QED
  BY <1>2, <1>3, <1>4, OneMachine

\* Counting down a semaphore (Semaphore::P) lets time pass.
LEMMA CountedDown ==
    ASSUME DevicesTyped, NEW n \in Node, NEW s \in SemName, P(n, s)
    PROVE  OneTick(n) /\ pending' = pending /\ value' \in [Node -> [SemName -> Nat]]
<1>1. value[n] \in [SemName -> Nat] /\ value[n][s] \in Nat /\ value[n][s] > 0
  BY DEF DevicesTyped, P
<1>2. value[n][s] - 1 \in Nat
  BY <1>1
<1>3. QED
  BY <1>1, <1>2 DEF DevicesTyped, P

\* The machine is switched off or an ASSERT fails, or nothing that counts here
\* happens.
LEMMA RestsKeep ==
    ASSUME TimeInv, NEW n \in Node,
           \/ Halt(n) \/ Abort(n)
           \/ UNCHANGED <<totalTicks, pending, phase>> /\ (Quiet(n) => Quiet(n)'),
           value' = value, UNCHANGED <<active, lastSector, bufferInit, putBusy>>,
           DOMAIN job' = DiskNode,
           DOMAIN uses' = DiskNode, \A m \in DiskNode : DOMAIN uses'[m] = DiskUser[m],
           \A m \in DiskNode \ {n} : uses'[m] = uses[m]
    PROVE  TimeInv'
<1>1. DevicesTyped /\ Ordered(n)
  BY DEF TimeInv
<1>2. /\ totalTicks' = totalTicks /\ pending' = pending
      /\ \/ phase' = [phase EXCEPT ![n] = "halt"]
         \/ phase' = [phase EXCEPT ![n] = "abort"]
         \/ phase' = phase /\ (Quiet(n) => Quiet(n)')
  BY DEF Halt, Abort
<1>3. phase' \in [Node -> {"run", "tick", "idle", "halt", "abort"}]
  BY <1>1, <1>2 DEF DevicesTyped
<1>4. DevicesTyped'
  BY <1>1, <1>2, <1>3 DEF DevicesTyped
<1>5. Ordered(n)'
  <2>1. \A t \in Watched(n) : Wanted(n, t)' <=> Wanted(n, t)
    BY DEF Wanted
  <2>2. Matched(n)'
    BY <1>1, <1>2, <2>1 DEF Ordered, Matched, Watched, Counted
  <2>3. CASE phase' = phase /\ (Quiet(n) => Quiet(n)')
    BY <1>1, <1>2, <2>2, <2>3 DEF Ordered, DueIn
  <2>4. CASE phase'[n] \in {"halt", "abort"}
    BY <1>1, <1>2, <2>2, <2>4 DEF Ordered
  <2>5. QED
    BY <1>1, <1>2, <2>3, <2>4 DEF DevicesTyped
<1>6. \A m \in Node \ {n} : Untouched(m)
  BY <1>1, <1>2 DEF DevicesTyped, Untouched
<1>7. QED
  BY <1>4, <1>5, <1>6, OneMachine

\* The clock, the timer and Idle.
LEMMA MachineKeepsTime ==
    ASSUME TimeInv, NEW n \in Node, MachineStep(n)
    PROVE  TimeInv'
<1>1. DevicesTyped /\ Ordered(n)
  BY DEF TimeInv
<1>2. /\ active' = active /\ lastSector' = lastSector /\ bufferInit' = bufferInit
      /\ job' = job /\ uses' = uses /\ putBusy' = putBusy
  BY DEF MachineStep, diskVars, consoleVars
<1>3. /\ \A t : Wanted(n, t)' <=> Wanted(n, t)
      /\ Quiet(n)' <=> Quiet(n)
  BY <1>2 DEF Wanted, Quiet
<1>4. CASE NothingDue(n)
  <2>1. /\ phase' = [phase EXCEPT ![n] = "run"] /\ totalTicks' = totalTicks
        /\ pending' = pending /\ value' = value /\ phase[n] \in {"tick", "idle"}
        /\ ~Due(n) \/ (phase[n] = "idle" /\ OnlyTimer(n))
    BY <1>4 DEF NothingDue
  <2>2. DevicesTyped'
    BY <1>1, <1>2, <2>1 DEF DevicesTyped
  <2>3. pending[n] \in Seq(Item)
    BY <1>1 DEF DevicesTyped
  <2>4. DueIn(n) => Due(n) /\ (OnlyTimer(n) => JustTimer(pending[n]))
    BY <2>3 DEF DueIn, IsDue, Due, OnlyTimer, JustTimer
  <2>5. Ordered(n)'
    <3>1. Matched(n)'
      BY <1>1, <1>3, <2>1 DEF Ordered, Matched, Watched, Counted
    <3>2. DueIn(n)' <=> DueIn(n)
      BY <2>1 DEF DueIn
    <3>3. phase'[n] = "run"
      BY <1>1, <2>1 DEF DevicesTyped
    <3>4. QED
      BY <1>1, <1>3, <2>1, <2>4, <3>1, <3>2, <3>3 DEF Ordered
  <2>6. \A m \in Node \ {n} : Untouched(m)
    BY <1>1, <1>2, <2>1 DEF DevicesTyped, Untouched
  <2>7. QED
    BY <2>2, <2>5, <2>6, OneMachine
<1>5. CASE TimerExpired(n)
  <2>1. PICK delay \in TimerDelays :
            pending' = [pending EXCEPT ![n] = Schedule(Rest(n), totalTicks[n], delay, "Timer")]
    BY <1>5 DEF TimerExpired
  <2>2. delay \in Nat \ {0} /\ "Timer" \in IntType
    BY InterruptsAssumption DEF IntType
  <2>3. /\ Fires(n, "Timer") /\ totalTicks' = totalTicks /\ phase' = phase /\ value' = value
        /\ pending[n] # << >>
    BY <1>5 DEF TimerExpired, Fires, Due
  <2>4. Schedule(Rest(n), totalTicks[n], delay, "Timer") \in Seq(Item)
    BY <1>1, <2>2, <2>3, ListsTyped
  <2>5. pending' \in [Node -> Seq(Item)]
    BY <1>1, <2>1, <2>4 DEF DevicesTyped
  <2>6. DevicesTyped'
    BY <1>1, <1>2, <2>3, <2>5 DEF DevicesTyped
  <2>7. PutsBack(n, delay, "Timer")
    BY <1>1, <2>1, <2>3 DEF PutsBack, DevicesTyped
  <2>8. Ordered(n)'
    BY <1>1, <1>3, <2>2, <2>7, PutsBackOrdered
  <2>9. \A m \in Node \ {n} : Untouched(m)
    BY <1>1, <1>2, <2>1, <2>3 DEF DevicesTyped, Untouched
  <2>10. QED
    BY <2>6, <2>8, <2>9, OneMachine
<1>6. CASE AllWait(n) /\ Idle(n)
  <2>1. /\ pending' = pending /\ value' = value
        /\ \/ phase' = [phase EXCEPT ![n] = "halt"] /\ totalTicks' = totalTicks
           \/ /\ phase' = [phase EXCEPT ![n] = "idle"] /\ pending[n] # << >>
              /\ totalTicks' = [totalTicks EXCEPT ![n] =
                                  IF Head(pending[n]).when > @ THEN Head(pending[n]).when ELSE @]
    BY <1>6 DEF Idle
  <2>2. pending[n] \in Seq(Item) /\ (pending[n] # << >> => Head(pending[n]) \in Item)
    BY <1>1 DEF DevicesTyped
  <2>3. pending[n] # << >> => Head(pending[n]).when \in Nat
    BY <2>2 DEF Item
  <2>4. totalTicks' \in [Node -> Nat]
    BY <1>1, <2>1, <2>3 DEF DevicesTyped
  <2>5. DevicesTyped'
    BY <1>1, <1>2, <2>1, <2>4 DEF DevicesTyped
  <2>6. Quiet(n)
    BY <1>6 DEF AllWait, DiskCanRun, Quiet
  <2>7. Ordered(n)'
    <3>1. Matched(n)'
      BY <1>1, <1>3, <2>1 DEF Ordered, Matched, Watched, Counted
    <3>2. phase'[n] \in {"halt", "idle"}
      BY <1>1, <2>1 DEF DevicesTyped
    <3>3. QED
      BY <1>1, <1>3, <2>1, <2>6, <3>1, <3>2 DEF Ordered
  <2>8. \A m \in Node \ {n} : Untouched(m)
    BY <1>1, <1>2, <2>1 DEF DevicesTyped, Untouched
  <2>9. QED
    BY <2>5, <2>7, <2>8, OneMachine
<1>7. CASE YieldReturns(n)
  <2>1. OneTick(n) /\ pending' = pending /\ value' = value
    BY <1>7 DEF YieldReturns
  <2>2. /\ DOMAIN job' = DiskNode /\ DOMAIN uses' = DiskNode
        /\ \A m \in DiskNode : DOMAIN uses'[m] = DiskUser[m]
    BY <1>1, <1>2 DEF DevicesTyped
  <2>3. value' \in [Node -> [SemName -> Nat]]
    BY <1>1, <2>1 DEF DevicesTyped
  <2>4. QED
    BY <1>2, <2>1, <2>2, <2>3, TicksKeep
<1>8. QED
  BY <1>4, <1>5, <1>6, <1>7 DEF MachineStep

\* The disk and its users.
LEMMA RequestKeepsTime ==
    ASSUME TimeInv, NEW n \in DiskNode, n \in Node, NEW u \in DiskUser[n], Running(n),
           uses[n][u] = "work", NEW s \in Sector, NEW writing \in BOOLEAN,
           Request(n, u, s, writing), putBusy' = putBusy
    PROVE  TimeInv'
<1>1. DevicesTyped /\ Ordered(n)
  BY DEF TimeInv
<1>2. /\ ~active[n] /\ active' = [active EXCEPT ![n] = TRUE]
      /\ UpdateLast(n, s)
      /\ pending' = [pending EXCEPT ![n] =
            Schedule(pending[n], totalTicks[n], ComputeLatency(n, s, writing), "Disk")]
      /\ totalTicks' = totalTicks /\ phase' = phase /\ value' = value
  BY DEF Request
<1>3. /\ totalTicks[n] \in Nat /\ lastSector[n] \in Nat
      /\ \E b \in Nat : bufferInit[n] = b * RotationTime
  BY <1>1 DEF DevicesTyped
<1>4. ComputeLatency(n, s, writing) \in Nat \ {0} /\ "Disk" \in IntType
  BY <1>3, Latency DEF IntType
<1>5. \E q \in Nat : totalTicks[n] + TimeToSeek(n, s).seek + TimeToSeek(n, s).rotation
                        = q * RotationTime
  BY <1>3, Seeks
<1>6. lastSector' \in [DiskNode -> Nat]
  BY <1>1, <1>2 DEF DevicesTyped, UpdateLast, Sector
<1>7. bufferInit' \in [DiskNode -> {b * RotationTime : b \in Nat}]
  <2>1. PICK B : B = {b * RotationTime : b \in Nat}
    OBVIOUS
  <2>2. totalTicks[n] + TimeToSeek(n, s).seek + TimeToSeek(n, s).rotation \in B
    BY <1>5, <2>1
  <2>3. bufferInit \in [DiskNode -> B]
    BY <1>1, <2>1 DEF DevicesTyped
  <2>4. bufferInit' \in [DiskNode -> B]
    BY <1>2, <2>2, <2>3 DEF UpdateLast
  <2>5. QED
    BY <2>1, <2>4
<1>8. Schedule(pending[n], totalTicks[n], ComputeLatency(n, s, writing), "Disk") \in Seq(Item)
  BY <1>1, <1>4, ListsTyped
<1>9. /\ DOMAIN job' = DiskNode /\ DOMAIN uses' = DiskNode /\ \A m \in DiskNode : DOMAIN uses'[m] = DiskUser[m]
      /\ \A m \in DiskNode \ {n} : uses'[m] = uses[m]
  BY <1>1 DEF DevicesTyped, Request
<1>10. pending' \in [Node -> Seq(Item)] /\ active' \in [DiskNode -> BOOLEAN]
  BY <1>1, <1>2, <1>8 DEF DevicesTyped
<1>11. DevicesTyped'
  BY <1>1, <1>2, <1>6, <1>7, <1>9, <1>10 DEF DevicesTyped
<1>12. phase[n] = "run" /\ ~DueIn(n)
  <2>1. phase[n] = "run"
    BY DEF Running
  <2>2. CASE n \in ConsoleNode
    BY <1>1, <2>1, <2>2, NothingLate
  <2>3. CASE n \notin ConsoleNode
    <3>1. ~Quiet(n)
      BY <2>3 DEF Quiet
    <3>2. QED
      BY <1>1, <2>1, <3>1 DEF Ordered
  <2>4. QED
    BY <2>1, <2>2, <2>3
<1>13. Starting(n, "Disk")
  BY <1>1, <1>2 DEF Starting, Watched, Wanted, DevicesTyped
<1>14. Adds(n, ComputeLatency(n, s, writing), "Disk")
  BY <1>1, <1>2 DEF Adds, DevicesTyped
<1>15. Ordered(n)'
  BY <1>1, <1>4, <1>12, <1>13, <1>14, AddsOrdered
<1>16. \A m \in Node \ {n} : Untouched(m)
  BY <1>1, <1>2, <1>9 DEF DevicesTyped, Untouched
<1>17. QED
  BY <1>11, <1>15, <1>16, OneMachine

\* What the disk and its users do keeps all lists in order.
LEMMA DiskKeepsTime ==
    ASSUME TimeInv, NEW n \in DiskNode, DiskStep(n)
    PROVE  TimeInv'
<1>1. DevicesTyped /\ n \in Node /\ Ordered(n) /\ putBusy' = putBusy
  BY DevicesAssumption DEF TimeInv, DiskStep, consoleVars
<1>2. ASSUME NEW u \in DiskUser[n], DiskStarts(n, u) PROVE TimeInv'
  <2>1. CASE RequestAsserts(n)
    BY <1>1, <2>1, RestsKeep DEF RequestAsserts, diskVars, DevicesTyped, Abort
  <2>2. ASSUME NEW s \in Sector, NEW writing \in BOOLEAN, Request(n, u, s, writing)
        PROVE  TimeInv'
    BY <1>1, <1>2, <2>2, RequestKeepsTime DEF DiskStarts
  <2>3. QED
    BY <1>2, <2>1, <2>2 DEF DiskStarts
<1>3. ASSUME NEW u \in DiskUser[n], NEW at, uses' = [uses EXCEPT ![n][u] = at]
      PROVE  /\ DOMAIN uses' = DiskNode /\ \A m \in DiskNode : DOMAIN uses'[m] = DiskUser[m]
             /\ \A m \in DiskNode \ {n} : uses'[m] = uses[m]
  BY <1>1, <1>3 DEF DevicesTyped
<1>4. ASSUME NEW u \in DiskUser[n], DiskReturns(n, u) PROVE TimeInv'
  <2>1. "disk" \in SemName
    BY DEF SemName
  <2>2. P(n, "disk") /\ UNCHANGED <<active, lastSector, bufferInit, job>>
    BY <1>4 DEF DiskReturns
  <2>3. /\ DOMAIN uses' = DiskNode /\ \A m \in DiskNode : DOMAIN uses'[m] = DiskUser[m]
        /\ \A m \in DiskNode \ {n} : uses'[m] = uses[m]
    BY <1>3, <1>4 DEF DiskReturns
  <2>4. OneTick(n) /\ pending' = pending /\ value' \in [Node -> [SemName -> Nat]]
    BY <1>1, <2>1, <2>2, CountedDown
  <2>5. DOMAIN job' = DiskNode
    BY <1>1, <2>2 DEF DevicesTyped
  <2>6. QED
    BY <1>1, <2>2, <2>3, <2>4, <2>5, TicksKeep
<1>5. ASSUME NEW u \in DiskUser[n], DiskFinishes(n, u) PROVE TimeInv'
  <2>1. /\ UNCHANGED <<totalTicks, pending, phase>> /\ value' = value
        /\ UNCHANGED <<active, lastSector, bufferInit, putBusy>> /\ job' = job
        /\ uses' = [uses EXCEPT ![n][u] = "done"]
    BY <1>1, <1>5 DEF DiskFinishes, machine
  <2>2. Quiet(n) => Quiet(n)'
    <3>1. \A v \in DiskUser[n] : uses'[n][v] = uses[n][v] \/ uses'[n][v] = "done"
      BY <1>1, <2>1 DEF DevicesTyped
    <3>2. QED
      BY <3>1 DEF Quiet
  <2>3. /\ DOMAIN uses' = DiskNode /\ \A m \in DiskNode : DOMAIN uses'[m] = DiskUser[m]
        /\ \A m \in DiskNode \ {n} : uses'[m] = uses[m]
    BY <1>3, <2>1
  <2>4. DOMAIN job' = DiskNode
    BY <1>1, <2>1 DEF DevicesTyped
  <2>5. QED
    BY <1>1, <2>1, <2>2, <2>3, <2>4, RestsKeep
<1>6. ASSUME NEW u \in DiskUser[n], DiskWorks(n, u) PROVE TimeInv'
  <2>1. OneTick(n) /\ UNCHANGED <<pending, value, yielded, diskVars>>
    BY <1>6 DEF DiskWorks
  <2>2. /\ active' = active /\ lastSector' = lastSector /\ bufferInit' = bufferInit
        /\ pending' = pending /\ uses' = uses /\ job' = job /\ value' = value
    BY <2>1 DEF diskVars
  <2>3. /\ DOMAIN job' = DiskNode /\ DOMAIN uses' = DiskNode
        /\ \A m \in DiskNode : DOMAIN uses'[m] = DiskUser[m]
        /\ value' \in [Node -> [SemName -> Nat]]
    BY <1>1, <2>2 DEF DevicesTyped
  <2>4. QED
    BY <1>1, <2>1, <2>2, <2>3, TicksKeep
<1>7. ASSUME HandleInterrupt(n) PROVE TimeInv'
  <2>1. /\ Fires(n, "Disk") /\ active' = [active EXCEPT ![n] = FALSE]
        /\ value' = [value EXCEPT ![n]["disk"] = @ + 1]
        /\ pending' = [pending EXCEPT ![n] = Rest(n)]
        /\ totalTicks' = totalTicks /\ phase' = phase /\ lastSector' = lastSector
        /\ bufferInit' = bufferInit /\ DOMAIN job' = DiskNode /\ uses' = uses
    BY <1>1, <1>7 DEF HandleInterrupt, RequestDone, V, DevicesTyped
  <2>2. "Disk" \in IntType /\ "disk" \in SemName
    BY DEF IntType, SemName
  <2>3. Rest(n) \in Seq(Item)
    BY <1>1, <2>1, ListsTyped DEF Fires, Due
  <2>4. pending' \in [Node -> Seq(Item)]
    BY <1>1, <2>1, <2>3 DEF DevicesTyped
  <2>5. value' \in [Node -> [SemName -> Nat]]
    BY <1>1, <2>1, <2>2 DEF DevicesTyped
  <2>6. DevicesTyped'
    BY <1>1, <2>1, <2>4, <2>5 DEF DevicesTyped
  <2>7. Takes(n, "Disk")
    BY <1>1, <2>1 DEF Takes, DevicesTyped
  <2>8. Stopping(n, "Disk")
    BY <1>1, <2>1 DEF Stopping, Watched, Wanted, DevicesTyped
  <2>9. Quiet(n) => Quiet(n)'
    BY <2>1 DEF Quiet
  <2>10. Ordered(n)'
    BY <1>1, <2>2, <2>7, <2>8, <2>9, TakesOrdered
  <2>11. \A m \in Node \ {n} : Untouched(m)
    BY <1>1, <2>1 DEF DevicesTyped, Untouched
  <2>12. QED
    BY <1>1, <2>6, <2>10, <2>11, OneMachine
<1>8. QED
  BY <1>2, <1>4, <1>5, <1>6, <1>7 DEF DiskStep

\* Counting up a semaphore (Semaphore::V).
LEMMA CountedUp ==
    ASSUME DevicesTyped, NEW n \in Node, NEW s \in SemName, V(n, s)
    PROVE  value' \in [Node -> [SemName -> Nat]]
BY DEF DevicesTyped, V

\* A poller that fires and is scheduled again.
LEMMA PollKeepsTime ==
    ASSUME TimeInv, NEW n \in Node, NEW fromNow \in Nat \ {0}, NEW type \in IntType,
           Fires(n, type),
           pending' = [pending EXCEPT ![n] = Schedule(Rest(n), totalTicks[n], fromNow, type)],
           totalTicks' = totalTicks, phase' = phase, value' \in [Node -> [SemName -> Nat]],
           UNCHANGED diskVars, putBusy' = putBusy
    PROVE  TimeInv'
<1>1. DevicesTyped /\ Ordered(n)
  BY DEF TimeInv
<1>2. Schedule(Rest(n), totalTicks[n], fromNow, type) \in Seq(Item)
  BY <1>1, ListsTyped DEF Fires, Due
<1>3. pending' \in [Node -> Seq(Item)]
  BY <1>1, <1>2 DEF DevicesTyped
<1>4. DevicesTyped'
  BY <1>1, <1>3 DEF DevicesTyped, diskVars
<1>5. PutsBack(n, fromNow, type)
  BY <1>1 DEF PutsBack, DevicesTyped
<1>6. \A t \in Watched(n) : Wanted(n, t)' <=> Wanted(n, t)
  BY DEF Wanted, diskVars
<1>7. Quiet(n) => Quiet(n)'
  BY DEF Quiet, diskVars
<1>8. Ordered(n)'
  BY <1>1, <1>5, <1>6, <1>7, PutsBackOrdered
<1>9. \A m \in Node \ {n} : Untouched(m)
  BY <1>1 DEF DevicesTyped, Untouched, diskVars
<1>10. QED
  BY <1>4, <1>8, <1>9, OneMachine

\* A completion that fires.
LEMMA DoneKeepsTime ==
    ASSUME TimeInv, NEW n \in Node, NEW type \in IntType, type # "Disk", Fires(n, type),
           pending' = [pending EXCEPT ![n] = Rest(n)],
           totalTicks' = totalTicks, phase' = phase, value' \in [Node -> [SemName -> Nat]],
           UNCHANGED diskVars,
           putBusy' = IF type = "ConsoleWrite" THEN [putBusy EXCEPT ![n] = FALSE] ELSE putBusy,
           type \in {"ConsoleWrite", "NetworkSend"}, type = "ConsoleWrite" => n \in ConsoleNode
    PROVE  TimeInv'
<1>1. DevicesTyped /\ Ordered(n)
  BY DEF TimeInv
<1>2. Rest(n) \in Seq(Item)
  BY <1>1, ListsTyped DEF Fires, Due
<1>3. pending' \in [Node -> Seq(Item)] /\ putBusy' \in [ConsoleNode -> BOOLEAN]
  BY <1>1, <1>2 DEF DevicesTyped
<1>4. DevicesTyped'
  BY <1>1, <1>3 DEF DevicesTyped, diskVars
<1>5. Takes(n, type)
  BY <1>1 DEF Takes, DevicesTyped
<1>6. Stopping(n, type)
  BY <1>1 DEF Stopping, Watched, Wanted, DevicesTyped, diskVars
<1>7. Quiet(n) => Quiet(n)'
  BY DEF Quiet, diskVars
<1>8. Ordered(n)'
  BY <1>1, <1>5, <1>6, <1>7, TakesOrdered
<1>9. \A m \in Node \ {n} : Untouched(m)
  BY <1>1 DEF DevicesTyped, Untouched, diskVars
<1>10. QED
  BY <1>4, <1>8, <1>9, OneMachine

\* A thread on a machine with a poller starts a device.
LEMMA StartKeepsTime ==
    ASSUME TimeInv, NEW n \in Node, n \in ConsoleNode \cup MailNode, phase[n] = "run",
           NEW fromNow \in Nat \ {0}, NEW type \in IntType, type \in {"ConsoleWrite", "NetworkSend"},
           pending' = [pending EXCEPT ![n] =
                          Schedule(pending[n], totalTicks[n], fromNow, type)],
           totalTicks' = totalTicks, phase' = phase, value' = value,
           UNCHANGED diskVars,
           putBusy' = IF type = "ConsoleWrite" THEN [putBusy EXCEPT ![n] = TRUE] ELSE putBusy,
           type = "ConsoleWrite" => n \in ConsoleNode /\ ~putBusy[n]
    PROVE  TimeInv'
<1>1. DevicesTyped /\ Ordered(n)
  BY DEF TimeInv
<1>2. Schedule(pending[n], totalTicks[n], fromNow, type) \in Seq(Item)
  BY <1>1, ListsTyped
<1>3. pending' \in [Node -> Seq(Item)] /\ putBusy' \in [ConsoleNode -> BOOLEAN]
  BY <1>1, <1>2 DEF DevicesTyped
<1>4. DevicesTyped'
  BY <1>1, <1>3 DEF DevicesTyped, diskVars
<1>5. Adds(n, fromNow, type)
  BY <1>1 DEF Adds, DevicesTyped
<1>6. Starting(n, type)
  BY <1>1 DEF Starting, Watched, Wanted, DevicesTyped, diskVars
<1>7. ~DueIn(n)
  BY <1>1, NothingLate
<1>8. Ordered(n)'
  BY <1>1, <1>5, <1>6, <1>7, AddsOrdered
<1>9. \A m \in Node \ {n} : Untouched(m)
  BY <1>1 DEF DevicesTyped, Untouched, diskVars
<1>10. QED
  BY <1>4, <1>8, <1>9, OneMachine

\* The console and the thread that echoes.
LEMMA ConsoleKeepsTime ==
    ASSUME TimeInv, NEW n \in ConsoleNode, ConsoleStep(n)
    PROVE  TimeInv'
<1>1. DevicesTyped /\ n \in Node /\ UNCHANGED diskVars
  BY DevicesAssumption DEF TimeInv, ConsoleStep
<1>2. ConsoleTime \in Nat \ {0}
  BY ConsoleAssumption
<1>3. /\ "ConsoleRead" \in IntType /\ "ConsoleWrite" \in IntType
      /\ "readAvail" \in SemName /\ "writeDone" \in SemName
  BY DEF IntType, SemName
<1>4. /\ active' = active /\ lastSector' = lastSector /\ bufferInit' = bufferInit
      /\ DOMAIN job' = DiskNode /\ DOMAIN uses' = DiskNode /\ \A m \in DiskNode : DOMAIN uses'[m] = DiskUser[m]
      /\ \A m \in DiskNode \ {n} : uses'[m] = uses[m]
  BY <1>1 DEF DevicesTyped, diskVars
<1>5. CASE EchoReads(n)
  <2>1. P(n, "readAvail") /\ putBusy' = putBusy
    BY <1>5 DEF EchoReads
  <2>2. OneTick(n) /\ pending' = pending /\ value' \in [Node -> [SemName -> Nat]]
    BY <1>1, <1>3, <2>1, CountedDown
  <2>3. QED
    BY <1>1, <1>4, <2>1, <2>2, TicksKeep
<1>6. CASE EchoWritten(n)
  <2>1. P(n, "writeDone") /\ putBusy' = putBusy
    BY <1>6 DEF EchoWritten
  <2>2. OneTick(n) /\ pending' = pending /\ value' \in [Node -> [SemName -> Nat]]
    BY <1>1, <1>3, <2>1, CountedDown
  <2>3. QED
    BY <1>1, <1>4, <2>1, <2>2, TicksKeep
<1>7. CASE EchoPuts(n)
  <2>1. CASE putBusy[n]
    <3>1. Abort(n) /\ putBusy' = putBusy /\ value' = value
      BY <1>7, <2>1 DEF EchoPuts, Abort
    <3>2. UNCHANGED <<active, lastSector, bufferInit, putBusy>>
      BY <1>4, <3>1
    <3>3. QED
      BY <1>1, <1>4, <3>1, <3>2, RestsKeep
  <2>2. CASE ~putBusy[n]
    <3>1. /\ putBusy' = [putBusy EXCEPT ![n] = TRUE]
          /\ pending' = [pending EXCEPT ![n] =
                            Schedule(pending[n], totalTicks[n], ConsoleTime, "ConsoleWrite")]
          /\ totalTicks' = totalTicks /\ phase' = phase /\ value' = value /\ phase[n] = "run"
      BY <1>7, <2>2 DEF EchoPuts, Running
    <3>2. QED
      BY <1>1, <1>2, <1>3, <2>2, <3>1, StartKeepsTime
  <2>3. QED
    BY <2>1, <2>2
<1>8. CASE CheckCharNone(n) \/ CheckCharAvail(n)
  <2>1. /\ Fires(n, "ConsoleRead")
        /\ pending' = [pending EXCEPT ![n] =
                          Schedule(Rest(n), totalTicks[n], ConsoleTime, "ConsoleRead")]
        /\ totalTicks' = totalTicks /\ phase' = phase /\ putBusy' = putBusy
        /\ value' = value \/ V(n, "readAvail")
    BY <1>8 DEF CheckCharNone, CheckCharAvail, Polled, consoleVars
  <2>2. value' \in [Node -> [SemName -> Nat]]
    BY <1>1, <1>3, <2>1, CountedUp DEF DevicesTyped
  <2>3. QED
    BY <1>1, <1>2, <1>3, <2>1, <2>2, PollKeepsTime
<1>9. CASE WriteDone(n)
  <2>1. /\ Fires(n, "ConsoleWrite") /\ V(n, "writeDone")
        /\ pending' = [pending EXCEPT ![n] = Rest(n)]
        /\ totalTicks' = totalTicks /\ phase' = phase
        /\ putBusy' = [putBusy EXCEPT ![n] = FALSE]
    BY <1>9 DEF WriteDone
  <2>2. value' \in [Node -> [SemName -> Nat]]
    BY <1>1, <1>3, <2>1, CountedUp
  <2>3. QED
    BY <1>1, <1>3, <2>1, <2>2, DoneKeepsTime
<1>10. QED
  BY <1>5, <1>6, <1>7, <1>8, <1>9 DEF ConsoleStep

\* The network and the post office.
LEMMA MailKeepsTime ==
    ASSUME TimeInv, NEW n \in MailNode, MailStep(n)
    PROVE  TimeInv'
<1>1. /\ DevicesTyped /\ n \in Node /\ UNCHANGED diskVars /\ putBusy' = putBusy
      /\ n \notin ConsoleNode
  BY DevicesAssumption DEF TimeInv, MailStep, consoleVars
<1>2. NetworkTime \in Nat \ {0}
  BY NetworkAssumption
<1>3. /\ "NetworkRecv" \in IntType /\ "NetworkSend" \in IntType
      /\ "messageAvailable" \in SemName /\ "messageSent" \in SemName
  BY DEF IntType, SemName
<1>4. /\ active' = active /\ lastSector' = lastSector /\ bufferInit' = bufferInit
      /\ DOMAIN job' = DiskNode /\ DOMAIN uses' = DiskNode /\ \A m \in DiskNode : DOMAIN uses'[m] = DiskUser[m]
      /\ \A m \in DiskNode \ {n} : uses'[m] = uses[m]
  BY <1>1 DEF DevicesTyped, diskVars
<1>5. Quiet(n) => Quiet(n)'
  BY <1>1 DEF Quiet, diskVars
<1>6. UNCHANGED <<active, lastSector, bufferInit, putBusy>>
  BY <1>1, <1>4
<1>7. ASSUME \/ Halt(n) \/ Abort(n) \/ UNCHANGED machine PROVE TimeInv'
  <2>1. value' = value /\ (Halt(n) \/ Abort(n) \/ UNCHANGED <<totalTicks, pending, phase>>)
    BY <1>7 DEF Halt, Abort, machine
  <2>2. QED
    BY <1>1, <1>4, <1>5, <1>6, <2>1, RestsKeep
<1>8. ASSUME P(n, "messageSent") \/ P(n, "messageAvailable") PROVE TimeInv'
  <2>1. OneTick(n) /\ pending' = pending /\ value' \in [Node -> [SemName -> Nat]]
    BY <1>1, <1>3, <1>8, CountedDown
  <2>2. QED
    BY <1>1, <1>4, <2>1, TicksKeep
<1>9. ASSUME NEW packet, NEW to, Running(n), Send(n, packet, to) PROVE TimeInv'
  <2>1. /\ pending' = [pending EXCEPT ![n] =
                          Schedule(pending[n], totalTicks[n], NetworkTime, "NetworkSend")]
        /\ totalTicks' = totalTicks /\ phase' = phase /\ value' = value /\ phase[n] = "run"
    BY <1>9 DEF Send, Running
  <2>2. QED
    BY <1>1, <1>2, <1>3, <2>1, StartKeepsTime
<1>10. CASE CheckPktNone(n) \/ CheckPktAvail(n)
  <2>1. /\ Fires(n, "NetworkRecv")
        /\ pending' = [pending EXCEPT ![n] =
                          Schedule(Rest(n), totalTicks[n], NetworkTime, "NetworkRecv")]
        /\ totalTicks' = totalTicks /\ phase' = phase
        /\ value' = value \/ V(n, "messageAvailable")
    BY <1>10 DEF CheckPktNone, CheckPktAvail, PolledPkt, IncomingPacket
  <2>2. value' \in [Node -> [SemName -> Nat]]
    BY <1>1, <1>3, <2>1, CountedUp DEF DevicesTyped
  <2>3. QED
    BY <1>1, <1>2, <1>3, <2>1, <2>2, PollKeepsTime
<1>11. CASE SendDone(n)
  <2>1. /\ Fires(n, "NetworkSend") /\ V(n, "messageSent")
        /\ pending' = [pending EXCEPT ![n] = Rest(n)]
        /\ totalTicks' = totalTicks /\ phase' = phase
    BY <1>11 DEF SendDone, PacketSent
  <2>2. value' \in [Node -> [SemName -> Nat]]
    BY <1>1, <1>3, <2>1, CountedUp
  <2>3. QED
    BY <1>1, <1>3, <2>1, <2>2, DoneKeepsTime
<1>12. CASE MailSends(n)
  <2>1. /\ Running(n)
        /\ Send(n, [data |-> "Hello", source |-> n, to |-> 0, from |-> 1], farAddr(n))
    BY <1>12 DEF MailSends
  <2>2. QED
    BY <1>9, <2>1
<1>13. CASE MailAcks(n)
  <2> DEFINE in == Last(got[n][0])
  <2>1. /\ Running(n)
        /\ Send(n, [data |-> "GotIt", source |-> n, to |-> in.from, from |-> 1], in.source)
    BY <1>13 DEF MailAcks
  <2>2. QED
    BY <1>9, <2>1
<1>14. CASE MailSent(n) \/ WorkerWakes(n)
  BY <1>8, <1>14 DEF MailSent, WorkerWakes
<1>15. CASE MailReceives(n) \/ MailAwaits(n)
  BY <1>7, <1>15 DEF MailReceives, MailAwaits, Receive, Wait
<1>16. CASE MailHalts(n)
  BY <1>7, <1>16 DEF MailHalts
<1>17. CASE WorkerPuts(n)
  BY <1>7, <1>17 DEF WorkerPuts
<1>18. QED
  BY <1>10, <1>11, <1>12, <1>13, <1>14, <1>15, <1>16, <1>17 DEF MailStep

\* The machine is switched on.
LEMMA InitTimeInv == Init => TimeInv
<1> SUFFICES ASSUME Init PROVE TimeInv
  OBVIOUS
<1>1. /\ totalTicks = [n \in Node |-> 0]
      /\ value = [n \in Node |-> [s \in SemName |-> 0]]
      /\ active = [n \in DiskNode |-> FALSE]
      /\ lastSector = [n \in DiskNode |-> 0]
      /\ bufferInit = [n \in DiskNode |-> 0]
      /\ job = [n \in DiskNode |-> NoRequest]
      /\ uses = [n \in DiskNode |-> [u \in DiskUser[n] |-> "work"]]
      /\ putBusy = [n \in ConsoleNode |-> FALSE]
  BY DEF Init, DiskInit, ConsoleInit
<1>2. PICK delay \in [Node -> TimerDelays \cup {0}] :
          /\ \A n \in Node : (delay[n] = 0) <=> (TimerDelays = {} \/ n \notin DiskNode)
          /\ pending = [n \in Node |->
                IF delay[n] = 0 THEN Polls(n) ELSE Schedule(Polls(n), 0, delay[n], "Timer")]
  BY DEF Init
<1>3. PICK test : phase = [n \in Node |-> IF n \in test THEN "run" ELSE "halt"]
  BY DEF Init
<1>4. PICK empty \in Seq(Item) : empty = << >>
  <2>1. << >> \in Seq(Item)
    OBVIOUS
  <2>2. QED
    BY <2>1
<1>5. /\ Ascending(empty) /\ \A t : None(empty, t)
      /\ ~IsDue(empty, 0)
  BY <1>4 DEF Ascending, None, IsDue
<1>6. ASSUME NEW n \in Node
      PROVE  /\ Polls(n) \in Seq(Item) /\ Ascending(Polls(n)) /\ ~IsDue(Polls(n), 0)
             /\ \A t \in Watched(n) : Counted(Polls(n), t, Wanted(n, t))
  <2>1. "ConsoleRead" \in IntType /\ "NetworkRecv" \in IntType /\ 0 \in Nat
    BY DEF IntType
  <2>2. \A t \in Watched(n) : /\ Wanted(n, t) <=> \/ t = "ConsoleRead" /\ n \in ConsoleNode
                                                  \/ t = "NetworkRecv" /\ n \in MailNode
    BY <1>1 DEF Watched, Wanted
  <2>3. CASE n \in ConsoleNode
    <3>1. ConsoleTime \in Nat \ {0} /\ n \notin MailNode
      BY <2>3, ConsoleAssumption, DevicesAssumption
    <3>2. PICK r : r = Schedule(empty, 0, ConsoleTime, "ConsoleRead")
      OBVIOUS
    <3>3. /\ r \in Seq(Item) /\ Ascending(r) /\ ~IsDue(r, 0)
          /\ Once(r, "ConsoleRead") /\ \A t : t # "ConsoleRead" => None(r, t)
      BY <1>5, <2>1, <3>1, <3>2, Scheduled
    <3>4. Polls(n) = r
      BY <1>4, <2>3, <3>2 DEF Polls, ConsolePolls
    <3>5. QED
      BY <2>2, <2>3, <3>1, <3>3, <3>4 DEF Counted
  <2>4. CASE n \in MailNode
    <3>1. NetworkTime \in Nat \ {0} /\ n \notin ConsoleNode
      BY <2>4, NetworkAssumption, DevicesAssumption
    <3>2. PICK r : r = Schedule(empty, 0, NetworkTime, "NetworkRecv")
      OBVIOUS
    <3>3. /\ r \in Seq(Item) /\ Ascending(r) /\ ~IsDue(r, 0)
          /\ Once(r, "NetworkRecv") /\ \A t : t # "NetworkRecv" => None(r, t)
      BY <1>5, <2>1, <3>1, <3>2, Scheduled
    <3>4. Polls(n) = r
      BY <1>4, <2>4, <3>1, <3>2 DEF Polls, NetworkPolls
    <3>5. QED
      BY <2>2, <2>4, <3>1, <3>3, <3>4 DEF Counted
  <2>5. CASE n \notin ConsoleNode /\ n \notin MailNode
    <3>1. Polls(n) = empty
      BY <1>4, <2>5 DEF Polls
    <3>2. QED
      BY <1>5, <2>2, <2>5, <3>1 DEF Counted
  <2>6. QED
    BY <2>3, <2>4, <2>5
<1>7. ASSUME NEW n \in Node
      PROVE  /\ pending[n] \in Seq(Item) /\ Ascending(pending[n]) /\ ~IsDue(pending[n], 0)
             /\ \A t \in Watched(n) : Counted(pending[n], t, Wanted(n, t))
  <2>1. CASE delay[n] = 0
    BY <1>2, <1>6, <2>1
  <2>2. CASE delay[n] # 0
    <3>1. delay[n] \in Nat \ {0} /\ "Timer" \in IntType /\ 0 \in Nat
      BY <2>2, InterruptsAssumption DEF IntType
    <3>2. PICK p \in Seq(Item) : p = Polls(n)
      BY <1>6
    <3>3. PICK r : r = Schedule(p, 0, delay[n], "Timer")
      OBVIOUS
    <3>4. /\ r \in Seq(Item) /\ Ascending(r) /\ ~IsDue(r, 0)
          /\ \A t : t # "Timer" => /\ Once(p, t) => Once(r, t)
                                   /\ None(p, t) => None(r, t)
      BY <1>6, <3>1, <3>2, <3>3, Scheduled
    <3>5. pending[n] = r
      BY <1>2, <2>2, <3>2, <3>3
    <3>6. \A t \in Watched(n) : t # "Timer"
      BY DEF Watched
    <3>7. \A t \in Watched(n) : Counted(p, t, Wanted(n, t))
      BY <1>6, <3>2
    <3>8. \A t \in Watched(n) : Counted(r, t, Wanted(n, t))
      BY <3>4, <3>6, <3>7 DEF Counted
    <3>9. QED
      BY <3>4, <3>5, <3>8
  <2>3. QED
    BY <2>1, <2>2
<1>8. pending \in [Node -> Seq(Item)]
  BY <1>2, <1>7
<1>9. bufferInit \in [DiskNode -> {b * RotationTime : b \in Nat}]
  <2>1. 0 * RotationTime = 0 /\ 0 \in Nat
    BY DiskAssumption
  <2>2. 0 \in {b * RotationTime : b \in Nat}
    BY <2>1
  <2>3. QED
    BY <1>1, <2>2
<1>10. DevicesTyped
  BY <1>1, <1>3, <1>8, <1>9 DEF DevicesTyped
<1>11. ASSUME NEW n \in Node PROVE Ordered(n)
  <2>1. ~DueIn(n) /\ Matched(n) /\ Ascending(pending[n])
    BY <1>1, <1>7 DEF DueIn, Matched
  <2>2. phase[n] # "idle"
    BY <1>3
  <2>3. QED
    BY <2>1, <2>2 DEF Ordered
<1>12. QED
  BY <1>10, <1>11 DEF TimeInv

\* Every step keeps the invariant.
LEMMA StepTimeInv == TimeInv /\ [Next]_vars => TimeInv'
<1> SUFFICES ASSUME TimeInv, [Next]_vars PROVE TimeInv'
  OBVIOUS
<1>1. ASSUME NEW n \in DiskNode, DiskStep(n) PROVE TimeInv'
  BY <1>1, DiskKeepsTime
<1>2. ASSUME NEW n \in ConsoleNode, ConsoleStep(n) PROVE TimeInv'
  BY <1>2, ConsoleKeepsTime
<1>3. ASSUME NEW n \in MailNode, MailStep(n) PROVE TimeInv'
  BY <1>3, MailKeepsTime
<1>4. ASSUME NEW n \in Node, MachineStep(n) PROVE TimeInv'
  BY <1>4, MachineKeepsTime
<1>5. CASE UNCHANGED vars
  <2>1. /\ totalTicks' = totalTicks /\ pending' = pending /\ phase' = phase /\ value' = value
        /\ active' = active /\ lastSector' = lastSector /\ bufferInit' = bufferInit
        /\ job' = job /\ uses' = uses /\ putBusy' = putBusy
    BY <1>5 DEF vars, machine, diskVars, consoleVars
  <2>2. DevicesTyped'
    BY <2>1 DEF TimeInv, DevicesTyped
  <2>3. \A n : Untouched(n)
    BY <2>1 DEF Untouched
  <2>4. QED
    BY <2>2, <2>3, UntouchedOrdered DEF TimeInv
<1>6. QED
  BY <1>1, <1>2, <1>3, <1>4, <1>5 DEF Next

\* The invariant holds in every state.
LEMMA AlwaysTimeInv == Spec => []TimeInv
BY InitTimeInv, StepTimeInv, PTL DEF Spec

\* Interrupts fire in the order of their times and none is late when a thread
\* runs, except the timer that Idle put back, and a device has exactly the
\* interrupts pending that its state calls for (Interrupt::CheckIfDue,
\* List::SortedInsert, Disk::active, Console::putBusy, the pollers).
THEOREM SpecInterruptsInOrder == Spec => []InterruptsInOrder
<1>1. TimeInv => InterruptsInOrder
  <2> SUFFICES ASSUME TimeInv, NEW n \in Node
               PROVE  /\ \A i, j \in 1..Len(pending[n]) :
                            i < j => pending[n][i].when <= pending[n][j].when
                      /\ (phase[n] = "run" /\ Due(n)) => OnlyTimer(n)
                      /\ n \in DiskNode => CountOf(n, "Disk") = IF active[n] THEN 1 ELSE 0
                      /\ n \in ConsoleNode =>
                            CountOf(n, "ConsoleWrite") = IF putBusy[n] THEN 1 ELSE 0
                      /\ CountOf(n, "ConsoleRead") = IF n \in ConsoleNode THEN 1 ELSE 0
                      /\ CountOf(n, "NetworkRecv") = IF n \in MailNode THEN 1 ELSE 0
    BY DEF InterruptsInOrder
  <2>1. Ordered(n) /\ DevicesTyped /\ pending[n] \in Seq(Item)
    BY DEF TimeInv, DevicesTyped
  <2>2. \A i, j \in 1..Len(pending[n]) : i < j => pending[n][i].when <= pending[n][j].when
    BY <2>1 DEF Ordered, Ascending
  <2>3. phase[n] = "run" /\ Due(n) => OnlyTimer(n)
    <3>1. Due(n) => DueIn(n)
      BY <2>1 DEF Due, DueIn, IsDue
    <3>2. JustTimer(pending[n]) => OnlyTimer(n)
      BY <2>1 DEF JustTimer, OnlyTimer
    <3>3. QED
      BY <2>1, <3>1, <3>2 DEF Ordered
  <2>4. \A t \in Watched(n) : CountOf(n, t) = IF Wanted(n, t) THEN 1 ELSE 0
    BY <2>1, Counts DEF Ordered, Matched, Counted
  <2>5. n \in DiskNode => CountOf(n, "Disk") = IF active[n] THEN 1 ELSE 0
    <3> SUFFICES ASSUME n \in DiskNode PROVE CountOf(n, "Disk") = IF active[n] THEN 1 ELSE 0
      OBVIOUS
    <3>1. "Disk" \in Watched(n) /\ (Wanted(n, "Disk") <=> active[n])
      BY <2>1 DEF Watched, Wanted, IntType, DevicesTyped
    <3>2. QED
      BY <2>4, <3>1
  <2>6. n \in ConsoleNode => CountOf(n, "ConsoleWrite") = IF putBusy[n] THEN 1 ELSE 0
    <3> SUFFICES ASSUME n \in ConsoleNode
                 PROVE  CountOf(n, "ConsoleWrite") = IF putBusy[n] THEN 1 ELSE 0
      OBVIOUS
    <3>1. "ConsoleWrite" \in Watched(n) /\ (Wanted(n, "ConsoleWrite") <=> putBusy[n])
      BY <2>1 DEF Watched, Wanted, IntType, DevicesTyped
    <3>2. QED
      BY <2>4, <3>1
  <2>7. /\ "ConsoleRead" \in Watched(n) /\ (Wanted(n, "ConsoleRead") <=> n \in ConsoleNode)
        /\ "NetworkRecv" \in Watched(n) /\ (Wanted(n, "NetworkRecv") <=> n \in MailNode)
    BY DEF Watched, Wanted, IntType
  <2>8. QED
    BY <2>2, <2>3, <2>4, <2>5, <2>6, <2>7
<1>2. QED
  BY <1>1, AlwaysTimeInv, PTL

-----------------------------------------------------------------------------
(***************************************************************************)
(* The disk and the threads that wait for it                               *)
(***************************************************************************)

\* While the disk is active, its interrupt comes when the sector has passed.
DiskServes(n) ==
    active[n] = TRUE =>
        \E x : Holding(pending[n], x) /\ x.type = "Disk" /\ Passed(job[n], x.when)

\* The step of one machine leaves the clock and the interrupts of another alone.
Still(m) ==
    /\ totalTicks'[m] = totalTicks[m] /\ pending'[m] = pending[m]
    /\ phase'[m] = phase[m] /\ value'[m] = value[m]

\* The clock of one machine is not moved by what another does.
LEMMA StillMachine ==
    ASSUME DevicesTyped, NEW n \in Node, NEW m \in Node \ {n}, MachineStep(n)
    PROVE  Still(m)
<1>1. CASE NothingDue(n)
  BY <1>1 DEF DevicesTyped, Still, NothingDue
<1>2. CASE TimerExpired(n)
  BY <1>2 DEF DevicesTyped, Still, TimerExpired
<1>3. CASE Idle(n)
  BY <1>3 DEF DevicesTyped, Still, Idle
<1>4. CASE YieldReturns(n)
  BY <1>4 DEF DevicesTyped, Still, YieldReturns, OneTick
<1>5. QED
  BY <1>1, <1>2, <1>3, <1>4 DEF MachineStep

\* Nor by the P of a thread.
LEMMA StillTicks ==
    ASSUME DevicesTyped, NEW n \in Node, NEW m \in Node \ {n}, NEW s, P(n, s)
    PROVE  Still(m)
BY DEF DevicesTyped, Still, P, OneTick

\* The disk of another machine and its users are as they were.
SameDisk(m) == active'[m] = active[m] /\ job'[m] = job[m] /\ uses'[m] = uses[m]

\* Nor by what its disk does.
LEMMA StillDisk ==
    ASSUME DevicesTyped, NEW n \in DiskNode, NEW m \in Node \ {n}, DiskStep(n)
    PROVE  Still(m) /\ (m \in DiskNode => SameDisk(m))
<1>1. n \in Node
  BY DevicesAssumption
<1>2. ASSUME NEW u \in DiskUser[n], DiskReturns(n, u)
      PROVE  Still(m) /\ (m \in DiskNode => SameDisk(m))
  <2>1. Still(m)
    BY <1>1, <1>2, StillTicks DEF DiskReturns
  <2>2. QED
    BY <1>2, <2>1 DEF DevicesTyped, DiskReturns, SameDisk
<1>3. ASSUME NEW u \in DiskUser[n], DiskFinishes(n, u) \/ DiskWorks(n, u)
      PROVE  Still(m) /\ (m \in DiskNode => SameDisk(m))
  BY <1>3
  DEF DevicesTyped, Still, SameDisk, DiskFinishes, DiskWorks, OneTick, machine, diskVars
<1>4. ASSUME HandleInterrupt(n)
      PROVE  Still(m) /\ (m \in DiskNode => SameDisk(m))
  BY <1>4 DEF DevicesTyped, Still, SameDisk, HandleInterrupt, RequestDone, V
<1>5. ASSUME NEW u \in DiskUser[n], NEW s, NEW writing, Request(n, u, s, writing)
      PROVE  Still(m) /\ (m \in DiskNode => SameDisk(m))
  BY <1>5 DEF DevicesTyped, Still, SameDisk, Request
<1>6. ASSUME RequestAsserts(n)
      PROVE  Still(m) /\ (m \in DiskNode => SameDisk(m))
  BY <1>6 DEF DevicesTyped, Still, SameDisk, RequestAsserts, Abort, diskVars
<1>7. QED
  BY <1>2, <1>3, <1>4, <1>5, <1>6 DEF DiskStep, DiskStarts

\* Nor by its console.
LEMMA StillConsole ==
    ASSUME DevicesTyped, NEW n \in ConsoleNode, NEW m \in Node \ {n}, ConsoleStep(n)
    PROVE  Still(m)
<1>1. n \in Node
  BY DevicesAssumption
<1>2. CASE EchoReads(n) \/ EchoWritten(n)
  BY <1>1, <1>2, StillTicks DEF EchoReads, EchoWritten
<1>3. CASE EchoPuts(n)
  BY <1>3 DEF DevicesTyped, Still, EchoPuts, Abort
<1>4. CASE CheckCharNone(n)
  BY <1>4 DEF DevicesTyped, Still, CheckCharNone
<1>5. CASE CheckCharAvail(n)
  BY <1>5 DEF DevicesTyped, Still, CheckCharAvail, V
<1>6. CASE WriteDone(n)
  BY <1>6 DEF DevicesTyped, Still, WriteDone, V
<1>7. QED
  BY <1>2, <1>3, <1>4, <1>5, <1>6 DEF ConsoleStep

\* Nor by its network and its mail.
LEMMA StillMail ==
    ASSUME DevicesTyped, NEW n \in MailNode, NEW m \in Node \ {n}, MailStep(n)
    PROVE  Still(m)
<1>1. n \in Node
  BY DevicesAssumption
<1>2. CASE MailSent(n) \/ WorkerWakes(n)
  BY <1>1, <1>2, StillTicks DEF MailSent, WorkerWakes
<1>3. ASSUME NEW packet, NEW to, Send(n, packet, to) PROVE Still(m)
  BY <1>3 DEF DevicesTyped, Still, Send
<1>4. CASE MailSends(n)
  <2>1. \E packet, to : Send(n, packet, to)
    BY <1>4 DEF MailSends
  <2>2. QED
    BY <1>3, <2>1
<1>5. CASE MailAcks(n)
  <2>1. \E packet, to : Send(n, packet, to)
    BY <1>5 DEF MailAcks
  <2>2. QED
    BY <1>3, <2>1
<1>6. ASSUME NEW box, NEW next, Receive(n, box, next) PROVE Still(m)
  BY <1>6 DEF DevicesTyped, Still, Receive, Wait, Abort, machine
<1>7. CASE MailReceives(n) \/ MailAwaits(n)
  BY <1>6, <1>7 DEF MailReceives, MailAwaits
<1>8. CASE MailHalts(n)
  BY <1>8 DEF DevicesTyped, Still, MailHalts, Halt
<1>9. CASE WorkerPuts(n)
  BY <1>9 DEF Still, WorkerPuts, machine
<1>10. CASE CheckPktNone(n)
  BY <1>10 DEF DevicesTyped, Still, CheckPktNone
<1>11. CASE CheckPktAvail(n)
  BY <1>11 DEF DevicesTyped, Still, CheckPktAvail, IncomingPacket, V
<1>12. CASE SendDone(n)
  BY <1>12 DEF DevicesTyped, Still, SendDone, PacketSent, V
<1>13. QED
  BY <1>2, <1>4, <1>5, <1>7, <1>8, <1>9, <1>10, <1>11, <1>12 DEF MailStep

\* What other steps than the disk's may do to a machine.
Served(n) ==
    /\ SameDisk(n)
    /\ value'[n]["disk"] = value[n]["disk"]
    /\ \A x : Holding(pending[n], x) /\ x.type = "Disk" => Holding(pending'[n], x)

\* As many threads wait as the disk will still answer, and has answered.
Asking(n) == {u \in DiskUser[n] : uses[n][u] = "P"}
Answered(n) == Cardinality(Asking(n)) = value[n]["disk"] + (IF active[n] = TRUE THEN 1 ELSE 0)

DiskGood(n) == DiskServes(n) /\ Answered(n)

\* They leave the disk as it is.
LEMMA ServedKeeps ==
    ASSUME NEW n \in DiskNode, DiskGood(n), Served(n)
    PROVE  DiskGood(n)'
<1>1. active'[n] = active[n] /\ job'[n] = job[n] /\ uses'[n] = uses[n]
  BY DEF Served, SameDisk
<1>2. Asking(n)' = Asking(n)
  BY <1>1 DEF Asking
<1>3. Answered(n)'
  BY <1>1, <1>2 DEF DiskGood, Answered, Served
<1>4. ASSUME active'[n] = TRUE
      PROVE  \E x : Holding(pending'[n], x) /\ x.type = "Disk" /\ Passed(job'[n], x.when)
  <2>1. PICK x : Holding(pending[n], x) /\ x.type = "Disk" /\ Passed(job[n], x.when)
    BY <1>1, <1>4 DEF DiskGood, DiskServes
  <2>2. QED
    BY <1>1, <2>1 DEF Served
<1>5. DiskServes(n)'
  BY <1>4 DEF DiskServes, Passed, HeadAt, Holding
<1>6. QED
  BY <1>3, <1>5 DEF DiskGood

\* Asking threads are few.
LEMMA FewAsk ==
    ASSUME NEW n \in DiskNode
    PROVE  IsFiniteSet(Asking(n)) /\ Cardinality(Asking(n)) \in Nat
BY DiskAssumption, FS_Subset, FS_CardinalityType DEF Asking

\* A request is made: one thread more waits, and the interrupt that is scheduled
\* comes when the sector has passed.
LEMMA RequestServes ==
    ASSUME TimeInv, NEW n \in DiskNode, DiskGood(n), NEW u \in DiskUser[n], uses[n][u] = "work",
           NEW s \in Sector, NEW writing \in BOOLEAN, Request(n, u, s, writing)
    PROVE  DiskGood(n)'
<1>1. DevicesTyped /\ n \in Node
  BY DevicesAssumption DEF TimeInv
<1>2. PICK r : r = Requested(n, u, s, writing)
  OBVIOUS
<1>3. PICK list \in Seq(Item), now \in Nat : list = pending[n] /\ now = totalTicks[n]
  BY <1>1 DEF DevicesTyped
<1>4. /\ totalTicks[n] \in Nat /\ lastSector[n] \in Nat
      /\ \E b \in Nat : bufferInit[n] = b * RotationTime
  BY <1>1 DEF DevicesTyped
<1>5. PICK latency \in Nat \ {0} :
          latency = ComputeLatency(n, s, writing) /\ Passed(r, now + latency)
  BY <1>2, <1>3, <1>4, Latency
<1>6. /\ active'[n] = TRUE /\ ~(active[n] = TRUE)
      /\ job'[n] = r /\ value' = value
      /\ pending'[n] = Schedule(list, now, latency, "Disk")
  BY <1>1, <1>2, <1>3, <1>5 DEF Request, Requested, DevicesTyped
<1>7. DiskServes(n)'
  <2>1. PICK x : x = [when |-> now + latency, type |-> "Disk"]
    OBVIOUS
  <2>2. "Disk" \in IntType
    BY DEF IntType
  <2>3. PICK l : l = Schedule(list, now, latency, "Disk")
    OBVIOUS
  <2>4. \A y : Holding(l, y) <=> (y = [when |-> now + latency, type |-> "Disk"] \/ Holding(list, y))
    BY <2>2, <2>3, Scheduled
  <2>5. Holding(pending'[n], x)
    BY <1>6, <2>1, <2>3, <2>4
  <2>6. x.type = "Disk" /\ Passed(job'[n], x.when)
    BY <1>5, <1>6, <2>1
  <2>7. QED
    BY <2>5, <2>6 DEF DiskServes, Passed, HeadAt, Holding
<1>8. u \notin Asking(n) /\ Asking(n)' = Asking(n) \cup {u}
  <2>1. /\ uses'[n][u] = "P"
        /\ \A v \in DiskUser[n] : v # u => uses'[n][v] = uses[n][v]
    BY <1>1 DEF Request, DevicesTyped
  <2>2. QED
    BY <2>1 DEF Asking
<1>9. Cardinality(Asking(n)') = Cardinality(Asking(n)) + 1
  BY <1>8, FewAsk, FS_AddElement
<1>10. Answered(n)'
  <2>1. value[n]["disk"] \in Nat /\ Cardinality(Asking(n)) = value[n]["disk"] + 0
    BY <1>1, <1>6 DEF DevicesTyped, SemName, DiskGood, Answered
  <2>2. Cardinality(Asking(n)') = value'[n]["disk"] + 1
    BY <1>6, <1>9, <2>1
  <2>3. QED
    BY <1>6, <2>2 DEF Answered
<1>11. QED
  BY <1>7, <1>10 DEF DiskGood

\* A thread comes back: one waits less.
LEMMA ReturnServes ==
    ASSUME TimeInv, NEW n \in DiskNode, DiskGood(n), NEW u \in DiskUser[n],
           DiskReturns(n, u)
    PROVE  DiskGood(n)'
<1>1. DevicesTyped /\ n \in Node
  BY DevicesAssumption DEF TimeInv
<1>2. /\ active' = active /\ job' = job /\ pending' = pending /\ uses[n][u] = "P"
      /\ value[n]["disk"] > 0 /\ value' = [value EXCEPT ![n]["disk"] = value[n]["disk"] - 1]
      /\ uses' = [uses EXCEPT ![n][u] = "work"]
  BY DEF DiskReturns, P
<1>3. value[n]["disk"] \in Nat /\ value'[n]["disk"] = value[n]["disk"] - 1
  <2>1. value[n] \in [SemName -> Nat] /\ "disk" \in SemName
    BY <1>1 DEF DevicesTyped, SemName
  <2>2. value'[n] = [value[n] EXCEPT !["disk"] = value[n]["disk"] - 1]
    BY <1>1, <1>2 DEF DevicesTyped
  <2>3. QED
    BY <2>1, <2>2
<1>4. u \in Asking(n) /\ Asking(n)' = Asking(n) \ {u}
  <2>1. /\ uses'[n][u] = "work"
        /\ \A v \in DiskUser[n] : v # u => uses'[n][v] = uses[n][v]
    BY <1>1, <1>2 DEF DevicesTyped
  <2>2. QED
    BY <1>2, <2>1 DEF Asking
<1>5. Cardinality(Asking(n)') = Cardinality(Asking(n)) - 1
  BY <1>4, FewAsk, FS_RemoveElement
<1>6. Answered(n)'
  <2>1. Cardinality(Asking(n)) = value[n]["disk"] + (IF active[n] = TRUE THEN 1 ELSE 0)
    BY DEF DiskGood, Answered
  <2>2. Cardinality(Asking(n)') = value'[n]["disk"] + (IF active'[n] = TRUE THEN 1 ELSE 0)
    BY <1>2, <1>3, <1>5, <2>1
  <2>3. QED
    BY <2>2 DEF Answered
<1>7. DiskServes(n)'
  BY <1>2 DEF DiskGood, DiskServes, Passed, HeadAt, Holding
<1>8. QED
  BY <1>6, <1>7 DEF DiskGood

\* The interrupt comes: the disk has answered.
LEMMA InterruptServes ==
    ASSUME TimeInv, NEW n \in DiskNode, DiskGood(n), HandleInterrupt(n)
    PROVE  DiskGood(n)'
<1>1. DevicesTyped /\ n \in Node /\ Ordered(n)
  BY DevicesAssumption DEF TimeInv
<1>2. active[n] = TRUE
  <2>1. PICK list \in Seq(Item) : list = pending[n]
    BY <1>1 DEF DevicesTyped
  <2>2. list # << >> /\ list[1].type = "Disk"
    BY <2>1 DEF HandleInterrupt, Fires, Due
  <2>3. ~None(list, "Disk")
    BY <2>2 DEF None
  <2>4. "Disk" \in Watched(n)
    BY DEF Watched, IntType
  <2>5. Counted(list, "Disk", Wanted(n, "Disk"))
    BY <1>1, <2>1, <2>4 DEF Ordered, Matched
  <2>6. QED
    BY <2>3, <2>5 DEF Counted, Wanted
<1>3. value[n]["disk"] \in Nat /\ value'[n]["disk"] = value[n]["disk"] + 1
  <2>1. value[n] \in [SemName -> Nat] /\ "disk" \in SemName
    BY <1>1 DEF DevicesTyped, SemName
  <2>2. value'[n] = [value[n] EXCEPT !["disk"] = value[n]["disk"] + 1]
    BY <1>1 DEF HandleInterrupt, RequestDone, V, DevicesTyped
  <2>3. QED
    BY <2>1, <2>2
<1>4. active'[n] = FALSE /\ Asking(n)' = Asking(n)
  BY <1>1 DEF HandleInterrupt, DevicesTyped, Asking
<1>5. Answered(n)'
  <2>1. Cardinality(Asking(n)) = value[n]["disk"] + 1
    BY <1>2 DEF DiskGood, Answered
  <2>2. Cardinality(Asking(n)') = value'[n]["disk"] + 0
    BY <1>3, <1>4, <2>1
  <2>3. ~(active'[n] = TRUE)
    BY <1>4
  <2>4. QED
    BY <2>2, <2>3 DEF Answered
<1>6. DiskServes(n)'
  BY <1>4 DEF DiskServes
<1>7. QED
  BY <1>5, <1>6 DEF DiskGood

\* What the disk and its threads do.
LEMMA DiskStepServes ==
    ASSUME TimeInv, NEW n \in DiskNode, DiskGood(n), DiskStep(n)
    PROVE  DiskGood(n)'
<1>1. DevicesTyped /\ n \in Node
  BY DevicesAssumption DEF TimeInv
<1>2. ASSUME NEW u \in DiskUser[n], DiskStarts(n, u) PROVE DiskGood(n)'
  <2>1. CASE RequestAsserts(n)
    <3>1. SameDisk(n) /\ value' = value /\ pending' = pending
      BY <2>1 DEF RequestAsserts, Abort, diskVars, SameDisk
    <3>2. Served(n)
      BY <3>1 DEF Served
    <3>3. QED
      BY <3>2, ServedKeeps
  <2>2. ASSUME NEW s \in Sector, NEW writing \in BOOLEAN, Request(n, u, s, writing)
        PROVE  DiskGood(n)'
    BY <1>2, <2>2, RequestServes DEF DiskStarts
  <2>3. QED
    BY <1>2, <2>1, <2>2 DEF DiskStarts
<1>3. ASSUME NEW u \in DiskUser[n], DiskWorks(n, u) PROVE DiskGood(n)'
  <2>1. SameDisk(n) /\ value' = value /\ pending' = pending
    BY <1>3 DEF DiskWorks, diskVars, SameDisk
  <2>2. QED
    BY <2>1, ServedKeeps DEF Served
<1>4. ASSUME NEW u \in DiskUser[n], DiskFinishes(n, u) PROVE DiskGood(n)'
  <2>1. /\ active' = active /\ job' = job /\ value' = value /\ pending' = pending
        /\ uses[n][u] = "work" /\ uses'[n][u] = "done"
        /\ \A v \in DiskUser[n] : v # u => uses'[n][v] = uses[n][v]
    BY <1>1, <1>4 DEF DiskFinishes, machine, DevicesTyped
  <2>2. Asking(n)' = Asking(n)
    BY <2>1 DEF Asking
  <2>3. QED
    BY <2>1, <2>2 DEF DiskGood, Answered, DiskServes, Passed, HeadAt, Holding
<1>5. QED
  BY <1>2, <1>3, <1>4, ReturnServes, InterruptServes DEF DiskStep

\* Adding an interrupt, or taking one that is not the disk's, leaves the disk's
\* interrupt in the list.
LEMMA KeptAdding ==
    ASSUME DevicesTyped, NEW n \in Node, NEW fromNow \in Nat \ {0}, NEW type \in IntType,
           NEW x, Holding(pending[n], x)
    PROVE  Holding(Schedule(pending[n], totalTicks[n], fromNow, type), x)
<1>1. PICK list \in Seq(Item), now \in Nat : list = pending[n] /\ now = totalTicks[n]
  BY DEF DevicesTyped
<1>2. PICK r : r = Schedule(list, now, fromNow, type)
  OBVIOUS
<1>3. \A y : Holding(r, y) <=> (y = [when |-> now + fromNow, type |-> type] \/ Holding(list, y))
  BY <1>2, Scheduled
<1>4. QED
  BY <1>1, <1>2, <1>3

\* The same when the head of the list, of another type than the disk's, fires.
LEMMA KeptFiring ==
    ASSUME DevicesTyped, NEW n \in Node, NEW type, type # "Disk", Fires(n, type),
           NEW x, Holding(pending[n], x), x.type = "Disk"
    PROVE  /\ Holding(Rest(n), x)
           /\ \A fromNow \in Nat \ {0} : \A t \in IntType :
                 Holding(Schedule(Rest(n), totalTicks[n], fromNow, t), x)
<1>1. PICK list \in Seq(Item), now \in Nat : list = pending[n] /\ now = totalTicks[n]
  BY DEF DevicesTyped
<1>2. list # << >> /\ list[1].type = type
  BY <1>1 DEF Fires, Due
<1>3. PICK rest : rest = Tail(list)
  OBVIOUS
<1>4. rest \in Seq(Item) /\ (Holding(list, x) => x = list[1] \/ Holding(rest, x))
  BY <1>2, <1>3, Removed
<1>5. Holding(rest, x)
  BY <1>1, <1>2, <1>4
<1>6. ASSUME NEW fromNow \in Nat \ {0}, NEW t \in IntType
      PROVE  Holding(Schedule(rest, now, fromNow, t), x)
  <2>1. PICK r : r = Schedule(rest, now, fromNow, t)
    OBVIOUS
  <2>2. \A y : Holding(r, y) <=> (y = [when |-> now + fromNow, type |-> t] \/ Holding(rest, y))
    BY <1>4, <2>1, Scheduled
  <2>3. QED
    BY <1>5, <2>1, <2>2
<1>7. QED
  BY <1>1, <1>3, <1>5, <1>6 DEF Rest

\* P and V of another semaphore than the disk's.
LEMMA OtherSemaphore ==
    ASSUME DevicesTyped, NEW n \in Node, NEW s \in SemName, s # "disk", P(n, s) \/ V(n, s)
    PROVE  value'[n]["disk"] = value[n]["disk"]
<1>1. value[n] \in [SemName -> Nat] /\ "disk" \in SemName
  BY DEF DevicesTyped, SemName
<1>2. \E c : value'[n] = [value[n] EXCEPT ![s] = c]
  BY DEF DevicesTyped, P, V
<1>3. QED
  BY <1>1, <1>2

\* What the console of the machine does.
LEMMA ConsoleServes ==
    ASSUME TimeInv, NEW n \in DiskNode \cap ConsoleNode, DiskGood(n), ConsoleStep(n)
    PROVE  DiskGood(n)'
<1>1. DevicesTyped /\ n \in Node /\ n \in DiskNode
  BY DevicesAssumption DEF TimeInv
<1>2. SameDisk(n)
  BY DEF ConsoleStep, diskVars, SameDisk
<1>4. /\ "readAvail" \in SemName \ {"disk"} /\ "writeDone" \in SemName \ {"disk"}
      /\ "ConsoleRead" \in IntType \ {"Disk"} /\ "ConsoleWrite" \in IntType \ {"Disk"}
      /\ ConsoleTime \in Nat \ {0}
  BY ConsoleAssumption DEF SemName, IntType
<1>5. ASSUME value'[n]["disk"] = value[n]["disk"],
             \A x : Holding(pending[n], x) /\ x.type = "Disk" => Holding(pending'[n], x)
      PROVE  DiskGood(n)'
  BY <1>1, <1>2, <1>5, ServedKeeps DEF Served
<1>6. CASE EchoReads(n) \/ EchoWritten(n)
  <2>1. P(n, "readAvail") \/ P(n, "writeDone")
    BY <1>6 DEF EchoReads, EchoWritten
  <2>2. value'[n]["disk"] = value[n]["disk"]
    BY <1>1, <1>4, <2>1, OtherSemaphore
  <2>3. QED
    BY <1>5, <2>1, <2>2 DEF P
<1>7. CASE EchoPuts(n)
  <2>1. \/ pending' = pending
        \/ pending'[n] = Schedule(pending[n], totalTicks[n], ConsoleTime, "ConsoleWrite")
    BY <1>1, <1>7 DEF EchoPuts, Abort, DevicesTyped
  <2>2. value' = value
    BY <1>7 DEF EchoPuts, Abort
  <2>3. QED
    BY <1>1, <1>4, <1>5, <2>1, <2>2, KeptAdding
<1>8. CASE CheckCharNone(n) \/ CheckCharAvail(n)
  <2>1. /\ Fires(n, "ConsoleRead")
        /\ pending'[n] = Schedule(Rest(n), totalTicks[n], ConsoleTime, "ConsoleRead")
        /\ value' = value \/ V(n, "readAvail")
    BY <1>1, <1>8 DEF CheckCharNone, CheckCharAvail, Polled, DevicesTyped
  <2>2. value'[n]["disk"] = value[n]["disk"]
    BY <1>1, <1>4, <2>1, OtherSemaphore
  <2>3. QED
    BY <1>1, <1>4, <1>5, <2>1, <2>2, KeptFiring
<1>9. CASE WriteDone(n)
  <2>1. /\ Fires(n, "ConsoleWrite") /\ pending'[n] = Rest(n) /\ V(n, "writeDone")
    BY <1>1, <1>9 DEF WriteDone, DevicesTyped
  <2>2. value'[n]["disk"] = value[n]["disk"]
    BY <1>1, <1>4, <2>1, OtherSemaphore
  <2>3. QED
    BY <1>1, <1>4, <1>5, <2>1, <2>2, KeptFiring
<1>10. QED
  BY <1>6, <1>7, <1>8, <1>9 DEF ConsoleStep

\* What the clock of the machine does.
LEMMA MachineServes ==
    ASSUME TimeInv, NEW n \in DiskNode, DiskGood(n), MachineStep(n)
    PROVE  DiskGood(n)'
<1>1. DevicesTyped /\ n \in Node
  BY DevicesAssumption DEF TimeInv
<1>2. SameDisk(n)
  BY DEF MachineStep, diskVars, SameDisk
<1>3. CASE NothingDue(n)
  <2>1. value' = value /\ pending' = pending
    BY <1>3 DEF NothingDue
  <2>2. QED
    BY <1>2, <2>1, ServedKeeps DEF Served
<1>4. CASE TimerExpired(n)
  <2>1. PICK delay \in TimerDelays :
            /\ Fires(n, "Timer") /\ value' = value
            /\ pending'[n] = Schedule(Rest(n), totalTicks[n], delay, "Timer")
    BY <1>1, <1>4 DEF TimerExpired, DevicesTyped
  <2>2. delay \in Nat \ {0} /\ "Timer" \in IntType
    BY InterruptsAssumption DEF IntType
  <2>3. \A x : Holding(pending[n], x) /\ x.type = "Disk" => Holding(pending'[n], x)
    BY <1>1, <2>1, <2>2, KeptFiring
  <2>4. QED
    BY <1>2, <2>1, <2>3, ServedKeeps DEF Served
<1>5. CASE AllWait(n) /\ Idle(n)
  <2>1. value' = value /\ pending' = pending
    BY <1>5 DEF Idle
  <2>2. QED
    BY <1>2, <2>1, ServedKeeps DEF Served
<1>6. CASE YieldReturns(n)
  <2>1. value' = value /\ pending' = pending
    BY <1>6 DEF YieldReturns
  <2>2. QED
    BY <1>2, <2>1, ServedKeeps DEF Served
<1>7. QED
  BY <1>3, <1>4, <1>5, <1>6 DEF MachineStep

\* Another machine moves.
LEMMA StillServes ==
    ASSUME NEW n \in DiskNode, DiskGood(n), Still(n), SameDisk(n)
    PROVE  DiskGood(n)'
BY ServedKeeps DEF Served, Still

\* The disks of all machines.
DiskInv == \A n \in DiskNode : DiskGood(n)

\* When the machines are switched on, no thread waits.
LEMMA InitDiskInv == Init => DiskInv
<1> SUFFICES ASSUME Init, NEW n \in DiskNode PROVE DiskGood(n)
  BY DEF DiskInv
<1>1. /\ active[n] = FALSE /\ \A u \in DiskUser[n] : uses[n][u] = "work"
      /\ value[n]["disk"] = 0
  BY DevicesAssumption DEF Init, DiskInit, SemName
<1>2. Asking(n) = {} /\ Cardinality({}) = 0
  BY <1>1, FS_EmptySet DEF Asking
<1>3. ~(active[n] = TRUE)
  BY <1>1
<1>4. QED
  BY <1>1, <1>2, <1>3 DEF DiskGood, DiskServes, Answered

\* Every step keeps the disks in that state.
LEMMA StepDiskInv == TimeInv /\ DiskInv /\ [Next]_vars => DiskInv'
<1> SUFFICES ASSUME TimeInv, DiskInv, [Next]_vars, NEW m \in DiskNode
             PROVE  DiskGood(m)'
  BY DEF DiskInv
<1>1. DevicesTyped /\ m \in Node /\ DiskGood(m)
  BY DevicesAssumption DEF TimeInv, DiskInv
<1>2. ASSUME NEW n \in DiskNode, DiskStep(n) PROVE DiskGood(m)'
  <2>1. CASE n = m
    BY <1>1, <1>2, <2>1, DiskStepServes
  <2>2. CASE n # m
    <3>1. Still(m) /\ SameDisk(m)
      BY <1>1, <1>2, <2>2, StillDisk
    <3>2. QED
      BY <1>1, <3>1, StillServes
  <2>3. QED
    BY <2>1, <2>2
<1>3. ASSUME NEW n \in ConsoleNode, ConsoleStep(n) PROVE DiskGood(m)'
  <2>1. CASE n = m
    BY <1>1, <1>3, <2>1, ConsoleServes
  <2>2. CASE n # m
    <3>1. n \in Node /\ SameDisk(m)
      BY <1>3, DevicesAssumption DEF ConsoleStep, diskVars, SameDisk
    <3>2. Still(m)
      BY <1>1, <1>3, <2>2, StillConsole
    <3>3. QED
      BY <1>1, <3>1, <3>2, StillServes
  <2>3. QED
    BY <2>1, <2>2
<1>4. ASSUME NEW n \in MailNode, MailStep(n) PROVE DiskGood(m)'
  <2>1. m # n /\ SameDisk(m)
    BY <1>4, DevicesAssumption DEF MailStep, diskVars, SameDisk
  <2>2. Still(m)
    BY <1>1, <1>4, <2>1, StillMail
  <2>3. QED
    BY <1>1, <2>1, <2>2, StillServes
<1>5. ASSUME NEW n \in Node, MachineStep(n) PROVE DiskGood(m)'
  <2>1. CASE n = m
    BY <1>1, <1>5, <2>1, MachineServes
  <2>2. CASE n # m
    <3>1. Still(m)
      BY <1>1, <1>5, <2>2, StillMachine
    <3>2. SameDisk(m)
      BY <1>5 DEF MachineStep, diskVars, SameDisk
    <3>3. QED
      BY <1>1, <3>1, <3>2, StillServes
  <2>3. QED
    BY <2>1, <2>2
<1>6. CASE UNCHANGED vars
  <2>1. Still(m) /\ SameDisk(m)
    BY <1>6 DEF vars, machine, diskVars, Still, SameDisk
  <2>2. QED
    BY <1>1, <2>1, StillServes
<1>7. QED
  BY <1>2, <1>3, <1>4, <1>5, <1>6 DEF Next

\* A request ends when the sector has just passed the head completely, at the
\* first such time after the seek; a read that the track buffer serves is for a
\* sector that has passed since the buffer began to fill (Disk::ComputeLatency,
\* UpdateLast).
THEOREM SpecHeadPassesSector == Spec => []HeadPassesSector
<1>1. TimeInv /\ DiskInv => HeadPassesSector
  <2> SUFFICES ASSUME TimeInv, DiskInv, NEW n \in DiskNode, active[n]
               PROVE  Passed(job[n],
                             pending[n][CHOOSE i \in 1..Len(pending[n]) :
                                           pending[n][i].type = "Disk"].when)
    BY DEF HeadPassesSector, Passed
  <2>1. active[n] = TRUE /\ Ordered(n)
    BY DevicesAssumption DEF TimeInv, DevicesTyped
  <2>2. PICK list : list = pending[n]
    OBVIOUS
  <2>3. PICK x : Holding(list, x) /\ x.type = "Disk" /\ Passed(job[n], x.when)
    BY <2>1, <2>2 DEF DiskInv, DiskGood, DiskServes
  <2>4. Once(list, "Disk")
    BY <2>1, <2>2 DEF Ordered, Matched, Counted, Watched, Wanted, IntType
  <2>5. PICK j \in 1..Len(list) : list[j] = x
    BY <2>3 DEF Holding
  <2>6. PICK i : i = CHOOSE k \in 1..Len(list) : list[k].type = "Disk"
    OBVIOUS
  <2>7. i \in 1..Len(list) /\ list[i].type = "Disk"
    BY <2>3, <2>5, <2>6
  <2>8. i = j
    BY <2>3, <2>4, <2>5, <2>7 DEF Once
  <2>9. QED
    BY <2>2, <2>3, <2>5, <2>6, <2>8
<1>2. QED
  BY <1>1, AlwaysTimeInv, InitDiskInv, StepDiskInv, PTL DEF Spec

\* As many threads wait in SynchDisk as interrupts have come, and will come, for
\* them: although the Lock keeps nobody out and any of them may take the unit of
\* another, each accepted request lets one thread return (SynchDisk::ReadSector,
\* WriteSector, RequestDone).
THEOREM SpecEveryRequestIsAnswered == Spec => []EveryRequestIsAnswered
<1>1. TimeInv /\ DiskInv => EveryRequestIsAnswered
  <2> SUFFICES ASSUME TimeInv, DiskInv, NEW n \in DiskNode
               PROVE  Cardinality({u \in DiskUser[n] : uses[n][u] = "P"})
                        = value[n]["disk"] + (IF active[n] THEN 1 ELSE 0)
    BY DEF EveryRequestIsAnswered
  <2>1. Answered(n) /\ active[n] \in BOOLEAN
    BY DEF DiskInv, DiskGood, TimeInv, DevicesTyped
  <2>2. QED
    BY <2>1 DEF Answered, Asking
<1>2. QED
  BY <1>1, AlwaysTimeInv, InitDiskInv, StepDiskInv, PTL DEF Spec

-----------------------------------------------------------------------------
(***************************************************************************)
(* The console and the thread that echoes                                  *)
(***************************************************************************)
EchoTyped ==
    /\ incoming \in [ConsoleNode -> Range(Typed) \cup {EOF}]
    /\ taken \in [ConsoleNode -> 0..Len(Typed)]
    /\ display \in [ConsoleNode -> Seq(Range(Typed))]
    /\ echo \in [ConsoleNode -> {"read", "put", "written", "done"}]

Buffer(n) == IF incoming[n] = EOF THEN << >> ELSE <<incoming[n]>>

\* The semaphores and the flags of the device say where the thread is, and what
\* was typed is on the display or in the buffer.
Echoing(n) ==
    /\ value[n]["readAvail"] \in {0, 1} /\ value[n]["writeDone"] \in {0, 1}
    /\ value[n]["readAvail"] = 1 => incoming[n] # EOF /\ echo[n] # "put"
    /\ echo[n] = "put" => incoming[n] # EOF
    /\ value[n]["writeDone"] = 1 => echo[n] = "written" /\ ~(putBusy[n] = TRUE)
    /\ putBusy[n] = TRUE => echo[n] = "written"
    /\ SubSeq(Typed, 1, taken[n]) = display[n] \o Buffer(n)

EchoInv == EchoTyped /\ \A n \in ConsoleNode : Echoing(n)

\* What was typed with one character more.
LEMMA TypedMore ==
    ASSUME NEW k \in 0..(Len(Typed) - 1)
    PROVE  /\ SubSeq(Typed, 1, k + 1) = SubSeq(Typed, 1, k) \o <<Typed[k + 1]>>
           /\ Typed[k + 1] \in Range(Typed) /\ Typed[k + 1] # EOF
<1>1. PICK T : T = Range(Typed)
  OBVIOUS
<1>2. Typed \in Seq(T) /\ EOF \notin T /\ Len(Typed) \in Nat
  BY <1>1, ConsoleAssumption
<1>3. PICK j : j = k + 1
  OBVIOUS
<1>4. j \in 1..Len(Typed) /\ 1 \in 1..Len(Typed) /\ j - 1 = k
  BY <1>2, <1>3
<1>5. SubSeq(Typed, 1, j) = SubSeq(Typed, 1, j - 1) \o <<Typed[j]>>
  BY <1>2, <1>4, SubSeqRecursiveSecond
<1>6. Typed[j] \in T
  BY <1>2, <1>4
<1>7. QED
  BY <1>1, <1>2, <1>3, <1>4, <1>5, <1>6

\* A step that leaves the console of the machine alone.
LEMMA EchoKeeps ==
    ASSUME NEW n \in ConsoleNode, Echoing(n),
           incoming'[n] = incoming[n], putBusy'[n] = putBusy[n], taken'[n] = taken[n],
           display'[n] = display[n], echo'[n] = echo[n],
           value'[n]["readAvail"] = value[n]["readAvail"],
           value'[n]["writeDone"] = value[n]["writeDone"]
    PROVE  Echoing(n)'
<1>1. Buffer(n)' = Buffer(n)
  BY DEF Buffer
<1>2. QED
  BY <1>1 DEF Echoing

\* One semaphore of the machine is counted down or up, the others are not.
LEMMA OneDown ==
    ASSUME DevicesTyped, NEW n \in Node, NEW s \in SemName, P(n, s)
    PROVE  /\ value[n][s] \in Nat /\ value[n][s] > 0 /\ value'[n][s] = value[n][s] - 1
           /\ \A t \in SemName : t # s => value'[n][t] = value[n][t]
<1>1. value[n] \in [SemName -> Nat] /\ value'[n] = [value[n] EXCEPT ![s] = value[n][s] - 1]
  BY DEF DevicesTyped, P
<1>2. QED
  BY <1>1 DEF P

\* The same of V.
LEMMA OneUp ==
    ASSUME DevicesTyped, NEW n \in Node, NEW s \in SemName, V(n, s)
    PROVE  /\ value'[n][s] = value[n][s] + 1
           /\ \A t \in SemName : t # s => value'[n][t] = value[n][t]
<1>1. value[n] \in [SemName -> Nat] /\ value'[n] = [value[n] EXCEPT ![s] = value[n][s] + 1]
  BY DEF DevicesTyped, V
<1>2. QED
  BY <1>1

\* What the console and its thread do.
LEMMA ConsoleEchoes ==
    ASSUME TimeInv, EchoTyped, NEW n \in ConsoleNode, Echoing(n), ConsoleStep(n)
    PROVE  EchoTyped' /\ Echoing(n)'
<1>1. DevicesTyped /\ n \in Node /\ Ordered(n)
  BY DevicesAssumption DEF TimeInv
<1>2. "readAvail" \in SemName /\ "writeDone" \in SemName /\ "readAvail" # "writeDone"
  BY DEF SemName
<1>3. PICK T : T = Range(Typed)
  OBVIOUS
<1>4. /\ incoming[n] \in T \cup {EOF} /\ taken[n] \in 0..Len(Typed) /\ display[n] \in Seq(T)
      /\ Typed \in Seq(T) /\ EOF \notin T /\ Len(Typed) \in Nat
  BY <1>3, ConsoleAssumption DEF EchoTyped
<1>5. CASE EchoReads(n)
  <2>1. /\ echo[n] = "read" /\ P(n, "readAvail")
        /\ UNCHANGED <<incoming, putBusy, taken, display>>
        /\ echo' = [echo EXCEPT ![n] = "put"]
    BY <1>5 DEF EchoReads
  <2>2. echo'[n] = "put" /\ EchoTyped'
    BY <2>1 DEF EchoTyped
  <2>3. /\ value[n]["readAvail"] \in Nat /\ value[n]["readAvail"] > 0
        /\ value'[n]["readAvail"] = value[n]["readAvail"] - 1
        /\ value'[n]["writeDone"] = value[n]["writeDone"]
    BY <1>1, <1>2, <2>1, OneDown
  <2>4. /\ value[n]["readAvail"] \in {0, 1} /\ value[n]["writeDone"] \in {0, 1}
        /\ value[n]["writeDone"] # 1 /\ ~(putBusy[n] = TRUE)
        /\ value[n]["readAvail"] = 1 => incoming[n] # EOF
        /\ SubSeq(Typed, 1, taken[n]) = display[n] \o Buffer(n)
    BY <2>1 DEF Echoing
  <2>5. value[n]["readAvail"] = 1 /\ value'[n]["readAvail"] = 0
    BY <2>3, <2>4
  <2>6. Buffer(n)' = Buffer(n)
    BY <2>1 DEF Buffer
  <2>7. QED
    BY <2>1, <2>2, <2>3, <2>4, <2>5, <2>6 DEF Echoing
<1>6. CASE EchoPuts(n)
  <2>1. /\ value[n]["readAvail"] = 0 /\ value[n]["writeDone"] = 0 /\ ~(putBusy[n] = TRUE)
        /\ incoming[n] # EOF
        /\ SubSeq(Typed, 1, taken[n]) = display[n] \o Buffer(n)
    BY <1>6 DEF Echoing, EchoPuts
  <2>2. putBusy[n] = FALSE
    BY <1>1, <2>1 DEF DevicesTyped
  <2>3. /\ echo' = [echo EXCEPT ![n] = "written"] /\ incoming' = [incoming EXCEPT ![n] = EOF]
        /\ display' = [display EXCEPT ![n] = Append(display[n], incoming[n])]
        /\ value' = value /\ phase' = phase /\ taken' = taken
    BY <1>6, <2>2 DEF EchoPuts, WriteFile
  <2>4. PICK i \in T : i = incoming[n]
    BY <1>4, <2>1
  <2>5. PICK d \in Seq(T) : d = display[n]
    BY <1>4
  <2>6. PICK e \in Seq(T) : e = Append(d, i) /\ e = d \o <<i>>
    BY AppendProperties, AppendIsConcat
  <2>7. display'[n] = e /\ incoming'[n] = EOF /\ echo'[n] = "written"
    BY <2>3, <2>4, <2>5, <2>6 DEF EchoTyped
  <2>8. EchoTyped'
    BY <1>3, <2>3, <2>4, <2>5, <2>6 DEF EchoTyped
  <2>9. Buffer(n) = <<i>> /\ Buffer(n)' = << >>
    BY <2>1, <2>4, <2>7 DEF Buffer
  <2>10. e \o << >> = e
    BY ConcatEmptySeq
  <2>11. SubSeq(Typed, 1, taken'[n]) = display'[n] \o Buffer(n)'
    BY <2>1, <2>3, <2>5, <2>6, <2>7, <2>9, <2>10
  <2>12. /\ value'[n]["readAvail"] \in {0, 1} /\ value'[n]["readAvail"] # 1
         /\ value'[n]["writeDone"] \in {0, 1} /\ value'[n]["writeDone"] # 1
         /\ echo'[n] = "written" /\ echo'[n] # "put"
    BY <2>1, <2>3, <2>7
  <2>13. QED
    BY <2>8, <2>11, <2>12 DEF Echoing
<1>7. CASE EchoWritten(n)
  <2>1. /\ echo[n] = "written" /\ P(n, "writeDone")
        /\ UNCHANGED <<incoming, putBusy, taken, display>>
        /\ \E next \in {"done", "read"} : echo' = [echo EXCEPT ![n] = next]
    BY <1>7 DEF EchoWritten
  <2>2. echo'[n] \in {"done", "read"} /\ EchoTyped'
    BY <2>1 DEF EchoTyped
  <2>3. /\ value[n]["writeDone"] \in Nat /\ value[n]["writeDone"] > 0
        /\ value'[n]["writeDone"] = value[n]["writeDone"] - 1
        /\ value'[n]["readAvail"] = value[n]["readAvail"]
    BY <1>1, <1>2, <2>1, OneDown
  <2>4. /\ value[n]["writeDone"] \in {0, 1} /\ value[n]["readAvail"] \in {0, 1}
        /\ value[n]["writeDone"] = 1 => ~(putBusy[n] = TRUE)
        /\ value[n]["readAvail"] = 1 => incoming[n] # EOF
        /\ SubSeq(Typed, 1, taken[n]) = display[n] \o Buffer(n)
    BY DEF Echoing
  <2>5. value[n]["writeDone"] = 1 /\ value'[n]["writeDone"] = 0
    BY <2>3, <2>4
  <2>6. Buffer(n)' = Buffer(n)
    BY <2>1 DEF Buffer
  <2>7. /\ value'[n]["writeDone"] \in {0, 1} /\ value'[n]["writeDone"] # 1
        /\ value'[n]["readAvail"] \in {0, 1} /\ echo'[n] # "put" /\ ~(putBusy'[n] = TRUE)
        /\ value'[n]["readAvail"] = 1 => incoming'[n] # EOF
    BY <2>1, <2>2, <2>3, <2>4, <2>5
  <2>8. QED
    BY <2>1, <2>2, <2>4, <2>6, <2>7 DEF Echoing
<1>8. CASE CheckCharNone(n)
  <2>1. UNCHANGED <<incoming, putBusy, taken, display, echo>> /\ value' = value /\ phase' = phase
    BY <1>8 DEF CheckCharNone, consoleVars
  <2>2. EchoTyped'
    BY <2>1 DEF EchoTyped
  <2>3. QED
    BY <2>1, <2>2, EchoKeeps
<1>9. CASE CheckCharAvail(n)
  <2>1. /\ incoming[n] = EOF /\ taken[n] < Len(Typed) /\ V(n, "readAvail")
        /\ taken' = [taken EXCEPT ![n] = taken[n] + 1]
        /\ incoming' = [incoming EXCEPT ![n] = Typed[taken[n] + 1]]
        /\ phase' = phase /\ putBusy' = putBusy /\ display' = display /\ echo' = echo
    BY <1>9 DEF CheckCharAvail, BufferIsFree, PollFile, ReadFile
  <2>2. PICK k \in 0..(Len(Typed) - 1) : k = taken[n]
    BY <1>4, <2>1
  <2>3. PICK i : i = Typed[k + 1]
    OBVIOUS
  <2>4. i \in T /\ i # EOF /\ SubSeq(Typed, 1, k + 1) = SubSeq(Typed, 1, k) \o <<i>>
    BY <1>3, <2>3, TypedMore
  <2>5. taken'[n] = k + 1 /\ incoming'[n] = i
    BY <2>1, <2>2, <2>3 DEF EchoTyped
  <2>6. EchoTyped'
    <3>1. k + 1 \in 0..Len(Typed)
      BY <1>4, <2>2
    <3>2. QED
      BY <1>3, <2>1, <2>2, <2>3, <2>4, <3>1 DEF EchoTyped
  <2>7. /\ value[n]["readAvail"] \in {0, 1} /\ value[n]["readAvail"] # 1 /\ echo[n] # "put"
        /\ SubSeq(Typed, 1, k) = display[n] \o Buffer(n)
    BY <2>1, <2>2 DEF Echoing
  <2>8. /\ value'[n]["readAvail"] = 1
        /\ value'[n]["writeDone"] = value[n]["writeDone"]
    BY <1>1, <1>2, <2>1, <2>7, OneUp
  <2>9. PICK d \in Seq(T) : d = display[n] /\ d \o << >> = d
    BY <1>4, ConcatEmptySeq
  <2>10. Buffer(n) = << >> /\ Buffer(n)' = <<i>>
    BY <2>1, <2>4, <2>5 DEF Buffer
  <2>11. SubSeq(Typed, 1, taken'[n]) = display'[n] \o Buffer(n)'
    BY <2>1, <2>4, <2>5, <2>7, <2>9, <2>10
  <2>12. QED
    BY <2>1, <2>4, <2>5, <2>6, <2>7, <2>8, <2>11 DEF Echoing
<1>10. CASE WriteDone(n)
  <2>1. /\ Fires(n, "ConsoleWrite") /\ V(n, "writeDone")
        /\ putBusy' = [putBusy EXCEPT ![n] = FALSE]
        /\ phase' = phase /\ UNCHANGED <<incoming, taken, display, echo>>
    BY <1>10 DEF WriteDone
  <2>2. EchoTyped' /\ putBusy'[n] = FALSE
    BY <1>1, <2>1 DEF EchoTyped, DevicesTyped
  <2>3. putBusy[n] = TRUE
    <3>1. PICK list \in Seq(Item) : list = pending[n]
      BY <1>1 DEF DevicesTyped
    <3>2. list # << >> /\ list[1].type = "ConsoleWrite"
      BY <2>1, <3>1 DEF Fires, Due
    <3>3. ~None(list, "ConsoleWrite")
      BY <3>2 DEF None
    <3>4. "ConsoleWrite" \in Watched(n)
      BY DEF Watched, IntType
    <3>5. Counted(list, "ConsoleWrite", Wanted(n, "ConsoleWrite"))
      BY <1>1, <3>1, <3>4 DEF Ordered, Matched
    <3>6. QED
      BY <3>3, <3>5 DEF Counted, Wanted
  <2>4. /\ value[n]["writeDone"] \in {0, 1} /\ value[n]["writeDone"] # 1 /\ echo[n] = "written"
        /\ SubSeq(Typed, 1, taken[n]) = display[n] \o Buffer(n)
    BY <2>3 DEF Echoing
  <2>5. /\ value'[n]["writeDone"] = 1
        /\ value'[n]["readAvail"] = value[n]["readAvail"]
    BY <1>1, <1>2, <2>1, <2>4, OneUp
  <2>6. Buffer(n)' = Buffer(n)
    BY <2>1 DEF Buffer
  <2>7. QED
    BY <2>1, <2>2, <2>4, <2>5, <2>6 DEF Echoing
<1>11. QED
  BY <1>5, <1>6, <1>7, <1>8, <1>9, <1>10 DEF ConsoleStep

\* When the machines are switched on, nothing was typed.
LEMMA InitEchoInv == Init => EchoInv
<1> SUFFICES ASSUME Init PROVE EchoInv
  OBVIOUS
<1>1. /\ incoming = [n \in ConsoleNode |-> EOF] /\ putBusy = [n \in ConsoleNode |-> FALSE]
      /\ taken = [n \in ConsoleNode |-> 0] /\ display = [n \in ConsoleNode |-> << >>]
      /\ echo = [n \in ConsoleNode |-> "read"]
      /\ value = [n \in Node |-> [s \in SemName |-> 0]]
  BY DEF Init, ConsoleInit
<1>2. 0 \in 0..Len(Typed)
  BY ConsoleAssumption
<1>3. PICK e \in Seq(Range(Typed)) : e = << >>
  <2>1. << >> \in Seq(Range(Typed))
    OBVIOUS
  <2>2. QED
    BY <2>1
<1>4. EchoTyped
  BY <1>1, <1>2, <1>3 DEF EchoTyped
<1>5. SubSeq(Typed, 1, 0) = << >> /\ << >> \o << >> = << >>
  BY <1>3, SubSeqEmpty, ConcatEmptySeq
<1>6. ASSUME NEW n \in ConsoleNode PROVE Echoing(n)
  <2>1. n \in Node /\ "readAvail" \in SemName /\ "writeDone" \in SemName
    BY DevicesAssumption DEF SemName
  <2>2. /\ value[n]["readAvail"] = 0 /\ value[n]["writeDone"] = 0 /\ putBusy[n] = FALSE
        /\ echo[n] = "read" /\ incoming[n] = EOF /\ taken[n] = 0 /\ display[n] = << >>
    BY <1>1, <2>1
  <2>3. Buffer(n) = << >>
    BY <2>2 DEF Buffer
  <2>4. SubSeq(Typed, 1, taken[n]) = display[n] \o Buffer(n)
    BY <1>5, <2>2, <2>3
  <2>5. /\ value[n]["readAvail"] \in {0, 1} /\ value[n]["readAvail"] # 1
        /\ value[n]["writeDone"] \in {0, 1} /\ value[n]["writeDone"] # 1
        /\ echo[n] # "put" /\ ~(putBusy[n] = TRUE)
    BY <2>2
  <2>6. QED
    BY <2>2, <2>4, <2>5 DEF Echoing
<1>7. QED
  BY <1>4, <1>6 DEF EchoInv

\* The disk of the machine leaves the console alone.
LEMMA DiskEchoes ==
    ASSUME DevicesTyped, NEW n \in DiskNode \cap ConsoleNode, Echoing(n), DiskStep(n)
    PROVE  Echoing(n)'
<1>1. n \in Node
  BY DevicesAssumption
<1>2. /\ "readAvail" \in SemName \ {"disk"} /\ "writeDone" \in SemName \ {"disk"}
      /\ "disk" \in SemName
  BY DEF SemName
<1>3. UNCHANGED <<incoming, putBusy, taken, display, echo>>
  BY DEF DiskStep, consoleVars
<1>4. value' = value \/ P(n, "disk") \/ V(n, "disk")
  BY DEF DiskStep, DiskWorks, DiskStarts, Request, RequestAsserts, Abort, DiskReturns,
         DiskFinishes, machine, HandleInterrupt, RequestDone
<1>5. /\ value'[n]["readAvail"] = value[n]["readAvail"]
      /\ value'[n]["writeDone"] = value[n]["writeDone"]
  BY <1>1, <1>2, <1>4, OneDown, OneUp
<1>6. QED
  BY <1>3, <1>5, EchoKeeps

\* Every step keeps the consoles in that state.
LEMMA StepEchoInv == TimeInv /\ EchoInv /\ [Next]_vars => EchoInv'
<1> SUFFICES ASSUME TimeInv, EchoInv, [Next]_vars PROVE EchoInv'
  OBVIOUS
<1>1. DevicesTyped /\ EchoTyped /\ \A m \in ConsoleNode : m \in Node /\ Echoing(m)
  BY DevicesAssumption DEF TimeInv, EchoInv
<1>2. ASSUME NEW m \in ConsoleNode, Still(m),
             incoming'[m] = incoming[m], putBusy'[m] = putBusy[m], taken'[m] = taken[m],
             display'[m] = display[m], echo'[m] = echo[m]
      PROVE  Echoing(m)'
  BY <1>1, <1>2, EchoKeeps DEF Still
<1>3. ASSUME UNCHANGED consoleVars, \A m \in ConsoleNode : Still(m) \/ Echoing(m)' PROVE EchoInv'
  <2>1. EchoTyped' /\ UNCHANGED <<incoming, putBusy, taken, display, echo>>
    BY <1>1, <1>3 DEF EchoTyped, consoleVars
  <2>2. \A m \in ConsoleNode : Echoing(m)'
    BY <1>2, <1>3, <2>1
  <2>3. QED
    BY <2>1, <2>2 DEF EchoInv
<1>4. ASSUME NEW n \in DiskNode, DiskStep(n) PROVE EchoInv'
  <2>1. UNCHANGED consoleVars
    BY <1>4 DEF DiskStep
  <2>2. ASSUME NEW m \in ConsoleNode PROVE Still(m) \/ Echoing(m)'
    <3>1. CASE m = n
      BY <1>1, <1>4, <3>1, DiskEchoes
    <3>2. CASE m # n
      BY <1>1, <1>4, <3>2, StillDisk
    <3>3. QED
      BY <3>1, <3>2
  <2>3. QED
    BY <1>3, <2>1, <2>2
<1>5. ASSUME NEW n \in ConsoleNode, ConsoleStep(n) PROVE EchoInv'
  <2>1. EchoTyped' /\ Echoing(n)'
    BY <1>1, <1>5, ConsoleEchoes
  <2>2. ASSUME NEW m \in ConsoleNode, m # n PROVE Echoing(m)'
    <3>1. Still(m)
      BY <1>1, <1>5, <2>2, StillConsole
    <3>2. /\ incoming'[m] = incoming[m] /\ taken'[m] = taken[m]
          /\ display'[m] = display[m] /\ echo'[m] = echo[m] /\ putBusy'[m] = putBusy[m]
      <4>1. CASE EchoReads(n)
        BY <1>1, <2>2, <4>1 DEF EchoReads, EchoTyped
      <4>2. CASE EchoPuts(n)
        BY <1>1, <2>2, <4>2 DEF EchoPuts, WriteFile, EchoTyped, DevicesTyped
      <4>3. CASE EchoWritten(n)
        BY <1>1, <2>2, <4>3 DEF EchoWritten, EchoTyped
      <4>4. CASE CheckCharNone(n)
        BY <4>4 DEF CheckCharNone, consoleVars
      <4>5. CASE CheckCharAvail(n)
        BY <1>1, <2>2, <4>5 DEF CheckCharAvail, ReadFile, EchoTyped
      <4>6. CASE WriteDone(n)
        BY <1>1, <2>2, <4>6 DEF WriteDone, DevicesTyped
      <4>7. QED
        BY <1>5, <4>1, <4>2, <4>3, <4>4, <4>5, <4>6 DEF ConsoleStep
    <3>3. QED
      BY <1>2, <3>1, <3>2
  <2>3. QED
    BY <2>1, <2>2 DEF EchoInv
<1>6. ASSUME NEW n \in MailNode, MailStep(n) PROVE EchoInv'
  <2>1. UNCHANGED consoleVars
    BY <1>6 DEF MailStep
  <2>2. ASSUME NEW m \in ConsoleNode PROVE Still(m)
    <3>1. m # n
      BY <1>6, DevicesAssumption
    <3>2. QED
      BY <1>1, <1>6, <3>1, StillMail
  <2>3. QED
    BY <1>3, <2>1, <2>2
<1>7. ASSUME NEW n \in Node, MachineStep(n) PROVE EchoInv'
  <2>1. UNCHANGED consoleVars /\ UNCHANGED <<incoming, putBusy, taken, display, echo>>
    BY <1>7 DEF MachineStep, consoleVars
  <2>2. ASSUME NEW m \in ConsoleNode PROVE Still(m) \/ Echoing(m)'
    <3>1. CASE m = n
      <4>1. value' = value
        BY <1>7 DEF MachineStep, NothingDue, TimerExpired, YieldReturns, Idle
      <4>2. QED
        BY <1>1, <2>1, <3>1, <4>1, EchoKeeps
    <3>2. CASE m # n
      BY <1>1, <1>7, <3>2, StillMachine
    <3>3. QED
      BY <3>1, <3>2
  <2>3. QED
    BY <1>3, <2>1, <2>2
<1>8. CASE UNCHANGED vars
  <2>1. UNCHANGED consoleVars /\ \A m \in ConsoleNode : Still(m)
    BY <1>8 DEF vars, machine, Still
  <2>2. QED
    BY <1>3, <2>1
<1>9. QED
  BY <1>4, <1>5, <1>6, <1>7, <1>8 DEF Next

\* What is on the display, and the character in the buffer, are what was typed
\* so far: no character is lost, repeated or out of order, and the ASSERT of
\* PutChar holds (ConsoleTest, Console::CheckCharAvail, GetChar, PutChar).
THEOREM SpecEchoesInput == Spec => []EchoesInput
<1>1. TimeInv /\ EchoInv => EchoesInput
  <2> SUFFICES ASSUME TimeInv, EchoInv, NEW n \in ConsoleNode
               PROVE  /\ echo[n] = "put" => ~putBusy[n]
                      /\ SubSeq(Typed, 1, taken[n])
                            = display[n] \o (IF incoming[n] = EOF THEN << >> ELSE <<incoming[n]>>)
    BY DEF EchoesInput
  <2>1. Echoing(n) /\ putBusy[n] \in BOOLEAN
    BY DEF EchoInv, TimeInv, DevicesTyped
  <2>2. QED
    BY <2>1 DEF Echoing, Buffer
<1>2. QED
  BY <1>1, AlwaysTimeInv, InitEchoInv, StepEchoInv, PTL DEF Spec

-----------------------------------------------------------------------------
(***************************************************************************)
(* The packets for a box                                                   *)
(***************************************************************************)

\* Induction: a set that contains 0 and with each number the next one contains
\* all natural numbers (used for the packets of a socket).
LEMMA SetInduction ==
    ASSUME NEW T, 0 \in T, \A k \in Nat : k \in T => k + 1 \in T
    PROVE  \A k \in Nat : k \in T
<1> DEFINE Others == Nat \ T
<1> SUFFICES ASSUME Others # {} PROVE FALSE
  OBVIOUS
<1>1. PICK x \in Others : \A y \in Others : x <= y
  <2>1. Others \subseteq Nat
    OBVIOUS
  <2> HIDE DEF Others
  <2>2. QED
    BY <2>1, Smallest
<1>2. x # 0 /\ x - 1 \in Nat
  OBVIOUS
<1>3. x - 1 \in T
  BY <1>1, <1>2
<1>4. (x - 1) + 1 \in T
  BY <1>2, <1>3
<1>5. QED
  BY <1>2, <1>4

\* The packets for box b among the first k, given those among the first k - 1.
NextFirst(b, packets, first, k) ==
    IF k = 0 THEN << >>
    ELSE IF packets[k].to = b THEN Append(first[k - 1], packets[k]) ELSE first[k - 1]

Firsts(b, packets) ==
    CHOOSE first : first = [k \in 0..Len(packets) |-> NextFirst(b, packets, first, k)]

\* MessagesFor is the last of these.
LEMMA MessagesAreLast == \A b, packets : MessagesFor(b, packets) = Firsts(b, packets)[Len(packets)]
BY DEF MessagesFor, Firsts, NextFirst

\* The recursion equation holds.
LEMMA FirstsEquation ==
    ASSUME NEW S, NEW packets \in Seq(S), NEW b
    PROVE  /\ Firsts(b, packets) \in [0..Len(packets) -> Seq(S)]
           /\ \A k \in 0..Len(packets) :
                 Firsts(b, packets)[k] = NextFirst(b, packets, Firsts(b, packets), k)
<1>1. PICK n \in Nat : n = Len(packets)
  OBVIOUS
<1> DEFINE Upto(m, g) == \A k \in 0..m : g[k] = NextFirst(b, packets, g, k)
<1> DEFINE T == {m \in Nat : m <= n => \E g \in [0..m -> Seq(S)] : Upto(m, g)}
<1>2. 0 \in T
  <2> DEFINE g == [k \in 0..0 |-> << >>]
  <2>1. << >> \in Seq(S)
    OBVIOUS
  <2>2. g \in [0..0 -> Seq(S)] /\ Upto(0, g)
    BY <2>1 DEF NextFirst
  <2>3. QED
    BY <2>2
<1>3. ASSUME NEW m \in Nat, m \in T
      PROVE  m + 1 \in T
  <2> HIDE DEF Upto
  <2> SUFFICES ASSUME m + 1 <= n
               PROVE  \E g \in [0..(m + 1) -> Seq(S)] : Upto(m + 1, g)
    OBVIOUS
  <2> USE DEF Upto
  <2>1. PICK h \in [0..m -> Seq(S)] : Upto(m, h)
    BY <1>3
  <2>2. PICK last \in Seq(S) :
            last = IF packets[m + 1].to = b THEN Append(h[m], packets[m + 1]) ELSE h[m]
    <3>1. m + 1 \in 1..Len(packets) /\ m \in 0..m
      BY <1>1
    <3>2. packets[m + 1] \in S /\ h[m] \in Seq(S)
      BY <3>1
    <3>3. Append(h[m], packets[m + 1]) \in Seq(S)
      BY <3>2, AppendProperties
    <3>4. QED
      BY <3>2, <3>3
  <2> DEFINE g == [k \in 0..(m + 1) |-> IF k <= m THEN h[k] ELSE last]
  <2>3. g \in [0..(m + 1) -> Seq(S)]
    <3>1. \A k \in 0..(m + 1) : (k <= m => k \in 0..m /\ h[k] \in Seq(S))
      BY <2>1
    <3>2. \A k \in 0..(m + 1) : (IF k <= m THEN h[k] ELSE last) \in Seq(S)
      BY <3>1
    <3>3. QED
      BY <3>2
  <2>4. Upto(m + 1, g)
    <3> SUFFICES ASSUME NEW k \in 0..(m + 1) PROVE g[k] = NextFirst(b, packets, g, k)
      OBVIOUS
    <3>1. CASE k \in 0..m
      <4>1. g[k] = h[k] /\ (k # 0 => k - 1 \in 0..m /\ g[k - 1] = h[k - 1])
        BY <3>1
      <4> HIDE DEF g
      <4>2. h[k] = NextFirst(b, packets, h, k)
        BY <2>1, <3>1
      <4>3. QED
        BY <4>1, <4>2 DEF NextFirst
    <3>2. CASE k = m + 1
      <4>1. g[m + 1] = last /\ g[m] = h[m] /\ m + 1 - 1 = m /\ m + 1 # 0
        OBVIOUS
      <4> HIDE DEF g
      <4>2. QED
        BY <2>2, <3>2, <4>1 DEF NextFirst
    <3>3. QED
      BY <3>1, <3>2
  <2>5. QED
    BY <2>3, <2>4
<1>4. n \in T
  <2> HIDE DEF T
  <2>1. QED
    BY <1>2, <1>3, SetInduction
<1>5. PICK g \in [0..n -> Seq(S)] : Upto(n, g)
  <2> HIDE DEF Upto
  <2>1. n <= n
    OBVIOUS
  <2>2. QED
    BY <1>4, <2>1
<1>6. g = [k \in 0..Len(packets) |-> NextFirst(b, packets, g, k)]
  BY <1>1, <1>5
<1>7. Firsts(b, packets)
         = [k \in 0..Len(packets) |-> NextFirst(b, packets, Firsts(b, packets), k)]
  BY <1>6 DEF Firsts
<1>8. PICK f : f = Firsts(b, packets)
  OBVIOUS
<1>9. f = [k \in 0..n |-> NextFirst(b, packets, f, k)]
  BY <1>1, <1>7, <1>8
<1>10. \A k \in 0..n : f[k] = NextFirst(b, packets, f, k)
  BY <1>9
<1> DEFINE U == {m \in Nat : m <= n => f[m] \in Seq(S)}
<1>11. 0 \in U
  <2>1. 0 \in 0..n /\ << >> \in Seq(S)
    OBVIOUS
  <2>2. f[0] = << >>
    BY <1>10, <2>1 DEF NextFirst
  <2>3. QED
    BY <2>1, <2>2
<1>12. ASSUME NEW m \in Nat, m \in U PROVE m + 1 \in U
  <2> SUFFICES ASSUME m + 1 <= n PROVE f[m + 1] \in Seq(S)
    OBVIOUS
  <2>1. m + 1 \in 0..n /\ m + 1 # 0 /\ m + 1 - 1 = m /\ m + 1 \in 1..Len(packets)
    BY <1>1
  <2>2. f[m] \in Seq(S) /\ packets[m + 1] \in S
    BY <1>12, <2>1
  <2>3. Append(f[m], packets[m + 1]) \in Seq(S)
    BY <2>2, AppendProperties
  <2>4. f[m + 1] = NextFirst(b, packets, f, m + 1)
    BY <1>10, <2>1
  <2>5. QED
    BY <2>1, <2>2, <2>3, <2>4 DEF NextFirst
<1>13. \A m \in Nat : m \in U
  <2> HIDE DEF U
  <2>1. QED
    BY <1>11, <1>12, SetInduction
<1>14. \A k \in 0..n : f[k] \in Seq(S)
  BY <1>13
<1>15. f \in [0..n -> Seq(S)]
  BY <1>9, <1>14
<1>16. QED
  BY <1>1, <1>8, <1>10, <1>15

\* No packets, and one packet more.
LEMMA MessagesGrow ==
    ASSUME NEW S, NEW b
    PROVE  /\ MessagesFor(b, << >>) = << >>
           /\ \A packets \in Seq(S) : MessagesFor(b, packets) \in Seq(S)
           /\ \A packets \in Seq(S) : \A x \in S :
                 MessagesFor(b, Append(packets, x))
                    = IF x.to = b THEN Append(MessagesFor(b, packets), x)
                      ELSE MessagesFor(b, packets)
<1>1. MessagesFor(b, << >>) = << >>
  <2>1. PICK e \in Seq(S) : e = << >> /\ Len(e) = 0
    <3>1. << >> \in Seq(S) /\ Len(<< >>) = 0
      OBVIOUS
    <3>2. QED
      BY <3>1
  <2>2. 0 \in 0..Len(e)
    BY <2>1
  <2>3. Firsts(b, e)[0] = NextFirst(b, e, Firsts(b, e), 0)
    BY <2>2, FirstsEquation
  <2>4. MessagesFor(b, e) = Firsts(b, e)[0]
    BY <2>1, MessagesAreLast
  <2>5. QED
    BY <2>1, <2>3, <2>4 DEF NextFirst
<1>2. ASSUME NEW packets \in Seq(S) PROVE MessagesFor(b, packets) \in Seq(S)
  <2>1. Len(packets) \in 0..Len(packets)
    OBVIOUS
  <2>2. Firsts(b, packets)[Len(packets)] \in Seq(S)
    BY <2>1, FirstsEquation
  <2>3. QED
    BY <2>2, MessagesAreLast
<1>3. ASSUME NEW packets \in Seq(S), NEW x \in S
      PROVE  MessagesFor(b, Append(packets, x))
                = IF x.to = b THEN Append(MessagesFor(b, packets), x)
                  ELSE MessagesFor(b, packets)
  <2>1. PICK n \in Nat : n = Len(packets)
    OBVIOUS
  <2>2. PICK q \in Seq(S) : q = Append(packets, x)
    BY AppendProperties
  <2>3. Len(q) = n + 1 /\ q[n + 1] = x /\ \A i \in 1..n : q[i] = packets[i]
    BY <2>1, <2>2, AppendProperties
  <2>4. PICK f : f = Firsts(b, packets)
    OBVIOUS
  <2>5. PICK g : g = Firsts(b, q)
    OBVIOUS
  <2>6. /\ \A k \in 0..n : f[k] = NextFirst(b, packets, f, k)
        /\ \A k \in 0..(n + 1) : g[k] = NextFirst(b, q, g, k)
    BY <2>1, <2>3, <2>4, <2>5, FirstsEquation
  <2> DEFINE T == {k \in Nat : k <= n => g[k] = f[k]}
  <2>7. 0 \in T
    <3>1. 0 \in 0..n /\ 0 \in 0..(n + 1)
      OBVIOUS
    <3>2. f[0] = << >> /\ g[0] = << >>
      BY <2>6, <3>1 DEF NextFirst
    <3>3. QED
      BY <3>2
  <2>8. ASSUME NEW k \in Nat, k \in T PROVE k + 1 \in T
    <3> SUFFICES ASSUME k + 1 <= n PROVE g[k + 1] = f[k + 1]
      OBVIOUS
    <3>1. k + 1 \in 0..n /\ k + 1 \in 0..(n + 1) /\ k + 1 \in 1..n /\ k + 1 # 0 /\ k + 1 - 1 = k
      OBVIOUS
    <3>2. g[k] = f[k] /\ q[k + 1] = packets[k + 1]
      BY <2>3, <2>8, <3>1
    <3>3. /\ g[k + 1] = NextFirst(b, q, g, k + 1)
          /\ f[k + 1] = NextFirst(b, packets, f, k + 1)
      BY <2>6, <3>1
    <3>4. QED
      BY <3>1, <3>2, <3>3 DEF NextFirst
  <2>9. \A k \in Nat : k \in T
    <3> HIDE DEF T
    <3>1. QED
      BY <2>7, <2>8, SetInduction
  <2>10. g[n] = f[n]
    BY <2>9
  <2>11. g[n + 1] = NextFirst(b, q, g, n + 1) /\ n + 1 # 0 /\ n + 1 - 1 = n
    <3>1. n + 1 \in 0..(n + 1)
      OBVIOUS
    <3>2. QED
      BY <2>6, <3>1
  <2>12. g[n + 1] = IF x.to = b THEN Append(f[n], x) ELSE f[n]
    BY <2>3, <2>10, <2>11 DEF NextFirst
  <2>13. MessagesFor(b, q) = g[n + 1] /\ MessagesFor(b, packets) = f[n]
    BY <2>1, <2>3, <2>4, <2>5, MessagesAreLast
  <2>14. QED
    BY <2>2, <2>12, <2>13
<1>4. QED
  BY <1>1, <1>2, <1>3

\* One packet more.
LEMMA MessagesOneMore ==
    ASSUME NEW S, NEW b, NEW packets \in Seq(S), NEW x \in S
    PROVE  MessagesFor(b, Append(packets, x))
              = IF x.to = b THEN Append(MessagesFor(b, packets), x) ELSE MessagesFor(b, packets)
BY MessagesGrow

\* The packets of two sequences, one after the other.
LEMMA MessagesOfBoth ==
    ASSUME NEW S, NEW b, NEW p \in Seq(S), NEW q \in Seq(S)
    PROVE  MessagesFor(b, p \o q) = MessagesFor(b, p) \o MessagesFor(b, q)
<1>1. PICK n \in Nat : n = Len(q)
  OBVIOUS
<1> DEFINE T == {k \in Nat : k <= n =>
                    MessagesFor(b, p \o SubSeq(q, 1, k))
                       = MessagesFor(b, p) \o MessagesFor(b, SubSeq(q, 1, k))}
<1>2. MessagesFor(b, p) \in Seq(S)
  BY MessagesGrow
<1>3. 0 \in T
  <2>1. SubSeq(q, 1, 0) = << >>
    BY SubSeqEmpty
  <2>2. p \o << >> = p /\ MessagesFor(b, p) \o << >> = MessagesFor(b, p)
    BY <1>2, ConcatEmptySeq
  <2>3. MessagesFor(b, << >>) = << >>
    BY MessagesGrow
  <2>4. QED
    BY <2>1, <2>2, <2>3
<1>4. ASSUME NEW k \in Nat, k \in T PROVE k + 1 \in T
  <2> SUFFICES ASSUME k + 1 <= n
               PROVE  MessagesFor(b, p \o SubSeq(q, 1, k + 1))
                         = MessagesFor(b, p) \o MessagesFor(b, SubSeq(q, 1, k + 1))
    OBVIOUS
  <2>1. PICK j : j = k + 1
    OBVIOUS
  <2>2. j \in 1..Len(q) /\ j - 1 = k /\ 1 \in 1..Len(q) /\ j \in 1..Len(q) /\ k \in 0..Len(q)
    BY <1>1, <2>1
  <2>3. PICK r : r = SubSeq(q, 1, k)
    OBVIOUS
  <2>4. r \in Seq(S)
    BY <2>2, <2>3, SubSeqProperties
  <2>5. PICK x \in S : x = q[j]
    BY <2>2
  <2>6. SubSeq(q, 1, j) = r \o <<x>>
    BY <2>2, <2>3, <2>5, SubSeqRecursiveSecond
  <2>7. PICK c \in Seq(S) : c = p \o r
    BY <2>4, ConcatProperties
  <2>8. PICK one \in Seq(S) : one = <<x>>
    <3>1. <<x>> \in Seq(S)
      OBVIOUS
    <3>2. QED
      BY <3>1
  <2>9. p \o SubSeq(q, 1, j) = Append(c, x)
    <3>1. (p \o r) \o one = p \o (r \o one)
      BY <2>4, ConcatAssociative
    <3>2. Append(c, x) = c \o <<x>>
      BY AppendIsConcat
    <3>3. QED
      BY <2>6, <2>7, <2>8, <3>1, <3>2
  <2>10. SubSeq(q, 1, j) = Append(r, x)
    BY <2>4, <2>6, AppendIsConcat
  <2>11. PICK mr \in Seq(S) : mr = MessagesFor(b, r)
    BY <2>4, MessagesGrow
  <2>12. PICK mp \in Seq(S) : mp = MessagesFor(b, p)
    BY <1>2
  <2>13. MessagesFor(b, c) = mp \o mr
    <3>1. k <= n
      OBVIOUS
    <3>2. MessagesFor(b, p \o SubSeq(q, 1, k))
             = MessagesFor(b, p) \o MessagesFor(b, SubSeq(q, 1, k))
      BY <1>4, <3>1
    <3>3. QED
      BY <2>3, <2>7, <2>11, <2>12, <3>2
  <2>14. /\ MessagesFor(b, Append(c, x)) = IF x.to = b THEN Append(mp \o mr, x) ELSE mp \o mr
         /\ MessagesFor(b, Append(r, x)) = IF x.to = b THEN Append(mr, x) ELSE mr
    <3>1. /\ MessagesFor(b, Append(c, x))
                = IF x.to = b THEN Append(MessagesFor(b, c), x) ELSE MessagesFor(b, c)
          /\ MessagesFor(b, Append(r, x))
                = IF x.to = b THEN Append(MessagesFor(b, r), x) ELSE MessagesFor(b, r)
      BY <2>4, MessagesOneMore
    <3>2. QED
      BY <2>11, <2>13, <3>1
  <2>15. Append(mp \o mr, x) = mp \o Append(mr, x)
    <3>1. mp \o mr \in Seq(S) /\ <<x>> \in Seq(S)
      BY ConcatProperties
    <3>2. Append(mp \o mr, x) = (mp \o mr) \o <<x>> /\ Append(mr, x) = mr \o <<x>>
      BY <3>1, AppendIsConcat
    <3>3. (mp \o mr) \o <<x>> = mp \o (mr \o <<x>>)
      BY <3>1, ConcatAssociative
    <3>4. QED
      BY <3>2, <3>3
  <2>16. QED
    BY <2>1, <2>9, <2>10, <2>12, <2>14, <2>15
<1>5. \A k \in Nat : k \in T
  <2> HIDE DEF T
  <2>1. QED
    BY <1>3, <1>4, SetInduction
<1>6. SubSeq(q, 1, n) = q
  BY <1>1, SubSeqFull
<1>7. n <= n
  OBVIOUS
<1>8. QED
  BY <1>5, <1>6, <1>7

\* What MessagesFor gives are packets of the sequence, for that box.
LEMMA MessagesOccur ==
    ASSUME NEW S, NEW b, NEW packets \in Seq(S)
    PROVE  \A j \in 1..Len(MessagesFor(b, packets)) :
              \E i \in 1..Len(packets) : /\ MessagesFor(b, packets)[j] = packets[i]
                                         /\ packets[i].to = b
<1>1. PICK n \in Nat : n = Len(packets)
  OBVIOUS
<1> DEFINE Occur(m) == \A j \in 1..Len(m) : \E i \in 1..n : m[j] = packets[i] /\ packets[i].to = b
<1> DEFINE T == {k \in Nat : k <= n => Occur(MessagesFor(b, SubSeq(packets, 1, k)))}
<1>2. 0 \in T
  <2>1. SubSeq(packets, 1, 0) = << >> /\ MessagesFor(b, << >>) = << >>
    BY SubSeqEmpty, MessagesGrow
  <2>2. Occur(<< >>)
    OBVIOUS
  <2> HIDE DEF Occur
  <2>3. QED
    BY <2>1, <2>2
<1>3. ASSUME NEW k \in Nat, k \in T PROVE k + 1 \in T
  <2> SUFFICES ASSUME k + 1 <= n PROVE Occur(MessagesFor(b, SubSeq(packets, 1, k + 1)))
    OBVIOUS
  <2>1. PICK j : j = k + 1
    OBVIOUS
  <2>2. j \in 1..Len(packets) /\ j - 1 = k /\ 1 \in 1..Len(packets) /\ k \in 0..Len(packets)
    BY <1>1, <2>1
  <2>3. PICK r \in Seq(S) : r = SubSeq(packets, 1, k)
    <3>1. SubSeq(packets, 1, k) \in Seq(S)
      BY <2>2, SubSeqProperties
    <3>2. QED
      BY <3>1
  <2>4. PICK x \in S : x = packets[j]
    BY <2>2
  <2>5. SubSeq(packets, 1, j) = Append(r, x)
    BY <2>2, <2>3, <2>4, SubSeqRecursiveSecond, AppendIsConcat
  <2>6. PICK mr \in Seq(S) : mr = MessagesFor(b, r)
    BY MessagesGrow
  <2>7. Occur(mr)
    BY <1>3, <2>3, <2>6, <1>1, <2>2
  <2>8. MessagesFor(b, SubSeq(packets, 1, j)) = IF x.to = b THEN Append(mr, x) ELSE mr
    <3>1. MessagesFor(b, Append(r, x))
             = IF x.to = b THEN Append(MessagesFor(b, r), x) ELSE MessagesFor(b, r)
      BY MessagesOneMore
    <3>2. QED
      BY <2>5, <2>6, <3>1
  <2>9. x.to = b => Occur(Append(mr, x))
    <3> SUFFICES ASSUME x.to = b, NEW i \in 1..Len(Append(mr, x))
                 PROVE  \E l \in 1..n : Append(mr, x)[i] = packets[l] /\ packets[l].to = b
      OBVIOUS
    <3>1. /\ Len(Append(mr, x)) = Len(mr) + 1 /\ Append(mr, x)[Len(mr) + 1] = x
          /\ \A l \in 1..Len(mr) : Append(mr, x)[l] = mr[l]
      BY AppendProperties
    <3>2. CASE i \in 1..Len(mr)
      BY <2>7, <3>1, <3>2
    <3>3. CASE i = Len(mr) + 1
      BY <1>1, <2>2, <2>4, <3>1, <3>3
    <3>4. i \in 1..Len(mr) \/ i = Len(mr) + 1
      <4>1. PICK h \in Nat : h = Len(mr)
        OBVIOUS
      <4>2. i \in 1..(h + 1)
        BY <3>1, <4>1
      <4>3. QED
        BY <4>1, <4>2
    <3>5. QED
      BY <3>2, <3>3, <3>4
  <2>10. QED
    <3> HIDE DEF Occur
    <3>1. QED
      BY <2>1, <2>7, <2>8, <2>9
<1>4. \A k \in Nat : k \in T
  <2> HIDE DEF T
  <2>1. QED
    BY <1>2, <1>3, SetInduction
<1>5. SubSeq(packets, 1, n) = packets /\ n <= n
  BY <1>1, SubSeqFull
<1>6. Occur(MessagesFor(b, packets))
  <2> HIDE DEF Occur
  <2>1. QED
    BY <1>4, <1>5
<1>7. QED
  BY <1>1, <1>6

-----------------------------------------------------------------------------
(***************************************************************************)
(* The network, the post office and the two threads that exchange mail     *)
(***************************************************************************)
Packet == [data : {"Hello", "GotIt"}, source : MailNode, to : Box, from : {1}]

MailTyped ==
    /\ socket \in [MailNode -> Seq(Packet)]
    /\ read \in [MailNode -> Nat]
    /\ inbox \in [MailNode -> Seq(Packet)]
    /\ boxes \in [MailNode -> [Box -> Seq(Packet)]]
    /\ worker \in [MailNode -> {"wait", "put"}]
    /\ DOMAIN mail = MailNode
    /\ got \in [MailNode -> [Box -> Seq(Packet)]]

\* How many of the packets of the socket have been put into a box.
Done(n) == IF inbox[n] = << >> THEN read[n] ELSE read[n] - 1

\* The semaphore says whether the worker has a packet to take, the buffer holds
\* the last packet that was read, and the boxes with what was received from them
\* hold the others.
Mailing(n) ==
    /\ value[n]["messageAvailable"] \in {0, 1}
    /\ value[n]["messageAvailable"] = 1 => inbox[n] # << >> /\ worker[n] = "wait"
    /\ worker[n] = "put" => inbox[n] # << >>
    /\ read[n] <= Len(socket[n])
    /\ inbox[n] # << >> => read[n] > 0 /\ inbox[n] = <<socket[n][read[n]]>>
    /\ \A b \in Box : got[n][b] \o boxes[n][b] = MessagesFor(b, SubSeq(socket[n], 1, Done(n)))
    /\ mail[n] = "ack" => got[n][0] # << >>

\* The packets that reach a machine come from the other one, and an
\* acknowledgement is sent only by who has received a message.
Letters(n) ==
    /\ \A i \in 1..Len(socket[n]) : socket[n][i].to = 0 => socket[n][i].source = farAddr(n)
    /\ \A i \in 1..Len(socket[n]) : socket[n][i].to = 1 =>
          \E j \in 1..Len(got[farAddr(n)][0]) : got[farAddr(n)][0][j].source = n

MailInv == MailTyped /\ \A n \in MailNode : Mailing(n) /\ Letters(n)

\* There are two machines, and each is the far one of the other.
LEMMA Far ==
    ASSUME NEW n \in MailNode
    PROVE  /\ farAddr(n) \in MailNode /\ farAddr(n) # n /\ farAddr(farAddr(n)) = n
           /\ \A m \in MailNode : m = n \/ m = farAddr(n)
<1>1. IsFiniteSet(MailNode) /\ Cardinality(MailNode) = 2
  BY NetworkAssumption, FS_EmptySet
<1>2. IsFiniteSet(MailNode \ {n}) /\ Cardinality(MailNode \ {n}) = 1
  BY <1>1, FS_RemoveElement
<1>3. PICK m : MailNode \ {n} = {m}
  BY <1>2, FS_Singleton
<1>4. m \in MailNode /\ m # n /\ \A x \in MailNode : x = n \/ x = m
  BY <1>3
<1>5. farAddr(n) = m
  BY <1>4 DEF farAddr
<1>6. farAddr(m) = n
  BY <1>4 DEF farAddr
<1>7. QED
  BY <1>4, <1>5, <1>6

\* A sequence that grew has the same first elements.
LEMMA FirstKept ==
    ASSUME NEW S, NEW s \in Seq(S), NEW x \in S, NEW k \in 0..Len(s)
    PROVE  SubSeq(Append(s, x), 1, k) = SubSeq(s, 1, k)
<1>1. PICK one \in Seq(S) : one = <<x>>
  <2>1. <<x>> \in Seq(S)
    OBVIOUS
  <2>2. QED
    BY <2>1
<1>2. Append(s, x) = s \o one
  BY <1>1, AppendIsConcat
<1>3. CASE k = 0
  BY <1>3, SubSeqEmpty
<1>4. CASE k # 0
  <2>1. k \in 1..Len(s) /\ 1 \in 1..Len(s)
    BY <1>4
  <2>2. QED
    BY <1>2, <2>1, SubSeqOfConcat1
<1>5. QED
  BY <1>3, <1>4

\* The mail of a machine is as it was, but for packets sent to it.
SameMail(m) ==
    /\ read'[m] = read[m] /\ inbox'[m] = inbox[m] /\ boxes'[m] = boxes[m]
    /\ worker'[m] = worker[m] /\ got'[m] = got[m]
    /\ value'[m]["messageAvailable"] = value[m]["messageAvailable"]
    /\ mail'[m] = "ack" => mail[m] = "ack"

\* Such a step keeps the mail of the machine as Mailing says.
LEMMA MailingKept ==
    ASSUME MailTyped, NEW m \in MailNode, Mailing(m), SameMail(m),
           \/ socket'[m] = socket[m]
           \/ \E p \in Packet : socket'[m] = Append(socket[m], p)
    PROVE  Mailing(m)'
<1>1. PICK s \in Seq(Packet), k \in Nat : s = socket[m] /\ k = read[m]
  BY DEF MailTyped
<1>2. PICK t : t = socket'[m]
  OBVIOUS
<1>3. k <= Len(s)
  BY <1>1 DEF Mailing
<1>4. /\ Len(s) <= Len(t) /\ Len(t) \in Nat /\ \A i \in 1..Len(s) : t[i] = s[i]
      /\ \A i \in 0..Len(s) : SubSeq(t, 1, i) = SubSeq(s, 1, i)
  <2>1. CASE t = s
    BY <2>1
  <2>2. ASSUME NEW p \in Packet, t = Append(s, p)
        PROVE  /\ Len(s) <= Len(t) /\ Len(t) \in Nat /\ \A i \in 1..Len(s) : t[i] = s[i]
               /\ \A i \in 0..Len(s) : SubSeq(t, 1, i) = SubSeq(s, 1, i)
    <3>1. /\ Len(t) = Len(s) + 1 /\ \A i \in 1..Len(s) : t[i] = s[i]
      BY <2>2, AppendProperties
    <3>2. \A i \in 0..Len(s) : SubSeq(t, 1, i) = SubSeq(s, 1, i)
      BY <2>2, FirstKept
    <3>3. QED
      BY <3>1, <3>2
  <2>3. QED
    BY <1>1, <1>2, <2>1, <2>2
<1>5. k <= Len(t)
  BY <1>3, <1>4
<1>6. Done(m)' = Done(m)
  BY DEF SameMail, Done
<1>7. inbox[m] # << >> => k > 0 /\ inbox[m] = <<t[k]>>
  <2> SUFFICES ASSUME inbox[m] # << >> PROVE k > 0 /\ inbox[m] = <<t[k]>>
    OBVIOUS
  <2>1. k > 0 /\ inbox[m] = <<s[k]>>
    BY <1>1 DEF Mailing
  <2>2. t[k] = s[k]
    BY <1>3, <1>4, <2>1
  <2>3. QED
    BY <2>1, <2>2
<1>8. Done(m) \in 0..Len(s)
  BY <1>1, <1>3, <1>7 DEF Done
<1>9. SubSeq(t, 1, Done(m)) = SubSeq(s, 1, Done(m))
  BY <1>4, <1>8
<1>10. \A b \in Box : got[m][b] \o boxes[m][b] = MessagesFor(b, SubSeq(t, 1, Done(m)))
  BY <1>1, <1>9 DEF Mailing
<1>11. /\ read'[m] <= Len(socket'[m])
       /\ inbox'[m] # << >> => read'[m] > 0 /\ inbox'[m] = <<socket'[m][read'[m]]>>
       /\ \A b \in Box : got'[m][b] \o boxes'[m][b]
                            = MessagesFor(b, SubSeq(socket'[m], 1, Done(m)'))
  BY <1>1, <1>2, <1>5, <1>6, <1>7, <1>10 DEF SameMail
<1>12. /\ value'[m]["messageAvailable"] \in {0, 1}
       /\ value'[m]["messageAvailable"] = 1 => inbox'[m] # << >> /\ worker'[m] = "wait"
       /\ worker'[m] = "put" => inbox'[m] # << >>
       /\ mail'[m] = "ack" => got'[m][0] # << >>
  BY DEF SameMail, Mailing
<1>13. QED
  BY <1>11, <1>12 DEF Mailing

\* Packets of the right kind, and more messages received.
LEMMA LettersKept ==
    ASSUME MailTyped, NEW m \in MailNode, Letters(m),
           \/ socket'[m] = socket[m]
           \/ \E p \in Packet : /\ socket'[m] = Append(socket[m], p)
                                /\ p.to = 0 => p.source = farAddr(m)
                                /\ p.to = 1 => \E j \in 1..Len(got[farAddr(m)][0]) :
                                                  got[farAddr(m)][0][j].source = m,
           \/ got'[farAddr(m)][0] = got[farAddr(m)][0]
           \/ \E x \in Packet : got'[farAddr(m)][0] = Append(got[farAddr(m)][0], x)
    PROVE  Letters(m)'
<1>1. PICK f \in MailNode : f = farAddr(m)
  BY Far
<1>2. PICK s \in Seq(Packet), g \in Seq(Packet) : s = socket[m] /\ g = got[f][0]
  BY DEF MailTyped, Box
<1>3. PICK t : t = socket'[m]
  OBVIOUS
<1>4. PICK h : h = got'[f][0]
  OBVIOUS
<1>5. (\E j \in 1..Len(g) : g[j].source = m) => \E j \in 1..Len(h) : h[j].source = m
  <2>1. CASE h = g
    BY <2>1
  <2>2. ASSUME NEW x \in Packet, h = Append(g, x)
        PROVE  (\E j \in 1..Len(g) : g[j].source = m) => \E j \in 1..Len(h) : h[j].source = m
    <3>1. Len(h) = Len(g) + 1 /\ \A j \in 1..Len(g) : h[j] = g[j]
      BY <2>2, AppendProperties
    <3>2. QED
      BY <3>1
  <2>3. QED
    BY <1>1, <1>2, <1>4, <2>1, <2>2
<1>6. /\ \A i \in 1..Len(s) : s[i].to = 0 => s[i].source = f
      /\ \A i \in 1..Len(s) : s[i].to = 1 => \E j \in 1..Len(g) : g[j].source = m
  BY <1>1, <1>2 DEF Letters
<1>7. /\ \A i \in 1..Len(t) : t[i].to = 0 => t[i].source = f
      /\ \A i \in 1..Len(t) : t[i].to = 1 => \E j \in 1..Len(g) : g[j].source = m
  <2>1. CASE t = s
    BY <1>6, <2>1
  <2>2. ASSUME NEW p \in Packet, t = Append(s, p), p.to = 0 => p.source = f,
               p.to = 1 => \E j \in 1..Len(g) : g[j].source = m
        PROVE  /\ \A i \in 1..Len(t) : t[i].to = 0 => t[i].source = f
               /\ \A i \in 1..Len(t) : t[i].to = 1 => \E j \in 1..Len(g) : g[j].source = m
    <3>1. Len(t) = Len(s) + 1 /\ t[Len(s) + 1] = p /\ \A j \in 1..Len(s) : t[j] = s[j]
      BY <2>2, AppendProperties
    <3>2. \A i \in 1..Len(t) : i \in 1..Len(s) \/ i = Len(s) + 1
      BY <3>1
    <3>3. QED
      BY <1>6, <2>2, <3>1, <3>2
  <2>3. QED
    BY <1>1, <1>2, <1>3, <2>1, <2>2
<1>8. QED
  BY <1>1, <1>3, <1>4, <1>5, <1>7 DEF Letters, farAddr

\* What a machine received had reached its socket.
LEMMA GotFrom ==
    ASSUME MailTyped, NEW n \in MailNode, Mailing(n), NEW b \in Box,
           NEW j \in 1..Len(got[n][b])
    PROVE  \E i \in 1..Len(socket[n]) : got[n][b][j] = socket[n][i] /\ socket[n][i].to = b
<1>1. PICK s \in Seq(Packet), g \in Seq(Packet), x \in Seq(Packet), k \in Nat :
          s = socket[n] /\ g = got[n][b] /\ x = boxes[n][b] /\ k = read[n]
  BY DEF MailTyped
<1>2. PICK d \in 0..Len(s) : d = Done(n)
  BY <1>1 DEF Mailing, Done
<1>3. PICK p : p = SubSeq(s, 1, d)
  OBVIOUS
<1>4. p \in Seq(Packet) /\ Len(p) = d /\ \A i \in 1..d : p[i] = s[i]
  BY <1>3, SubSeqProperties
<1>5. g \o x = MessagesFor(b, p)
  BY <1>1, <1>2, <1>3 DEF Mailing
<1>6. j \in 1..Len(g \o x) /\ (g \o x)[j] = g[j]
  <2>1. /\ Len(g \o x) = Len(g) + Len(x)
        /\ \A i \in 1..(Len(g) + Len(x)) : (g \o x)[i] = IF i <= Len(g) THEN g[i] ELSE x[i - Len(g)]
    BY ConcatProperties
  <2>2. j \in 1..Len(g)
    BY <1>1
  <2>3. Len(g) \in Nat /\ Len(x) \in Nat
    OBVIOUS
  <2>4. j \in 1..(Len(g) + Len(x)) /\ j <= Len(g)
    BY <2>2, <2>3
  <2>5. QED
    BY <2>1, <2>4
<1>7. PICK i \in 1..Len(p) : MessagesFor(b, p)[j] = p[i] /\ p[i].to = b
  BY <1>4, <1>5, <1>6, MessagesOccur
<1>8. i \in 1..Len(s) /\ g[j] = s[i] /\ s[i].to = b
  <2>1. i \in 1..d /\ i \in 1..Len(s)
    BY <1>4
  <2>2. g[j] = p[i]
    BY <1>5, <1>6, <1>7
  <2>3. QED
    BY <1>4, <1>7, <2>1, <2>2
<1>9. QED
  BY <1>1, <1>8

\* A step that leaves the mail of all machines alone.
LEMMA MailUnmoved ==
    ASSUME MailInv, UNCHANGED <<socket, read, inbox, boxes, worker, got>>,
           DOMAIN mail' = MailNode,
           \A m \in MailNode :
              /\ value'[m]["messageAvailable"] = value[m]["messageAvailable"]
              /\ mail'[m] = "ack" => mail[m] = "ack"
    PROVE  MailInv'
<1>1. MailTyped'
  BY DEF MailInv, MailTyped
<1>2. ASSUME NEW m \in MailNode PROVE Mailing(m)' /\ Letters(m)'
  <2>1. MailTyped /\ Mailing(m) /\ Letters(m)
    BY DEF MailInv
  <2>2. SameMail(m)
    BY DEF SameMail
  <2>3. QED
    BY <2>1, <2>2, MailingKept, LettersKept
<1>3. QED
  BY <1>1, <1>2 DEF MailInv

\* A step of one machine that sends nothing.
LEMMA OneMailer ==
    ASSUME MailInv, NEW n \in MailNode, MailTyped', Mailing(n)', socket' = socket,
           \A m \in MailNode \ {n} : SameMail(m) /\ got'[m] = got[m],
           \/ got'[n][0] = got[n][0]
           \/ \E x \in Packet : got'[n][0] = Append(got[n][0], x)
    PROVE  MailInv'
<1>1. ASSUME NEW m \in MailNode PROVE Mailing(m)' /\ Letters(m)'
  <2>1. MailTyped /\ Mailing(m) /\ Letters(m)
    BY DEF MailInv
  <2>2. Mailing(m)'
    BY <2>1, MailingKept
  <2>3. farAddr(m) \in MailNode
    BY Far
  <2>4. \/ got'[farAddr(m)][0] = got[farAddr(m)][0]
        \/ \E x \in Packet : got'[farAddr(m)][0] = Append(got[farAddr(m)][0], x)
    BY <2>3
  <2>5. Letters(m)'
    BY <2>1, <2>4, LettersKept
  <2>6. QED
    BY <2>2, <2>5
<1>2. QED
  BY <1>1 DEF MailInv

\* A packet is sent, and is lost or reaches the socket.
LEMMA SendKeepsMail ==
    ASSUME MailInv, NEW n \in MailNode, NEW packet \in Packet, NEW to \in MailNode,
           Send(n, packet, to), NEW next \in {"sent", "acked"},
           mail' = [mail EXCEPT ![n] = next],
           packet.to = 0 => packet.source = farAddr(to),
           packet.to = 1 => \E j \in 1..Len(got[farAddr(to)][0]) :
                               got[farAddr(to)][0][j].source = to
    PROVE  MailInv'
<1>1. MailTyped
  BY DEF MailInv
<1>2. /\ read' = read /\ inbox' = inbox /\ boxes' = boxes /\ worker' = worker /\ got' = got
      /\ value' = value
      /\ socket' = socket \/ socket' = [socket EXCEPT ![to] = Append(socket[to], packet)]
  BY DEF Send, SendToSocket
<1>3. \A m \in MailNode : mail'[m] = "ack" => mail[m] = "ack"
  BY <1>1 DEF MailTyped
<1>4. Append(socket[to], packet) \in Seq(Packet)
  <2>1. socket[to] \in Seq(Packet)
    BY <1>1 DEF MailTyped
  <2>2. QED
    BY <2>1, AppendProperties
<1>5. MailTyped'
  <2>1. socket' \in [MailNode -> Seq(Packet)]
    BY <1>1, <1>2, <1>4 DEF MailTyped
  <2>2. DOMAIN mail' = MailNode
    BY <1>1 DEF MailTyped
  <2>3. QED
    BY <1>1, <1>2, <2>1, <2>2 DEF MailTyped
<1>6. ASSUME NEW m \in MailNode PROVE Mailing(m)' /\ Letters(m)'
  <2>1. Mailing(m) /\ Letters(m)
    BY DEF MailInv
  <2>2. SameMail(m)
    BY <1>2, <1>3 DEF SameMail
  <2>3. CASE socket'[m] = socket[m]
    BY <1>1, <1>2, <2>1, <2>2, <2>3, MailingKept, LettersKept
  <2>4. CASE m = to /\ socket'[m] = Append(socket[m], packet)
    <3>1. Mailing(m)'
      BY <1>1, <2>1, <2>2, <2>4, MailingKept
    <3>2. Letters(m)'
      BY <1>1, <1>2, <2>1, <2>4, LettersKept
    <3>3. QED
      BY <3>1, <3>2
  <2>5. QED
    BY <1>1, <1>2, <2>3, <2>4 DEF MailTyped
<1>7. QED
  BY <1>5, <1>6 DEF MailInv

\* The message and the acknowledgement.
LEMMA MailTestSends ==
    ASSUME MailInv, NEW n \in MailNode, MailSends(n) \/ MailAcks(n)
    PROVE  MailInv'
<1>1. CASE MailSends(n)
  <2>1. PICK packet : packet = [data |-> "Hello", source |-> n, to |-> 0, from |-> 1]
    OBVIOUS
  <2>2. packet \in Packet /\ packet.to = 0 /\ packet.source = n
    BY <2>1 DEF Packet, Box
  <2>3. farAddr(n) \in MailNode /\ farAddr(farAddr(n)) = n
    BY Far
  <2>4. Send(n, packet, farAddr(n)) /\ mail' = [mail EXCEPT ![n] = "sent"]
    BY <1>1, <2>1 DEF MailSends
  <2>5. /\ packet.to = 0 => packet.source = farAddr(farAddr(n))
        /\ packet.to = 1 => \E j \in 1..Len(got[farAddr(farAddr(n))][0]) :
                               got[farAddr(farAddr(n))][0][j].source = farAddr(n)
    BY <2>2, <2>3
  <2>6. QED
    BY <2>2, <2>3, <2>4, <2>5, SendKeepsMail
<1>2. CASE MailAcks(n)
  <2>1. MailTyped /\ Mailing(n) /\ Letters(n)
    BY DEF MailInv
  <2>2. PICK g \in Seq(Packet) : g = got[n][0] /\ g # << >>
    BY <1>2, <2>1 DEF MailTyped, Mailing, MailAcks, Box
  <2>3. PICK l \in 1..Len(g) : l = Len(g)
    BY <2>2
  <2>4. PICK in \in Packet : in = Last(got[n][0]) /\ in = g[l]
    BY <2>2, <2>3 DEF Last
  <2>5. in.source \in MailNode /\ in.from = 1
    BY <2>4 DEF Packet
  <2>6. in.source = farAddr(n)
    <3>1. 0 \in Box /\ l \in 1..Len(got[n][0])
      BY <2>2 DEF Box
    <3>2. PICK i \in 1..Len(socket[n]) : got[n][0][l] = socket[n][i] /\ socket[n][i].to = 0
      BY <2>1, <3>1, GotFrom
    <3>3. socket[n][i].source = farAddr(n)
      BY <2>1, <3>2 DEF Letters
    <3>4. QED
      BY <2>2, <2>4, <3>2, <3>3
  <2>7. farAddr(in.source) = n
    BY <2>6, Far
  <2>8. PICK packet : packet = [data |-> "GotIt", source |-> n, to |-> in.from, from |-> 1]
    OBVIOUS
  <2>9. packet \in Packet /\ packet.to = 1
    BY <2>5, <2>8 DEF Packet, Box
  <2>10. \E j \in 1..Len(got[n][0]) : got[n][0][j].source = in.source
    BY <2>2, <2>4
  <2>11. Send(n, packet, in.source) /\ mail' = [mail EXCEPT ![n] = "acked"]
    BY <1>2, <2>4, <2>8 DEF MailAcks
  <2>12. /\ packet.to = 0 => packet.source = farAddr(in.source)
         /\ packet.to = 1 => \E j \in 1..Len(got[farAddr(in.source)][0]) :
                                got[farAddr(in.source)][0][j].source = in.source
    BY <2>7, <2>9, <2>10
  <2>13. QED
    BY <2>5, <2>9, <2>11, <2>12, SendKeepsMail
<1>3. QED
  BY <1>1, <1>2

HeadMoved(S, g, x) ==
    \E h \in S, t \in Seq(S), a \in Seq(S) :
       /\ h = Head(x) /\ t = Tail(x)
       /\ a = Append(g, h) /\ a # << >> /\ a \o t = g \o x

\* The first element of one sequence goes to the end of the other.
LEMMA HeadMoves ==
    ASSUME NEW S, NEW g \in Seq(S), NEW x \in Seq(S), x # << >>
    PROVE  HeadMoved(S, g, x)
<1>1. PICK n \in Nat \ {0} : n = Len(x)
  OBVIOUS
<1>2. Head(x) \in S /\ Tail(x) \in Seq(S)
  BY HeadTailProperties
<1>3. x = <<Head(x)>> \o Tail(x)
  <2>1. 1 \in 1..Len(x) /\ Len(x) \in 1..Len(x)
    BY <1>1
  <2>2. SubSeq(x, 1, Len(x)) = <<x[1]>> \o SubSeq(x, 1 + 1, Len(x))
    BY <2>1, SubSeqRecursiveFirst
  <2>3. SubSeq(x, 1, Len(x)) = x
    BY SubSeqFull
  <2>4. Tail(x) = SubSeq(x, 2, Len(x))
    BY TailIsSubSeq
  <2>5. Head(x) = x[1] /\ 1 + 1 = 2
    OBVIOUS
  <2>6. QED
    BY <2>2, <2>3, <2>4, <2>5
<1>4. PICK h \in S : h = Head(x)
  BY <1>2
<1>5. PICK t \in Seq(S) : t = Tail(x)
  BY <1>2
<1>6. PICK one \in Seq(S) : one = <<h>>
  <2>1. <<h>> \in Seq(S)
    OBVIOUS
  <2>2. QED
    BY <2>1
<1>7. PICK a \in Seq(S) : a = Append(g, h) /\ a # << >>
  <2>1. Append(g, h) \in Seq(S) /\ Append(g, h) # << >>
    BY AppendProperties
  <2>2. QED
    BY <2>1
<1>8. (g \o one) \o t = g \o (one \o t)
  BY ConcatAssociative
<1>9. a = g \o one
  BY <1>6, <1>7, AppendIsConcat
<1>10. x = one \o t
  BY <1>3, <1>4, <1>5, <1>6
<1>11. a \o t = g \o x
  BY <1>8, <1>9, <1>10
<1>12. QED
  BY <1>4, <1>5, <1>7, <1>11 DEF HeadMoved

\* Receive takes the first message of the box.
LEMMA ReceiveKeepsMail ==
    ASSUME TimeInv, MailInv, NEW n \in MailNode, NEW box \in Box, NEW next,
           next = "ack" => box = 0, Receive(n, box, next)
    PROVE  MailInv'
<1>1. MailTyped /\ Mailing(n)
  BY DEF MailInv
<1>2. CASE boxes[n][box] = << >>
  <2>1. UNCHANGED mailVars /\ value' = value
    BY <1>2 DEF Receive, Wait, Abort
  <2>2. UNCHANGED <<socket, read, inbox, boxes, worker, got>> /\ mail' = mail
    BY <2>1 DEF mailVars
  <2>3. QED
    BY <1>1, <2>1, <2>2, MailUnmoved DEF MailTyped
<1>3. CASE boxes[n][box] # << >>
  <2>1. PICK x \in Seq(Packet), g \in Seq(Packet) : x = boxes[n][box] /\ g = got[n][box]
    BY <1>1 DEF MailTyped
  <2>2. PICK h \in Packet, t \in Seq(Packet), a \in Seq(Packet) :
            /\ h = Head(x) /\ t = Tail(x)
            /\ a = Append(g, h) /\ a # << >> /\ a \o t = g \o x
    <3>1. x # << >>
      BY <1>3, <2>1
    <3>2. HeadMoved(Packet, g, x)
      BY <3>1, HeadMoves
    <3>3. QED
      BY <3>2 DEF HeadMoved
  <2>3. /\ boxes' = [boxes EXCEPT ![n][box] = t]
        /\ got' = [got EXCEPT ![n][box] = a]
        /\ mail' = [mail EXCEPT ![n] = next]
        /\ value' = value /\ socket' = socket /\ read' = read /\ inbox' = inbox
        /\ worker' = worker
    BY <1>3, <2>1, <2>2 DEF Receive, Get, SynchListRemove, machine
  <2>4. MailTyped'
    BY <1>1, <2>3 DEF MailTyped
  <2>5. /\ boxes'[n][box] = t /\ got'[n][box] = a /\ mail'[n] = next
        /\ \A b \in Box : b # box => boxes'[n][b] = boxes[n][b] /\ got'[n][b] = got[n][b]
    BY <1>1, <2>3 DEF MailTyped
  <2>6. \A b \in Box : got'[n][b] \o boxes'[n][b] = got[n][b] \o boxes[n][b]
    BY <2>1, <2>2, <2>5
  <2>7. Done(n)' = Done(n)
    BY <2>3 DEF Done
  <2>8. Mailing(n)'
    <3>1. \A b \in Box : got'[n][b] \o boxes'[n][b]
                            = MessagesFor(b, SubSeq(socket'[n], 1, Done(n)'))
      BY <1>1, <2>3, <2>6, <2>7 DEF Mailing
    <3>2. mail'[n] = "ack" => got'[n][0] # << >>
      BY <2>2, <2>5
    <3>3. QED
      BY <1>1, <2>3, <3>1, <3>2 DEF Mailing
  <2>9. \A m \in MailNode \ {n} : SameMail(m) /\ got'[m] = got[m]
    BY <1>1, <2>3 DEF SameMail, MailTyped
  <2>10. got'[n][0] = got[n][0] \/ \E y \in Packet : got'[n][0] = Append(got[n][0], y)
    BY <2>1, <2>2, <2>5 DEF Box
  <2>11. QED
    BY <2>3, <2>4, <2>8, <2>9, <2>10, OneMailer
<1>4. QED
  BY <1>2, <1>3

\* The worker wakes up, and puts the packet into the box that it names.
LEMMA WorkerKeepsMail ==
    ASSUME TimeInv, MailInv, NEW n \in MailNode, WorkerWakes(n) \/ WorkerPuts(n)
    PROVE  MailInv'
<1>1. MailTyped /\ Mailing(n) /\ DevicesTyped /\ n \in Node
  BY DevicesAssumption DEF MailInv, TimeInv
<1>2. CASE WorkerWakes(n)
  <2>1. /\ P(n, "messageAvailable") /\ worker' = [worker EXCEPT ![n] = "put"]
        /\ UNCHANGED <<socket, read, inbox, boxes, mail, got>>
    BY <1>2 DEF WorkerWakes
  <2>2. "messageAvailable" \in SemName
    BY DEF SemName
  <2>3. /\ value[n]["messageAvailable"] \in Nat /\ value[n]["messageAvailable"] > 0
        /\ value'[n]["messageAvailable"] = value[n]["messageAvailable"] - 1
    BY <1>1, <2>1, <2>2, OneDown
  <2>4. value[n]["messageAvailable"] \in {0, 1}
    BY <1>1 DEF Mailing
  <2>5. value[n]["messageAvailable"] = 1 /\ value'[n]["messageAvailable"] = 0
    BY <2>3, <2>4
  <2>6. inbox[n] # << >>
    BY <1>1, <2>5 DEF Mailing
  <2>7. MailTyped' /\ worker'[n] = "put"
    BY <1>1, <2>1 DEF MailTyped
  <2>8. Done(n)' = Done(n)
    BY <2>1 DEF Done
  <2>9. Mailing(n)'
    <3>1. value'[n]["messageAvailable"] \in {0, 1} /\ value'[n]["messageAvailable"] # 1
      BY <2>5
    <3>2. QED
      BY <1>1, <2>1, <2>6, <2>8, <3>1 DEF Mailing
  <2>10. \A m \in MailNode \ {n} : SameMail(m) /\ got'[m] = got[m]
    <3>1. \A m \in Node \ {n} : value'[m] = value[m]
      BY <1>1, <2>1 DEF DevicesTyped, P
    <3>2. MailNode \subseteq Node
      BY DevicesAssumption
    <3>3. QED
      BY <1>1, <2>1, <3>1, <3>2 DEF SameMail, MailTyped
  <2>11. QED
    BY <2>1, <2>7, <2>9, <2>10, OneMailer
<1>3. CASE WorkerPuts(n)
  <2>1. PICK s \in Seq(Packet), k \in Nat : s = socket[n] /\ k = read[n]
    BY <1>1 DEF MailTyped
  <2>2. /\ worker[n] = "put" /\ inbox[n] # << >> /\ k > 0 /\ inbox[n] = <<s[k]>> /\ k <= Len(s)
    BY <1>1, <1>3, <2>1 DEF WorkerPuts, Mailing
  <2>3. k \in 1..Len(s)
    BY <2>1, <2>2
  <2>4. PICK x \in Packet : x = s[k]
    BY <2>3
  <2>5. Head(inbox[n]) = x
    BY <2>2, <2>4
  <2>6. x.to \in Box
    BY DEF Packet
  <2>7. PICK y \in Seq(Packet) : y = boxes[n][x.to]
    BY <1>1, <2>6 DEF MailTyped
  <2>8. /\ boxes' = [boxes EXCEPT ![n][x.to] = Append(y, x)]
        /\ inbox' = [inbox EXCEPT ![n] = << >>] /\ worker' = [worker EXCEPT ![n] = "wait"]
        /\ value' = value /\ socket' = socket /\ read' = read /\ mail' = mail /\ got' = got
    BY <1>3, <2>5, <2>7 DEF WorkerPuts, NetworkReceive, Put, SynchListAppend, machine
  <2>9. Append(y, x) \in Seq(Packet) /\ << >> \in Seq(Packet)
    BY AppendProperties
  <2>10. MailTyped'
    BY <1>1, <2>6, <2>8, <2>9 DEF MailTyped
  <2>11. /\ boxes'[n][x.to] = Append(y, x) /\ inbox'[n] = << >> /\ worker'[n] = "wait"
         /\ \A b \in Box : b # x.to => boxes'[n][b] = boxes[n][b]
    BY <1>1, <2>6, <2>8 DEF MailTyped
  <2>12. Done(n) = k - 1 /\ Done(n)' = k
    BY <2>1, <2>2, <2>8, <2>11 DEF Done
  <2>13. PICK p \in Seq(Packet) : p = SubSeq(s, 1, k - 1)
    <3>1. \A i \in 1..(k - 1) : i \in 1..Len(s)
      BY <2>3
    <3>2. SubSeq(s, 1, k - 1) \in Seq(Packet)
      BY <2>1, <3>1, SubSeqProperties
    <3>3. QED
      BY <3>2
  <2>14. SubSeq(s, 1, k) = Append(p, x)
    <3>1. 1 \in 1..Len(s) /\ k \in 1..Len(s)
      BY <2>3
    <3>2. SubSeq(s, 1, k) = p \o <<x>>
      BY <2>4, <2>13, <3>1, SubSeqRecursiveSecond
    <3>3. QED
      BY <3>2, AppendIsConcat
  <2>15. ASSUME NEW b \in Box
         PROVE  got'[n][b] \o boxes'[n][b] = MessagesFor(b, SubSeq(socket'[n], 1, Done(n)'))
    <3>1. PICK g \in Seq(Packet), z \in Seq(Packet) : g = got[n][b] /\ z = boxes[n][b]
      BY <1>1 DEF MailTyped
    <3>2. g \o z = MessagesFor(b, p)
      BY <1>1, <2>1, <2>12, <2>13, <3>1 DEF Mailing
    <3>3. MessagesFor(b, SubSeq(s, 1, k))
             = IF x.to = b THEN Append(MessagesFor(b, p), x) ELSE MessagesFor(b, p)
      <4>1. MessagesFor(b, Append(p, x))
               = IF x.to = b THEN Append(MessagesFor(b, p), x) ELSE MessagesFor(b, p)
        BY MessagesOneMore
      <4>2. QED
        BY <2>14, <4>1
    <3>4. CASE x.to = b
      <4>1. y = z /\ boxes'[n][b] = Append(z, x)
        BY <2>7, <2>11, <3>1, <3>4
      <4>2. g \o z \in Seq(Packet) /\ <<x>> \in Seq(Packet)
        BY ConcatProperties
      <4>3. Append(g \o z, x) = (g \o z) \o <<x>> /\ Append(z, x) = z \o <<x>>
        BY <4>2, AppendIsConcat
      <4>4. (g \o z) \o <<x>> = g \o (z \o <<x>>)
        <5>1. PICK one \in Seq(Packet) : one = <<x>>
          BY <4>2
        <5>2. (g \o z) \o one = g \o (z \o one)
          BY ConcatAssociative, SMTT(60)
        <5>3. QED
          BY <5>1, <5>2
      <4>5. g \o Append(z, x) = MessagesFor(b, SubSeq(s, 1, k))
        BY <3>2, <3>3, <3>4, <4>3, <4>4
      <4>6. QED
        BY <2>1, <2>8, <2>12, <3>1, <4>1, <4>5
    <3>5. CASE x.to # b
      BY <2>1, <2>8, <2>11, <2>12, <3>1, <3>2, <3>3, <3>5
    <3>6. QED
      BY <3>4, <3>5
  <2>16. Mailing(n)'
    <3>1. value'[n]["messageAvailable"] = 1 => FALSE
      BY <1>1, <2>2, <2>8 DEF Mailing
    <3>2. /\ value'[n]["messageAvailable"] \in {0, 1}
          /\ mail'[n] = "ack" => got'[n][0] # << >>
          /\ read'[n] <= Len(socket'[n])
      BY <1>1, <2>8 DEF Mailing
    <3>3. QED
      BY <2>11, <2>15, <3>1, <3>2 DEF Mailing
  <2>17. \A m \in MailNode \ {n} : SameMail(m) /\ got'[m] = got[m]
    BY <1>1, <2>8 DEF SameMail, MailTyped
  <2>18. QED
    BY <2>8, <2>10, <2>16, <2>17, OneMailer
<1>4. QED
  BY <1>2, <1>3

\* The network reads a packet into its buffer.
LEMMA CheckKeepsMail ==
    ASSUME TimeInv, MailInv, NEW n \in MailNode, CheckPktAvail(n)
    PROVE  MailInv'
<1>1. MailTyped /\ Mailing(n) /\ DevicesTyped /\ n \in Node
  BY DevicesAssumption DEF MailInv, TimeInv
<1>2. PICK s \in Seq(Packet), k \in Nat : s = socket[n] /\ k = read[n]
  BY <1>1 DEF MailTyped
<1>3. /\ inbox[n] = << >> /\ k < Len(s) /\ V(n, "messageAvailable")
      /\ read' = [read EXCEPT ![n] = k + 1] /\ inbox' = [inbox EXCEPT ![n] = <<s[k + 1]>>]
      /\ UNCHANGED <<socket, boxes, worker, mail, got>>
  BY <1>2 DEF CheckPktAvail, NoPktBuffered, PollSocket, ReadFromSocket, IncomingPacket
<1>4. k + 1 \in 1..Len(s)
  BY <1>2, <1>3
<1>5. <<s[k + 1]>> \in Seq(Packet) /\ <<s[k + 1]>> # << >>
  <2>1. PICK x \in Packet : x = s[k + 1]
    BY <1>4
  <2>2. <<x>> \in Seq(Packet) /\ <<x>> # << >>
    OBVIOUS
  <2>3. QED
    BY <2>1, <2>2
<1>6. MailTyped' /\ read'[n] = k + 1 /\ inbox'[n] = <<s[k + 1]>>
  BY <1>1, <1>3, <1>5 DEF MailTyped
<1>7. Done(n) = k /\ Done(n)' = k
  <2>1. Done(n) = k
    BY <1>2, <1>3 DEF Done
  <2>2. Done(n)' = (k + 1) - 1
    BY <1>5, <1>6 DEF Done
  <2>3. QED
    BY <2>1, <2>2
<1>8. /\ value[n]["messageAvailable"] \in {0, 1} /\ value[n]["messageAvailable"] # 1
      /\ worker[n] # "put" /\ (mail[n] = "ack" => got[n][0] # << >>)
  BY <1>1, <1>3 DEF Mailing
<1>9. value'[n]["messageAvailable"] = 1
  <2>1. "messageAvailable" \in SemName
    BY DEF SemName
  <2>2. value'[n]["messageAvailable"] = value[n]["messageAvailable"] + 1
    BY <1>1, <1>3, <2>1, OneUp
  <2>3. QED
    BY <1>8, <2>2
<1>10. worker[n] = "wait"
  BY <1>1, <1>8 DEF MailTyped
<1>11. \A b \in Box : got'[n][b] \o boxes'[n][b]
                         = MessagesFor(b, SubSeq(socket'[n], 1, Done(n)'))
  BY <1>1, <1>2, <1>3, <1>7 DEF Mailing
<1>12. /\ read'[n] <= Len(socket'[n]) /\ read'[n] > 0
       /\ inbox'[n] = <<socket'[n][read'[n]]>> /\ inbox'[n] # << >>
  <2>1. socket'[n] = s
    BY <1>2, <1>3
  <2>2. k + 1 <= Len(s) /\ k + 1 > 0
    BY <1>3, <1>4
  <2>3. QED
    BY <1>5, <1>6, <2>1, <2>2
<1>13. Mailing(n)'
  BY <1>3, <1>8, <1>9, <1>10, <1>11, <1>12 DEF Mailing
<1>14. \A m \in MailNode \ {n} : SameMail(m) /\ got'[m] = got[m]
  <2>1. \A m \in Node \ {n} : value'[m] = value[m]
    BY <1>1, <1>3 DEF DevicesTyped, V
  <2>2. MailNode \subseteq Node
    BY DevicesAssumption
  <2>3. QED
    BY <1>1, <1>3, <2>1, <2>2 DEF SameMail, MailTyped
<1>15. QED
  BY <1>3, <1>6, <1>13, <1>14, OneMailer

\* The other steps of the network and of MailTest.
LEMMA OthersKeepMail ==
    ASSUME TimeInv, MailInv, NEW n \in MailNode,
           MailSent(n) \/ MailHalts(n) \/ CheckPktNone(n) \/ SendDone(n)
    PROVE  MailInv'
<1>1. MailTyped /\ DevicesTyped /\ n \in Node /\ MailNode \subseteq Node
  BY DevicesAssumption DEF MailInv, TimeInv
<1>2. "messageAvailable" \in SemName /\ "messageSent" \in SemName
  BY DEF SemName
<1>3. CASE MailSent(n)
  <2>1. /\ P(n, "messageSent") /\ UNCHANGED <<socket, read, inbox, boxes, worker, got>>
        /\ mail' = [mail EXCEPT ![n] = IF mail[n] = "sent" THEN "receive" ELSE "await"]
    BY <1>3 DEF MailSent
  <2>2. ASSUME NEW m \in MailNode
        PROVE  value'[m]["messageAvailable"] = value[m]["messageAvailable"]
    <3>1. CASE m = n
      BY <1>1, <1>2, <2>1, <3>1, OneDown
    <3>2. CASE m # n
      <4>1. Still(m)
        BY <1>1, <2>1, <3>2, StillTicks
      <4>2. QED
        BY <4>1 DEF Still
    <3>3. QED
      BY <3>1, <3>2
  <2>3. /\ DOMAIN mail' = MailNode
        /\ \A m \in MailNode : mail'[m] = "ack" => mail[m] = "ack"
    BY <1>1, <2>1 DEF MailTyped
  <2>4. QED
    BY <2>1, <2>2, <2>3, MailUnmoved
<1>4. CASE MailHalts(n) \/ CheckPktNone(n)
  <2>1. value' = value /\ UNCHANGED mailVars
    BY <1>4 DEF MailHalts, Halt, CheckPktNone
  <2>2. UNCHANGED <<socket, read, inbox, boxes, worker, got>> /\ mail' = mail
    BY <2>1 DEF mailVars
  <2>3. QED
    BY <1>1, <2>1, <2>2, MailUnmoved DEF MailTyped
<1>5. CASE SendDone(n)
  <2>1. V(n, "messageSent") /\ UNCHANGED mailVars
    BY <1>5 DEF SendDone, PacketSent
  <2>2. UNCHANGED <<socket, read, inbox, boxes, worker, got>> /\ mail' = mail
    BY <2>1 DEF mailVars
  <2>3. ASSUME NEW m \in MailNode
        PROVE  value'[m]["messageAvailable"] = value[m]["messageAvailable"]
    <3>1. CASE m = n
      BY <1>1, <1>2, <2>1, <3>1, OneUp
    <3>2. CASE m # n
      BY <1>1, <2>1, <3>2 DEF DevicesTyped, V
    <3>3. QED
      BY <3>1, <3>2
  <2>4. QED
    BY <1>1, <2>2, <2>3, MailUnmoved DEF MailTyped
<1>6. QED
  BY <1>3, <1>4, <1>5

\* What the network and its threads do.
LEMMA MailKeepsMail ==
    ASSUME TimeInv, MailInv, NEW n \in MailNode, MailStep(n)
    PROVE  MailInv'
<1>1. CASE MailReceives(n)
  <2>1. Receive(n, 0, "ack") /\ 0 \in Box
    BY <1>1 DEF MailReceives, Box
  <2>2. QED
    BY <2>1, ReceiveKeepsMail
<1>2. CASE MailAwaits(n)
  <2>1. Receive(n, 1, "done") /\ 1 \in Box
    BY <1>2 DEF MailAwaits, Box
  <2>2. QED
    BY <2>1, ReceiveKeepsMail
<1>3. QED
  BY <1>1, <1>2, OthersKeepMail, MailTestSends, WorkerKeepsMail, CheckKeepsMail DEF MailStep

\* When the machines are switched on, no packet was sent.
LEMMA InitMailInv == Init => MailInv
<1> SUFFICES ASSUME Init PROVE MailInv
  OBVIOUS
<1>1. /\ socket = [n \in MailNode |-> << >>] /\ read = [n \in MailNode |-> 0]
      /\ inbox = [n \in MailNode |-> << >>]
      /\ boxes = [n \in MailNode |-> [b \in Box |-> << >>]]
      /\ worker = [n \in MailNode |-> "wait"] /\ mail = [n \in MailNode |-> "send"]
      /\ got = [n \in MailNode |-> [b \in Box |-> << >>]]
      /\ value = [n \in Node |-> [s \in SemName |-> 0]]
  BY DEF Init, NetworkInit
<1>2. PICK e \in Seq(Packet) : e = << >>
  <2>1. << >> \in Seq(Packet)
    OBVIOUS
  <2>2. QED
    BY <2>1
<1>3. MailTyped
  BY <1>1, <1>2 DEF MailTyped
<1>4. Len(e) = 0 /\ SubSeq(e, 1, 0) = e /\ e \o e = e
  BY <1>2, SubSeqEmpty, ConcatEmptySeq
<1>5. \A b \in Box : MessagesFor(b, e) = e
  BY <1>2, MessagesGrow
<1>6. ASSUME NEW n \in MailNode PROVE Mailing(n) /\ Letters(n)
  <2>1. n \in Node /\ "messageAvailable" \in SemName /\ 0 \in Box
    BY DevicesAssumption DEF SemName, Box
  <2>2. /\ value[n]["messageAvailable"] = 0 /\ inbox[n] = << >> /\ worker[n] = "wait"
        /\ read[n] = 0 /\ socket[n] = e /\ mail[n] = "send"
        /\ \A b \in Box : got[n][b] = e /\ boxes[n][b] = e
    BY <1>1, <1>2, <2>1
  <2>3. Done(n) = 0
    BY <2>2 DEF Done
  <2>4. \A b \in Box : got[n][b] \o boxes[n][b] = MessagesFor(b, SubSeq(socket[n], 1, Done(n)))
    BY <1>4, <1>5, <2>2, <2>3
  <2>5. /\ value[n]["messageAvailable"] \in {0, 1} /\ value[n]["messageAvailable"] # 1
        /\ worker[n] # "put" /\ mail[n] # "ack" /\ read[n] <= Len(socket[n])
    BY <1>4, <2>2
  <2>6. Mailing(n)
    BY <2>2, <2>4, <2>5 DEF Mailing
  <2>7. Letters(n)
    BY <1>4, <2>2 DEF Letters
  <2>8. QED
    BY <2>6, <2>7
<1>7. QED
  BY <1>3, <1>6 DEF MailInv

\* Every step keeps the mail in that state.
LEMMA StepMailInv == TimeInv /\ MailInv /\ [Next]_vars => MailInv'
<1> SUFFICES ASSUME TimeInv, MailInv, [Next]_vars PROVE MailInv'
  OBVIOUS
<1>1. MailTyped /\ DevicesTyped /\ MailNode \subseteq Node
  BY DevicesAssumption DEF MailInv, TimeInv
<1>2. ASSUME UNCHANGED mailVars,
             \A m \in MailNode :
                value'[m]["messageAvailable"] = value[m]["messageAvailable"]
      PROVE  MailInv'
  <2>1. UNCHANGED <<socket, read, inbox, boxes, worker, got>> /\ mail' = mail
    BY <1>2 DEF mailVars
  <2>2. QED
    BY <1>1, <1>2, <2>1, MailUnmoved DEF MailTyped
<1>3. ASSUME NEW n \in DiskNode, DiskStep(n) PROVE MailInv'
  <2>1. UNCHANGED mailVars
    BY <1>3 DEF DiskStep
  <2>2. \A m \in MailNode : m \in Node /\ m # n
    BY DevicesAssumption
  <2>3. \A m \in MailNode : Still(m)
    BY <1>1, <1>3, <2>2, StillDisk
  <2>4. QED
    BY <1>2, <2>1, <2>3 DEF Still
<1>4. ASSUME NEW n \in ConsoleNode, ConsoleStep(n) PROVE MailInv'
  <2>1. UNCHANGED mailVars
    BY <1>4 DEF ConsoleStep
  <2>2. \A m \in MailNode : m \in Node /\ m # n
    BY DevicesAssumption
  <2>3. \A m \in MailNode : Still(m)
    BY <1>1, <1>4, <2>2, StillConsole
  <2>4. QED
    BY <1>2, <2>1, <2>3 DEF Still
<1>5. ASSUME NEW n \in MailNode, MailStep(n) PROVE MailInv'
  BY <1>5, MailKeepsMail
<1>6. ASSUME NEW n \in Node, MachineStep(n) PROVE MailInv'
  <2>1. UNCHANGED mailVars /\ value' = value
    BY <1>6 DEF MachineStep, NothingDue, TimerExpired, YieldReturns, Idle
  <2>2. QED
    BY <1>2, <2>1
<1>7. CASE UNCHANGED vars
  <2>1. UNCHANGED mailVars /\ value' = value
    BY <1>7 DEF vars, machine
  <2>2. QED
    BY <1>2, <2>1
<1>8. QED
  BY <1>3, <1>4, <1>5, <1>6, <1>7 DEF Next

\* The packet in the buffer and those not yet read are the rest of the socket.
LEMMA RestOfSocket ==
    ASSUME MailTyped, NEW n \in MailNode, Mailing(n)
    PROVE  inbox[n] \o SubSeq(socket[n], read[n] + 1, Len(socket[n]))
              = SubSeq(socket[n], Done(n) + 1, Len(socket[n]))
<1>1. PICK s \in Seq(Packet), k \in Nat : s = socket[n] /\ k = read[n]
  BY DEF MailTyped
<1>2. k <= Len(s)
  BY <1>1 DEF Mailing
<1>3. CASE inbox[n] = << >>
  <2>1. Done(n) = k
    BY <1>1, <1>3 DEF Done
  <2>2. \A i \in (k + 1)..Len(s) : i \in 1..Len(s)
    OBVIOUS
  <2>3. SubSeq(s, k + 1, Len(s)) \in Seq(Packet)
    BY <2>2, SubSeqProperties
  <2>4. PICK r \in Seq(Packet) : r = SubSeq(s, k + 1, Len(s))
    BY <2>3
  <2>5. << >> \o r = r
    BY ConcatEmptySeq
  <2>6. QED
    BY <1>1, <1>3, <2>1, <2>4, <2>5
<1>4. CASE inbox[n] # << >>
  <2>1. k > 0 /\ inbox[n] = <<s[k]>>
    BY <1>1, <1>4 DEF Mailing
  <2>2. Done(n) = k - 1
    BY <1>1, <1>4 DEF Done
  <2>3. k \in 1..Len(s) /\ Len(s) \in k..Len(s) /\ (k - 1) + 1 = k
    BY <1>2, <2>1
  <2>4. SubSeq(s, k, Len(s)) = <<s[k]>> \o SubSeq(s, k + 1, Len(s))
    BY <2>3, SubSeqRecursiveFirst
  <2>5. QED
    BY <1>1, <2>1, <2>2, <2>3, <2>4
<1>5. QED
  BY <1>3, <1>4

Parts(s, d, p, r) == p = SubSeq(s, 1, d) /\ r = SubSeq(s, d + 1, Len(s)) /\ p \o r = s

\* A sequence is its first elements and its others.
LEMMA TwoParts ==
    ASSUME NEW S, NEW s \in Seq(S), NEW d \in Nat, d <= Len(s)
    PROVE  \E p \in Seq(S), r \in Seq(S) : Parts(s, d, p, r)
<1>1. PICK n \in Nat : n = Len(s)
  OBVIOUS
<1>2. d <= n /\ n \in Int /\ d + 1 \in Int /\ 1 \in Int
  BY <1>1
<1>3. \A i \in 1..n : s[i] \in S
  BY <1>1
<1>4. (\A i \in 1..d : s[i] \in S) /\ \A i \in (d + 1)..n : s[i] \in S
  <2>1. \A i \in Int : (i \in 1..d => i \in 1..n) /\ (i \in (d + 1)..n => i \in 1..n)
    BY <1>2
  <2>2. QED
    BY <1>3, <2>1
<1>5. SubSeq(s, 1, d) \in Seq(S)
  BY <1>2, <1>4, SubSeqProperties
<1>6. SubSeq(s, d + 1, n) \in Seq(S)
  BY <1>2, <1>4, SubSeqProperties
<1>7. SubSeq(s, 1, d) \o SubSeq(s, d + 1, n) = SubSeq(s, 1, n)
  <2>1. 1 \in 1..(Len(s) + 1) /\ d \in (1 - 1)..Len(s) /\ n \in d..Len(s)
    BY <1>1, <1>2
  <2>2. QED
    BY <2>1, ConcatAdjacentSubSeq
<1>8. SubSeq(s, 1, n) = s
  BY <1>1, SubSeqFull
<1>9. QED
  BY <1>1, <1>5, <1>6, <1>7, <1>8 DEF Parts

\* The messages for a box, in the order in which they reached the socket, are
\* those received, those in the box, the one in the network's buffer and those
\* not yet read; and whoever got an acknowledgement knows that the other side
\* has its message (MailTest, PostalDelivery, CheckPktAvail).
THEOREM SpecMailArrivesOnce == Spec => []MailArrivesOnce
<1>1. MailInv => MailArrivesOnce
  <2> SUFFICES ASSUME MailInv, NEW n \in MailNode
               PROVE  /\ \A b \in Box :
                            MessagesFor(b, socket[n])
                               = got[n][b] \o boxes[n][b]
                                    \o MessagesFor(b, inbox[n] \o
                                          SubSeq(socket[n], read[n] + 1, Len(socket[n])))
                      /\ got[n][1] # << >> =>
                            \E i \in 1..Len(got[farAddr(n)][0]) :
                               got[farAddr(n)][0][i].source = n
    BY DEF MailArrivesOnce
  <2>1. MailTyped /\ Mailing(n) /\ Letters(n)
    BY DEF MailInv
  <2>2. PICK s \in Seq(Packet), k \in Nat : s = socket[n] /\ k = read[n]
    BY <2>1 DEF MailTyped
  <2>3. PICK d \in Nat : d = Done(n) /\ d <= Len(s)
    BY <2>1, <2>2 DEF Mailing, Done
  <2>4. PICK p \in Seq(Packet), r \in Seq(Packet) : Parts(s, d, p, r)
    BY <2>3, TwoParts
  <2>5. p = SubSeq(s, 1, d) /\ r = SubSeq(s, d + 1, Len(s))
    BY <2>4 DEF Parts
  <2>6. p \o r = s
    BY <2>4 DEF Parts
  <2>7. inbox[n] \o SubSeq(socket[n], read[n] + 1, Len(socket[n])) = r
    <3>1. inbox[n] \o SubSeq(socket[n], read[n] + 1, Len(socket[n]))
             = SubSeq(socket[n], Done(n) + 1, Len(socket[n]))
      BY <2>1, RestOfSocket
    <3>2. QED
      BY <2>2, <2>3, <2>5, <3>1
  <2>8. ASSUME NEW b \in Box
        PROVE  MessagesFor(b, socket[n])
                  = got[n][b] \o boxes[n][b]
                       \o MessagesFor(b, inbox[n] \o
                             SubSeq(socket[n], read[n] + 1, Len(socket[n])))
    <3>1. MessagesFor(b, p \o r) = MessagesFor(b, p) \o MessagesFor(b, r)
      BY MessagesOfBoth
    <3>2. got[n][b] \o boxes[n][b] = MessagesFor(b, p)
      BY <2>1, <2>2, <2>3, <2>5 DEF Mailing
    <3>3. QED
      BY <2>2, <2>6, <2>7, <3>1, <3>2
  <2>9. ASSUME got[n][1] # << >>
        PROVE  \E i \in 1..Len(got[farAddr(n)][0]) : got[farAddr(n)][0][i].source = n
    <3>1. PICK g \in Seq(Packet) : g = got[n][1] /\ g # << >>
      BY <2>1, <2>9 DEF MailTyped, Box
    <3>2. 1 \in 1..Len(got[n][1]) /\ 1 \in Box
      BY <3>1 DEF Box
    <3>3. PICK i \in 1..Len(socket[n]) : got[n][1][1] = socket[n][i] /\ socket[n][i].to = 1
      BY <2>1, <3>2, GotFrom
    <3>4. QED
      BY <2>1, <3>3 DEF Letters
  <2>10. QED
    BY <2>8, <2>9
<1>2. QED
  BY <1>1, AlwaysTimeInv, InitMailInv, StepMailInv, PTL DEF Spec
=============================================================================
