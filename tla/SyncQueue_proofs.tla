-------------------------- MODULE SyncQueue_proofs --------------------------
(***************************************************************************)
(* Proofs about SyncQueue and its SyncReaderList, for any number of        *)
(* readers and queues of any size from two slots on.                       *)
(*                                                                         *)
(* ListInv is about the pointers of the list, whatever isEmpty answers and *)
(* whenever readers leave.  OrderInv is about the slots that the readers   *)
(* of the list have: it holds in a queue that doubles when it grows, until *)
(* a reader leaves before the others.  SlotInv is about what the slots     *)
(* hold, and needs that isEmpty has not misread a slot either.  SingleInv  *)
(* is for a queue with one reader, which never misreads one.               *)
(***************************************************************************)
EXTENDS SyncQueue, RingIndex_proofs, FiniteSetTheorems, TLAPS

-----------------------------------------------------------------------------
(* The list.                                                               *)

(* pos ranks the readers of a list of n, from the back to the front, and   *)
(* the pointers agree with it.                                             *)
Linked(n, pos) ==
  /\ n > 0 => front \in Members /\ back \in Members
  /\ n = 0 => front = NULL /\ back = NULL
  /\ \A r \in Members : /\ pos[r] \in 1 .. n
                        /\ pos[r] = n <=> r = front
                        /\ pos[r] = 1 <=> r = back
  /\ \A q, r \in Members : pos[q] = pos[r] => q = r
  /\ \A r \in Members : r # front => next[r] \in Members /\ pos[next[r]] = pos[r] + 1
  /\ \A r \in Members : r # back => previous[r] \in Members /\ pos[previous[r]] = pos[r] - 1

List == \E n \in Nat : \E pos \in [Readers -> Nat] : Linked(n, pos)

(* The first value that isEmpty has read is an index. *)
SeenIndex == \A r \in Readers : rpc[r] = "base" => seenW[r] \in Indices(size)

ListInv == TypeOK /\ index \in [Readers -> Int] /\ SeenIndex /\ List

-----------------------------------------------------------------------------
(* The order of the readers.                                               *)

At(r) == Offset(index[r])

(* Along the list the slots are in ring order from readIndex on; a reader  *)
(* that shares the slot of one behind it is done and asks for nothing.     *)
Sorted(pos) ==
  /\ \A r \in Members : r = back => index[r] = readIndex
  /\ \A q, r \in Members : pos[q] < pos[r] =>
       \/ At(q) < At(r)
       \/ At(q) = At(r) /\ isDone[r] /\ rpc[r] = "idle"

Ordered == \E n \in Nat : \E pos \in [Readers -> Nat] : Linked(n, pos) /\ Sorted(pos)

OrderInv == ReadersDisjoint /\ Ordered

-----------------------------------------------------------------------------
(* The slots.                                                              *)

(* Slot i has been published and not been given back. *)
Published(i) == Offset(i) < Offset(writeIndex)

(* The answer of the full check stays good until the publication. *)
SpaceReserved ==
  wpc # "idle" => newWrite = nextIndex(writeIndex, size) /\ newWrite # readIndex

WrittenFirst == wpc = "publish" => slots[writeIndex] = "ready"

UsingPublished == \A r \in Members : rpc[r] = "using" => isDone[r] /\ Published(index[r])

OwnedReady == \A r \in Members : Owns(r) /\ Published(index[r]) => slots[index[r]] = "ready"

(* An entry nobody has taken is published, or about to be. *)
ReadyPublished ==
  \A i \in Indices(size) :
    slots[i] = "ready" => Published(i) \/ (wpc = "publish" /\ i = writeIndex)

(* Every slot up to the front's that is not published has a reader that    *)
(* waits for it, so that readIndex cannot pass writeIndex.                 *)
AwaitedSlots ==
  Members # {} =>
    \A i \in Indices(size) :
      Offset(writeIndex) <= Offset(i) /\ Offset(i) <= At(front) =>
        \E r \in Members : Owns(r) /\ index[r] = i

SlotInv ==
  /\ SpaceReserved /\ WrittenFirst /\ UsingPublished /\ OwnedReady /\ ReadyPublished
  /\ AwaitedSlots /\ NoneSkipped /\ HandedOnce

-----------------------------------------------------------------------------
(* The operations of the list, on its pointers.                            *)

ListTypes ==
  /\ front \in Readers \cup {NULL} /\ back \in Readers \cup {NULL}
  /\ next \in [Readers -> Readers \cup {NULL}]
  /\ previous \in [Readers -> Readers \cup {NULL}]
  /\ inQueue \in [Readers -> BOOLEAN]

(* A list with a front has readers, and one without has none.              *)
LEMMA ListEnds ==
  ASSUME ListTypes, NEW n \in Nat, NEW pos \in [Readers -> Nat], Linked(n, pos)
  PROVE  /\ front = NULL <=> n = 0
         /\ Members = {} <=> n = 0
         /\ front = back /\ n > 0 => n = 1
         /\ \A r \in Members : r \in Readers
BY ListAssumption DEF Linked, Members, ListTypes

(* The first reader. *)
LEMMA AddFirstLinked ==
  ASSUME ListTypes, NEW n \in Nat, NEW pos \in [Readers -> Nat], Linked(n, pos),
         NEW r \in Readers, ListAdd(r), AddFirst(r),
         NEW p, p = [pos EXCEPT ![r] = 1]
  PROVE  Linked(1, p)'
<1>1. n = 0 /\ Members = {}
  BY ListEnds DEF AddFirst
<1>2. Members' = {r}
  BY <1>1 DEF ListAdd, ListTypes, Members
<1>3. front' = r /\ back' = r /\ p[r] = 1
  BY DEF AddFirst
<1> QED BY <1>2, <1>3 DEF Linked

(* A reader that joins at the front. *)
LEMMA AddAtFrontLinked ==
  ASSUME ListTypes, NEW n \in Nat, NEW pos \in [Readers -> Nat], Linked(n, pos),
         NEW r \in Readers, ListAdd(r), AddAtFront(r),
         NEW p, p = [pos EXCEPT ![r] = n + 1]
  PROVE  Linked(n + 1, p)'
<1>1. /\ front \in Members /\ back \in Members /\ n > 0 /\ r \notin Members
      /\ \A q \in Members : q \in Readers
  BY ListEnds DEF AddAtFront, ListAdd, Linked, Members
<1>2. Members' = Members \cup {r}
  BY DEF ListAdd, ListTypes, Members
<1>3. front' = r /\ back' = back
  BY DEF AddAtFront
<1>4. /\ next'[front] = r
      /\ \A q \in Members : q # front => next'[q] = next[q]
      /\ previous'[r] = front
      /\ \A q \in Members : previous'[q] = previous[q]
  BY <1>1 DEF AddAtFront, Store, ListTypes
<1>5. p[r] = n + 1 /\ \A q \in Members : p[q] = pos[q]
  BY <1>1
<1> QED BY <1>1, <1>2, <1>3, <1>4, <1>5 DEF Linked

(* A reader that joins behind the front, on the slot of the reader there. *)
BehindRank(pos, n, r) ==
  [x \in Readers |-> IF x = r THEN n ELSE IF x = front THEN n + 1 ELSE pos[x]]

(* add to a list that spans the queue relinks the front. *)
LEMMA AddBehindFrontLinked ==
  ASSUME ListTypes, NEW n \in Nat, NEW pos \in [Readers -> Nat], Linked(n, pos),
         NEW r \in Readers, ListAdd(r), AddBehindFront(r), front # back,
         NEW p, p = BehindRank(pos, n, r)
  PROVE  /\ Linked(n + 1, p)'
         /\ \E before \in Members : /\ before # front /\ pos[before] = n - 1
                                   /\ index' = [index EXCEPT ![r] = index[before]]
<1> DEFINE before == previous[front]
<1>1. /\ front \in Members /\ back \in Members /\ n > 0 /\ r \notin Members
      /\ \A q \in Members : q \in Readers
  BY ListEnds DEF AddBehindFront, ListAdd, Linked, Members
<1>2. before \in Members /\ pos[before] = n - 1 /\ pos[front] = n /\ before # front
  BY <1>1 DEF Linked
<1> HIDE DEF before
<1>3. Members' = Members \cup {r}
  BY DEF ListAdd, ListTypes, Members
<1>4. front' = front /\ back' = back
  BY DEF AddBehindFront
<1>5. /\ next'[r] = front /\ next'[before] = r
      /\ \A q \in Members : q # before => next'[q] = next[q]
      /\ previous'[r] = before /\ previous'[front] = r
      /\ \A q \in Members : q # front => previous'[q] = previous[q]
  BY <1>1, <1>2 DEF AddBehindFront, Store, ListTypes, before
<1>6. p[r] = n /\ p[front] = n + 1 /\ \A q \in Members : q # front => p[q] = pos[q]
  BY <1>1 DEF BehindRank
<1>7. \A q \in Members : q # front /\ q # before => next[q] # front
  BY <1>2 DEF Linked
<1>8. index' = [index EXCEPT ![r] = index[before]]
  BY DEF AddBehindFront, before
<1>9. Linked(n + 1, p)'
  BY <1>1, <1>2, <1>3, <1>4, <1>5, <1>6, <1>7 DEF Linked
<1> QED BY <1>2, <1>8, <1>9

(* A reader that moves to the front from elsewhere. *)
MovedRank(pos, n, r) ==
  [x \in Readers |-> IF x = r THEN n ELSE IF pos[x] > pos[r] THEN pos[x] - 1 ELSE pos[x]]

(* moveOut and the relinking at the front. *)
LEMMA MoveFromWithinLinked ==
  ASSUME ListTypes, NEW n \in Nat, NEW pos \in [Readers -> Nat], Linked(n, pos),
         NEW r \in Readers, MoveAhead(r), MoveFromWithin(r),
         NEW p, p = MovedRank(pos, n, r)
  PROVE  Linked(n, p)'
<1> DEFINE before == previous[r]
           after == next[r]
<1>1. /\ r \in Members /\ r # front /\ front \in Members /\ back \in Members /\ n > 1
      /\ \A q \in Members : q \in Readers
  BY DEF MoveAhead, MoveFromWithin, Linked, Members
<1>2. after \in Members /\ pos[after] = pos[r] + 1 /\ pos[front] = n /\ pos[r] < n
  BY <1>1 DEF Linked
<1>3. r # back => before \in Members /\ pos[before] = pos[r] - 1
  BY <1>1 DEF Linked
<1> HIDE DEF before, after
<1>4. Members' = Members
  BY DEF MoveAhead, Members
<1>5. front' = r /\ back' = IF r = back THEN after ELSE back
  BY DEF MoveFromWithin, after
<1>6. /\ next'[front] = r
      /\ r # back => next'[before] = after
      /\ \A q \in Members \ {r, front} : (r = back \/ q # before) => next'[q] = next[q]
  BY <1>1, <1>2, <1>3 DEF MoveFromWithin, Store, ListTypes, before, after
<1>7. /\ previous'[r] = front
      /\ previous'[after] = IF after = r THEN front ELSE before
      /\ \A q \in Members \ {r, after} : previous'[q] = previous[q]
  BY <1>1, <1>2 DEF MoveFromWithin, Store, ListTypes, before, after
<1>8. /\ p[r] = n
      /\ \A q \in Members : q # r => p[q] = IF pos[q] > pos[r] THEN pos[q] - 1 ELSE pos[q]
  BY <1>1 DEF MovedRank
<1>9. \A q \in Members \ {r, front} : (r = back \/ q # before) => next[q] # r
  BY <1>2, <1>3 DEF Linked
<1>10. \A q \in Members \ {r, after} : q # back => previous[q] # r
  BY <1>2, <1>3 DEF Linked
<1>11. \A q \in Members : pos[q] \in 1 .. n /\ pos[q] \in Nat
  BY DEF Linked
<1>12. \A q, s \in Members : p[q] = p[s] => q = s
  BY <1>1, <1>2, <1>8, <1>11 DEF Linked
<1>13. \A q \in Members : p[q] \in 1 .. n /\ (p[q] = n <=> q = r)
  BY <1>1, <1>2, <1>8, <1>11 DEF Linked
<1>14. \A q \in Members : p[q] = 1 <=> q = back'
  BY <1>1, <1>2, <1>5, <1>8, <1>11 DEF Linked
<1>15. ASSUME NEW q \in Members, q # r PROVE next'[q] \in Members /\ p[next'[q]] = p[q] + 1
  <2>1. CASE q = front
    BY <2>1, <1>1, <1>2, <1>6, <1>8
  <2>2. CASE q # front /\ r # back /\ q = before
    BY <2>2, <1>2, <1>3, <1>6, <1>8, <1>15, <1>11
  <2>3. CASE q # front /\ (r = back \/ q # before)
    <3>1. next'[q] = next[q] /\ next[q] # r /\ next[q] \in Members /\ pos[next[q]] = pos[q] + 1
      BY <2>3, <1>6, <1>9, <1>15 DEF Linked
    <3> QED BY <3>1, <1>1, <1>8, <1>11, <1>15 DEF Linked
  <2> QED BY <2>1, <2>2, <2>3
<1>16. ASSUME NEW q \in Members, q # back' PROVE previous'[q] \in Members /\ p[previous'[q]] = p[q] - 1
  <2>1. CASE q = r
    BY <2>1, <1>1, <1>2, <1>7, <1>8
  <2>2. CASE q = after
    BY <2>2, <1>2, <1>3, <1>5, <1>7, <1>8, <1>11, <1>16
  <2>3. CASE q # r /\ q # after
    <3>1. q # back
      BY <2>3, <1>5, <1>16
    <3>2. /\ previous'[q] = previous[q] /\ previous[q] # r /\ previous[q] \in Members
          /\ pos[previous[q]] = pos[q] - 1
      BY <2>3, <3>1, <1>7, <1>10 DEF Linked
    <3> QED BY <2>3, <3>2, <1>1, <1>8, <1>11 DEF Linked
  <2> QED BY <2>1, <2>2, <2>3
<1> QED BY <1>1, <1>2, <1>4, <1>5, <1>12, <1>13, <1>14, <1>15, <1>16 DEF Linked

(* A list that keeps its pointers. *)
LEMMA KeptLinked ==
  ASSUME NEW n \in Nat, NEW pos \in [Readers -> Nat], Linked(n, pos),
         UNCHANGED <<front, back, next, previous, inQueue>>
  PROVE  Linked(n, pos)'
BY DEF Linked, Members

(* The back of a list that spans the queue goes behind the front. *)
SqueezedRank(pos, n, r) ==
  [x \in Readers |-> IF x = r THEN n - 1 ELSE IF pos[x] = n THEN n ELSE pos[x] - 1]

(* moveToFront of the back, in a list that spans the queue. *)
LEMMA SqueezeLinked ==
  ASSUME ListTypes, NEW n \in Nat, NEW pos \in [Readers -> Nat], Linked(n, pos),
         NEW r \in Readers, Squeeze(r), next[r] # front, front # back,
         NEW p, p = SqueezedRank(pos, n, r)
  PROVE  /\ Linked(n, p)'
         /\ n > 2 /\ r \in Members /\ r = back /\ pos[next[r]] = 2 /\ front' = front
         /\ back' = next[r] /\ back' \in Members /\ back' # front
         /\ \E before \in Members : /\ before # front /\ before # r /\ pos[before] = n - 1
                                   /\ index' = [index EXCEPT ![r] = index[before]]
<1> DEFINE newBack == next[r]
           cut == Store(Store(previous, newBack, NULL), next[newBack], newBack)
           before == previous[front]
<1>1. /\ r \in Members /\ r = back /\ r # front /\ front \in Members /\ back \in Members
      /\ \A q \in Members : q \in Readers
  BY DEF Squeeze, Linked, Members
<1>2. newBack \in Members /\ pos[newBack] = 2 /\ pos[front] = n /\ pos[r] = 1 /\ newBack # front
  BY <1>1 DEF Linked
<1>3. n > 2
  BY <1>1, <1>2 DEF Linked
<1>4. before \in Members /\ pos[before] = n - 1 /\ before # front /\ before # r
  BY <1>1, <1>2, <1>3 DEF Linked
<1>5. /\ next[newBack] \in Members /\ pos[next[newBack]] = 3 /\ next[newBack] # newBack
      /\ previous[next[newBack]] = newBack
  BY <1>1, <1>2 DEF Linked
<1>6. cut[front] = before
  BY <1>1, <1>2, <1>5 DEF Store, ListTypes
<1>7. \A q \in Members : q # newBack => cut[q] = previous[q]
  BY <1>1, <1>2, <1>5 DEF Store, ListTypes
<1>8. /\ back' = newBack /\ front' = front
      /\ next' = Store(Store(next, r, front), before, r)
      /\ previous' = Store(Store(cut, r, before), front, r)
  BY <1>6 DEF Squeeze
<1>9. cut \in [Readers -> Readers \cup {NULL}]
  BY <1>1, <1>2, <1>5 DEF Store, ListTypes
<1>19. index' = [index EXCEPT ![r] = index[before]] /\ newBack = next[r]
  BY <1>6 DEF Squeeze
<1> HIDE DEF newBack, cut, before
<1>10. Members' = Members
  BY DEF Squeeze, Members
<1>11. /\ next'[r] = front /\ next'[before] = r
       /\ \A q \in Members \ {r, before} : next'[q] = next[q]
  BY <1>1, <1>4, <1>8 DEF Store, ListTypes
<1>12. /\ previous'[r] = before /\ previous'[front] = r
       /\ \A q \in Members \ {r, front, newBack} : previous'[q] = previous[q]
  BY <1>1, <1>4, <1>7, <1>8, <1>9 DEF Store
<1>13. /\ p[r] = n - 1 /\ p[front] = n
       /\ \A q \in Members \ {r, front} : p[q] = pos[q] - 1 /\ pos[q] \in 2 .. n - 1
  BY <1>1, <1>2, <1>3 DEF SqueezedRank, Linked
<1>14. \A q, s \in Members : p[q] = p[s] => q = s
  BY <1>13, <1>1, <1>3 DEF Linked
<1>15. \A q \in Members : p[q] \in 1 .. n /\ (p[q] = n <=> q = front) /\ (p[q] = 1 <=> q = newBack)
  BY <1>13, <1>1, <1>2, <1>3 DEF Linked
<1>16. ASSUME NEW q \in Members, q # front PROVE next'[q] \in Members /\ p[next'[q]] = p[q] + 1
  <2>1. CASE q = r
    BY <2>1, <1>1, <1>11, <1>13, <1>3
  <2>2. CASE q = before
    BY <2>2, <1>1, <1>3, <1>4, <1>11, <1>13
  <2>3. CASE q # r /\ q # before
    <3>1. next'[q] = next[q] /\ next[q] \in Members /\ pos[next[q]] = pos[q] + 1
      BY <2>3, <1>11, <1>16 DEF Linked
    <3>2. next[q] # r /\ next[q] # front
      BY <3>1, <2>3, <1>2, <1>4, <1>13, <1>16 DEF Linked
    <3> QED BY <3>1, <3>2, <2>3, <1>13, <1>16
  <2> QED BY <2>1, <2>2, <2>3
<1>17. ASSUME NEW q \in Members, q # newBack PROVE previous'[q] \in Members /\ p[previous'[q]] = p[q] - 1
  <2>1. CASE q = r
    BY <2>1, <1>4, <1>3, <1>12, <1>13
  <2>2. CASE q = front
    BY <2>2, <1>1, <1>3, <1>12, <1>13
  <2>3. CASE q # r /\ q # front
    <3>1. previous'[q] = previous[q] /\ previous[q] \in Members /\ pos[previous[q]] = pos[q] - 1
      BY <2>3, <1>1, <1>12, <1>17 DEF Linked
    <3>2. previous[q] # r /\ previous[q] # front
      BY <3>1, <2>3, <1>2, <1>13, <1>17 DEF Linked
    <3> QED BY <3>1, <3>2, <2>3, <1>13
  <2> QED BY <2>1, <2>2, <2>3
<1>18. Linked(n, p)'
  BY <1>1, <1>2, <1>3, <1>8, <1>10, <1>14, <1>15, <1>16, <1>17 DEF Linked
<1> QED BY <1>1, <1>2, <1>3, <1>4, <1>8, <1>18, <1>19

(* The front takes over the place of a reader that leaves. *)
LEMMA GiveSlotLinked ==
  ASSUME ListTypes, NEW n \in Nat, NEW pos \in [Readers -> Nat], Linked(n, pos),
         NEW r \in Readers, ListRemove(r), GiveSlotToFront(r),
         NEW p, p = [pos EXCEPT ![front] = pos[r]]
  PROVE  Linked(n - 1, p)' /\ n - 1 \in Nat
<1> DEFINE before == previous[r]
           after == next[r]
           last == previous[front]
<1>1. /\ r \in Members /\ r # front /\ front \in Members /\ back \in Members /\ n > 1
      /\ \A q \in Members : q \in Readers
  BY DEF ListRemove, GiveSlotToFront, Linked, Members
<1>2. /\ after \in Members /\ pos[after] = pos[r] + 1 /\ pos[front] = n /\ pos[r] < n
      /\ front # back /\ last \in Members /\ pos[last] = n - 1
  BY <1>1 DEF Linked
<1>3. r # back => before \in Members /\ pos[before] = pos[r] - 1
  BY <1>1 DEF Linked
<1>4. Members' = Members \ {r}
  BY DEF ListRemove, ListTypes, Members
<1>5. \A q \in Members : pos[q] \in 1 .. n /\ (q # front => pos[q] < n)
  BY DEF Linked
<1>6. p[front] = pos[r] /\ \A q \in Members : q # front => p[q] = pos[q]
  BY <1>1
<1>7. CASE after = front
  <2>1. pos[r] = n - 1
    BY <1>2, <1>7
  <2>2. front' = front /\ back' = IF r = back THEN front ELSE back
    BY <1>7 DEF GiveSlotToFront
  <2>3. /\ next' = Store(IF r = back THEN next ELSE Store(next, before, front), r, NULL)
        /\ previous' = Store(Store(previous, front, before), r, NULL)
    BY <1>7 DEF GiveSlotToFront
  <2> HIDE DEF before, after, last
  <2>4. /\ r # back => next'[before] = front
        /\ \A q \in Members \ {r} : (r = back \/ q # before) => next'[q] = next[q]
        /\ previous'[front] = before
        /\ \A q \in Members \ {r, front} : previous'[q] = previous[q]
    BY <1>1, <1>2, <1>3, <2>3 DEF Store, ListTypes
  <2>5. ASSUME NEW q \in Members, q # r, q # front
        PROVE next'[q] \in Members \ {r} /\ p[next'[q]] = p[q] + 1
    <3>1. CASE r # back /\ q = before
      BY <3>1, <1>1, <1>3, <1>6, <2>4, <2>5, <1>5
    <3>2. CASE r = back \/ q # before
      <4>1. next'[q] = next[q] /\ next[q] \in Members /\ pos[next[q]] = pos[q] + 1
        BY <3>2, <2>4, <2>5 DEF Linked
      <4>2. next[q] # r
        BY <3>2, <4>1, <1>1, <1>3, <2>5 DEF Linked
      <4>3. next[q] # front
        BY <4>1, <1>1, <1>2, <2>1, <2>5 DEF Linked
      <4> QED BY <4>1, <4>2, <4>3, <1>6, <2>5
    <3> QED BY <3>1, <3>2
  <2>6. ASSUME NEW q \in Members, q # r, q # back'
        PROVE previous'[q] \in Members \ {r} /\ p[previous'[q]] = p[q] - 1
    <3>1. CASE q = front
      BY <3>1, <2>6, <1>1, <1>2, <1>3, <1>6, <1>5, <2>1, <2>2, <2>4
    <3>2. CASE q # front
      <4>1. q # back
        BY <3>2, <2>6, <2>2
      <4>2. previous'[q] = previous[q] /\ previous[q] \in Members /\ pos[previous[q]] = pos[q] - 1
        BY <3>2, <2>4, <2>6, <4>1 DEF Linked
      <4>3. previous[q] # r /\ previous[q] # front
        BY <4>2, <1>5, <1>2, <2>1, <2>6, <3>2
      <4> QED BY <4>2, <4>3, <1>6, <3>2
    <3> QED BY <3>1, <3>2
  <2>7. \A q \in Members \ {r} : /\ p[q] \in 1 .. n - 1
                                 /\ p[q] = n - 1 <=> q = front
                                 /\ p[q] = 1 <=> q = back'
    BY <1>1, <1>2, <1>5, <1>6, <2>1, <2>2 DEF Linked
  <2>8. \A q, s \in Members \ {r} : p[q] = p[s] => q = s
    BY <1>1, <1>6 DEF Linked
  <2>9. front' \in Members' /\ back' \in Members'
    BY <1>1, <1>4, <2>2
  <2> QED BY <1>1, <1>4, <2>2, <2>5, <2>6, <2>7, <2>8, <2>9 DEF Linked
<1>8. CASE after # front
  <2>0. pos[r] < n - 1 /\ last # r /\ last # front
    BY <1>1, <1>2, <1>8 DEF Linked
  <2>1. front' = last /\ back' = IF r = back THEN front ELSE back
    BY <1>8 DEF GiveSlotToFront
  <2> DEFINE cut == Store(next, last, NULL)
             linked == IF r = back THEN cut ELSE Store(cut, before, front)
             moved == Store(previous, front, before)
  <2>2. /\ next' = Store(Store(linked, front, linked[r]), r, NULL)
        /\ previous' = Store(Store(moved, linked[r], front), r, NULL)
    BY <1>8, <2>0 DEF GiveSlotToFront
  <2>3. linked[r] = after
    BY <1>1, <1>2, <1>3, <2>0 DEF Store, ListTypes
  <2>30. linked \in [Readers -> Readers \cup {NULL}]
    BY <1>1, <1>2, <1>3 DEF Store, ListTypes
  <2>31. /\ r # back => linked[before] = front
         /\ \A q \in Members \ {r, last} : (r = back \/ q # before) => linked[q] = next[q]
    BY <1>1, <1>2, <1>3 DEF Store, ListTypes
  <2> HIDE DEF before, after, last, linked
  <2>4. /\ next'[front] = after
        /\ r # back /\ before # front => next'[before] = front
        /\ \A q \in Members \ {r, front, last} : (r = back \/ q # before) => next'[q] = next[q]
    BY <1>1, <1>2, <1>3, <2>0, <2>2, <2>3, <2>30, <2>31 DEF Store
  <2>5. /\ previous'[after] = front /\ previous'[front] = before
        /\ \A q \in Members \ {r, front, after} : previous'[q] = previous[q]
    <3>1. after # r
      BY <1>1, <1>2, <1>5
    <3> QED BY <1>1, <1>2, <1>3, <1>8, <2>0, <2>2, <2>3, <3>1 DEF Store, ListTypes
  <2>6. ASSUME NEW q \in Members, q # r, q # last
        PROVE next'[q] \in Members \ {r} /\ p[next'[q]] = p[q] + 1
    <3>1. CASE q = front
      <4>1. after # r
        BY <1>1, <1>2, <1>5
      <4> QED BY <3>1, <4>1, <1>2, <1>6, <1>8, <2>4
    <3>2. CASE q # front /\ r # back /\ q = before
      BY <3>2, <1>1, <1>3, <1>5, <1>6, <2>4
    <3>3. CASE q # front /\ (r = back \/ q # before)
      <4>1. next'[q] = next[q] /\ next[q] \in Members /\ pos[next[q]] = pos[q] + 1
        BY <3>3, <2>4, <2>6 DEF Linked
      <4>2. next[q] # r
        BY <3>3, <4>1, <1>1, <1>3, <2>6 DEF Linked
      <4>3. next[q] # front
        BY <4>1, <1>1, <1>2, <2>6 DEF Linked
      <4> QED BY <3>3, <4>1, <4>2, <4>3, <1>6
    <3> QED BY <3>1, <3>2, <3>3
  <2>7. ASSUME NEW q \in Members, q # r, q # back'
        PROVE previous'[q] \in Members \ {r} /\ p[previous'[q]] = p[q] - 1
    <3>1. CASE q = front
      BY <3>1, <2>7, <1>1, <1>2, <1>3, <1>5, <1>6, <2>0, <2>1, <2>5
    <3>2. CASE q # front /\ q = after
      BY <3>2, <1>1, <1>2, <1>6, <2>5
    <3>3. CASE q # front /\ q # after
      <4>1. q # back
        BY <3>3, <2>1, <2>7
      <4>2. previous'[q] = previous[q] /\ previous[q] \in Members /\ pos[previous[q]] = pos[q] - 1
        BY <3>3, <4>1, <2>5, <2>7 DEF Linked
      <4>3. previous[q] # r
        BY <3>3, <4>2, <1>1, <1>2, <2>7 DEF Linked
      <4>4. previous[q] # front
        BY <4>2, <1>2, <1>5, <3>3
      <4> QED BY <4>2, <4>3, <4>4, <1>6, <3>3
    <3> QED BY <3>1, <3>2, <3>3
  <2>8. \A q \in Members \ {r} : /\ p[q] \in 1 .. n - 1
                                 /\ p[q] = n - 1 <=> q = last
                                 /\ p[q] = 1 <=> q = back'
    BY <1>1, <1>2, <1>5, <1>6, <2>0, <2>1 DEF Linked
  <2>9. \A q, s \in Members \ {r} : p[q] = p[s] => q = s
    BY <1>1, <1>6 DEF Linked
  <2>10. front' \in Members' /\ back' \in Members'
    BY <1>1, <1>2, <1>4, <2>0, <2>1
  <2> QED BY <1>1, <1>4, <2>1, <2>6, <2>7, <2>8, <2>9, <2>10 DEF Linked
<1> QED BY <1>1, <1>7, <1>8

(* A reader that is not the front is taken out of the list. *)
LeftRank(pos, r) == [x \in Readers |-> IF pos[x] > pos[r] THEN pos[x] - 1 ELSE pos[x]]

(* remove of a reader that is done with its slot. *)
LEMMA UnlinkLinked ==
  ASSUME ListTypes, NEW n \in Nat, NEW pos \in [Readers -> Nat], Linked(n, pos),
         NEW r \in Readers, ListRemove(r), Unlink(r),
         NEW p, p = LeftRank(pos, r)
  PROVE  Linked(n - 1, p)' /\ n - 1 \in Nat
<1> DEFINE before == previous[r]
           after == next[r]
<1>1. /\ r \in Members /\ r # front /\ front \in Members /\ back \in Members /\ n > 1
      /\ \A q \in Members : q \in Readers
  BY DEF ListRemove, Unlink, Linked, Members
<1>2. after \in Members /\ pos[after] = pos[r] + 1 /\ pos[front] = n /\ pos[r] < n /\ after # r
  BY <1>1 DEF Linked
<1>3. r # back => before \in Members /\ pos[before] = pos[r] - 1
  BY <1>1 DEF Linked
<1>4. Members' = Members \ {r}
  BY DEF ListRemove, ListTypes, Members
<1>5. front' = front /\ back' = IF r = back THEN after ELSE back
  BY DEF Unlink
<1>6. /\ next' = Store(IF r = back THEN next ELSE Store(next, before, after), r, NULL)
      /\ previous' = Store(Store(previous, after, before), r, NULL)
  BY DEF Unlink
<1> HIDE DEF before, after
<1>7. /\ r # back => next'[before] = after
      /\ \A q \in Members \ {r} : (r = back \/ q # before) => next'[q] = next[q]
      /\ previous'[after] = before
      /\ \A q \in Members \ {r, after} : previous'[q] = previous[q]
  BY <1>1, <1>2, <1>3, <1>6 DEF Store, ListTypes
<1>8. \A q \in Members : p[q] = IF pos[q] > pos[r] THEN pos[q] - 1 ELSE pos[q]
  BY <1>1 DEF LeftRank
<1>9. \A q \in Members : /\ pos[q] \in 1 .. n
                         /\ q # r => pos[q] # pos[r]
                         /\ pos[q] = 1 <=> q = back
                         /\ pos[q] = n <=> q = front
  BY <1>1 DEF Linked
<1>10. ASSUME NEW q \in Members, q # r, q # front
       PROVE  next'[q] \in Members \ {r} /\ p[next'[q]] = p[q] + 1
  <2>1. CASE r # back /\ q = before
    BY <2>1, <1>2, <1>3, <1>7, <1>8, <1>9, <1>10
  <2>2. CASE r = back \/ q # before
    <3>1. next'[q] = next[q] /\ next[q] \in Members /\ pos[next[q]] = pos[q] + 1
      BY <2>2, <1>7, <1>10 DEF Linked
    <3>2. next[q] # r
      BY <2>2, <3>1, <1>1, <1>3, <1>9, <1>10 DEF Linked
    <3> QED BY <3>1, <3>2, <1>1, <1>8, <1>9, <1>10
  <2> QED BY <2>1, <2>2
<1>11. ASSUME NEW q \in Members, q # r, q # back'
       PROVE  previous'[q] \in Members \ {r} /\ p[previous'[q]] = p[q] - 1
  <2>1. CASE q = after
    BY <2>1, <1>2, <1>3, <1>5, <1>7, <1>8, <1>9, <1>11
  <2>2. CASE q # after
    <3>1. q # back
      BY <2>2, <1>5, <1>11
    <3>2. previous'[q] = previous[q] /\ previous[q] \in Members /\ pos[previous[q]] = pos[q] - 1
      BY <2>2, <3>1, <1>7, <1>11 DEF Linked
    <3>3. previous[q] # r
      BY <2>2, <3>2, <1>1, <1>2, <1>11 DEF Linked
    <3> QED BY <3>2, <3>3, <1>1, <1>8, <1>9, <1>11
  <2> QED BY <2>1, <2>2
<1>12. \A q \in Members \ {r} : /\ p[q] \in 1 .. n - 1
                                /\ p[q] = n - 1 <=> q = front
                                /\ p[q] = 1 <=> q = back'
  <2>1. \A q \in Members \ {r} : p[q] \in 1 .. n - 1 /\ (p[q] = n - 1 <=> q = front)
    BY <1>1, <1>2, <1>8, <1>9
  <2>2. \A q \in Members \ {r} : p[q] = 1 <=> q = back'
    BY <1>1, <1>2, <1>5, <1>8, <1>9 DEF Linked
  <2> QED BY <2>1, <2>2
<1>13. \A q, s \in Members \ {r} : p[q] = p[s] => q = s
  BY <1>1, <1>8, <1>9 DEF Linked
<1>14. front' \in Members' /\ back' \in Members'
  BY <1>1, <1>2, <1>4, <1>5
<1> QED BY <1>1, <1>4, <1>5, <1>10, <1>11, <1>12, <1>13, <1>14 DEF Linked

(* The only reader leaves. *)
LEMMA RemoveLastLinked ==
  ASSUME ListTypes, NEW n \in Nat, NEW pos \in [Readers -> Nat], Linked(n, pos),
         NEW r \in Readers, ListRemove(r), RemoveLast(r)
  PROVE  Linked(0, pos)' /\ Members = {r} /\ Members' = {}
<1>1. r \in Members /\ n = 1
  BY DEF ListRemove, RemoveLast, Linked, Members
<1>2. Members = {r}
  BY <1>1 DEF Linked, RemoveLast
<1>3. Members' = {}
  BY <1>2 DEF ListRemove, ListTypes, Members
<1> QED BY <1>2, <1>3 DEF RemoveLast, Linked

(* The front leaves. *)
LEMMA RemoveFrontLinked ==
  ASSUME ListTypes, NEW n \in Nat, NEW pos \in [Readers -> Nat], Linked(n, pos),
         NEW r \in Readers, ListRemove(r), RemoveFront(r)
  PROVE  Linked(n - 1, pos)' /\ n - 1 \in Nat
<1> DEFINE before == previous[r]
<1>1. /\ r \in Members /\ r = front /\ r # back /\ back \in Members /\ n > 1
      /\ \A q \in Members : q \in Readers
  BY DEF ListRemove, RemoveFront, Linked, Members
<1>2. before \in Members /\ pos[before] = n - 1 /\ pos[r] = n /\ before # r
  BY <1>1 DEF Linked
<1>3. Members' = Members \ {r}
  BY DEF ListRemove, ListTypes, Members
<1> HIDE DEF before
<1>4. front' = before /\ back' = back
  BY DEF RemoveFront, before
<1>5. \A q \in Members \ {r} : /\ q # before => next'[q] = next[q]
                               /\ previous'[q] = previous[q]
  BY <1>1, <1>2 DEF RemoveFront, Store, ListTypes, before
<1>6. \A q \in Members \ {r} : /\ pos[q] \in 1 .. n - 1
                               /\ pos[q] = n - 1 <=> q = before
                               /\ pos[q] = 1 <=> q = back
  BY <1>1, <1>2 DEF Linked
<1>7. \A q \in Members \ {r} : q # before => next[q] # r
  BY <1>1, <1>2 DEF Linked
<1>8. \A q \in Members \ {r} : q # back => previous[q] # r
  BY <1>1, <1>2 DEF Linked
<1> QED BY <1>1, <1>2, <1>3, <1>4, <1>5, <1>6, <1>7, <1>8 DEF Linked

-----------------------------------------------------------------------------
(* The sequence of the readers.                                            *)

(* A set of natural numbers has a least element. *)
LEMMA LeastNatural ==
  ASSUME NEW S \in SUBSET Nat, S # {}
  PROVE  \E m \in S : \A n \in S : m <= n
<1>1. \E m \in S : \A n \in S : ~(<<n, m>> \in OpToRel(<, Nat))
  BY NatLessThanWellFounded, WFMin, Zenon
<1>2. \A m, n \in Nat : n < m => <<n, m>> \in OpToRel(<, Nat)
  BY DEF OpToRel
<1>3. \A m, n \in Nat : ~(n < m) => m <= n
  OBVIOUS
<1> QED BY <1>1, <1>2, <1>3, Zenon

(* There is a reader of every rank, because the next pointers lead from    *)
(* each rank to the next one. *)
LEMMA EveryRank ==
  ASSUME NEW n \in Nat, NEW pos \in [Readers -> Nat], Linked(n, pos), NEW k \in 1 .. n
  PROVE  \E r \in Members : pos[r] = k
<1> DEFINE Missing == {j \in Nat : j \in 1 .. n /\ ~ \E r \in Members : pos[r] = j}
<1>1. SUFFICES ASSUME Missing # {} PROVE FALSE
  OBVIOUS
<1>2. PICK m \in Missing : \A j \in Missing : m <= j
  BY <1>1, LeastNatural
<1>3. m # 1
  BY DEF Linked
<1>4. m - 1 \in 1 .. n /\ m - 1 \notin Missing
  BY <1>2, <1>3
<1>5. PICK r \in Members : pos[r] = m - 1
  BY <1>4
<1>6. r # front
  BY <1>5 DEF Linked
<1>7. next[r] \in Members /\ pos[next[r]] = m
  BY <1>5, <1>6 DEF Linked
<1> QED BY <1>7

(* The ranks count the readers. *)
LEMMA MembersCounted ==
  ASSUME NEW n \in Nat, NEW pos \in [Readers -> Nat], Linked(n, pos)
  PROVE  IsFiniteSet(Members) /\ Cardinality(Members) = n
<1> DEFINE f == [r \in Members |-> pos[r]]
<1>1. f \in [Members -> 1 .. n]
  BY DEF Linked
<1>2. f \in Injection(Members, 1 .. n)
  BY <1>1 DEF Injection, IsInjective, Linked
<1>3. f \in Surjection(Members, 1 .. n)
  <2>1. \A k \in 1 .. n : \E r \in Members : f[r] = k
    BY EveryRank
  <2> QED BY <1>1, <2>1 DEF Surjection
<1>4. IsFiniteSet(1 .. n) /\ Cardinality(1 .. n) = n
  BY FS_Interval
<1> QED BY <1>2, <1>3, <1>4, FS_Injection

(* The recursive function in Order, for the first m readers: Walk is what  *)
(* it computes for k. *)
Walk(f, k) == IF k = 1 THEN back ELSE IF f[k - 1] = NULL THEN NULL ELSE next[f[k - 1]]
IsWalk(m, f) == f = [k \in 1 .. m |-> Walk(f, k)]
TheWalk(m) == CHOOSE f : IsWalk(m, f)

(* Order starts at the back and follows the next pointers. *)
LEMMA OrderIsWalk ==
  Order = [k \in 1 .. Cardinality(Members) |-> TheWalk(Cardinality(Members))[k]]
BY Zenon DEF Order, TheWalk, IsWalk, Walk

(* Order lists the readers by their rank. *)
LEMMA OrderByRank ==
  ASSUME ListTypes, NEW n \in Nat, NEW pos \in [Readers -> Nat], Linked(n, pos)
  PROVE  /\ Cardinality(Members) = n
         /\ \A k \in 1 .. n : Order[k] \in Members /\ pos[Order[k]] = k
         /\ \A r \in Members : Order[pos[r]] = r
<1> DEFINE g == [k \in 1 .. n |-> CHOOSE r \in Members : pos[r] = k]
           f == TheWalk(n)
<1>1. \A k \in 1 .. n : g[k] \in Members /\ pos[g[k]] = k
  BY EveryRank
<1>2. \A r \in Members : r # NULL /\ pos[r] \in 1 .. n
  BY ListAssumption DEF Members, Linked
<1> HIDE DEF g
<1>3. \A k \in 1 .. n : k # 1 => g[k] = next[g[k - 1]] /\ g[k - 1] # NULL
  <2> SUFFICES ASSUME NEW k \in 1 .. n, k # 1
               PROVE  g[k] = next[g[k - 1]] /\ g[k - 1] # NULL
    OBVIOUS
  <2>1. k - 1 \in 1 .. n /\ g[k - 1] \in Members /\ pos[g[k - 1]] = k - 1
    BY <1>1
  <2>2. g[k - 1] # front
    BY <2>1 DEF Linked
  <2>3. next[g[k - 1]] \in Members /\ pos[next[g[k - 1]]] = k
    BY <2>1, <2>2 DEF Linked
  <2> QED BY <1>1, <1>2, <2>1, <2>3 DEF Linked
<1>4. n > 0 => g[1] = back
  BY <1>1 DEF Linked
<1>5. IsWalk(n, g)
  <2>1. \A k \in 1 .. n : g[k] = Walk(g, k)
    BY <1>3, <1>4 DEF Walk
  <2> QED BY <2>1 DEF IsWalk, g
<1>6. IsWalk(n, f)
  BY <1>5, Zenon DEF TheWalk
<1> HIDE DEF f
<1>7. \A k \in 1 .. n : f[k] = Walk(f, k)
  BY <1>6 DEF IsWalk
<1>8. \A k \in 1 .. n : f[k] = g[k]
  <2> DEFINE Different == {k \in Nat : k \in 1 .. n /\ f[k] # g[k]}
  <2>1. SUFFICES ASSUME Different # {} PROVE FALSE
    OBVIOUS
  <2>2. PICK m \in Different : \A k \in Different : m <= k
    BY <2>1, LeastNatural
  <2>3. m # 1
    BY <1>4, <1>7 DEF Walk
  <2>4. m - 1 \in 1 .. n /\ f[m - 1] = g[m - 1]
    BY <2>2, <2>3
  <2>5. f[m] = g[m]
    BY <1>3, <1>7, <2>3, <2>4 DEF Walk
  <2> QED BY <2>5
<1>9. Cardinality(Members) = n
  BY MembersCounted
<1>10. \A k \in 1 .. n : Order[k] = g[k]
  BY <1>8, <1>9, OrderIsWalk DEF f
<1> QED BY <1>1, <1>2, <1>9, <1>10 DEF Linked

(* A linked list is intact. *)
LEMMA LinkedIntact ==
  ASSUME ListTypes, NEW n \in Nat, NEW pos \in [Readers -> Nat], Linked(n, pos)
  PROVE  ListIntact
<1>1. /\ Cardinality(Members) = n
      /\ \A k \in 1 .. n : Order[k] \in Members /\ pos[Order[k]] = k
      /\ \A r \in Members : Order[pos[r]] = r
  BY OrderByRank
<1>2. (front = NULL /\ back = NULL) \/ (n > 0 /\ front \in Members)
  BY DEF Linked
<1>3. Members = {} => front = NULL /\ back = NULL
  BY <1>2 DEF Linked
<1>4. ASSUME Members # {}
      PROVE  /\ {Order[k] : k \in 1 .. n} = Members
             /\ Order[n] = front
             /\ \A k \in 2 .. n : previous[Order[k]] = Order[k - 1]
  <2>1. n > 0
    BY <1>4 DEF Linked
  <2>2. {Order[k] : k \in 1 .. n} = Members
    <3>1. \A r \in Members : pos[r] \in 1 .. n
      BY DEF Linked
    <3> QED BY <1>1, <3>1
  <2>3. Order[n] = front
    BY <1>1, <2>1 DEF Linked
  <2>4. ASSUME NEW k \in 2 .. n PROVE previous[Order[k]] = Order[k - 1]
    <3>1. k \in 1 .. n /\ k - 1 \in 1 .. n
      OBVIOUS
    <3>2. Order[k] \in Members /\ pos[Order[k]] = k /\ Order[k] # back
      BY <1>1, <3>1 DEF Linked
    <3>3. previous[Order[k]] \in Members /\ pos[previous[Order[k]]] = k - 1
      BY <3>2 DEF Linked
    <3> QED BY <1>1, <3>3
  <2> QED BY <2>2, <2>3, <2>4
<1> QED BY <1>1, <1>3, <1>4 DEF ListIntact

-----------------------------------------------------------------------------
(* Types.                                                                  *)

IndexTypes ==
  /\ size \in InitSize .. (IF MaxSize > InitSize THEN MaxSize ELSE InitSize)
  /\ readIndex \in Indices(size)
  /\ writeIndex \in Indices(size)
  /\ \A r \in Members : index[r] \in Indices(size)
  /\ index \in [Readers -> Int]

QueueTypes ==
  /\ slots \in [Indices(size) -> {"empty", "ready", "taken"}]
  /\ isDone \in [Readers -> BOOLEAN]
  /\ wpc \in {"idle", "insert", "publish"}
  /\ newWrite \in Indices(size)
  /\ rpc \in [Readers -> ReaderSteps]
  /\ \A r \in Readers : rpc[r] = "out" <=> ~inQueue[r]
  /\ seenW \in [Readers -> 0 .. 2 * size]
  /\ handed \in {"empty", "ready", "taken"}
  /\ left \in BOOLEAN
  /\ misread \in BOOLEAN

(* The parts of the type invariant. *)
LEMMA TypeParts == TypeOK /\ index \in [Readers -> Int] <=> ListTypes /\ IndexTypes /\ QueueTypes
BY DEF TypeOK, ListTypes, IndexTypes, QueueTypes

(* The size is a positive number. *)
LEMMA SizeType == ASSUME IndexTypes PROVE size \in Nat \ {0}
BY ListAssumption DEF IndexTypes

(* A list that spans a queue of more than one slot has several readers. *)
LEMMA SpansSeveral ==
  ASSUME InitSize > 1, IndexTypes, front \in Members, Spans
  PROVE  front # back
<1>1. size \in Nat \ {0} /\ size > 1 /\ index[front] \in Indices(size)
  BY ListAssumption DEF IndexTypes
<1>2. nextIndex(index[front], size) # index[front]
  BY <1>1, NextIndexValue DEF Indices
<1> QED BY <1>2 DEF Spans

(* No operation of the list stores anything but readers and NULL. *)
LEMMA ListTypesKept ==
  ASSUME ListTypes, NEW r \in Readers, inQueue[r] => front \in Readers,
         ListAdd(r) \/ MoveAhead(r) \/ Squeeze(r) \/ ListRemove(r)
  PROVE  ListTypes'
<1> USE DEF ListTypes, Store
<1>1. CASE ListAdd(r)
  <2>1. inQueue' \in [Readers -> BOOLEAN]
    BY <1>1 DEF ListAdd
  <2>2. CASE AddFirst(r)
    BY <2>1, <2>2 DEF AddFirst
  <2>3. CASE AddAtFront(r)
    BY <2>1, <2>3 DEF AddAtFront
  <2>4. CASE AddBehindFront(r)
    BY <2>1, <2>4 DEF AddBehindFront
  <2> QED BY <1>1, <2>2, <2>3, <2>4 DEF ListAdd
<1>2. CASE MoveAhead(r)
  <2>1. CASE MoveFromWithin(r)
    BY <1>2, <2>1 DEF MoveAhead, MoveFromWithin
  <2>2. CASE MoveFrontOn(r)
    BY <1>2, <2>2 DEF MoveAhead, MoveFrontOn
  <2> QED BY <1>2, <2>1, <2>2 DEF MoveAhead
<1>3. CASE Squeeze(r)
  <2>1. CASE next[r] # front
    <3> DEFINE newBack == next[r]
               cut == Store(Store(previous, newBack, NULL), next[newBack], newBack)
    <3>1. newBack \in Readers \cup {NULL}
      OBVIOUS
    <3>2. cut \in [Readers -> Readers \cup {NULL}]
      BY <3>1
    <3>3. /\ back' = newBack
          /\ next' = Store(Store(next, r, front), cut[front], r)
          /\ previous' = Store(Store(cut, r, cut[front]), front, r)
          /\ front' = front /\ inQueue' = inQueue
      BY <1>3, <2>1 DEF Squeeze
    <3> HIDE DEF newBack, cut
    <3>4. next' \in [Readers -> Readers \cup {NULL}]
      BY <3>3
    <3>5. front # NULL => cut[front] \in Readers \cup {NULL}
      BY <3>2
    <3>6. front \in Readers
      BY <1>3 DEF Squeeze
    <3>7. previous' \in [Readers -> Readers \cup {NULL}]
      <4>1. Store(cut, r, cut[front]) \in [Readers -> Readers \cup {NULL}]
        BY <3>2, <3>5, <3>6
      <4> HIDE DEF Store
      <4> DEFINE half == Store(cut, r, cut[front])
      <4>2. half \in [Readers -> Readers \cup {NULL}]
        BY <4>1
      <4> HIDE DEF half
      <4>3. Store(half, front, r) \in [Readers -> Readers \cup {NULL}]
        BY <4>2 DEF Store
      <4> QED BY <3>3, <4>3 DEF half
    <3> QED BY <3>1, <3>3, <3>4, <3>7
  <2>2. CASE next[r] = front
    <3>1. back' = back /\ next' = next /\ previous' = previous /\ front' = front /\ inQueue' = inQueue
      BY <1>3, <2>2 DEF Squeeze
    <3> QED BY <3>1
  <2> QED BY <2>1, <2>2
<1>4. CASE ListRemove(r)
  <2>1. inQueue' \in [Readers -> BOOLEAN]
    BY <1>4 DEF ListRemove
  <2>2. CASE GiveSlotToFront(r)
    <3> DEFINE newFront == IF next[r] = front THEN front ELSE previous[front]
               cut == IF newFront = front THEN next ELSE Store(next, newFront, NULL)
               linked == IF r = back THEN cut ELSE Store(cut, previous[r], front)
               moved == Store(previous, front, previous[r])
    <3>1. front \in Readers
      BY <1>4 DEF ListRemove
    <3>2. newFront \in Readers \cup {NULL} /\ moved \in [Readers -> Readers \cup {NULL}]
      BY <3>1
    <3>3. cut \in [Readers -> Readers \cup {NULL}]
      OBVIOUS
    <3> HIDE DEF cut, newFront, moved
    <3>4. linked \in [Readers -> Readers \cup {NULL}]
      BY <3>1, <3>3
    <3> HIDE DEF linked
    <3>5. /\ back' = IF r = back THEN front ELSE back
          /\ front' = newFront
          /\ next' = Store(IF newFront = front THEN linked
                          ELSE Store(linked, front, linked[r]), r, NULL)
          /\ previous' = Store(IF newFront = front THEN moved
                              ELSE Store(moved, linked[r], front), r, NULL)
      BY <2>2 DEF GiveSlotToFront, newFront, cut, linked, moved
    <3>6. next' \in [Readers -> Readers \cup {NULL}]
      BY <3>1, <3>4, <3>5
    <3>7. previous' \in [Readers -> Readers \cup {NULL}]
      BY <3>1, <3>2, <3>5
    <3> QED BY <2>1, <3>1, <3>2, <3>5, <3>6, <3>7
  <2>3. CASE Unlink(r)
    BY <2>1, <2>3 DEF Unlink
  <2>4. CASE RemoveLast(r)
    BY <2>1, <2>4 DEF RemoveLast
  <2>5. CASE RemoveFront(r)
    BY <2>1, <2>5 DEF RemoveFront
  <2> QED BY <1>4, <2>2, <2>3, <2>4, <2>5 DEF ListRemove
<1> QED BY <1>1, <1>2, <1>3, <1>4


(* No operation of the list assigns a slot outside the queue. *)
LEMMA IndexTypesKept ==
  ASSUME InitSize > 1, ListTypes, IndexTypes, NEW n \in Nat, NEW pos \in [Readers -> Nat],
         Linked(n, pos), NEW r \in Readers,
         ListAdd(r) \/ MoveAhead(r) \/ Squeeze(r) \/ ListRemove(r)
  PROVE  IndexTypes'
<1>1. /\ size \in Nat \ {0} /\ readIndex \in Indices(size) /\ writeIndex \in Indices(size)
      /\ \A q \in Members : index[q] \in Indices(size)
      /\ index \in [Readers -> Int]
      /\ \A i \in Indices(size) : i \in Int /\ nextIndex(i, size) \in Indices(size)
  BY SizeType, NextIndexValue DEF IndexTypes, Indices
<1>2. /\ \A q \in Members : q \in Readers
      /\ front # NULL => front \in Members /\ back \in Members
  BY ListEnds DEF Linked
<1>3. /\ inQueue \in [Readers -> BOOLEAN]
      /\ \A q \in Readers : inQueue[q] <=> q \in Members
      /\ \A q \in Readers : inQueue'[q] <=> q \in Members'
      /\ \A q \in Members' : q \in Readers
  BY DEF ListTypes, Members
<1>4. SUFFICES /\ size' = size /\ writeIndex' = writeIndex
               /\ readIndex' \in Indices(size)
               /\ index' \in [Readers -> Int]
               /\ \A q \in Members' : index'[q] \in Indices(size)
  BY DEF IndexTypes
<1>5. CASE ListAdd(r)
  <2>1. /\ size' = size /\ writeIndex' = writeIndex /\ readIndex' = readIndex
        /\ \A q \in Members' : q \in Members \/ q = r
    BY <1>3, <1>5 DEF ListAdd, queueIndices
  <2>2. CASE AddFirst(r)
    BY <1>1, <1>3, <2>1, <2>2 DEF AddFirst
  <2>3. CASE AddAtFront(r)
    BY <1>1, <1>2, <1>3, <2>1, <2>3 DEF AddAtFront
  <2>4. CASE AddBehindFront(r)
    <3>1. front # back
      BY <1>2, <2>4, SpansSeveral DEF AddBehindFront
    <3>2. previous[front] \in Members
      BY <1>2, <2>4, <3>1 DEF AddBehindFront, Linked
    <3> QED BY <1>1, <1>2, <1>3, <2>1, <2>4, <3>2 DEF AddBehindFront
  <2> QED BY <1>5, <2>2, <2>3, <2>4 DEF ListAdd
<1>6. CASE MoveAhead(r)
  <2>1. size' = size /\ writeIndex' = writeIndex /\ Members' = Members /\ r \in Members
    BY <1>3, <1>6 DEF MoveAhead, Members
  <2>2. front \in Members /\ back \in Members
    BY <2>1 DEF Linked
  <2>3. CASE MoveFromWithin(r)
    <3>1. next[r] \in Members
      BY <2>1, <2>3 DEF MoveFromWithin, Linked
    <3> QED BY <1>1, <1>2, <2>1, <2>2, <2>3, <3>1 DEF MoveFromWithin
  <2>4. CASE MoveFrontOn(r)
    BY <1>1, <1>2, <2>1, <2>2, <2>4 DEF MoveFrontOn
  <2> QED BY <1>6, <2>3, <2>4 DEF MoveAhead
<1>7. CASE Squeeze(r)
  <2>1. size' = size /\ writeIndex' = writeIndex /\ Members' = Members /\ r \in Members
    BY <1>3, <1>7 DEF Squeeze, Members
  <2>2. front \in Members /\ back \in Members
    BY <2>1 DEF Linked
  <2>3. front # back
    BY <2>2, <1>7, SpansSeveral DEF Squeeze
  <2>4. CASE next[r] # front
    <3>1. PICK p : p = SqueezedRank(pos, n, r)
      OBVIOUS
    <3>2. /\ back' \in Members
          /\ \E before \in Members : index' = [index EXCEPT ![r] = index[before]]
      BY <1>7, <2>3, <2>4, <3>1, SqueezeLinked
    <3>3. readIndex' = index'[back']
      BY <1>7 DEF Squeeze
    <3> QED BY <1>1, <1>2, <2>1, <3>2, <3>3
  <2>5. CASE next[r] = front
    <3>1. back' = back /\ index' = index /\ readIndex' = index'[back']
      BY <1>7, <2>5 DEF Squeeze
    <3> QED BY <1>1, <1>2, <2>1, <2>2, <3>1
  <2> QED BY <2>4, <2>5
<1>8. CASE ListRemove(r)
  <2>1. /\ size' = size /\ writeIndex' = writeIndex /\ r \in Members
        /\ \A q \in Members' : q \in Members
    BY <1>3, <1>8 DEF ListRemove
  <2>2. front \in Members /\ back \in Members
    BY <2>1 DEF Linked
  <2>3. CASE GiveSlotToFront(r)
    BY <1>1, <1>2, <2>1, <2>2, <2>3 DEF GiveSlotToFront
  <2>4. CASE Unlink(r)
    BY <1>1, <2>1, <2>4 DEF Unlink
  <2>5. CASE RemoveLast(r)
    BY <1>1, <2>1, <2>5 DEF RemoveLast
  <2>6. CASE RemoveFront(r)
    BY <1>1, <2>1, <2>6 DEF RemoveFront
  <2> QED BY <1>8, <2>3, <2>4, <2>5, <2>6 DEF ListRemove
<1> QED BY <1>5, <1>6, <1>7, <1>8

(* Every operation leaves one list of exactly the readers that joined. *)
LEMMA ListKept ==
  ASSUME InitSize > 1, ListTypes, IndexTypes, NEW n \in Nat, NEW pos \in [Readers -> Nat],
         Linked(n, pos), NEW r \in Readers,
         ListAdd(r) \/ MoveAhead(r) \/ Squeeze(r) \/ ListRemove(r)
  PROVE  List'
<1>1. /\ \A q \in Members : q \in Readers
      /\ front # NULL => front \in Members /\ back \in Members
  BY ListEnds DEF Linked
<1>2. inQueue[r] => r \in Members /\ front \in Members
  BY DEF Members, Linked
<1>3. CASE ListAdd(r)
  <2>1. CASE AddFirst(r)
    <3>1. PICK p : p = [pos EXCEPT ![r] = 1]
      OBVIOUS
    <3> QED BY <1>3, <2>1, <3>1, AddFirstLinked DEF List
  <2>2. CASE AddAtFront(r)
    <3>1. PICK p : p = [pos EXCEPT ![r] = n + 1]
      OBVIOUS
    <3> QED BY <1>3, <2>2, <3>1, AddAtFrontLinked DEF List
  <2>3. CASE AddBehindFront(r)
    <3>1. PICK p : p = BehindRank(pos, n, r)
      OBVIOUS
    <3>2. p \in [Readers -> Nat]
      BY <3>1 DEF BehindRank
    <3>3. front # back
      BY <1>1, <2>3, SpansSeveral DEF AddBehindFront
    <3>4. Linked(n + 1, p)'
      BY <1>3, <2>3, <3>1, <3>3, AddBehindFrontLinked
    <3> QED BY <3>2, <3>4 DEF List
  <2> QED BY <1>3, <2>1, <2>2, <2>3 DEF ListAdd
<1>4. CASE MoveAhead(r)
  <2>1. CASE MoveFromWithin(r)
    <3>1. PICK p : p = MovedRank(pos, n, r)
      OBVIOUS
    <3>2. p \in [Readers -> Nat]
      BY <3>1 DEF MovedRank
    <3>3. Linked(n, p)'
      BY <1>4, <2>1, <3>1, MoveFromWithinLinked
    <3> QED BY <3>2, <3>3 DEF List
  <2>2. CASE MoveFrontOn(r)
    <3>1. Linked(n, pos)'
      BY <1>4, <2>2, KeptLinked DEF MoveAhead, MoveFrontOn
    <3> QED BY <3>1 DEF List
  <2> QED BY <1>4, <2>1, <2>2 DEF MoveAhead
<1>5. CASE Squeeze(r)
  <2>1. front # back
    BY <1>2, <1>5, SpansSeveral DEF Squeeze
  <2>2. CASE next[r] # front
    <3>1. PICK p : p = SqueezedRank(pos, n, r)
      OBVIOUS
    <3>2. n > 2 /\ Linked(n, p)'
      BY <1>5, <2>1, <2>2, <3>1, SqueezeLinked
    <3>3. p \in [Readers -> Int]
      BY <3>1, <3>2 DEF SqueezedRank
    <3>4. \A x \in Readers : p[x] \in Nat \/ (x # r /\ pos[x] = 0)
      BY <3>1, <3>2 DEF SqueezedRank
    <3>5. PICK s : s = [x \in Readers |-> IF p[x] < 0 THEN 0 ELSE p[x]]
      OBVIOUS
    <3>6. s \in [Readers -> Nat]
      BY <3>3, <3>5
    <3>7. Members' = Members /\ \A q \in Members : s[q] = p[q]
      <4>1. Members' = Members
        BY <1>5 DEF Squeeze, Members
      <4>2. \A q \in Members : p[q] \in 1 .. n
        BY <3>2, <4>1 DEF Linked
      <4> QED BY <1>1, <3>5, <4>1, <4>2
    <3>8. Linked(n, s)'
      BY <3>2, <3>7 DEF Linked
    <3> QED BY <3>6, <3>8 DEF List
  <2>3. CASE next[r] = front
    <3>1. Linked(n, pos)'
      BY <1>5, <2>3, KeptLinked DEF Squeeze
    <3> QED BY <3>1 DEF List
  <2> QED BY <2>2, <2>3
<1>6. CASE ListRemove(r)
  <2>1. CASE GiveSlotToFront(r)
    <3>1. PICK p : p = [pos EXCEPT ![front] = pos[r]]
      OBVIOUS
    <3> QED BY <1>6, <2>1, <3>1, GiveSlotLinked DEF List
  <2>2. CASE Unlink(r)
    <3>1. PICK p : p = LeftRank(pos, r)
      OBVIOUS
    <3>2. n - 1 \in Nat /\ Linked(n - 1, p)'
      BY <1>6, <2>2, <3>1, UnlinkLinked
    <3>3. p \in [Readers -> Nat]
      BY <3>1 DEF LeftRank
    <3> QED BY <3>2, <3>3 DEF List
  <2>3. CASE RemoveLast(r)
    BY <1>6, <2>3, RemoveLastLinked DEF List
  <2>4. CASE RemoveFront(r)
    BY <1>6, <2>4, RemoveFrontLinked DEF List
  <2> QED BY <1>6, <2>1, <2>2, <2>3, <2>4 DEF ListRemove
<1> QED BY <1>3, <1>4, <1>5, <1>6

(* A step that changes no pointer keeps the list. *)
LEMMA PointersKept ==
  ASSUME ListTypes, List, UNCHANGED <<front, back, next, previous, inQueue>>
  PROVE  ListTypes' /\ List'
<1>1. ListTypes'
  BY DEF ListTypes
<1>2. PICK n \in Nat : \E pos \in [Readers -> Nat] : Linked(n, pos)
  BY DEF List
<1>3. PICK pos \in [Readers -> Nat] : Linked(n, pos)
  BY <1>2
<1>4. Linked(n, pos)'
  BY <1>3, KeptLinked
<1> QED BY <1>1, <1>4 DEF List

(* Every reader that is at a step of remove has joined. *)
LEMMA StepsOfMembers ==
  ASSUME ListTypes, QueueTypes, NEW r \in Readers
  PROVE  (r \in Members <=> inQueue[r]) /\ (rpc[r] # "out" <=> r \in Members)
BY DEF ListTypes, QueueTypes, Members

ListParts == ListTypes /\ IndexTypes /\ QueueTypes /\ SeenIndex /\ List

(* ListParts is ListInv, with the type invariant in parts. *)
LEMMA ListPartsInv == ListInv <=> ListParts
BY TypeParts DEF ListInv, ListParts

(* The empty list of the constructor. *)
LEMMA ListPartsInit == InitSize > 1 /\ Init => ListParts
<1> SUFFICES ASSUME InitSize > 1, Init PROVE ListParts
  OBVIOUS
<1>1. ListTypes
  BY DEF Init, ListInit, ReaderInit, ListTypes
<1>2. Members = {}
  BY DEF Init, ListInit, ReaderInit, Members
<1>3. IndexTypes
  BY <1>2, ListAssumption DEF Init, ListInit, ReaderInit, IndexTypes, Indices
<1>4. QueueTypes
  <2>1. size = InitSize /\ size \in Nat \ {0}
    BY ListAssumption DEF Init, ListInit
  <2>2. 0 \in Indices(size) /\ 0 \in 0 .. 2 * size
    BY <2>1 DEF Indices
  <2>3. slots \in [Indices(size) -> {"empty", "ready", "taken"}]
    BY <2>1 DEF Init
  <2>4. rpc \in [Readers -> ReaderSteps] /\ \A r \in Readers : rpc[r] = "out" <=> ~inQueue[r]
    BY DEF Init, ListInit, ReaderInit, ReaderSteps
  <2>5. seenW \in [Readers -> 0 .. 2 * size]
    BY <2>2 DEF Init
  <2> QED BY <2>2, <2>3, <2>4, <2>5 DEF Init, ListInit, ReaderInit, QueueTypes
<1>5. SeenIndex
  BY DEF Init, SeenIndex
<1>6. [r \in Readers |-> 0] \in [Readers -> Nat]
  OBVIOUS
<1>7. Linked(0, [r \in Readers |-> 0])
  BY <1>2 DEF Linked, Init, ListInit
<1>8. List
  BY <1>6, <1>7 DEF List
<1> QED BY <1>1, <1>3, <1>4, <1>5, <1>8 DEF ListParts

(* The steps that relink the list. *)
LEMMA ListPartsListStep ==
  ASSUME InitSize > 1, ListParts, NEW r \in Readers,
         ListAdd(r) \/ MoveAhead(r) \/ Squeeze(r) \/ ListRemove(r)
  PROVE  ListTypes' /\ IndexTypes' /\ List'
<1>1. PICK n \in Nat : \E pos \in [Readers -> Nat] : Linked(n, pos)
  BY DEF ListParts, List
<1>2. PICK pos \in [Readers -> Nat] : Linked(n, pos)
  BY <1>1
<1>3. inQueue[r] => front \in Readers
  BY <1>2 DEF Linked, Members
<1> QED BY <1>2, <1>3, ListTypesKept, IndexTypesKept, ListKept DEF ListParts

(* add does not touch the list. *)
LEMMA ListPartsAdd == ASSUME ListParts, AddStep PROVE ListParts'
<1> USE DEF ListParts
<1>1. UNCHANGED <<size, readIndex, listVars, rpc, seenW, handed, left, misread>>
  BY DEF AddStep, AddIsFull, AddInsert, AddPublish, queueIndices, history
<1>2. ListTypes' /\ List'
  BY <1>1, PointersKept DEF listVars, listEnds, readerFields
<1>3. Members' = Members
  BY <1>1 DEF Members, listVars, readerFields
<1>4. 0 \in Indices(size) /\ nextIndex(writeIndex, size) \in Indices(size)
  BY SizeType, NextIndexValue DEF IndexTypes, Indices
<1>5. IndexTypes'
  BY <1>1, <1>3 DEF AddStep, AddIsFull, AddInsert, AddPublish, queueIndices, IndexTypes, QueueTypes,
     listVars, readerFields
<1>6. QueueTypes'
  <2>1. isDone' = isDone /\ inQueue' = inQueue
    BY <1>1 DEF listVars, readerFields
  <2>2. slots' \in [Indices(size) -> {"empty", "ready", "taken"}]
    BY DEF AddStep, AddIsFull, AddInsert, AddPublish, QueueTypes
  <2>3. wpc' \in {"idle", "insert", "publish"} /\ newWrite' \in Indices(size)
    BY <1>4 DEF AddStep, AddIsFull, AddInsert, AddPublish, QueueTypes
  <2> QED BY <1>1, <2>1, <2>2, <2>3 DEF QueueTypes
<1>7. SeenIndex'
  BY <1>1 DEF SeenIndex
<1> QED BY <1>2, <1>5, <1>6, <1>7

(* startAccess and endAccess. *)
LEMMA ListPartsAccess ==
  ASSUME InitSize > 1, ListParts, NEW r \in Readers, StartAccess(r) \/ EndAccess(r)
  PROVE  ListParts'
<1>1. ListTypes' /\ IndexTypes' /\ List'
  BY ListPartsListStep DEF StartAccess, EndAccess
<1>2. /\ UNCHANGED <<size, slots, wpc, newWrite, seenW, handed>>
      /\ isDone' \in [Readers -> BOOLEAN]
      /\ inQueue \in [Readers -> BOOLEAN]
  BY DEF StartAccess, EndAccess, ListAdd, ListRemove, queueIndices, ListParts, QueueTypes, AddFirst,
     AddAtFront, AddBehindFront, ListTypes
<1>7. left' \in BOOLEAN /\ misread' \in BOOLEAN
  BY DEF StartAccess, EndAccess, ListParts, QueueTypes, history
<1>3. \/ rpc' = [rpc EXCEPT ![r] = "idle"] /\ inQueue' = [inQueue EXCEPT ![r] = TRUE]
      \/ rpc' = [rpc EXCEPT ![r] = "out"] /\ inQueue' = [inQueue EXCEPT ![r] = FALSE]
  BY DEF StartAccess, EndAccess, ListAdd, ListRemove, Goto
<1>4. rpc' \in [Readers -> ReaderSteps] /\ \A q \in Readers : rpc'[q] = "out" <=> ~inQueue'[q]
  BY <1>2, <1>3 DEF ListParts, QueueTypes, ReaderSteps
<1>5. QueueTypes'
  BY <1>2, <1>4, <1>7 DEF ListParts, QueueTypes
<1>6. SeenIndex'
  BY <1>2, <1>3 DEF ListParts, SeenIndex, QueueTypes
<1> QED BY <1>1, <1>5, <1>6 DEF ListParts

(* The steps of remove. *)
LEMMA ListPartsRemove ==
  ASSUME InitSize > 1, ListParts, NEW r \in Readers, RemoveStep(r)
  PROVE  ListParts'
<1> USE DEF ListParts
<1>1. CASE MoveToFront(r)
  <2>1. /\ UNCHANGED <<slots, wpc, newWrite, seenW, handed, left, misread>>
        /\ rpc[r] = "idle"
        /\ rpc' = [rpc EXCEPT ![r] = "check"] \/ rpc' = rpc
    BY <1>1 DEF MoveToFront, Goto, history
  <2>2. /\ UNCHANGED <<size, isDone, inQueue>>
        /\ ListTypes' /\ IndexTypes' /\ List'
    <3>1. CASE CannotMove(r)
      <4>1. /\ UNCHANGED <<front, back, next, previous, inQueue, index, isDone>>
            /\ UNCHANGED <<size, readIndex, writeIndex>>
        BY <3>1 DEF CannotMove, queueIndices, listVars, listEnds, readerFields
      <4> QED BY <4>1, PointersKept DEF IndexTypes, Members
    <3>2. CASE MoveAhead(r) \/ Squeeze(r)
      BY <3>2, ListPartsListStep DEF MoveAhead, Squeeze
    <3> QED BY <1>1, <3>1, <3>2 DEF MoveToFront
  <2>3. QueueTypes'
    BY <2>1, <2>2 DEF QueueTypes, ReaderSteps
  <2>4. SeenIndex'
    BY <2>1, <2>2 DEF SeenIndex, QueueTypes
  <2> QED BY <2>2, <2>3, <2>4
<1>2. CASE Compare(r)
  <2>1. PICK isEmpty : RemoveSlot(r, isEmpty)
    BY <1>2 DEF Compare
  <2>2. /\ UNCHANGED <<size, readIndex, writeIndex, front, back, next, previous, index, inQueue, wpc,
                       newWrite, left>>
        /\ isDone' = [isDone EXCEPT ![r] = ~isEmpty]
        /\ \/ rpc' = [rpc EXCEPT ![r] = "idle"] /\ slots' = slots /\ handed' = handed
           \/ /\ rpc' = [rpc EXCEPT ![r] = "using"]
              /\ handed' = slots[index[r]] /\ slots' = [slots EXCEPT ![index[r]] = "taken"]
    BY <2>1 DEF RemoveSlot, queueIndices, Goto
  <2>3. rpc[r] = "compare" /\ seenW' = [seenW EXCEPT ![r] = 0]
    BY <1>2 DEF Compare
  <2>4. ListTypes' /\ List'
    BY <2>2, PointersKept
  <2>5. r \in Members /\ Members' = Members
    BY <2>2, <2>3, StepsOfMembers DEF Members
  <2>6. IndexTypes'
    BY <2>2, <2>5 DEF IndexTypes
  <2>7. QueueTypes'
    <3>1. slots' \in [Indices(size) -> {"empty", "ready", "taken"}]
      BY <2>2 DEF QueueTypes
    <3>2. handed' \in {"empty", "ready", "taken"}
      BY <2>2, <2>5 DEF QueueTypes, IndexTypes
    <3>3. seenW' \in [Readers -> 0 .. 2 * size]
      BY <2>3, SizeType DEF QueueTypes
    <3>4. rpc' \in [Readers -> ReaderSteps] /\ \A q \in Readers : rpc'[q] = "out" <=> ~inQueue'[q]
      BY <2>2, <2>3 DEF QueueTypes, ReaderSteps
    <3>5. isDone' \in [Readers -> BOOLEAN]
      BY <2>2 DEF QueueTypes
    <3>6. misread' \in BOOLEAN
      BY <1>2 DEF Compare
    <3> QED BY <2>2, <3>1, <3>2, <3>3, <3>4, <3>5, <3>6 DEF QueueTypes
  <2>8. SeenIndex'
    <3>1. \A q \in Readers : rpc'[q] = "base" => rpc[q] = "base" /\ q # r
      BY <2>2, <2>3 DEF QueueTypes
    <3> QED BY <2>2, <2>3, <3>1 DEF SeenIndex, QueueTypes
  <2> QED BY <2>4, <2>6, <2>7, <2>8
<1>3. CASE CheckSameSlot(r) \/ ReadWriteIndex(r) \/ AdjustWriteIndex(r) \/ Handled(r)
  <2>1. /\ UNCHANGED <<size, readIndex, writeIndex, front, back, next, previous, index, isDone, inQueue>>
        /\ UNCHANGED <<slots, wpc, newWrite, handed, left, misread>>
    BY <1>3 DEF CheckSameSlot, ReadWriteIndex, AdjustWriteIndex, Handled, queueIndices, listVars, listEnds,
       readerFields, history
  <2>2. \/ rpc' = [rpc EXCEPT ![r] = "check"] /\ rpc[r] = "idle" /\ seenW' = seenW
        \/ rpc' = [rpc EXCEPT ![r] = "idle"] /\ rpc[r] = "using" /\ seenW' = seenW
        \/ /\ rpc' = [rpc EXCEPT ![r] = "base"] /\ rpc[r] = "check"
           /\ seenW' = [seenW EXCEPT ![r] = writeIndex]
        \/ /\ rpc' = [rpc EXCEPT ![r] = "compare"] /\ rpc[r] = "base"
           /\ seenW' = [seenW EXCEPT ![r] = adjustIndexForComparison(seenW[r], readIndex, size)]
    BY <1>3 DEF CheckSameSlot, ReadWriteIndex, AdjustWriteIndex, Handled, Goto
  <2>3. ListTypes' /\ List'
    BY <2>1, PointersKept
  <2>4. IndexTypes'
    BY <2>1 DEF IndexTypes, Members
  <2>5. /\ writeIndex \in 0 .. 2 * size
        /\ rpc[r] = "base" => adjustIndexForComparison(seenW[r], readIndex, size) \in 0 .. 2 * size
    BY SizeType DEF SeenIndex, IndexTypes, Indices, adjustIndexForComparison
  <2>6. seenW' \in [Readers -> 0 .. 2 * size]
    BY <2>2, <2>5 DEF QueueTypes
  <2>7. rpc' \in [Readers -> ReaderSteps] /\ \A q \in Readers : rpc'[q] = "out" <=> ~inQueue'[q]
    BY <2>1, <2>2 DEF QueueTypes, ReaderSteps
  <2>8. QueueTypes'
    BY <2>1, <2>6, <2>7 DEF QueueTypes
  <2>9. SeenIndex'
    BY <2>1, <2>2 DEF SeenIndex, QueueTypes, IndexTypes
  <2> QED BY <2>3, <2>4, <2>8, <2>9
<1> QED BY <1>1, <1>2, <1>3 DEF RemoveStep

(* The growth of a resize. *)
LEMMA ResizeSizes ==
  ASSUME IndexTypes, Resize
  PROVE  /\ size \in Nat \ {0} /\ size' \in Nat \ {0} /\ size < size'
         /\ size' = getNewQueueSize(size, MaxSize, UIntMax) /\ size' <= MaxSize
         /\ readIndex' = ResizedReadIndex(readIndex, writeIndex, size, size')
         /\ slots' = ResizedSlots(slots, readIndex, writeIndex, size, size', "empty")
         /\ index' = [r \in Readers |->
                        IF inQueue[r] THEN AdjustedIndex(index[r], size' - size, size')
                        ELSE index[r]]
         /\ UNCHANGED <<front, back, next, previous, isDone, inQueue, writeIndex, wpc, newWrite, rpc, seenW,
                        handed, left, misread>>
         /\ wpc = "idle" /\ \A r \in Members : rpc[r] = "idle"
<1> DEFINE newSize == getNewQueueSize(size, MaxSize, UIntMax)
<1>1. size \in Nat \ {0}
  BY SizeType
<1>2. newSize \in 0 .. MaxSize
  BY <1>1, ListAssumption, NewSizeBound
<1>3. size' = newSize /\ size < newSize
  BY DEF Resize
<1> HIDE DEF newSize
<1>4. size' \in Nat \ {0} /\ size' <= MaxSize
  BY <1>1, <1>2, <1>3, ListAssumption
<1> QED BY <1>1, <1>3, <1>4 DEF Resize, newSize, ListAdjust, history

(* The slots of a ring are slots of a larger one. *)
LEMMA IndicesGrow ==
  ASSUME NEW n \in Nat \ {0}, NEW m \in Nat \ {0}, n < m
  PROVE  /\ Indices(n) \subseteq Indices(m)
         /\ \A i \in Indices(n) : i + (m - n) \in Indices(m)
BY DEF Indices

(* resize keeps the list and moves every index into the new ring. *)
LEMMA ListPartsResize == ASSUME ListParts, Resize PROVE ListParts'
<1> USE DEF ListParts
<1>1. /\ size \in Nat \ {0} /\ size' \in Nat \ {0} /\ size < size' /\ size' <= MaxSize
      /\ readIndex' = ResizedReadIndex(readIndex, writeIndex, size, size')
      /\ slots' = ResizedSlots(slots, readIndex, writeIndex, size, size', "empty")
      /\ index' = [r \in Readers |->
                     IF inQueue[r] THEN AdjustedIndex(index[r], size' - size, size')
                     ELSE index[r]]
      /\ UNCHANGED <<front, back, next, previous, isDone, inQueue, writeIndex, wpc, newWrite, rpc, seenW,
                     handed, left, misread>>
  BY ResizeSizes
<1>2. ListTypes' /\ List' /\ Members' = Members
  BY <1>1, PointersKept DEF Members
<1>3. PICK oldSize, newSize : /\ oldSize = size /\ newSize = size'
                              /\ oldSize \in Nat \ {0} /\ newSize \in Nat \ {0} /\ oldSize < newSize
  BY <1>1
<1>4. \A i \in Indices(oldSize) : i \in Indices(newSize)
  BY <1>3, IndicesGrow
<1>5. readIndex' \in Indices(newSize) /\ writeIndex' \in Indices(newSize)
  BY <1>1, <1>3, ResizedIndices DEF IndexTypes
<1>6. slots' \in [Indices(newSize) -> {"empty", "ready", "taken"}]
  BY <1>1, <1>3, ResizedSlotsType DEF QueueTypes
<1>7. \A i \in Indices(oldSize) : AdjustedIndex(i, newSize - oldSize, newSize) \in Indices(newSize)
  <2>1. SUFFICES ASSUME NEW i \in Indices(oldSize)
                 PROVE  i + (newSize - oldSize) \in Indices(newSize)
    BY <1>4 DEF AdjustedIndex
  <2> QED BY <1>3, IndicesGrow
<1>8. /\ index' \in [Readers -> Int]
      /\ \A r \in Members' : index'[r] \in Indices(newSize)
  <2>1. \A r \in Readers : inQueue[r] <=> r \in Members
    BY DEF Members
  <2>2. \A r \in Members : index'[r] \in Indices(newSize)
    BY <1>1, <1>3, <1>7, <2>1 DEF IndexTypes, Members
  <2>3. \A i \in Indices(newSize) : i \in Int
    BY DEF Indices
  <2> QED BY <1>1, <1>2, <2>1, <2>2, <2>3 DEF IndexTypes
<1>9. IndexTypes'
  <2>1. size' \in InitSize .. (IF MaxSize > InitSize THEN MaxSize ELSE InitSize)
    BY <1>1, ListAssumption DEF IndexTypes
  <2> QED BY <1>3, <1>5, <1>8, <2>1 DEF IndexTypes
<1>10. QueueTypes'
  <2>1. newWrite' \in Indices(newSize)
    BY <1>1, <1>3, <1>4 DEF QueueTypes
  <2>2. seenW' \in [Readers -> 0 .. 2 * newSize]
    BY <1>1, <1>3 DEF QueueTypes
  <2> QED BY <1>1, <1>3, <1>6, <2>1, <2>2 DEF QueueTypes
<1>11. SeenIndex'
  BY <1>1, <1>3, <1>4 DEF SeenIndex
<1> QED BY <1>2, <1>9, <1>10, <1>11

(* Every step keeps the list and the types. *)
LEMMA ListPartsStep == ASSUME InitSize > 1, ListParts, [Next]_vars PROVE ListParts'
<1>1. CASE UNCHANGED vars
  <2>1. /\ UNCHANGED <<size, readIndex, writeIndex, front, back, next, previous, index, isDone, inQueue>>
        /\ UNCHANGED <<slots, wpc, newWrite, rpc, seenW, handed, left, misread>>
    BY <1>1 DEF vars, queueIndices, listVars, listEnds, readerFields, queueVars, history
  <2>2. ListTypes' /\ List'
    BY <2>1, PointersKept DEF ListParts
  <2>3. IndexTypes' /\ QueueTypes' /\ SeenIndex'
    BY <2>1 DEF ListParts, IndexTypes, QueueTypes, SeenIndex, Members
  <2> QED BY <2>2, <2>3 DEF ListParts
<1> QED BY <1>1, ListPartsAdd, ListPartsAccess, ListPartsRemove, ListPartsResize DEF Next

(* ListInv holds however the readers join, move, squeeze and leave. *)
THEOREM ListInvariance == InitSize > 1 => (Spec => []ListInv)
<1> SUFFICES ASSUME InitSize > 1 PROVE Spec => []ListInv
  OBVIOUS
<1>1. Init => ListParts
  BY ListPartsInit
<1>2. ListParts /\ [Next]_vars => ListParts'
  BY ListPartsStep
<1> QED BY <1>1, <1>2, ListPartsInv, PTL DEF Spec

(* In a queue of more than one slot, every index stays within the ring and *)
(* every field keeps its type, whenever readers leave and whatever isEmpty *)
(* answers them.                                                           *)
THEOREM TypeCorrect == InitSize > 1 => (Spec => []TypeOK)
<1>1. ListInv => TypeOK
  BY DEF ListInv
<1> QED BY <1>1, ListInvariance, PTL

(* add, moveToFront, squeeze and remove keep one list of exactly the       *)
(* readers that joined, linked in both directions.                         *)
THEOREM ListStaysIntact == InitSize > 1 => (Spec => []ListIntact)
<1>1. ListInv => ListIntact
  BY ListPartsInv, LinkedIntact DEF ListParts, List
<1> QED BY <1>1, ListInvariance, PTL
-----------------------------------------------------------------------------
(* Offsets from the read index.                                            *)

(* The offset of a slot is the number of positions from the base to it. *)
LEMMA OffsetCount ==
  ASSUME NEW n \in Nat \ {0}, NEW b \in Indices(n), NEW i \in Indices(n)
  PROVE  adjustIndexForComparison(i, b, n) - b = RingCount(b, i, n)
BY DEF Indices, adjustIndexForComparison, RingCount

(* Different slots have different offsets, all below the size. *)
LEMMA OffsetRange ==
  ASSUME NEW n \in Nat \ {0}, NEW b \in Indices(n)
  PROVE  /\ \A i \in Indices(n) : RingCount(b, i, n) \in 0 .. n - 1
         /\ \A i \in Indices(n) : RingCount(b, i, n) = 0 <=> i = b
         /\ \A i, j \in Indices(n) : RingCount(b, i, n) = RingCount(b, j, n) => i = j
BY DEF Indices, RingCount

(* The next slot is one further, except from the last one. *)
LEMMA OffsetNext ==
  ASSUME NEW n \in Nat \ {0}, NEW b \in Indices(n), NEW i \in Indices(n)
  PROVE  /\ nextIndex(i, n) # b => RingCount(b, nextIndex(i, n), n) = RingCount(b, i, n) + 1
         /\ nextIndex(i, n) = b => RingCount(b, i, n) = n - 1
<1>1. /\ nextIndex(i, n) = IF i + 1 = n THEN 0 ELSE i + 1
      /\ nextIndex(i, n) \in Indices(n)
  BY NextIndexValue
<1> QED BY <1>1 DEF Indices, RingCount

(* Moving the base to slot c. *)
LEMMA OffsetRebase ==
  ASSUME NEW n \in Nat \ {0}, NEW b \in Indices(n), NEW c \in Indices(n), NEW i \in Indices(n)
  PROVE  RingCount(c, i, n) = IF RingCount(b, i, n) >= RingCount(b, c, n)
                              THEN RingCount(b, i, n) - RingCount(b, c, n)
                              ELSE RingCount(b, i, n) - RingCount(b, c, n) + n
BY DEF Indices, RingCount

(* A resize that doubles the queue moves the readers to the same offsets of *)
(* the new ring, and the write index keeps its own.                        *)
LEMMA OffsetResize ==
  ASSUME NEW n \in Nat \ {0}, NEW b \in Indices(n), NEW w \in Indices(n), NEW i \in Indices(n),
         NEW m, m = 2 * n
  PROVE  LET populated == Populated(i, b, w, m)
             j == IF (populated /\ i > w) \/ (~populated /\ i < w) THEN i + (m - n) ELSE i
         IN  /\ j \in Indices(m)
             /\ RingCount(ResizedReadIndex(b, w, n, m), j, m) = RingCount(b, i, n)
<1>1. Populated(i, b, w, m) <=> IF b <= w THEN b <= i /\ i < w ELSE b <= i \/ i < w
  BY DEF Indices, Populated, adjustIndexForComparison
<1>2. ResizedReadIndex(b, w, n, m) = IF b > w THEN b + n ELSE b
  BY DEF Indices, ResizedReadIndex
<1>3. n \in Nat /\ b \in 0 .. n - 1 /\ w \in 0 .. n - 1 /\ i \in 0 .. n - 1 /\ m = n + n /\ m - n = n
  BY DEF Indices
<1>4. CASE b <= w
  BY <1>1, <1>2, <1>3, <1>4 DEF Indices, RingCount
<1>5. CASE b > w
  BY <1>1, <1>2, <1>3, <1>5 DEF Indices, RingCount
<1> QED BY <1>3, <1>4, <1>5

(* The offsets in a state, and the readers'. *)
LEMMA Offsets ==
  ASSUME IndexTypes
  PROVE  /\ size \in Nat \ {0}
         /\ \A i \in Indices(size) : /\ Offset(i) = RingCount(readIndex, i, size)
                                     /\ Offset(i) \in 0 .. size - 1
                                     /\ Offset(i) = 0 <=> i = readIndex
         /\ \A i, j \in Indices(size) : Offset(i) = Offset(j) => i = j
         /\ \A r \in Members : At(r) \in 0 .. size - 1 /\ index[r] \in Indices(size)
         /\ \A q, r \in Members : At(q) = At(r) <=> index[q] = index[r]
<1>1. size \in Nat \ {0} /\ readIndex \in Indices(size)
  BY SizeType DEF IndexTypes
<1>2. \A i \in Indices(size) : /\ Offset(i) = RingCount(readIndex, i, size)
                               /\ Offset(i) \in 0 .. size - 1
                               /\ Offset(i) = 0 <=> i = readIndex
  BY <1>1, OffsetCount, OffsetRange DEF Offset
<1>3. \A i, j \in Indices(size) : Offset(i) = Offset(j) => i = j
  BY <1>1, <1>2, OffsetRange
<1>4. \A r \in Members : At(r) \in 0 .. size - 1 /\ index[r] \in Indices(size)
  BY <1>2 DEF At, IndexTypes
<1> QED BY <1>1, <1>2, <1>3, <1>4 DEF At

(* The slot after the front's has the next offset, if the list does not    *)
(* span the queue.                                                         *)
LEMMA NextSlotOffset ==
  ASSUME IndexTypes, front \in Members, back \in Members, index[back] = readIndex, ~Spans
  PROVE  /\ nextIndex(index[front], size) \in Indices(size)
         /\ Offset(nextIndex(index[front], size)) = At(front) + 1
<1>1. /\ size \in Nat \ {0} /\ readIndex \in Indices(size) /\ index[front] \in Indices(size)
      /\ nextIndex(index[front], size) # readIndex
  BY SizeType DEF IndexTypes, Spans
<1>2. nextIndex(index[front], size) \in Indices(size)
  BY <1>1, NextIndexValue
<1>3. RingCount(readIndex, nextIndex(index[front], size), size) = RingCount(readIndex, index[front], size) + 1
  BY <1>1, OffsetNext
<1> QED BY <1>1, <1>2, <1>3, Offsets DEF At

(* Moving the read index to a slot c. *)
LEMMA RebasedOffsets ==
  ASSUME IndexTypes, NEW c \in Indices(size), size' = size, readIndex' = c
  PROVE  \A i \in Indices(size) :
           Offset(i)' = IF Offset(i) >= Offset(c) THEN Offset(i) - Offset(c)
                        ELSE Offset(i) - Offset(c) + size
<1> SUFFICES ASSUME NEW i \in Indices(size)
             PROVE  Offset(i)' = IF Offset(i) >= Offset(c) THEN Offset(i) - Offset(c)
                                 ELSE Offset(i) - Offset(c) + size
  OBVIOUS
<1>1. size \in Nat \ {0} /\ readIndex \in Indices(size)
  BY SizeType DEF IndexTypes
<1>2. Offset(i)' = RingCount(c, i, size)
  BY <1>1, OffsetCount DEF Offset
<1>3. Offset(i) = RingCount(readIndex, i, size) /\ Offset(c) = RingCount(readIndex, c, size)
  BY Offsets
<1> QED BY <1>1, <1>2, <1>3, OffsetRebase

(* A resize that doubles the queue. *)
LEMMA ResizedOffsets ==
  ASSUME IndexTypes, Resize, size' = 2 * size
  PROVE  /\ Offset(writeIndex)' = Offset(writeIndex)
         /\ \A r \in Members : At(r)' = At(r)
         /\ readIndex = writeIndex => readIndex' = readIndex
<1>1. /\ size \in Nat \ {0} /\ size' \in Nat \ {0} /\ size < size'
      /\ readIndex' = ResizedReadIndex(readIndex, writeIndex, size, size')
      /\ index' = [r \in Readers |->
                     IF inQueue[r] THEN AdjustedIndex(index[r], size' - size, size')
                     ELSE index[r]]
      /\ writeIndex' = writeIndex
  BY ResizeSizes
<1>2. /\ readIndex \in Indices(size) /\ writeIndex \in Indices(size)
      /\ \A r \in Members : index[r] \in Indices(size)
  BY DEF IndexTypes
<1>3. PICK n, m : n = size /\ m = size'
  OBVIOUS
<1>4. n \in Nat \ {0} /\ m \in Nat \ {0} /\ m = 2 * n /\ n < m
  BY <1>1, <1>3
<1>5. readIndex' \in Indices(m) /\ writeIndex \in Indices(m)
  BY <1>1, <1>2, <1>3, <1>4, ResizedIndices
<1>6. Offset(writeIndex)' = Offset(writeIndex)
  <2>1. RingCount(ResizedReadIndex(readIndex, writeIndex, n, m), writeIndex, m)
          = RingCount(readIndex, writeIndex, n)
    BY <1>2, <1>3, <1>4, RingResize
  <2>2. Offset(writeIndex) = RingCount(readIndex, writeIndex, n)
    BY <1>2, <1>3, Offsets
  <2>3. Offset(writeIndex)' = RingCount(readIndex', writeIndex, m)
    BY <1>1, <1>3, <1>4, <1>5, OffsetCount DEF Offset
  <2> QED BY <1>1, <1>3, <2>1, <2>2, <2>3
<1>7. ASSUME NEW r \in Members PROVE At(r)' = At(r)
  <2>1. index'[r] = AdjustedIndex(index[r], m - n, m)
    BY <1>1, <1>3 DEF Members
  <2>2. /\ index'[r] \in Indices(m)
        /\ RingCount(ResizedReadIndex(readIndex, writeIndex, n, m), index'[r], m)
             = RingCount(readIndex, index[r], n)
    BY <1>2, <1>3, <1>4, <2>1, OffsetResize DEF AdjustedIndex
  <2>3. At(r) = RingCount(readIndex, index[r], n)
    BY <1>2, <1>3, Offsets DEF At
  <2>4. At(r)' = RingCount(readIndex', index'[r], m)
    BY <1>3, <1>4, <1>5, <2>2, OffsetCount DEF Offset, At
  <2> QED BY <1>1, <1>3, <2>2, <2>3, <2>4
<1>8. readIndex = writeIndex => readIndex' = readIndex
  BY <1>1, <1>2 DEF ResizedReadIndex, Indices
<1> QED BY <1>6, <1>7, <1>8
-----------------------------------------------------------------------------
(* The order of the readers.                                               *)

Busy(r) == Owns(r) \/ rpc[r] = "using"

(* The offsets of the readers after a step that keeps the size. *)
LEMMA ReaderOffsets ==
  ASSUME IndexTypes, NEW c \in Indices(size), size' = size, readIndex' = c,
         NEW q \in Readers, index'[q] \in Indices(size)
  PROVE  At(q)' = IF Offset(index'[q]) >= Offset(c) THEN Offset(index'[q]) - Offset(c)
                  ELSE Offset(index'[q]) - Offset(c) + size
<1>1. PICK i : i = index'[q]
  OBVIOUS
<1>2. Offset(i)' = IF Offset(i) >= Offset(c) THEN Offset(i) - Offset(c)
                   ELSE Offset(i) - Offset(c) + size
  BY <1>1, RebasedOffsets
<1>3. At(q)' = Offset(i)'
  BY <1>1 DEF At, Offset
<1> QED BY <1>1, <1>2, <1>3

(* The same when the read index stays. *)
LEMMA SameBaseOffsets ==
  ASSUME IndexTypes, size' = size, readIndex' = readIndex, NEW q \in Readers, index'[q] \in Indices(size)
  PROVE  At(q)' = Offset(index'[q])
<1>1. readIndex \in Indices(size) /\ Offset(readIndex) = 0
  BY Offsets DEF IndexTypes
<1>2. Offset(index'[q]) \in 0 .. size - 1 /\ size \in Nat
  BY Offsets
<1> QED BY <1>1, <1>2, ReaderOffsets

(* Going by rank the offsets grow or stay. *)
LEMMA OffsetsByRank ==
  ASSUME IndexTypes, NEW n \in Nat, NEW pos \in [Readers -> Nat], Linked(n, pos), Sorted(pos),
         Members # {}
  PROVE  /\ front \in Members /\ back \in Members /\ n > 0
         /\ index[back] = readIndex /\ At(back) = 0
         /\ \A q, r \in Members : pos[q] <= pos[r] => At(q) <= At(r)
         /\ \A q \in Members : At(q) <= At(front) /\ At(q) \in 0 .. size - 1 /\ q \in Readers
<1>1. front \in Members /\ back \in Members /\ n > 0 /\ \A q \in Members : q \in Readers
  BY DEF Linked, Members
<1>2. index[back] = readIndex
  BY <1>1 DEF Sorted
<1>3. At(back) = 0
  BY <1>1, <1>2, Offsets DEF At, IndexTypes
<1>4. \A q \in Members : At(q) \in 0 .. size - 1 /\ pos[q] \in 1 .. n
  BY Offsets DEF Linked
<1>5. \A q, r \in Members : pos[q] <= pos[r] => At(q) <= At(r)
  <2> SUFFICES ASSUME NEW q \in Members, NEW r \in Members, pos[q] <= pos[r] PROVE At(q) <= At(r)
    OBVIOUS
  <2>1. CASE q = r
    BY <2>1, <1>4, SizeType
  <2>2. CASE q # r
    <3>1. pos[q] < pos[r]
      BY <2>2, <1>4 DEF Linked
    <3> QED BY <3>1, <1>4, SizeType DEF Sorted
  <2> QED BY <2>1, <2>2
<1>6. \A q \in Members : pos[q] <= pos[front]
  BY <1>1, <1>4 DEF Linked
<1> QED BY <1>1, <1>2, <1>3, <1>4, <1>5, <1>6

(* A reader joins. *)
LEMMA OrderStart ==
  ASSUME InitSize > 1, ListParts, OrderInv, NEW r \in Readers, StartAccess(r)
  PROVE  OrderInv'
<1> USE DEF ListParts
<1>1. /\ ListAdd(r)
      /\ size' = size /\ readIndex' = readIndex
      /\ rpc' = [rpc EXCEPT ![r] = "idle"] /\ rpc \in [Readers -> ReaderSteps]
      /\ isDone \in [Readers -> BOOLEAN] /\ index \in [Readers -> Int]
  BY DEF StartAccess, ListAdd, queueIndices, Goto, QueueTypes, IndexTypes
<1>2. r \notin Members /\ Members' = Members \cup {r} /\ \A q \in Members : q \in Readers
  BY <1>1 DEF ListAdd, ListTypes, Members
<1>3. PICK n \in Nat : \E pos \in [Readers -> Nat] : Linked(n, pos) /\ Sorted(pos)
  BY <1>1 DEF OrderInv, Ordered
<1>4. PICK pos \in [Readers -> Nat] : Linked(n, pos) /\ Sorted(pos)
  BY <1>3
<1>5. /\ index'[r] \in Indices(size)
      /\ \A q \in Members : index'[q] = index[q] /\ isDone'[q] = isDone[q] /\ rpc'[q] = rpc[q]
      /\ rpc'[r] = "idle"
      /\ front # NULL => front \in Members
  <2>1. IndexTypes'
    BY <1>1, ListPartsListStep
  <2>2. index'[r] \in Indices(size)
    BY <1>1, <1>2, <2>1 DEF IndexTypes
  <2>3. \A q \in Members : index'[q] = index[q] /\ isDone'[q] = isDone[q]
    BY <1>1, <1>2 DEF ListAdd, AddFirst, AddAtFront, AddBehindFront
  <2> QED BY <1>1, <1>2, <1>4, <2>2, <2>3 DEF Linked
<1>6. \A q \in Members : At(q)' = At(q) /\ At(q) \in 0 .. size - 1
  BY <1>1, <1>2, <1>5, SameBaseOffsets, Offsets DEF At
<1>7. At(r)' = Offset(index'[r]) /\ At(r)' \in 0 .. size - 1
  BY <1>1, <1>5, SameBaseOffsets, Offsets
<1>8. \A q \in Members : Busy(q)' <=> Busy(q)
  BY <1>1, <1>2, <1>5 DEF Busy, Owns, ListAdd, ListTypes
<1>9. ASSUME NEW p \in [Readers -> Nat], NEW m \in Nat, Linked(m, p)', Sorted(p)',
             Busy(r)' => \A q \in Members : Busy(q) => index'[r] # index'[q]
      PROVE  OrderInv'
  <2>1. Ordered'
    BY <1>9 DEF Ordered
  <2>2. ReadersDisjoint'
    <3>1. \A q, s \in Members : Busy(q) /\ Busy(s) /\ q # s => index[q] # index[s]
      BY DEF OrderInv, ReadersDisjoint, Busy
    <3>2. \A q, s \in Members' : Busy(q)' /\ Busy(s)' /\ q # s => index'[q] # index'[s]
      BY <1>2, <1>5, <1>8, <1>9, <3>1
    <3> QED BY <3>2 DEF ReadersDisjoint, Busy
  <2> QED BY <2>1, <2>2 DEF OrderInv
<1>10. CASE AddFirst(r)
  <2>1. PICK p : p = [pos EXCEPT ![r] = 1]
    OBVIOUS
  <2>2. Linked(1, p)' /\ p \in [Readers -> Nat]
    BY <1>1, <1>4, <1>10, <2>1, AddFirstLinked
  <2>3. Members = {}
    BY <1>4, <1>10, ListEnds DEF AddFirst
  <2>4. index'[r] = readIndex'
    BY <1>1, <1>10 DEF AddFirst
  <2>5. Sorted(p)'
    BY <1>2, <2>2, <2>3, <2>4 DEF Sorted
  <2> QED BY <1>9, <2>2, <2>3, <2>5
<1>11. CASE AddAtFront(r)
  <2>1. PICK p : p = [pos EXCEPT ![r] = n + 1]
    OBVIOUS
  <2>2. Linked(n + 1, p)' /\ p \in [Readers -> Nat]
    <3>1. p \in [Readers -> Nat]
      BY <2>1
    <3>2. Linked(n + 1, p)'
      BY <1>1, <1>4, <1>11, <2>1, AddAtFrontLinked
    <3> QED BY <3>1, <3>2
  <2>3. /\ front \in Members /\ back \in Members /\ index[back] = readIndex
        /\ \A q \in Members : At(q) <= At(front)
    BY <1>4, <1>5, <1>11, OffsetsByRank DEF AddAtFront
  <2>4. At(r)' = At(front) + 1
    <3>1. index'[r] = nextIndex(index[front], size)
      BY <1>1, <1>11 DEF AddAtFront
    <3>2. Offset(nextIndex(index[front], size)) = At(front) + 1
      BY <1>11, <2>3, NextSlotOffset DEF AddAtFront
    <3> QED BY <1>7, <3>1, <3>2
  <2>5. \A q \in Members : At(q)' < At(r)'
    BY <1>6, <2>3, <2>4, SizeType
  <2>6. \A q \in Members : p[q] = pos[q] /\ pos[q] <= n /\ pos[q] \in Nat /\ p[r] = n + 1
    BY <1>2, <1>4, <2>1 DEF Linked
  <2>7. Sorted(p)'
    <3>1. back' = back
      BY <1>11 DEF AddAtFront
    <3>2. \A s \in Members' : s = back' => index'[s] = readIndex'
      BY <1>1, <1>2, <1>5, <2>3, <3>1
    <3>3. ASSUME NEW q \in Members', NEW s \in Members', p[q] < p[s]
          PROVE  At(q)' < At(s)' \/ (At(q)' = At(s)' /\ isDone'[s] /\ rpc'[s] = "idle")
      <4>1. CASE s = r
        <5>1. q \in Members
          BY <1>2, <3>3, <4>1, <2>2
        <5> QED BY <5>1, <4>1, <2>5
      <4>2. CASE s # r
        <5>1. s \in Members /\ q \in Members
          BY <1>2, <3>3, <4>2, <2>6
        <5> QED BY <5>1, <3>3, <1>4, <1>5, <1>6, <2>6 DEF Sorted
      <4> QED BY <4>1, <4>2
    <3> QED BY <3>2, <3>3 DEF Sorted
  <2>8. \A q \in Members : index'[r] # index'[q]
    BY <1>2, <1>5, <1>6, <1>7, <2>5, Offsets DEF At
  <2> QED BY <1>9, <2>2, <2>7, <2>8
<1>12. CASE AddBehindFront(r)
  <2>1. PICK p : p = BehindRank(pos, n, r)
    OBVIOUS
  <2>2. /\ front \in Members /\ back \in Members /\ index[back] = readIndex
        /\ \A q, s \in Members : pos[q] <= pos[s] => At(q) <= At(s)
    BY <1>4, <1>5, <1>12, OffsetsByRank DEF AddBehindFront
  <2>3. front # back
    BY <1>12, <2>2, SpansSeveral DEF AddBehindFront
  <2>4. /\ Linked(n + 1, p)' /\ p \in [Readers -> Nat]
        /\ \E before \in Members : /\ before # front /\ pos[before] = n - 1
                                  /\ index' = [index EXCEPT ![r] = index[before]]
    <3>1. p \in [Readers -> Nat]
      BY <2>1 DEF BehindRank
    <3>2. ListTypes /\ ListAdd(r)
      BY <1>1
    <3>3. /\ Linked(n + 1, p)'
          /\ \E before \in Members : /\ before # front /\ pos[before] = n - 1
                                    /\ index' = [index EXCEPT ![r] = index[before]]
      BY <3>2, <1>4, <1>12, <2>1, <2>3, AddBehindFrontLinked
    <3> QED BY <3>1, <3>3
  <2>5. PICK before \in Members : /\ before # front /\ pos[before] = n - 1
                                  /\ index' = [index EXCEPT ![r] = index[before]]
    BY <2>4
  <2>6. At(r)' = At(before) /\ isDone'[r]
    <3>1. index'[r] = index[before]
      BY <1>1, <2>5
    <3>2. isDone'[r]
      BY <1>1, <1>12 DEF AddBehindFront
    <3> QED BY <1>7, <3>1, <3>2 DEF At
  <2>7. /\ p[r] = n /\ p[front] = n + 1 /\ pos[front] = n
        /\ \A q \in Members : q # front => p[q] = pos[q] /\ pos[q] <= n - 1 /\ pos[q] \in Nat
    BY <1>2, <1>4, <2>1, <2>2 DEF BehindRank, Linked
  <2>8. Sorted(p)'
    <3>1. back' = back
      BY <1>12 DEF AddBehindFront
    <3>2. \A s \in Members' : s = back' => index'[s] = readIndex'
      BY <1>1, <1>2, <1>5, <2>2, <3>1
    <3>3. ASSUME NEW q \in Members', NEW s \in Members', p[q] < p[s]
          PROVE  At(q)' < At(s)' \/ (At(q)' = At(s)' /\ isDone'[s] /\ rpc'[s] = "idle")
      <4>1. CASE s = r
        <5>1. q \in Members /\ q # front
          BY <1>2, <3>3, <4>1, <2>4, <2>7
        <5>2. pos[q] <= pos[before]
          BY <5>1, <2>5, <2>7
        <5>3. At(q) <= At(before)
          BY <5>1, <5>2, <2>2
        <5> QED BY <4>1, <5>1, <5>3, <1>5, <1>6, <2>6, SizeType
      <4>2. CASE s # r /\ q = r
        <5>1. s = front
          BY <1>2, <3>3, <4>2, <2>7
        <5>2. pos[before] < pos[front]
          BY <2>5, <2>7
        <5> QED BY <4>2, <5>1, <5>2, <1>4, <1>5, <1>6, <2>2, <2>6 DEF Sorted
      <4>3. CASE s # r /\ q # r
        <5>1. s \in Members /\ q \in Members
          BY <1>2, <4>3
        <5>2. pos[q] < pos[s]
          BY <5>1, <3>3, <2>7
        <5> QED BY <5>1, <5>2, <1>4, <1>5, <1>6 DEF Sorted
      <4> QED BY <4>1, <4>2, <4>3
    <3> QED BY <3>2, <3>3 DEF Sorted
  <2>9. ~Busy(r)'
    BY <1>5, <2>6 DEF Busy, Owns
  <2> QED BY <1>9, <2>4, <2>8, <2>9
<1> QED BY <1>1, <1>10, <1>11, <1>12 DEF ListAdd

(* The offsets when r has got another slot and the read index has moved on *)
(* to a slot that no reader lies behind.                                   *)
LEMMA RepositionedOffsets ==
  ASSUME IndexTypes, IndexTypes', NEW r \in Members, size' = size, Members' = Members,
         \A q \in Members : q # r => index'[q] = index[q],
         \A q \in Members : q # r => Offset(readIndex') <= At(q),
         Offset(readIndex') <= Offset(index'[r])
  PROVE  /\ At(r)' = Offset(index'[r]) - Offset(readIndex')
         /\ \A q \in Members : q # r => At(q)' = At(q) - Offset(readIndex')
         /\ \A q \in Members : At(q)' \in 0 .. size - 1 /\ At(q) \in 0 .. size - 1
<1>1. /\ readIndex' \in Indices(size) /\ \A q \in Members : index'[q] \in Indices(size)
      /\ \A q \in Members : q \in Readers
  BY DEF IndexTypes, Members
<1>2. PICK c : c = readIndex'
  OBVIOUS
<1>3. \A q \in Members : At(q)' = IF Offset(index'[q]) >= Offset(c) THEN Offset(index'[q]) - Offset(c)
                                  ELSE Offset(index'[q]) - Offset(c) + size
  BY <1>1, <1>2, ReaderOffsets
<1>4. /\ size \in Nat /\ Offset(c) \in 0 .. size - 1
      /\ \A q \in Members : Offset(index'[q]) \in 0 .. size - 1 /\ At(q) \in 0 .. size - 1
  BY <1>1, <1>2, Offsets
<1>5. \A q \in Members : q # r => Offset(index'[q]) = At(q)
  BY DEF At
<1>6. \A q \in Members : At(q)' = Offset(index'[q]) - Offset(c)
  BY <1>2, <1>3, <1>4, <1>5
<1> QED BY <1>2, <1>4, <1>5, <1>6

(* Two readers have the same offset when they have the same slot. *)
SameOffsetSameSlot == \A q, r \in Members : At(q) = At(r) <=> index[q] = index[r]

(* Readers at the same offset have the same slot. *)
LEMMA SlotsByOffset == IndexTypes => SameOffsetSameSlot
BY Offsets DEF SameOffsetSameSlot

(* Only r gets another slot, and the read index passes no other reader. *)
Repositioned(r) ==
  /\ \A q \in Members : q # r => index'[q] = index[q] /\ Offset(readIndex') <= At(q)
  /\ Offset(readIndex') <= Offset(index'[r])

(* A reader moves to the front. *)
LEMMA OrderMoveAhead ==
  ASSUME InitSize > 1, ListParts, OrderInv, NEW r \in Readers, MoveToFront(r), MoveAhead(r),
         rpc' = [rpc EXCEPT ![r] = "check"]
  PROVE  /\ OrderInv'
         /\ Repositioned(r) /\ front' = r /\ Offset(index'[r]) = At(front) + 1
<1> USE DEF ListParts
<1>1. /\ rpc[r] = "idle" /\ isDone[r]
      /\ size' = size /\ isDone' = isDone /\ inQueue' = inQueue /\ writeIndex' = writeIndex
      /\ rpc \in [Readers -> ReaderSteps] /\ index \in [Readers -> Int]
      /\ ~Spans /\ ListTypes
  BY DEF MoveToFront, MoveAhead, QueueTypes, IndexTypes
<1>2. r \in Members /\ Members' = Members /\ \A q \in Members : q \in Readers
  BY <1>1 DEF MoveAhead, Members
<1>3. PICK n \in Nat : \E pos \in [Readers -> Nat] : Linked(n, pos) /\ Sorted(pos)
  BY <1>1 DEF OrderInv, Ordered
<1>4. PICK pos \in [Readers -> Nat] : Linked(n, pos) /\ Sorted(pos)
  BY <1>3
<1>5. IndexTypes'
  BY ListPartsListStep
<1>6. /\ index'[r] = nextIndex(index[front], size)
      /\ \A q \in Members : q # r => index'[q] = index[q] /\ rpc'[q] = rpc[q]
      /\ rpc'[r] = "check"
  BY <1>1, <1>2 DEF MoveAhead, MoveFromWithin, MoveFrontOn
<1>7. /\ front \in Members /\ back \in Members /\ index[back] = readIndex /\ At(back) = 0
      /\ \A q, s \in Members : pos[q] <= pos[s] => At(q) <= At(s)
      /\ \A q \in Members : At(q) <= At(front) /\ At(q) \in 0 .. size - 1
  BY <1>2, <1>4, OffsetsByRank
<1>8. size \in Nat /\ Offset(index'[r]) = At(front) + 1
  BY <1>1, <1>6, <1>7, NextSlotOffset, SizeType
<1>9. PICK m \in Nat, p \in [Readers -> Nat] :
          /\ Linked(m, p)'
          /\ \A q \in Members : q # r => p[q] < p[r]
          /\ \A q, s \in Members : q # r /\ s # r /\ p[q] < p[s] => pos[q] < pos[s]
          /\ back' \in Members /\ readIndex' = index'[back']
          /\ \A q \in Members : q # r => Offset(readIndex') <= At(q)
          /\ Offset(readIndex') <= At(front) + 1
  <2>1. CASE MoveFromWithin(r)
    <3>1. PICK p : p = MovedRank(pos, n, r)
      OBVIOUS
    <3>2. p \in [Readers -> Nat]
      BY <3>1 DEF MovedRank
    <3>3. Linked(n, p)'
      BY <1>1, <1>4, <2>1, <3>1, MoveFromWithinLinked
    <3>4. \A q \in Members : pos[q] \in 1 .. n /\ (q # r => pos[q] # pos[r])
      BY <1>2, <1>4 DEF Linked
    <3>5. /\ p[r] = n
          /\ \A q \in Members : q # r => p[q] = IF pos[q] > pos[r] THEN pos[q] - 1 ELSE pos[q]
      BY <1>2, <3>1 DEF MovedRank
    <3>6. \A q \in Members : q # r => p[q] < p[r]
      BY <1>2, <1>4, <3>4, <3>5 DEF Linked
    <3>7. \A q, s \in Members : q # r /\ s # r /\ p[q] < p[s] => pos[q] < pos[s]
      BY <1>2, <3>4, <3>5
    <3>8. r # front /\ next[r] \in Members /\ next[r] # r /\ pos[next[r]] = pos[r] + 1
      BY <1>2, <1>4, <2>1, <3>4 DEF MoveFromWithin, Linked
    <3>9. CASE r = back
      <4>1. back' = next[r] /\ readIndex' = index[next[r]]
        BY <2>1, <3>9 DEF MoveFromWithin
      <4>2. readIndex' = index'[back']
        BY <1>6, <3>8, <4>1
      <4>3. pos[r] = 1
        BY <1>2, <1>4, <3>9 DEF Linked
      <4>4. \A q \in Members : q # r => pos[next[r]] <= pos[q]
        BY <3>4, <3>8, <4>3
      <4>5. Offset(readIndex') = At(next[r])
        BY <4>1 DEF At
      <4> QED BY <1>7, <3>2, <3>3, <3>6, <3>7, <3>8, <4>1, <4>2, <4>4, <4>5
    <3>10. CASE r # back
      <4>1. back' = back /\ readIndex' = readIndex
        BY <2>1, <3>10 DEF MoveFromWithin
      <4>2. readIndex' = index'[back']
        BY <1>6, <1>7, <3>10, <4>1
      <4>3. Offset(readIndex') = 0
        BY <1>7, <4>1 DEF At
      <4> QED BY <1>7, <3>2, <3>3, <3>6, <3>7, <4>1, <4>2, <4>3
    <3> QED BY <3>9, <3>10
  <2>2. CASE MoveFrontOn(r)
    <3>1. Linked(n, pos)'
      BY <1>1, <1>4, <2>2, KeptLinked DEF MoveFrontOn
    <3>2. \A q \in Members : q # r => pos[q] < pos[r]
      BY <1>2, <1>4, <2>2 DEF Linked, MoveFrontOn
    <3>3. back' = back /\ readIndex' = IF r = back THEN index'[r] ELSE readIndex
      BY <2>2 DEF MoveFrontOn
    <3>4. readIndex' = index'[back']
      BY <1>6, <1>7, <3>3
    <3>5. CASE r = back
      <4>1. \A q \in Members : q = r
        BY <1>2, <1>4, <2>2, <3>2, <3>5 DEF Linked, MoveFrontOn
      <4>2. Offset(readIndex') = At(front) + 1
        BY <1>8, <3>3, <3>5
      <4> QED BY <1>7, <1>8, <3>1, <3>2, <3>3, <3>4, <4>1, <4>2
    <3>6. CASE r # back
      <4>1. Offset(readIndex') = 0
        BY <1>7, <3>3, <3>6 DEF At
      <4> QED BY <1>7, <1>8, <3>1, <3>2, <3>3, <3>4, <4>1
    <3> QED BY <3>5, <3>6
  <2> QED BY <2>1, <2>2 DEF MoveAhead
<1>10. /\ At(r)' = At(front) + 1 - Offset(readIndex')
       /\ \A q \in Members : q # r => At(q)' = At(q) - Offset(readIndex')
       /\ \A q \in Members : At(q)' \in 0 .. size - 1
  <2>1. \A q \in Members : q # r => index'[q] = index[q]
    BY <1>6
  <2>2. \A q \in Members : q # r => Offset(readIndex') <= At(q)
    BY <1>9
  <2>3. Offset(readIndex') <= Offset(index'[r])
    BY <1>8, <1>9
  <2>4. IndexTypes /\ size' = size /\ Members' = Members
    BY <1>1, <1>2
  <2>5. /\ At(r)' = Offset(index'[r]) - Offset(readIndex')
        /\ \A q \in Members : q # r => At(q)' = At(q) - Offset(readIndex')
        /\ \A q \in Members : At(q)' \in 0 .. size - 1 /\ At(q) \in 0 .. size - 1
    BY <1>2, <1>5, <2>1, <2>2, <2>3, <2>4, RepositionedOffsets
  <2>6. At(r)' = At(front) + 1 - Offset(readIndex')
    <3>1. PICK o : o = Offset(index'[r])
      OBVIOUS
    <3>2. o = At(front) + 1 /\ At(r)' = o - Offset(readIndex')
      BY <1>8, <2>5, <3>1
    <3>3. At(front) \in Int /\ Offset(readIndex') \in Int
      BY <1>1, <1>5, <1>7, Offsets DEF IndexTypes
    <3> QED BY <3>2, <3>3
  <2> QED BY <2>5, <2>6
<1>11. Offset(readIndex') \in 0 .. size - 1
  BY <1>1, <1>5, Offsets DEF IndexTypes
<1>12. \A q \in Members : q # r => At(q)' < At(r)'
  BY <1>7, <1>8, <1>10, <1>11
<1>13. Sorted(p)'
  <2>1. ASSUME NEW q \in Members, NEW s \in Members, p[q] < p[s]
        PROVE  At(q)' < At(s)' \/ (At(q)' = At(s)' /\ isDone'[s] /\ rpc'[s] = "idle")
    <3>1. \A x \in Members : p[x] \in Nat
      BY <1>2
    <3>2. CASE s = r
      BY <1>12, <2>1, <3>1, <3>2
    <3>3. CASE s # r
      <4>1. q # r
        BY <1>9, <2>1, <3>1, <3>3
      <4>2. pos[q] < pos[s]
        BY <1>9, <2>1, <3>3, <4>1
      <4>3. At(q) < At(s) \/ (At(q) = At(s) /\ isDone[s] /\ rpc[s] = "idle")
        BY <1>4, <4>2 DEF Sorted
      <4>4. /\ At(q)' = At(q) - Offset(readIndex') /\ At(s)' = At(s) - Offset(readIndex')
            /\ isDone'[s] = isDone[s] /\ rpc'[s] = rpc[s]
        BY <1>1, <1>6, <1>10, <3>3, <4>1
      <4> QED BY <1>7, <1>11, <4>3, <4>4
    <3> QED BY <3>2, <3>3
  <2>2. \A s \in Members : s = back' => index'[s] = readIndex'
    BY <1>9
  <2> QED BY <1>2, <2>1, <2>2 DEF Sorted
<1>14. ReadersDisjoint'
  <2>1. \A q, s \in Members : Busy(q) /\ Busy(s) /\ q # s => index[q] # index[s]
    BY DEF OrderInv, ReadersDisjoint, Busy
  <2>2. \A q \in Members : q # r => (Busy(q)' <=> Busy(q))
    BY <1>1, <1>6 DEF Busy, Owns
  <2>3. \A q \in Members : q # r => index'[q] # index'[r]
    <3>1. SameOffsetSameSlot'
      BY <1>5, SlotsByOffset, PTL
    <3>2. \A q \in Members : At(q)' # At(r)'
                             \/ q = r
      BY <1>2, <1>10, <1>12
    <3> QED BY <1>2, <3>1, <3>2 DEF SameOffsetSameSlot
  <2>4. \A q, s \in Members' : Busy(q)' /\ Busy(s)' /\ q # s => index'[q] # index'[s]
    BY <1>2, <1>6, <2>1, <2>2, <2>3
  <2> QED BY <2>4 DEF ReadersDisjoint, Busy
<1>15. Ordered'
  BY <1>9, <1>13 DEF Ordered
<1>17. Repositioned(r)
  BY <1>6, <1>8, <1>9 DEF Repositioned
<1>18. front' = r
  BY DEF MoveAhead, MoveFromWithin, MoveFrontOn
<1> QED BY <1>8, <1>14, <1>15, <1>17, <1>18 DEF OrderInv

(* The back of a list that spans the queue goes behind the front. *)
LEMMA OrderSqueeze ==
  ASSUME InitSize > 1, ListParts, OrderInv, NEW r \in Readers, MoveToFront(r), Squeeze(r), rpc' = rpc
  PROVE  /\ OrderInv'
         /\ Repositioned(r) /\ front' = front /\ front \in Members /\ r # front
<1>1. /\ rpc[r] = "idle" /\ isDone[r]
      /\ size' = size /\ isDone' = isDone /\ inQueue' = inQueue /\ front' = front
      /\ rpc \in [Readers -> ReaderSteps] /\ index \in [Readers -> Int]
      /\ Spans /\ r = back /\ ListTypes /\ IndexTypes /\ readIndex' = index'[back']
  BY DEF MoveToFront, Squeeze, QueueTypes, IndexTypes, ListParts
<1>2. r \in Members /\ Members' = Members /\ \A q \in Members : q \in Readers
  BY <1>1 DEF Squeeze, Members
<1>3. PICK n \in Nat : \E pos \in [Readers -> Nat] : Linked(n, pos) /\ Sorted(pos)
  BY <1>1 DEF OrderInv, Ordered
<1>4. PICK pos \in [Readers -> Nat] : Linked(n, pos) /\ Sorted(pos)
  BY <1>3
<1>5. IndexTypes'
  BY ListPartsListStep
<1>6. /\ front \in Members /\ back \in Members /\ index[back] = readIndex /\ At(back) = 0
      /\ \A q, s \in Members : pos[q] <= pos[s] => At(q) <= At(s)
      /\ \A q \in Members : At(q) <= At(front) /\ At(q) \in 0 .. size - 1
  BY <1>1, <1>2, <1>4, OffsetsByRank
<1>7. front # back
  BY <1>1, <1>6, SpansSeveral
<1>8. \A q \in Members : pos[q] \in 1 .. n
  BY <1>4 DEF Linked
<1>9. PICK m \in Nat, p \in [Readers -> Nat] :
          /\ Linked(m, p)'
          /\ back' \in Members
          /\ \A q \in Members : q # r => index'[q] = index[q]
          /\ \A q \in Members : q # r => Offset(readIndex') <= At(q)
          /\ Offset(readIndex') <= Offset(index'[r])
          /\ \A q, s \in Members : q # r /\ s # r /\ p[q] < p[s] => pos[q] < pos[s]
          /\ \A q \in Members : q # r /\ p[q] < p[r] => At(q) <= Offset(index'[r])
          /\ \A s \in Members : s # r /\ p[r] < p[s] =>
               \/ Offset(index'[r]) < At(s)
               \/ Offset(index'[r]) = At(s) /\ isDone[s] /\ rpc[s] = "idle"
  <2>1. CASE next[r] # front
    <3>1. PICK s : s = SqueezedRank(pos, n, r)
      OBVIOUS
    <3>2. /\ Linked(n, s)'
          /\ n > 2 /\ r \in Members /\ r = back /\ pos[next[r]] = 2 /\ front' = front
          /\ back' = next[r] /\ back' \in Members /\ back' # front
          /\ \E before \in Members : /\ before # front /\ before # r /\ pos[before] = n - 1
                                    /\ index' = [index EXCEPT ![r] = index[before]]
      <4>1. ListTypes /\ Linked(n, pos)
        BY <1>1, <1>4
      <4> QED BY <4>1, <1>7, <2>1, <3>1, SqueezeLinked
    <3>3. PICK before \in Members : /\ before # front /\ before # r /\ pos[before] = n - 1
                                    /\ index' = [index EXCEPT ![r] = index[before]]
      BY <3>2
    <3>4. PICK p : p = [x \in Readers |-> IF s[x] < 0 THEN 0 ELSE s[x]]
      OBVIOUS
    <3>5. /\ s[r] = n - 1
          /\ \A q \in Members : q # r => s[q] = IF pos[q] = n THEN n ELSE pos[q] - 1
      BY <1>2, <3>1 DEF SqueezedRank
    <3>6. p \in [Readers -> Nat] /\ \A q \in Members : p[q] = s[q]
      <4>1. \A x \in Readers : s[x] \in Int
        BY <3>1, <3>2 DEF SqueezedRank
      <4>2. \A q \in Members : s[q] >= 0
        BY <1>8, <3>2, <3>5
      <4> QED BY <1>2, <3>4, <4>1, <4>2
    <3>7. Linked(n, p)'
      BY <1>2, <3>2, <3>6 DEF Linked
    <3>8. next[r] # r /\ next[r] \in Members
      BY <1>1, <1>4, <3>2 DEF Linked
    <3>9. /\ \A q \in Members : q # r => index'[q] = index[q]
          /\ index'[r] = index[before]
      BY <1>1, <1>2, <3>3
    <3>10. Offset(readIndex') = At(next[r]) /\ Offset(index'[r]) = At(before)
      BY <1>1, <3>2, <3>8, <3>9 DEF At
    <3>11. pos[r] = 1 /\ \A q \in Members : q # r => pos[next[r]] <= pos[q]
      BY <1>1, <1>2, <1>4, <1>8, <3>2 DEF Linked
    <3>12. \A q \in Members : q # r => Offset(readIndex') <= At(q)
      BY <1>6, <3>8, <3>10, <3>11
    <3>13. Offset(readIndex') <= Offset(index'[r])
      BY <3>3, <3>10, <3>12
    <3>14. \A q, t \in Members : q # r /\ t # r /\ p[q] < p[t] => pos[q] < pos[t]
      BY <1>8, <3>5, <3>6
    <3>15. \A q \in Members : q # r /\ p[q] < p[r] => pos[q] <= pos[before]
      BY <1>2, <1>8, <3>3, <3>5, <3>6
    <3>16. \A q \in Members : q # r /\ p[q] < p[r] => At(q) <= Offset(index'[r])
      BY <1>6, <3>10, <3>15
    <3>17. \A t \in Members : t # r /\ p[r] < p[t] => pos[before] < pos[t]
      BY <1>2, <1>8, <3>3, <3>5, <3>6
    <3>18. \A t \in Members : t # r /\ p[r] < p[t] =>
             \/ Offset(index'[r]) < At(t)
             \/ Offset(index'[r]) = At(t) /\ isDone[t] /\ rpc[t] = "idle"
      BY <1>4, <3>10, <3>17 DEF Sorted
    <3> QED BY <3>2, <3>6, <3>7, <3>9, <3>12, <3>13, <3>14, <3>16, <3>18
  <2>2. CASE next[r] = front
    <3>1. back' = back /\ next' = next /\ previous' = previous /\ index' = index
      BY <2>2 DEF Squeeze
    <3>2. Linked(n, pos)'
      BY <1>1, <1>4, <3>1, KeptLinked
    <3>3. /\ Offset(readIndex') = 0 /\ Offset(index'[r]) = 0
          /\ \A q \in Members : q # r => index'[q] = index[q]
      BY <1>1, <1>6, <3>1 DEF At
    <3>4. \A q \in Members : q # r => Offset(readIndex') <= At(q)
      BY <1>6, <3>3
    <3>5. pos[r] = 1
      BY <1>1, <1>2, <1>4 DEF Linked
    <3>6. \A q \in Members : q # r => ~(pos[q] < pos[r])
      BY <1>8, <3>5
    <3>7. \A t \in Members : t # r /\ pos[r] < pos[t] =>
            \/ Offset(index'[r]) < At(t)
            \/ Offset(index'[r]) = At(t) /\ isDone[t] /\ rpc[t] = "idle"
      BY <1>1, <1>2, <1>4, <1>6, <3>3 DEF Sorted
    <3> QED BY <1>6, <3>1, <3>2, <3>3, <3>4, <3>6, <3>7
  <2> QED BY <2>1, <2>2
<1>10. /\ At(r)' = Offset(index'[r]) - Offset(readIndex')
       /\ \A q \in Members : q # r => At(q)' = At(q) - Offset(readIndex')
       /\ \A q \in Members : At(q)' \in 0 .. size - 1
  BY <1>1, <1>2, <1>5, <1>9, RepositionedOffsets
<1>11. Offset(readIndex') \in Int /\ Offset(index'[r]) \in Int
  BY <1>1, <1>2, <1>5, Offsets DEF IndexTypes
<1>12. Sorted(p)'
  <2>1. ASSUME NEW q \in Members, NEW s \in Members, p[q] < p[s]
        PROVE  At(q)' < At(s)' \/ (At(q)' = At(s)' /\ isDone'[s] /\ rpc'[s] = "idle")
    <3>1. CASE s = r
      <4>1. q # r
        BY <1>2, <2>1, <3>1
      <4>2. At(q) <= Offset(index'[r])
        BY <1>9, <2>1, <3>1, <4>1
      <4>3. At(q)' <= At(s)'
        BY <1>6, <1>10, <1>11, <3>1, <4>1, <4>2
      <4> QED BY <1>1, <1>10, <3>1, <4>3
    <3>2. CASE s # r /\ q = r
      <4>1. \/ Offset(index'[r]) < At(s)
            \/ Offset(index'[r]) = At(s) /\ isDone[s] /\ rpc[s] = "idle"
        BY <1>9, <2>1, <3>2
      <4> QED BY <1>1, <1>6, <1>10, <1>11, <3>2, <4>1
    <3>3. CASE s # r /\ q # r
      <4>1. At(q) < At(s) \/ (At(q) = At(s) /\ isDone[s] /\ rpc[s] = "idle")
        BY <1>4, <1>9, <2>1, <3>3 DEF Sorted
      <4> QED BY <1>1, <1>6, <1>10, <1>11, <3>3, <4>1
    <3> QED BY <3>1, <3>2, <3>3
  <2>2. \A s \in Members : s = back' => index'[s] = readIndex'
    BY <1>1
  <2> QED BY <1>2, <2>1, <2>2 DEF Sorted
<1>13. ReadersDisjoint'
  <2>1. \A q, s \in Members : Busy(q) /\ Busy(s) /\ q # s => index[q] # index[s]
    BY DEF OrderInv, ReadersDisjoint, Busy
  <2>2. \A q \in Members : Busy(q)' <=> Busy(q)
    BY <1>1 DEF Busy, Owns
  <2>3. ~Busy(r)
    BY <1>1 DEF Busy, Owns
  <2>4. \A q, s \in Members' : Busy(q)' /\ Busy(s)' /\ q # s => index'[q] # index'[s]
    BY <1>2, <1>9, <2>1, <2>2, <2>3
  <2> QED BY <2>4 DEF ReadersDisjoint, Busy
<1>14. Ordered'
  BY <1>9, <1>12 DEF Ordered
<1>16. Repositioned(r)
  BY <1>9 DEF Repositioned
<1> QED BY <1>1, <1>6, <1>7, <1>13, <1>14, <1>16 DEF OrderInv

(* A step that relinks nothing and assigns no slot. *)
LEMMA OrderUnmoved ==
  ASSUME ListParts, OrderInv,
         UNCHANGED <<size, readIndex, front, back, next, previous, index, inQueue>>,
         \A q \in Members : Busy(q)' => Busy(q),
         \A q \in Members : isDone[q] /\ rpc[q] = "idle" => isDone'[q] /\ rpc'[q] = "idle"
  PROVE  OrderInv'
<1>1. Members' = Members
  BY DEF Members
<1>2. ReadersDisjoint'
  <2>1. \A q, s \in Members : Busy(q) /\ Busy(s) /\ q # s => index[q] # index[s]
    BY DEF OrderInv, ReadersDisjoint, Busy
  <2>2. \A q, s \in Members' : Busy(q)' /\ Busy(s)' /\ q # s => index'[q] # index'[s]
    BY <1>1, <2>1
  <2> QED BY <2>2 DEF ReadersDisjoint, Busy
<1>3. Ordered'
  <2>1. PICK n \in Nat : \E pos \in [Readers -> Nat] : Linked(n, pos) /\ Sorted(pos)
    BY DEF OrderInv, Ordered
  <2>2. PICK pos \in [Readers -> Nat] : Linked(n, pos) /\ Sorted(pos)
    BY <2>1
  <2>3. Linked(n, pos)'
    BY <2>2, KeptLinked
  <2>4. \A q \in Members : At(q)' = At(q)
    BY DEF At, Offset
  <2>5. Sorted(pos)'
    BY <1>1, <2>2, <2>4 DEF Sorted
  <2> QED BY <2>3, <2>5 DEF Ordered
<1> QED BY <1>2, <1>3 DEF OrderInv

(* add moves no reader. *)
LEMMA OrderAdd == ASSUME ListParts, OrderInv, AddStep PROVE OrderInv'
<1>1. UNCHANGED <<size, readIndex, front, back, next, previous, index, inQueue, isDone, rpc>>
  BY DEF AddStep, AddIsFull, AddInsert, AddPublish, queueIndices, listVars, listEnds, readerFields
<1> QED BY <1>1, OrderUnmoved DEF Busy, Owns

(* The last reader leaves an empty list. *)
LEMMA LastLeaves ==
  ASSUME ListParts, NEW r \in Readers, EndAccess(r), ~left'
  PROVE  /\ ~left /\ Members = {r} /\ Members' = {} /\ front = r /\ back = r
         /\ RemoveLast(r) /\ List'
<1>1. ListRemove(r) /\ left' = (left \/ Members # {r}) /\ ListTypes
  BY DEF EndAccess, ListParts
<1>2. ~left /\ Members = {r}
  BY <1>1
<1>3. r \in Members /\ Members' = Members \ {r}
  BY <1>1 DEF ListRemove, ListTypes, Members
<1>4. PICK n \in Nat : \E pos \in [Readers -> Nat] : Linked(n, pos)
  BY DEF ListParts, List
<1>5. PICK pos \in [Readers -> Nat] : Linked(n, pos)
  BY <1>4
<1>6. r = front /\ r = back
  BY <1>2, <1>3, <1>5 DEF Linked
<1>7. RemoveLast(r)
  BY <1>1, <1>6 DEF ListRemove, GiveSlotToFront, Unlink, RemoveFront
<1>8. Linked(0, pos)'
  BY <1>1, <1>5, <1>7, RemoveLastLinked
<1>9. List'
  BY <1>8 DEF List
<1> QED BY <1>2, <1>3, <1>6, <1>7, <1>9

(* A list without readers is in order. *)
LEMMA EmptyOrdered == List /\ Members = {} => OrderInv
BY DEF List, OrderInv, ReadersDisjoint, Ordered, Sorted

(* The last reader leaves. *)
LEMMA OrderEnd ==
  ASSUME ListParts, NEW r \in Readers, EndAccess(r), ~left'
  PROVE  OrderInv'
<1>1. (List /\ Members = {})'
  BY LastLeaves
<1> QED BY <1>1, EmptyOrdered, PTL

(* The steps of remove other than moving. *)
LEMMA OrderCheck ==
  ASSUME ListParts, OrderInv, NEW r \in Readers,
         \/ CheckSameSlot(r) \/ ReadWriteIndex(r) \/ AdjustWriteIndex(r)
         \/ Compare(r) \/ Handled(r)
  PROVE  OrderInv'
<1>1. /\ UNCHANGED <<size, readIndex, writeIndex, front, back, next, previous, index, inQueue, wpc>>
      /\ rpc \in [Readers -> ReaderSteps] /\ isDone \in [Readers -> BOOLEAN]
      /\ \E step \in ReaderSteps, d \in BOOLEAN :
           /\ rpc' = [rpc EXCEPT ![r] = step] /\ isDone' = [isDone EXCEPT ![r] = d]
           /\ \/ rpc[r] = "idle" /\ ~isDone[r] /\ step = "check" /\ d = isDone[r]
              \/ rpc[r] \in {"check", "base"} /\ step \in {"base", "compare"} /\ d = isDone[r]
              \/ rpc[r] = "compare" /\ step \in {"idle", "using"} /\ (d <=> step = "using")
              \/ rpc[r] = "using" /\ step = "idle" /\ d = isDone[r]
  <2>1. rpc \in [Readers -> ReaderSteps] /\ isDone \in [Readers -> BOOLEAN]
    BY DEF ListParts, QueueTypes
  <2>2. isDone = [isDone EXCEPT ![r] = isDone[r]] /\ isDone[r] \in BOOLEAN
    BY <2>1
  <2>3. CASE CheckSameSlot(r) \/ ReadWriteIndex(r) \/ AdjustWriteIndex(r) \/ Handled(r)
    <3>1. /\ UNCHANGED <<size, readIndex, writeIndex, front, back, next, previous, index, inQueue>>
          /\ isDone' = isDone /\ wpc' = wpc
      BY <2>3 DEF CheckSameSlot, ReadWriteIndex, AdjustWriteIndex, Handled, queueIndices, listVars,
         listEnds, readerFields
    <3>2. \/ rpc' = [rpc EXCEPT ![r] = "check"] /\ rpc[r] = "idle" /\ ~isDone[r]
          \/ rpc' = [rpc EXCEPT ![r] = "base"] /\ rpc[r] = "check"
          \/ rpc' = [rpc EXCEPT ![r] = "compare"] /\ rpc[r] = "base"
          \/ rpc' = [rpc EXCEPT ![r] = "idle"] /\ rpc[r] = "using"
      BY <2>3 DEF CheckSameSlot, ReadWriteIndex, AdjustWriteIndex, Handled, Goto
    <3> QED BY <2>1, <2>2, <3>1, <3>2 DEF ReaderSteps
  <2>4. CASE Compare(r)
    <3>1. PICK isEmpty : RemoveSlot(r, isEmpty)
      BY <2>4 DEF Compare
    <3>2. rpc[r] = "compare"
      BY <2>4 DEF Compare
    <3>3. /\ UNCHANGED <<size, readIndex, writeIndex, front, back, next, previous, index, inQueue>>
          /\ wpc' = wpc
      BY <3>1 DEF RemoveSlot, queueIndices
    <3>4. \/ rpc' = [rpc EXCEPT ![r] = "idle"] /\ isDone' = [isDone EXCEPT ![r] = FALSE]
          \/ rpc' = [rpc EXCEPT ![r] = "using"] /\ isDone' = [isDone EXCEPT ![r] = TRUE]
      BY <3>1 DEF RemoveSlot, Goto
    <3> QED BY <2>1, <3>2, <3>3, <3>4 DEF ReaderSteps
  <2> QED BY <2>3, <2>4
<1>2. r \in Members
  BY <1>1, StepsOfMembers DEF ListParts, CheckSameSlot, ReadWriteIndex, AdjustWriteIndex,
     Compare, Handled
<1>4. \A q \in Members : Busy(q)' => Busy(q)
  BY <1>1, <1>2 DEF Busy, Owns, Members
<1>5. \A q \in Members : isDone[q] /\ rpc[q] = "idle" => isDone'[q] /\ rpc'[q] = "idle"
  BY <1>1, <1>2 DEF Members
<1> QED BY <1>1, <1>4, <1>5, OrderUnmoved

(* A resize that doubles the queue. *)
LEMMA OrderResize ==
  ASSUME ListParts, OrderInv, Resize, size' = 2 * size
  PROVE  OrderInv'
<1>1. /\ UNCHANGED <<front, back, next, previous, isDone, inQueue, writeIndex, wpc, rpc>>
      /\ wpc = "idle" /\ \A r \in Members : rpc[r] = "idle"
  BY ResizeSizes DEF ListParts
<1>2. /\ \A r \in Members : At(r)' = At(r)
      /\ readIndex = writeIndex => readIndex' = readIndex
  BY ResizedOffsets DEF ListParts
<1>3. IndexTypes /\ IndexTypes'
  BY ListPartsResize DEF ListParts
<1>4. SameOffsetSameSlot /\ SameOffsetSameSlot'
  BY <1>3, SlotsByOffset, PTL
<1>5. Members' = Members
  BY <1>1 DEF Members
<1>7. ReadersDisjoint'
  <2>1. \A q, s \in Members : Busy(q) /\ Busy(s) /\ q # s => index[q] # index[s]
    BY DEF OrderInv, ReadersDisjoint, Busy
  <2>2. \A q \in Members : Busy(q)' <=> Busy(q)
    BY <1>1 DEF Busy, Owns
  <2>3. \A q, s \in Members' : Busy(q)' /\ Busy(s)' /\ q # s => index'[q] # index'[s]
    BY <1>2, <1>4, <1>5, <2>1, <2>2 DEF SameOffsetSameSlot
  <2> QED BY <2>3 DEF ReadersDisjoint, Busy
<1>8. Ordered'
  <2>1. PICK n \in Nat : \E pos \in [Readers -> Nat] : Linked(n, pos) /\ Sorted(pos)
    BY DEF OrderInv, Ordered
  <2>2. PICK pos \in [Readers -> Nat] : Linked(n, pos) /\ Sorted(pos)
    BY <2>1
  <2>3. Linked(n, pos)'
    BY <1>1, <2>2, KeptLinked
  <2>4. \A r \in Members : r = back => index'[r] = readIndex'
    <3> SUFFICES ASSUME NEW r \in Members, r = back PROVE index'[r] = readIndex'
      OBVIOUS
    <3>1. At(r) = 0
      BY <2>2, <1>3, OffsetsByRank
    <3>2. At(r)' = 0
      BY <1>2, <3>1
    <3>3. PICK i : i = index'[r]
      OBVIOUS
    <3>4. i \in Indices(size') /\ readIndex' \in Indices(size') /\ size' \in Nat \ {0}
      BY <1>3, <1>5, <3>3, ResizeSizes DEF IndexTypes
    <3>5. adjustIndexForComparison(i, readIndex', size') - readIndex' = 0
      BY <3>2, <3>3 DEF At, Offset
    <3>6. i = readIndex'
      BY <3>4, <3>5, OffsetCount, OffsetRange
    <3> QED BY <3>3, <3>6
  <2>5. Sorted(pos)'
    BY <1>1, <1>2, <1>5, <2>2, <2>4 DEF Sorted
  <2> QED BY <2>3, <2>5 DEF Ordered
<1> QED BY <1>7, <1>8 DEF OrderInv

(* There is no reader at first. *)
LEMMA OrderInit == Init => OrderInv
<1> SUFFICES ASSUME Init PROVE OrderInv
  OBVIOUS
<1>1. Members = {} /\ front = NULL /\ back = NULL
  BY DEF Init, ListInit, ReaderInit, Members
<1>2. [r \in Readers |-> 0] \in [Readers -> Nat]
  OBVIOUS
<1>3. Linked(0, [r \in Readers |-> 0]) /\ Sorted([r \in Readers |-> 0])
  BY <1>1 DEF Linked, Sorted
<1> QED BY <1>1, <1>2, <1>3 DEF OrderInv, Ordered, ReadersDisjoint

(* Every step keeps the order. *)
LEMMA OrderStep ==
  ASSUME InitSize > 1, ListParts, OrderInv, [Next]_vars, ~left',
         size' # size => size' = 2 * size
  PROVE  OrderInv'
<1>1. CASE UNCHANGED vars
  <2>1. /\ UNCHANGED <<size, readIndex, writeIndex, front, back, next, previous, index, isDone, inQueue>>
        /\ UNCHANGED rpc
    BY <1>1 DEF vars, queueIndices, listVars, listEnds, readerFields, queueVars
  <2> QED BY <2>1, OrderUnmoved DEF Busy, Owns
<1>2. CASE Resize
  <2>1. size < size' /\ size \in Nat /\ size' \in Nat
    BY <1>2, ResizeSizes DEF ListParts
  <2> QED BY <1>2, <2>1, OrderResize
<1>3. ASSUME NEW r \in Readers, MoveToFront(r) PROVE OrderInv'
  <2>1. CASE MoveAhead(r) /\ Goto(r, "check")
    BY <1>3, <2>1, OrderMoveAhead DEF Goto
  <2>2. CASE Squeeze(r) /\ rpc' = rpc
    BY <1>3, <2>2, OrderSqueeze
  <2>3. CASE CannotMove(r) /\ rpc' = rpc
    <3>1. /\ UNCHANGED <<size, readIndex, writeIndex, front, back, next, previous, index, isDone, inQueue>>
          /\ UNCHANGED rpc
      BY <1>3, <2>3 DEF MoveToFront, CannotMove, queueIndices, listVars, listEnds, readerFields
    <3> QED BY <3>1, OrderUnmoved DEF Busy, Owns
  <2> QED BY <1>3, <2>1, <2>2, <2>3 DEF MoveToFront
<1>4. ASSUME NEW r \in Readers, RemoveStep(r) PROVE OrderInv'
  BY <1>3, <1>4, OrderCheck DEF RemoveStep
<1> QED BY <1>1, <1>2, <1>4, OrderAdd, OrderStart, OrderEnd DEF Next

(* Every growth from InitSize on doubles the queue, until it does not grow *)
(* any more.                                                               *)
DoublingSizes(S) ==
  /\ InitSize \in S
  /\ \A n \in S : LET m == getNewQueueSize(n, MaxSize, UIntMax)
                  IN  n < m => m = 2 * n /\ m \in S

GrowsByDoubling == \E S \in SUBSET Nat : DoublingSizes(S)

(* A step grows the queue as DoublingSizes says, or not at all. *)
LEMMA SizesStep ==
  ASSUME IndexTypes, NEW S \in SUBSET Nat, DoublingSizes(S), size \in S, [Next]_vars
  PROVE  size' \in S /\ (size' # size => size' = 2 * size)
<1>1. CASE Resize
  BY <1>1, ResizeSizes DEF DoublingSizes
<1>2. CASE ~Resize
  <2>1. size' = size
    BY <1>2 DEF Next, AddStep, AddIsFull, AddInsert, AddPublish, StartAccess, ListAdd, EndAccess,
       ListRemove, RemoveStep, CheckSameSlot, MoveToFront, MoveAhead, Squeeze, CannotMove,
       ReadWriteIndex, AdjustWriteIndex, Compare, Handled, RemoveSlot, queueIndices, vars
  <2> QED BY <2>1
<1> QED BY <1>1, <1>2

(* Once a reader has left before the others, it has. *)
LEMMA HistoryKept ==
  ASSUME ListParts, [Next]_vars
  PROVE  /\ left => left'
         /\ misread => misread'
<1>1. CASE AddStep
  BY <1>1 DEF AddStep, AddIsFull, AddInsert, AddPublish, history
<1>2. ASSUME NEW r \in Readers, StartAccess(r) \/ EndAccess(r) PROVE (left => left') /\ (misread => misread')
  <2>1. CASE StartAccess(r)
    BY <2>1 DEF StartAccess, history
  <2>2. CASE EndAccess(r)
    <3>1. left' = (left \/ Members # {r}) /\ misread' = misread
      BY <2>2 DEF EndAccess
    <3> QED BY <3>1, Zenon
  <2> QED BY <1>2, <2>1, <2>2
<1>3. ASSUME NEW r \in Readers, RemoveStep(r) PROVE (left => left') /\ (misread => misread')
  <2>1. CASE Compare(r)
    BY <2>1 DEF Compare, RemoveSlot
  <2>2. CASE CheckSameSlot(r) \/ MoveToFront(r) \/ ReadWriteIndex(r) \/ AdjustWriteIndex(r) \/ Handled(r)
    BY <2>2 DEF CheckSameSlot, MoveToFront, ReadWriteIndex, AdjustWriteIndex, Handled, history
  <2> QED BY <1>3, <2>1, <2>2 DEF RemoveStep
<1>4. CASE Resize
  BY <1>4 DEF Resize, history
<1>5. CASE UNCHANGED vars
  BY <1>5 DEF vars, queueVars, history
<1> QED BY <1>1, <1>2, <1>3, <1>4, <1>5 DEF Next

(* The order of the readers, for every size of the list and the queue.   *)
THEOREM OrderInvariance ==
  InitSize > 1 /\ GrowsByDoubling => (Spec => [](ListParts /\ (~left => OrderInv)))
<1> SUFFICES ASSUME InitSize > 1, NEW S \in SUBSET Nat, DoublingSizes(S)
             PROVE  Spec => [](ListParts /\ (~left => OrderInv))
  BY DEF GrowsByDoubling
<1> DEFINE Inv == ListParts /\ (~left => OrderInv) /\ size \in S
<1>1. Init => Inv
  BY ListPartsInit, OrderInit DEF Init, ListInit, DoublingSizes
<1>2. Inv /\ [Next]_vars => Inv'
  <2> SUFFICES ASSUME Inv, [Next]_vars PROVE Inv'
    OBVIOUS
  <2>1. ListParts'
    BY ListPartsStep
  <2>2. size' \in S /\ (size' # size => size' = 2 * size)
    BY SizesStep DEF ListParts
  <2>3. ~left' => OrderInv'
    BY <2>2, HistoryKept, OrderStep
  <2> QED BY <2>1, <2>2, <2>3
<1> QED BY <1>1, <1>2, PTL DEF Spec

(* The slots of the readers lie in ring order. *)
LEMMA SortedInOrder ==
  ASSUME ListTypes, IndexTypes, NEW n \in Nat, NEW pos \in [Readers -> Nat], Linked(n, pos), Sorted(pos)
  PROVE  RingOrdered
<1>1. /\ Cardinality(Members) = n
      /\ \A k \in 1 .. n : Order[k] \in Members /\ pos[Order[k]] = k
  BY OrderByRank
<1>2. Members # {} => index[back] = readIndex
  BY OffsetsByRank
<1>3. ASSUME NEW k \in 2 .. n
      PROVE  \/ Offset(index[Order[k - 1]]) < Offset(index[Order[k]])
             \/ index[Order[k - 1]] = index[Order[k]] /\ isDone[Order[k]]
  <2>1. k - 1 \in 1 .. n /\ k \in 1 .. n /\ k - 1 < k
    OBVIOUS
  <2>2. /\ Order[k - 1] \in Members /\ Order[k] \in Members
        /\ pos[Order[k - 1]] < pos[Order[k]]
    BY <1>1, <2>1
  <2>3. \/ At(Order[k - 1]) < At(Order[k])
        \/ At(Order[k - 1]) = At(Order[k]) /\ isDone[Order[k]]
    BY <2>2 DEF Sorted
  <2> QED BY <2>2, <2>3, SlotsByOffset DEF At, SameOffsetSameSlot
<1> QED BY <1>1, <1>2, <1>3 DEF RingOrdered

(* Until a reader leaves before the others, the slots of the readers lie   *)
(* in ring order from the queue's readIndex on, in whatever order they     *)
(* move, join and find their slots empty.                                  *)
THEOREM RingOrderKept ==
  InitSize > 1 /\ GrowsByDoubling => (Spec => []InRingOrder)
<1>1. ListParts /\ (~left => OrderInv) => InRingOrder
  BY SortedInOrder DEF ListParts, OrderInv, Ordered, InRingOrder
<1> QED BY <1>1, OrderInvariance, PTL

(* Until a reader leaves before the others, no two readers wait for or use *)
(* the same slot, whatever isEmpty answers them.                           *)
THEOREM ReadersApart ==
  InitSize > 1 /\ GrowsByDoubling => (Spec => [](~left => ReadersDisjoint))
<1>1. ListParts /\ (~left => OrderInv) => (~left => ReadersDisjoint)
  BY DEF OrderInv
<1> QED BY <1>1, OrderInvariance, PTL
-----------------------------------------------------------------------------
(* What the slots hold.                                                    *)

(* There is one slot at every offset. *)
LEMMA SlotAt ==
  ASSUME NEW n \in Nat \ {0}, NEW b \in Indices(n)
  PROVE  /\ \A k \in 0 .. n - 1 : RingAt(b, k, n) \in Indices(n) /\ RingCount(b, RingAt(b, k, n), n) = k
         /\ \A i \in Indices(n) : RingAt(b, RingCount(b, i, n), n) = i
BY DEF Indices, RingCount, RingAt

(* SlotEmpty, with the indices as they are now: the slot is not published. *)
LEMMA SlotEmptyOffset ==
  ASSUME IndexTypes, NEW i \in Indices(size)
  PROVE  SlotEmpty(i) <=> ~Published(i)
<1>1. size \in Nat \ {0} /\ readIndex \in Indices(size) /\ writeIndex \in Indices(size)
  BY SizeType DEF IndexTypes
<1> QED BY <1>1 DEF SlotEmpty, Published, Offset, adjustIndexForComparison, Indices

(* The full test leaves room for one entry. *)
LEMMA WriteOffset ==
  ASSUME IndexTypes
  PROVE  /\ writeIndex \in Indices(size) /\ size \in Nat \ {0} /\ Offset(writeIndex) \in 0 .. size - 1
         /\ nextIndex(writeIndex, size) \in Indices(size)
         /\ nextIndex(writeIndex, size) # readIndex =>
              Offset(nextIndex(writeIndex, size)) = Offset(writeIndex) + 1
         /\ \A i \in Indices(size) : Offset(i) \in 0 .. size - 1
         /\ \A i, j \in Indices(size) : Offset(i) = Offset(j) => i = j
<1>1. size \in Nat \ {0} /\ readIndex \in Indices(size) /\ writeIndex \in Indices(size)
  BY SizeType DEF IndexTypes
<1>2. nextIndex(writeIndex, size) \in Indices(size)
  BY <1>1, NextIndexValue
<1>3. nextIndex(writeIndex, size) # readIndex =>
        RingCount(readIndex, nextIndex(writeIndex, size), size) = RingCount(readIndex, writeIndex, size) + 1
  BY <1>1, OffsetNext
<1> QED BY <1>1, <1>2, <1>3, Offsets

(* A reader that uses its slot or waits for it. *)
LEMMA OwnerTypes ==
  ASSUME ListParts
  PROVE  /\ \A r \in Members : /\ r \in Readers /\ inQueue[r] /\ index[r] \in Indices(size)
                               /\ At(r) \in 0 .. size - 1 /\ At(r) = Offset(index[r])
         /\ \A r \in Readers : inQueue[r] => r \in Members
         /\ Members # {} => front \in Members
<1>1. Members # {} => front \in Members
  BY DEF ListParts, List, Linked
<1> QED BY <1>1, Offsets DEF ListParts, IndexTypes, Members, At

(* A step that neither moves an index nor changes a slot. *)
LEMMA SlotsUnmoved ==
  ASSUME ListParts, SlotInv,
         UNCHANGED <<size, readIndex, writeIndex, front, index, inQueue, slots, wpc, newWrite, handed>>,
         \A q \in Members : Owns(q)' <=> Owns(q),
         \A q \in Members : rpc'[q] = "using" => rpc[q] = "using" /\ isDone'[q] = isDone[q]
  PROVE  SlotInv'
<1>1. Members' = Members /\ \A i : Offset(i)' = Offset(i) /\ (Published(i)' <=> Published(i))
  BY DEF Members, Offset, Published
<1>2. At(front)' = At(front)
  BY DEF At, Offset
<1>3. SpaceReserved' /\ WrittenFirst' /\ HandedOnce'
  BY DEF SlotInv, SpaceReserved, WrittenFirst, HandedOnce
<1>4. UsingPublished'
  BY <1>1 DEF SlotInv, UsingPublished, Published, Offset
<1>5. OwnedReady'
  BY <1>1 DEF SlotInv, OwnedReady, Published, Offset
<1>6. ReadyPublished'
  BY <1>1 DEF SlotInv, ReadyPublished
<1>7. AwaitedSlots'
  BY <1>1, <1>2 DEF SlotInv, AwaitedSlots, Offset
<1>8. NoneSkipped'
  BY <1>1 DEF SlotInv, NoneSkipped, Offset
<1> QED BY <1>3, <1>4, <1>5, <1>6, <1>7, <1>8 DEF SlotInv

(* The steps of add. *)
LEMMA SlotsAdd == ASSUME ListParts, OrderInv, SlotInv, AddStep PROVE SlotInv'
<1>1. /\ UNCHANGED <<size, readIndex, front, index, inQueue, isDone, rpc, handed>>
      /\ Members' = Members
      /\ \A q \in Members : Owns(q)' <=> Owns(q)
  BY DEF AddStep, AddIsFull, AddInsert, AddPublish, queueIndices, listVars, listEnds, readerFields,
     Members, Owns
<1>2. /\ writeIndex \in Indices(size) /\ size \in Nat \ {0} /\ Offset(writeIndex) \in 0 .. size - 1
      /\ nextIndex(writeIndex, size) \in Indices(size)
      /\ nextIndex(writeIndex, size) # readIndex =>
           Offset(nextIndex(writeIndex, size)) = Offset(writeIndex) + 1
      /\ \A i \in Indices(size) : Offset(i) \in 0 .. size - 1
      /\ \A i, j \in Indices(size) : Offset(i) = Offset(j) => i = j
  BY WriteOffset DEF ListParts
<1>3. /\ \A r \in Members : /\ r \in Readers /\ inQueue[r] /\ index[r] \in Indices(size)
                            /\ At(r) \in 0 .. size - 1 /\ At(r) = Offset(index[r])
      /\ Members # {} => front \in Members
  BY OwnerTypes
<1>4. /\ \A i : Offset(i)' = Offset(i)
      /\ At(front)' = At(front)
  BY <1>1 DEF Offset, At
<1>5. ~Published(writeIndex)
  BY <1>2 DEF Published
<1>6. HandedOnce'
  BY <1>1 DEF SlotInv, HandedOnce
<1>7. CASE AddIsFull
  <2>1. /\ writeIndex' = writeIndex /\ slots' = slots /\ wpc' = "insert" /\ wpc = "idle"
        /\ newWrite' = nextIndex(writeIndex, size) /\ nextIndex(writeIndex, size) # readIndex
    BY <1>7 DEF AddIsFull, queueIndices
  <2>2. \A i : Published(i)' <=> Published(i)
    BY <1>1, <2>1 DEF Published, Offset
  <2>3. SpaceReserved' /\ WrittenFirst'
    BY <1>1, <2>1 DEF SpaceReserved, WrittenFirst
  <2>4. UsingPublished'
    BY <1>1, <2>1 DEF SlotInv, UsingPublished, Published, Offset
  <2>5. OwnedReady'
    BY <1>1, <2>1 DEF SlotInv, OwnedReady, Published, Offset
  <2>6. ReadyPublished'
    BY <1>1, <2>1, <2>2 DEF SlotInv, ReadyPublished
  <2>7. AwaitedSlots'
    BY <1>1, <1>4, <2>1 DEF SlotInv, AwaitedSlots, Offset
  <2>8. NoneSkipped'
    BY <1>1, <1>4, <2>1 DEF SlotInv, NoneSkipped, Offset
  <2> QED BY <1>6, <2>3, <2>4, <2>5, <2>6, <2>7, <2>8 DEF SlotInv
<1>8. CASE AddInsert
  <2>1. /\ writeIndex' = writeIndex /\ newWrite' = newWrite /\ wpc' = "publish" /\ wpc = "insert"
        /\ slots' = [slots EXCEPT ![writeIndex] = "ready"]
        /\ slots \in [Indices(size) -> {"empty", "ready", "taken"}]
    BY <1>8 DEF AddInsert, queueIndices, ListParts, QueueTypes
  <2>2. \A i : Published(i)' <=> Published(i)
    BY <1>1, <2>1 DEF Published, Offset
  <2>3. SpaceReserved' /\ WrittenFirst'
    BY <1>1, <1>2, <2>1 DEF SlotInv, SpaceReserved, WrittenFirst
  <2>4. UsingPublished'
    BY <1>1, <2>1 DEF SlotInv, UsingPublished, Published, Offset
  <2>5. OwnedReady'
    <3>1. \A q \in Members : Published(index[q]) => index[q] # writeIndex
      BY <1>5
    <3>2. \A q \in Members : Owns(q) /\ Published(index[q]) => slots'[index[q]] = "ready"
      BY <1>3, <2>1, <3>1 DEF SlotInv, OwnedReady
    <3> QED BY <1>1, <2>1, <3>2 DEF OwnedReady, Published, Offset
  <2>6. ReadyPublished'
    <3> SUFFICES ASSUME NEW i \in Indices(size), slots'[i] = "ready" PROVE Published(i)' \/ i = writeIndex
      BY <1>1, <2>1 DEF ReadyPublished
    <3>1. CASE i = writeIndex
      BY <3>1
    <3>2. CASE i # writeIndex
      BY <2>1, <2>2, <3>2 DEF SlotInv, ReadyPublished
    <3> QED BY <3>1, <3>2
  <2>7. AwaitedSlots'
    BY <1>1, <1>4, <2>1 DEF SlotInv, AwaitedSlots, Offset
  <2>8. NoneSkipped'
    <3>1. \A i \in Indices(size) : Offset(i) < Offset(writeIndex) => slots'[i] = slots[i]
      BY <1>2, <2>1
    <3> QED BY <1>1, <1>4, <2>1, <3>1 DEF SlotInv, NoneSkipped, Offset
  <2> QED BY <1>6, <2>3, <2>4, <2>5, <2>6, <2>7, <2>8 DEF SlotInv
<1>9. CASE AddPublish
  <2>1. /\ writeIndex' = newWrite /\ wpc' = "idle" /\ wpc = "publish" /\ slots' = slots
    BY <1>9 DEF AddPublish
  <2>2. newWrite = nextIndex(writeIndex, size) /\ newWrite # readIndex
    BY <2>1 DEF SlotInv, SpaceReserved
  <2>3. Offset(writeIndex)' = Offset(writeIndex) + 1
    <3>1. PICK w : w = writeIndex'
      OBVIOUS
    <3>2. Offset(w) = Offset(writeIndex) + 1
      BY <1>2, <2>1, <2>2, <3>1
    <3>3. Offset(writeIndex)' = Offset(w)
      BY <1>1, <3>1 DEF Offset
    <3> QED BY <3>2, <3>3
  <2>4. \A i \in Indices(size) : Published(i)' <=> Published(i) \/ i = writeIndex
    <3>1. \A i \in Indices(size) : Published(i)' <=> Offset(i) < Offset(writeIndex) + 1
      BY <1>4, <2>3 DEF Published
    <3> QED BY <1>2, <3>1 DEF Published
  <2>5. slots[writeIndex] = "ready"
    BY <2>1 DEF SlotInv, WrittenFirst
  <2>6. SpaceReserved' /\ WrittenFirst'
    BY <2>1 DEF SpaceReserved, WrittenFirst
  <2>7. \A q \in Members : Published(index[q])' <=> Published(index[q]) \/ index[q] = writeIndex
    <3> SUFFICES ASSUME NEW q \in Members
                 PROVE  Published(index[q])' <=> Published(index[q]) \/ index[q] = writeIndex
      OBVIOUS
    <3>1. PICK i : i = index[q]
      OBVIOUS
    <3>2. Published(i)' <=> Published(i) \/ i = writeIndex
      BY <1>3, <2>4, <3>1
    <3>3. Published(index[q])' <=> Published(i)'
      BY <1>1, <3>1 DEF Published, Offset
    <3> QED BY <3>1, <3>2, <3>3
  <2>8. UsingPublished'
    BY <1>1, <2>7 DEF SlotInv, UsingPublished
  <2>9. OwnedReady'
    BY <1>1, <2>1, <2>5, <2>7 DEF SlotInv, OwnedReady
  <2>10. ReadyPublished'
    BY <1>1, <2>1, <2>4 DEF SlotInv, ReadyPublished
  <2>11. AwaitedSlots'
    <3> SUFFICES ASSUME Members # {}, NEW i \in Indices(size),
                        Offset(writeIndex)' <= Offset(i), Offset(i) <= At(front)
                 PROVE  \E q \in Members : Owns(q) /\ index[q] = i
      BY <1>1, <1>4 DEF AwaitedSlots
    <3>1. Offset(writeIndex) <= Offset(i)
      BY <1>2, <2>3
    <3> QED BY <3>1 DEF SlotInv, AwaitedSlots
  <2>12. NoneSkipped'
    <3> SUFFICES ASSUME NEW i \in Indices(size), Published(i)'
                 PROVE  IF Members = {} \/ Offset(i) > At(front)
                        THEN slots[i] = "ready"
                        ELSE slots[i] = "ready" => \E q \in Members : Owns(q) /\ index[q] = i
      BY <1>1, <1>4, <2>1 DEF NoneSkipped, Published, At
    <3>1. CASE Published(i)
      BY <3>1 DEF SlotInv, NoneSkipped, Published, At
    <3>2. CASE i = writeIndex /\ Members # {} /\ ~(Offset(i) > At(front))
      <4>1. Offset(writeIndex) <= Offset(i) /\ Offset(i) <= At(front)
        BY <1>2, <1>3, <3>2
      <4>2. \E q \in Members : Owns(q) /\ index[q] = i
        BY <3>2, <4>1 DEF SlotInv, AwaitedSlots
      <4> QED BY <3>2, <4>2
    <3> QED BY <2>4, <2>5, <3>1, <3>2
  <2> QED BY <1>6, <2>6, <2>8, <2>9, <2>10, <2>11, <2>12 DEF SlotInv
<1> QED BY <1>7, <1>8, <1>9 DEF AddStep

(* A reader joins: an entry at its new slot has not been taken. *)
LEMMA SlotsStart ==
  ASSUME InitSize > 1, ListParts, OrderInv, SlotInv, NEW r \in Readers, StartAccess(r)
  PROVE  SlotInv'
<1>1. /\ ListAdd(r) /\ rpc' = [rpc EXCEPT ![r] = "idle"]
      /\ UNCHANGED <<size, readIndex, writeIndex, slots, wpc, newWrite, handed>>
      /\ rpc \in [Readers -> ReaderSteps] /\ isDone \in [Readers -> BOOLEAN]
      /\ index \in [Readers -> Int] /\ ListTypes /\ IndexTypes
  BY DEF StartAccess, ListAdd, Goto, queueIndices, ListParts, QueueTypes, IndexTypes
<1>2. r \notin Members /\ Members' = Members \cup {r} /\ \A q \in Members : q \in Readers
  BY <1>1 DEF ListAdd, ListTypes, Members
<1>3. /\ \A q \in Members : index[q] \in Indices(size) /\ At(q) \in 0 .. size - 1 /\ At(q) = Offset(index[q])
      /\ Members # {} => front \in Members
  BY OwnerTypes
<1>4. /\ \A q \in Members : /\ index'[q] = index[q] /\ rpc'[q] = rpc[q] /\ isDone'[q] = isDone[q]
                            /\ (Owns(q)' <=> Owns(q))
      /\ rpc'[r] = "idle" /\ inQueue'[r]
  BY <1>1, <1>2 DEF ListAdd, AddFirst, AddAtFront, AddBehindFront, Owns, ListTypes, Members
<1>5. \A i : Offset(i)' = Offset(i) /\ (Published(i)' <=> Published(i))
  BY <1>1 DEF Offset, Published
<1>6. /\ Offset(writeIndex)' = Offset(writeIndex)
      /\ \A q \in Members' : At(q)' = Offset(index'[q]) /\ (Published(index[q])' <=> Published(index'[q]))
  BY <1>1 DEF Offset, Published, At
<1>7. /\ \A i \in Indices(size) : Offset(i) \in 0 .. size - 1
      /\ \A i, j \in Indices(size) : Offset(i) = Offset(j) => i = j
      /\ \A i \in Indices(size) : Offset(i) = 0 <=> i = readIndex
  BY <1>1, Offsets
<1>8. SpaceReserved' /\ WrittenFirst' /\ HandedOnce'
  BY <1>1 DEF SlotInv, SpaceReserved, WrittenFirst, HandedOnce
<1>9. UsingPublished'
  BY <1>2, <1>4, <1>6 DEF SlotInv, UsingPublished
<1>10. ReadyPublished'
  BY <1>1, <1>5 DEF SlotInv, ReadyPublished
<1>11. ASSUME Owns(r)' /\ Published(index'[r]) => slots[index'[r]] = "ready" PROVE OwnedReady'
  BY <1>1, <1>2, <1>4, <1>6, <1>11 DEF SlotInv, OwnedReady
<1>12. ASSUME NEW F \in Int, front' \in Members', At(front)' = F,
              Members # {} => At(front) <= F,
              \A i \in Indices(size) : Offset(i) <= F /\ (Members = {} \/ Offset(i) > At(front)) =>
                Owns(r)' /\ index'[r] = i
       PROVE  AwaitedSlots' /\ NoneSkipped'
  <2>1. ASSUME NEW i \in Indices(size), Offset(writeIndex) <= Offset(i), Offset(i) <= F
        PROVE  \E q \in Members' : Owns(q)' /\ index'[q] = i
    <3>1. CASE Members = {} \/ Offset(i) > At(front)
      BY <1>2, <1>12, <2>1, <3>1
    <3>2. CASE Members # {} /\ Offset(i) <= At(front)
      <4>1. PICK q \in Members : Owns(q) /\ index[q] = i
        BY <1>1, <2>1, <3>2 DEF SlotInv, AwaitedSlots
      <4> QED BY <4>1, <1>2, <1>4
    <3> QED BY <3>1, <3>2, <1>3, <1>7
  <2>2. AwaitedSlots'
    BY <1>1, <1>5, <1>6, <1>12, <2>1 DEF AwaitedSlots
  <2>3. ASSUME NEW i \in Indices(size), Offset(i) < Offset(writeIndex)
        PROVE  IF Members' = {} \/ Offset(i) > F
               THEN slots[i] = "ready"
               ELSE slots[i] = "ready" => \E q \in Members' : Owns(q)' /\ index'[q] = i
    <3>1. CASE Offset(i) > F
      <4>1. Members = {} \/ Offset(i) > At(front)
        BY <3>1, <1>3, <1>7, <1>12
      <4> QED BY <2>3, <3>1, <4>1 DEF SlotInv, NoneSkipped, At
    <3>2. CASE Offset(i) <= F /\ (Members = {} \/ Offset(i) > At(front))
      BY <1>2, <1>7, <1>12, <3>2
    <3>3. CASE Offset(i) <= F /\ Members # {} /\ Offset(i) <= At(front)
      <4>1. slots[i] = "ready" => \E q \in Members : Owns(q) /\ index[q] = i
        BY <1>3, <1>7, <2>3, <3>3 DEF SlotInv, NoneSkipped, At
      <4>2. slots[i] = "ready" => \E q \in Members' : Owns(q)' /\ index'[q] = i
        BY <4>1, <1>2, <1>4
      <4> QED BY <4>2, <1>2, <1>7, <3>3
    <3> QED BY <3>1, <3>2, <3>3, <1>3, <1>7
  <2>4. NoneSkipped'
    BY <1>1, <1>5, <1>6, <1>12, <2>3 DEF NoneSkipped
  <2> QED BY <2>2, <2>4
<1>13. CASE AddFirst(r)
  <2>1. Members = {}
    <3>1. PICK n \in Nat : \E pos \in [Readers -> Nat] : Linked(n, pos)
      BY DEF ListParts, List
    <3>2. PICK pos \in [Readers -> Nat] : Linked(n, pos)
      BY <3>1
    <3> QED BY <1>1, <1>13, <3>2, ListEnds DEF AddFirst
  <2>2. /\ index'[r] = readIndex /\ front' = r /\ Owns(r)'
    BY <1>1, <1>4, <1>13 DEF AddFirst, Owns
  <2>3. readIndex \in Indices(size) /\ Offset(readIndex) = 0
    BY <1>1, <1>7 DEF IndexTypes
  <2>4. Published(readIndex) => slots[readIndex] = "ready"
    BY <2>1, <2>3 DEF SlotInv, NoneSkipped, Published
  <2>5. OwnedReady'
    BY <1>11, <2>2, <2>4
  <2>6. At(front)' = 0
    BY <1>2, <1>6, <2>2, <2>3
  <2>7. \A i \in Indices(size) : Offset(i) <= 0 => i = readIndex
    BY <1>7
  <2>8. AwaitedSlots' /\ NoneSkipped'
    BY <1>2, <1>12, <2>1, <2>2, <2>6, <2>7
  <2> QED BY <1>8, <1>9, <1>10, <2>5, <2>8 DEF SlotInv
<1>14. CASE AddAtFront(r)
  <2>1. /\ index'[r] = nextIndex(index[front], size) /\ front' = r /\ Owns(r)'
    BY <1>1, <1>4, <1>14 DEF AddAtFront, Owns
  <2>2. /\ front \in Members /\ index'[r] \in Indices(size) /\ Offset(index'[r]) = At(front) + 1
    <3>1. Ordered
      BY <1>1 DEF OrderInv
    <3>2. PICK n \in Nat : \E pos \in [Readers -> Nat] : Linked(n, pos) /\ Sorted(pos)
      BY <3>1 DEF Ordered
    <3>3. PICK pos \in [Readers -> Nat] : Linked(n, pos) /\ Sorted(pos)
      BY <3>2
    <3>4. Members # {}
      BY <3>3, <1>14 DEF AddAtFront, Linked
    <3>5. front \in Members /\ back \in Members /\ index[back] = readIndex
      BY <1>1, <3>3, <3>4, OffsetsByRank
    <3> QED BY <1>1, <1>14, <2>1, <3>5, NextSlotOffset DEF AddAtFront
  <2>3. Published(index'[r]) => slots[index'[r]] = "ready"
    <3>1. Offset(index'[r]) > At(front)
      BY <1>3, <2>2
    <3> QED BY <2>2, <3>1 DEF SlotInv, NoneSkipped, Published, At
  <2>4. OwnedReady'
    BY <1>11, <2>3
  <2>5. At(front)' = At(front) + 1
    BY <1>2, <1>6, <2>1, <2>2
  <2>6. \A i \in Indices(size) : Offset(i) <= At(front) + 1 /\ Offset(i) > At(front) => i = index'[r]
    <3>1. \A i \in Indices(size) : Offset(i) <= At(front) + 1 /\ Offset(i) > At(front) =>
            Offset(i) = Offset(index'[r])
      BY <1>3, <1>7, <2>2
    <3> QED BY <1>7, <2>2, <3>1
  <2>7. At(front) + 1 \in Int /\ At(front) <= At(front) + 1 /\ Members # {} /\ r \in Members'
    BY <1>2, <1>3, <2>2
  <2>8. \A i \in Indices(size) : Offset(i) <= At(front) + 1 /\ (Members = {} \/ Offset(i) > At(front)) =>
          Owns(r)' /\ index'[r] = i
    BY <2>1, <2>6, <2>7
  <2>9. AwaitedSlots' /\ NoneSkipped'
    BY <1>12, <2>1, <2>5, <2>7, <2>8
  <2> QED BY <1>8, <1>9, <1>10, <2>4, <2>9 DEF SlotInv
<1>15. CASE AddBehindFront(r)
  <2>1. front' = front /\ isDone'[r] /\ ~Owns(r)' /\ front # NULL
    BY <1>1, <1>4, <1>15 DEF AddBehindFront, Owns
  <2>2. front \in Members
    BY <2>1 DEF ListParts, List, Linked
  <2>3. At(front)' = At(front)
    <3>1. At(front)' = Offset(index'[front'])
      BY <1>2, <1>6, <2>1, <2>2
    <3> QED BY <1>3, <1>4, <2>1, <2>2, <3>1
  <2>4. OwnedReady'
    BY <1>11, <2>1
  <2>5. At(front) \in Int /\ At(front) <= At(front) /\ Members # {} /\ front' \in Members'
    BY <1>2, <1>3, <2>1, <2>2
  <2>6. \A i \in Indices(size) : Offset(i) <= At(front) /\ (Members = {} \/ Offset(i) > At(front)) =>
          Owns(r)' /\ index'[r] = i
    BY <1>7, <2>5
  <2>7. AwaitedSlots' /\ NoneSkipped'
    BY <1>12, <2>3, <2>5, <2>6
  <2> QED BY <1>8, <1>9, <1>10, <2>4, <2>7 DEF SlotInv
<1> QED BY <1>1, <1>13, <1>14, <1>15 DEF ListAdd

(* The steps of remove other than moving. *)
LEMMA SlotsCheck ==
  ASSUME ListParts, OrderInv, SlotInv, ~misread', NEW r \in Readers,
         \/ CheckSameSlot(r) \/ ReadWriteIndex(r) \/ AdjustWriteIndex(r)
         \/ Compare(r) \/ Handled(r)
  PROVE  SlotInv'
<1>1. rpc \in [Readers -> ReaderSteps] /\ isDone \in [Readers -> BOOLEAN] /\ index \in [Readers -> Int]
  BY DEF ListParts, QueueTypes, IndexTypes
<1>2. rpc[r] # "out"
  BY DEF CheckSameSlot, ReadWriteIndex, AdjustWriteIndex, Compare, Handled
<1>3. /\ \A q \in Members : /\ q \in Readers /\ inQueue[q] /\ index[q] \in Indices(size)
                            /\ At(q) \in 0 .. size - 1 /\ At(q) = Offset(index[q])
      /\ Members # {} => front \in Members
  BY OwnerTypes
<1>4. r \in Members
  BY <1>2, StepsOfMembers DEF ListParts
<1>5. CASE CheckSameSlot(r) \/ ReadWriteIndex(r) \/ AdjustWriteIndex(r) \/ Handled(r)
  <2>1. /\ UNCHANGED <<size, readIndex, writeIndex, front, index, inQueue, slots, wpc, newWrite, handed>>
        /\ isDone' = isDone
    BY <1>5 DEF CheckSameSlot, ReadWriteIndex, AdjustWriteIndex, Handled, queueIndices, listVars,
       listEnds, readerFields
  <2>2. \/ rpc[r] = "idle" /\ ~isDone[r] /\ rpc' = [rpc EXCEPT ![r] = "check"]
        \/ rpc[r] = "check" /\ rpc' = [rpc EXCEPT ![r] = "base"]
        \/ rpc[r] = "base" /\ rpc' = [rpc EXCEPT ![r] = "compare"]
        \/ rpc[r] = "using" /\ rpc' = [rpc EXCEPT ![r] = "idle"]
    BY <1>5 DEF CheckSameSlot, ReadWriteIndex, AdjustWriteIndex, Handled, Goto
  <2>3. \A q \in Members : Owns(q)' <=> Owns(q)
    BY <1>1, <1>3, <1>4, <2>1, <2>2 DEF Owns
  <2>4. \A q \in Members : rpc'[q] = "using" => rpc[q] = "using" /\ isDone'[q] = isDone[q]
    BY <1>1, <1>3, <2>1, <2>2
  <2> QED BY <2>1, <2>3, <2>4, SlotsUnmoved
<1>6. CASE Compare(r)
  <2> DEFINE isEmpty == SeenEmpty(r)
  <2>1. RemoveSlot(r, isEmpty) /\ rpc[r] = "compare"
    BY <1>6 DEF Compare
  <2>2. ~isEmpty => Published(index[r])
    <3>1. ~(~isEmpty /\ SlotEmpty(index[r]))
      BY <1>6 DEF Compare
    <3>2. SlotEmpty(index[r]) <=> ~Published(index[r])
      BY <1>3, <1>4, SlotEmptyOffset DEF ListParts
    <3> QED BY <3>1, <3>2
  <2> HIDE DEF isEmpty
  <2>3. /\ UNCHANGED <<size, readIndex, writeIndex, front, index, inQueue, wpc, newWrite>>
        /\ isDone' = [isDone EXCEPT ![r] = ~isEmpty]
    BY <2>1 DEF RemoveSlot, queueIndices
  <2>4. Members' = Members /\ Owns(r)
    BY <1>3, <1>4, <2>1, <2>3 DEF Members, Owns
  <2>5. CASE isEmpty
    <3>1. /\ rpc' = [rpc EXCEPT ![r] = "idle"] /\ slots' = slots /\ handed' = handed /\ ~isDone'[r]
      BY <1>1, <2>1, <2>3, <2>5 DEF RemoveSlot, Goto
    <3>2. \A q \in Members : Owns(q)' <=> Owns(q)
      BY <1>1, <1>3, <2>3, <2>4, <3>1 DEF Owns
    <3>3. \A q \in Members : rpc'[q] = "using" => rpc[q] = "using" /\ isDone'[q] = isDone[q]
      BY <1>1, <1>3, <2>3, <3>1
    <3> QED BY <2>3, <3>1, <3>2, <3>3, SlotsUnmoved
  <2>6. CASE ~isEmpty
    <3>1. /\ rpc' = [rpc EXCEPT ![r] = "using"] /\ handed' = slots[index[r]] /\ isDone'[r]
          /\ slots' = [slots EXCEPT ![index[r]] = "taken"]
          /\ slots \in [Indices(size) -> {"empty", "ready", "taken"}]
      BY <1>1, <2>1, <2>3, <2>6 DEF RemoveSlot, Goto, ListParts, QueueTypes
    <3>2. Published(index[r]) /\ slots[index[r]] = "ready"
      BY <1>4, <2>2, <2>4, <2>6 DEF SlotInv, OwnedReady
    <3>3. /\ \A q \in Members : q # r => (Owns(q)' <=> Owns(q)) /\ rpc'[q] = rpc[q] /\ isDone'[q] = isDone[q]
          /\ ~Owns(r)'
      BY <1>1, <1>3, <2>3, <3>1 DEF Owns
    <3>4. /\ \A i : Offset(i)' = Offset(i) /\ (Published(i)' <=> Published(i))
          /\ Offset(writeIndex)' = Offset(writeIndex) /\ At(front)' = At(front)
          /\ \A q \in Members : Published(index[q])' <=> Published(index[q])
      BY <2>3 DEF Offset, Published, At
    <3>5. index[r] # writeIndex /\ index[r] \in Indices(size)
      BY <1>3, <1>4, <3>2, WriteOffset DEF Published, ListParts
    <3>6. SpaceReserved' /\ WrittenFirst'
      BY <2>3, <3>1, <3>5, WriteOffset DEF SlotInv, SpaceReserved, WrittenFirst, ListParts
    <3>7. HandedOnce'
      BY <3>1, <3>2 DEF HandedOnce
    <3>8. UsingPublished'
      BY <2>3, <2>4, <3>1, <3>2, <3>3, <3>4 DEF SlotInv, UsingPublished
    <3>9. OwnedReady'
      <4>1. \A q \in Members : q # r /\ Owns(q) => index[q] # index[r]
        BY <1>4, <2>4 DEF OrderInv, ReadersDisjoint
      <4>2. \A q \in Members : q # r /\ Owns(q) => slots'[index[q]] = slots[index[q]]
        BY <1>3, <3>1, <4>1
      <4> QED BY <2>3, <2>4, <3>3, <3>4, <4>2 DEF SlotInv, OwnedReady
    <3>10. \A i \in Indices(size) : /\ slots'[i] = "ready" => slots[i] = "ready"
                                    /\ i # index[r] => slots'[i] = slots[i]
                                    /\ slots'[index[r]] = "taken"
      BY <3>1, <3>5
    <3>11. ReadyPublished'
      BY <2>3, <3>4, <3>10 DEF SlotInv, ReadyPublished
    <3>12. AwaitedSlots'
      <4> SUFFICES ASSUME Members # {}, NEW i \in Indices(size),
                          Offset(writeIndex) <= Offset(i), Offset(i) <= At(front)
                   PROVE  \E q \in Members : Owns(q)' /\ index[q] = i
        BY <2>3, <2>4, <3>4 DEF AwaitedSlots
      <4>1. PICK q \in Members : Owns(q) /\ index[q] = i
        BY DEF SlotInv, AwaitedSlots
      <4>2. i # index[r]
        BY <1>3, <1>4, <3>2, WriteOffset DEF Published, ListParts
      <4> QED BY <3>3, <4>1, <4>2
    <3>13. NoneSkipped'
      <4> SUFFICES ASSUME NEW i \in Indices(size), Published(i)
                   PROVE  IF Members = {} \/ Offset(i) > At(front)
                          THEN slots'[i] = "ready"
                          ELSE slots'[i] = "ready" => \E q \in Members : Owns(q)' /\ index[q] = i
        BY <2>3, <2>4, <3>4 DEF NoneSkipped, Published, At
      <4>1. IF Members = {} \/ Offset(i) > At(front)
            THEN slots[i] = "ready"
            ELSE slots[i] = "ready" => \E q \in Members : Owns(q) /\ index[q] = i
        BY DEF SlotInv, NoneSkipped, Published, At
      <4>2. CASE i = index[r]
        <5>1. At(r) <= At(front)
          <6>1. Ordered
            BY DEF OrderInv
          <6>2. PICK n \in Nat : \E pos \in [Readers -> Nat] : Linked(n, pos) /\ Sorted(pos)
            BY <6>1 DEF Ordered
          <6>3. PICK pos \in [Readers -> Nat] : Linked(n, pos) /\ Sorted(pos)
            BY <6>2
          <6>4. IndexTypes /\ Members # {}
            BY <1>4 DEF ListParts
          <6> QED BY <1>4, <6>3, <6>4, OffsetsByRank
        <5>2. ~(Members = {} \/ Offset(i) > At(front))
          BY <1>3, <1>4, <4>2, <5>1, SizeType DEF ListParts
        <5> QED BY <3>10, <4>2, <5>2
      <4>3. CASE i # index[r]
        BY <3>3, <3>10, <4>1, <4>3
      <4> QED BY <4>2, <4>3
    <3> QED BY <3>6, <3>7, <3>8, <3>9, <3>11, <3>12, <3>13 DEF SlotInv
  <2> QED BY <2>5, <2>6
<1> QED BY <1>5, <1>6

(* A reader that was done with its slot moves, and the read index follows  *)
(* the back of the list up to d slots further.  The slots that are given   *)
(* back hold no entry that is still to be read.                            *)
LEMMA SlotsMoved ==
  ASSUME ListParts, OrderInv, SlotInv, IndexTypes', NEW r \in Members, ~Owns(r),
         rpc[r] = "idle", rpc'[r] # "using",
         UNCHANGED <<size, writeIndex, inQueue, isDone, slots, wpc, newWrite, handed>>,
         \A q \in Members : q # r => rpc'[q] = rpc[q],
         Repositioned(r),
         \/ Owns(r)' /\ front' = r /\ Offset(index'[r]) = At(front) + 1
         \/ ~Owns(r)' /\ front' = front /\ r # front
  PROVE  SlotInv'
<1>1. /\ Members' = Members /\ Members # {} /\ IndexTypes
      /\ \A q \in Members : /\ q \in Readers /\ inQueue[q] /\ index[q] \in Indices(size)
                            /\ At(q) \in 0 .. size - 1 /\ At(q) = Offset(index[q])
      /\ front \in Members
  BY OwnerTypes DEF Members, ListParts
<1>2. /\ writeIndex \in Indices(size) /\ size \in Nat \ {0} /\ Offset(writeIndex) \in 0 .. size - 1
      /\ nextIndex(writeIndex, size) \in Indices(size)
      /\ nextIndex(writeIndex, size) # readIndex =>
           Offset(nextIndex(writeIndex, size)) = Offset(writeIndex) + 1
      /\ \A i \in Indices(size) : Offset(i) \in 0 .. size - 1
      /\ \A i, j \in Indices(size) : Offset(i) = Offset(j) => i = j
  BY <1>1, WriteOffset
<1>3. readIndex' \in Indices(size) /\ \A q \in Members : index'[q] \in Indices(size)
  BY <1>1 DEF IndexTypes
<1>4. PICK d, W, F : d = Offset(readIndex') /\ W = Offset(writeIndex) /\ F = At(front)
  OBVIOUS
<1>5. d \in 0 .. size - 1 /\ W \in 0 .. size - 1 /\ F \in 0 .. size - 1 /\ size \in Nat
  BY <1>1, <1>2, <1>3, <1>4
<1>6. /\ \A q \in Members : q # r => index'[q] = index[q] /\ d <= At(q)
      /\ d <= Offset(index'[r])
  BY <1>4 DEF Repositioned
<1>7. /\ At(r)' = Offset(index'[r]) - d
      /\ \A q \in Members : q # r => At(q)' = At(q) - d
  <2>1. \A q \in Members : q # r => index'[q] = index[q]
    BY <1>6
  <2>2. \A q \in Members : q # r => Offset(readIndex') <= At(q)
    BY <1>4, <1>6
  <2>3. Offset(readIndex') <= Offset(index'[r])
    BY <1>4, <1>6
  <2>4. /\ At(r)' = Offset(index'[r]) - Offset(readIndex')
        /\ \A q \in Members : q # r => At(q)' = At(q) - Offset(readIndex')
    BY <1>1, <2>1, <2>2, <2>3, RepositionedOffsets
  <2> QED BY <1>4, <2>4
<1>8. \A i \in Indices(size) : Offset(i)' = IF Offset(i) >= d THEN Offset(i) - d ELSE Offset(i) - d + size
  <2>1. PICK c : c = readIndex'
    OBVIOUS
  <2> QED BY <1>1, <1>3, <1>4, <2>1, RebasedOffsets
<1>9. PICK G \in 0 .. size - 1 :
         /\ At(front)' = G - d /\ d <= G
         /\ Owns(r)' => G = F + 1 /\ Offset(index'[r]) = G
         /\ ~Owns(r)' => G = F
  <2>1. CASE Owns(r)' /\ front' = r /\ Offset(index'[r]) = At(front) + 1
    <3>1. At(front)' = At(r)'
      BY <2>1 DEF At
    <3>2. Offset(index'[r]) \in 0 .. size - 1
      BY <1>2, <1>3
    <3> QED BY <1>4, <1>6, <1>7, <2>1, <3>1, <3>2
  <2>2. CASE ~Owns(r)' /\ front' = front /\ r # front
    <3>1. At(front)' = At(front) - d /\ d <= At(front)
      BY <1>1, <1>6, <1>7, <2>2
    <3> QED BY <1>1, <1>4, <2>2, <3>1
  <2> QED BY <2>1, <2>2
<1>10. \A q \in Members : q # r => (Owns(q)' <=> Owns(q)) /\ index'[q] = index[q] /\ rpc'[q] = rpc[q]
  BY <1>6 DEF Owns
<1>11. d <= F + 1
  BY <1>5, <1>9
(* readIndex does not pass writeIndex. *)
<1>12. d <= W
  <2>1. SUFFICES ASSUME W < d PROVE FALSE
    BY <1>5
  <2>2. W <= F
    BY <1>5, <1>11, <2>1
  <2>3. PICK q \in Members : Owns(q) /\ index[q] = writeIndex
    BY <1>1, <1>2, <1>4, <1>5, <2>2 DEF SlotInv, AwaitedSlots
  <2>4. At(q) = W /\ q # r
    BY <1>1, <1>4, <2>3
  <2> QED BY <1>5, <1>6, <2>1, <2>4
<1>13. Offset(writeIndex)' = W - d
  <2>1. PICK w : w = writeIndex
    OBVIOUS
  <2>2. Offset(w)' = W - d
    BY <1>2, <1>4, <1>5, <1>8, <1>12, <2>1
  <2> QED BY <2>1, <2>2 DEF Offset
<1>14. \A i \in Indices(size) : Published(i)' <=> Published(i) /\ d <= Offset(i)
  <2> SUFFICES ASSUME NEW i \in Indices(size) PROVE Published(i)' <=> Published(i) /\ d <= Offset(i)
    OBVIOUS
  <2>1. Published(i)' <=> Offset(i)' < W - d
    BY <1>13 DEF Published
  <2>2. Published(i) <=> Offset(i) < W
    BY <1>4 DEF Published
  <2>3. Offset(i) \in 0 .. size - 1
    BY <1>2
  <2> QED BY <1>5, <1>8, <2>1, <2>2, <2>3
<1>15. \A q \in Members : Published(index[q])' <=> Published(index'[q]) /\ d <= Offset(index'[q])
  <2> SUFFICES ASSUME NEW q \in Members
               PROVE  Published(index[q])' <=> Published(index'[q]) /\ d <= Offset(index'[q])
    OBVIOUS
  <2>1. PICK i : i = index'[q]
    OBVIOUS
  <2>2. Published(i)' <=> Published(i) /\ d <= Offset(i)
    BY <1>3, <1>14, <2>1
  <2>3. Published(index[q])' <=> Published(i)'
    BY <2>1 DEF Published, Offset
  <2> QED BY <2>1, <2>2, <2>3
<1>16. SpaceReserved'
  <2> SUFFICES ASSUME wpc # "idle" PROVE newWrite # readIndex'
    BY DEF SlotInv, SpaceReserved
  <2>1. newWrite = nextIndex(writeIndex, size) /\ newWrite # readIndex
    BY DEF SlotInv, SpaceReserved
  <2>2. Offset(newWrite) = W + 1
    BY <1>2, <1>4, <2>1
  <2> QED BY <1>4, <1>5, <1>12, <2>2
<1>17. WrittenFirst' /\ HandedOnce'
  BY DEF SlotInv, WrittenFirst, HandedOnce
<1>18. UsingPublished'
  <2> SUFFICES ASSUME NEW q \in Members, rpc'[q] = "using" PROVE isDone[q] /\ Published(index[q])'
    BY <1>1 DEF UsingPublished
  <2>1. q # r
    OBVIOUS
  <2>2. isDone[q] /\ Published(index[q])
    BY <1>10, <2>1 DEF SlotInv, UsingPublished
  <2>3. index'[q] = index[q] /\ d <= Offset(index[q])
    BY <1>1, <1>6, <2>1
  <2> QED BY <1>15, <2>2, <2>3
<1>19. OwnedReady'
  <2> SUFFICES ASSUME NEW q \in Members, Owns(q)', Published(index[q])' PROVE slots[index'[q]] = "ready"
    BY <1>1 DEF OwnedReady
  <2>1. Published(index'[q])
    BY <1>15
  <2>2. CASE q = r
    <3>1. Offset(index'[r]) > F
      BY <1>5, <1>9, <2>2
    <3> QED BY <1>1, <1>3, <1>4, <2>1, <2>2, <3>1 DEF SlotInv, NoneSkipped, Published, At
  <2>3. CASE q # r
    BY <1>10, <2>1, <2>3 DEF SlotInv, OwnedReady
  <2> QED BY <2>2, <2>3
<1>20. ReadyPublished'
  <2> SUFFICES ASSUME NEW i \in Indices(size), slots[i] = "ready"
               PROVE  Published(i)' \/ (wpc = "publish" /\ i = writeIndex)
    BY DEF ReadyPublished
  <2>1. CASE Published(i)
    <3>1. SUFFICES ASSUME Offset(i) < d PROVE FALSE
      BY <1>2, <1>5, <1>14, <2>1
    <3>2. Offset(i) <= F
      BY <1>2, <1>5, <1>11, <3>1
    <3>3. ~(Members = {} \/ Offset(i) > F)
      BY <1>1, <1>2, <1>5, <3>2
    <3>4. PICK q \in Members : Owns(q) /\ index[q] = i
      BY <1>4, <2>1, <3>3 DEF SlotInv, NoneSkipped, Published, At
    <3>5. q # r /\ At(q) = Offset(i)
      BY <1>1, <3>4
    <3> QED BY <1>2, <1>5, <1>6, <3>1, <3>5
  <2>2. CASE ~Published(i)
    BY <2>2 DEF SlotInv, ReadyPublished
  <2> QED BY <2>1, <2>2
<1>21. ASSUME NEW i \in Indices(size), d <= Offset(i), Offset(i) <= G,
              Offset(i) <= F => \E q \in Members : Owns(q) /\ index[q] = i
       PROVE  \E q \in Members : Owns(q)' /\ index'[q] = i
  <2>1. CASE Offset(i) <= F
    <3>1. PICK q \in Members : Owns(q) /\ index[q] = i
      BY <1>21, <2>1
    <3> QED BY <1>10, <3>1
  <2>2. CASE ~(Offset(i) <= F)
    <3>1. Owns(r)' /\ Offset(i) = Offset(index'[r])
      BY <1>2, <1>5, <1>9, <1>21, <2>2
    <3>2. i = index'[r]
      BY <1>2, <1>3, <3>1
    <3> QED BY <3>1, <3>2
  <2> QED BY <2>1, <2>2
<1>22. AwaitedSlots'
  <2> SUFFICES ASSUME NEW i \in Indices(size), W - d <= Offset(i)', Offset(i)' <= G - d
               PROVE  \E q \in Members : Owns(q)' /\ index'[q] = i
    BY <1>1, <1>9, <1>13 DEF AwaitedSlots
  <2>1. Offset(i) \in 0 .. size - 1
    BY <1>2
  <2>2. d <= Offset(i)
    BY <1>5, <1>8, <1>9, <2>1
  <2>3. W <= Offset(i) /\ Offset(i) <= G
    BY <1>5, <1>8, <1>9, <2>1, <2>2
  <2>4. Offset(i) <= F => \E q \in Members : Owns(q) /\ index[q] = i
    BY <1>1, <1>4, <2>3 DEF SlotInv, AwaitedSlots
  <2> QED BY <1>21, <2>2, <2>3, <2>4
<1>23. NoneSkipped'
  <2> SUFFICES ASSUME NEW i \in Indices(size), Published(i)'
               PROVE  IF Offset(i)' > G - d
                      THEN slots[i] = "ready"
                      ELSE slots[i] = "ready" => \E q \in Members : Owns(q)' /\ index'[q] = i
    BY <1>1, <1>9 DEF NoneSkipped, Published, At
  <2>1. Offset(i) \in 0 .. size - 1 /\ Published(i) /\ d <= Offset(i)
    BY <1>2, <1>14
  <2>2. Offset(i)' = Offset(i) - d
    BY <1>8, <2>1
  <2>3. IF Offset(i) > F THEN slots[i] = "ready"
        ELSE slots[i] = "ready" => \E q \in Members : Owns(q) /\ index[q] = i
    BY <1>1, <1>4, <2>1 DEF SlotInv, NoneSkipped, Published, At
  <2>4. CASE Offset(i) > G
    <3>1. Offset(i) > F
      BY <1>5, <1>9, <2>1, <2>4
    <3>2. Offset(i)' > G - d
      BY <1>5, <1>9, <2>1, <2>2, <2>4
    <3> QED BY <2>3, <3>1, <3>2
  <2>5. CASE Offset(i) <= G
    <3>1. ~(Offset(i)' > G - d)
      BY <1>5, <1>9, <2>1, <2>2, <2>5
    <3>2. ASSUME slots[i] = "ready" PROVE \E q \in Members : Owns(q)' /\ index'[q] = i
      <4>1. Offset(i) <= F => \E q \in Members : Owns(q) /\ index[q] = i
        BY <1>5, <2>1, <2>3, <3>2
      <4> QED BY <1>21, <2>1, <2>5, <4>1
    <3> QED BY <3>1, <3>2
  <2> QED BY <1>5, <1>9, <2>1, <2>4, <2>5
<1> QED BY <1>16, <1>17, <1>18, <1>19, <1>20, <1>22, <1>23 DEF SlotInv

(* moveToFront keeps what the slots hold, in each of its branches. *)
LEMMA SlotsMoveToFront ==
  ASSUME InitSize > 1, ListParts, OrderInv, SlotInv, NEW r \in Readers, MoveToFront(r)
  PROVE  SlotInv'
<1>1. /\ rpc[r] = "idle" /\ isDone[r] /\ ~Owns(r)
      /\ UNCHANGED <<slots, wpc, newWrite, handed>>
      /\ rpc \in [Readers -> ReaderSteps]
  BY DEF MoveToFront, Owns, ListParts, QueueTypes
<1>2. CASE MoveAhead(r) /\ Goto(r, "check")
  <2>1. UNCHANGED <<size, writeIndex, inQueue, isDone>> /\ r \in Members /\ \A q \in Members : q \in Readers
    BY <1>2 DEF MoveAhead, Members
  <2>2. rpc' = [rpc EXCEPT ![r] = "check"]
    BY <1>2 DEF Goto
  <2>3. Repositioned(r) /\ front' = r /\ Offset(index'[r]) = At(front) + 1
    BY <1>2, <2>2, OrderMoveAhead
  <2>4. IndexTypes'
    BY <1>2, ListPartsListStep
  <2>5. rpc'[r] = "check" /\ \A q \in Members : q # r => rpc'[q] = rpc[q]
    BY <1>1, <2>1, <2>2
  <2>6. Owns(r)'
    BY <2>1, <2>5 DEF Owns, Members
  <2> QED BY <1>1, <2>1, <2>3, <2>4, <2>5, <2>6, SlotsMoved
<1>3. CASE Squeeze(r) /\ rpc' = rpc
  <2>1. UNCHANGED <<size, writeIndex, inQueue, isDone>> /\ r \in Members /\ \A q \in Members : q \in Readers
    BY <1>3 DEF Squeeze, Members
  <2>2. Repositioned(r) /\ front' = front /\ r # front
    BY <1>3, OrderSqueeze
  <2>3. IndexTypes'
    BY <1>3, ListPartsListStep
  <2>4. ~Owns(r)'
    BY <1>1, <1>3, <2>1 DEF Owns
  <2> QED BY <1>1, <1>3, <2>1, <2>2, <2>3, <2>4, SlotsMoved
<1>4. CASE CannotMove(r) /\ rpc' = rpc
  <2>1. UNCHANGED <<size, readIndex, writeIndex, front, index, inQueue, isDone>>
    BY <1>4 DEF CannotMove, queueIndices, listVars, listEnds, readerFields
  <2> QED BY <1>1, <1>4, <2>1, SlotsUnmoved DEF Owns
<1> QED BY <1>2, <1>3, <1>4 DEF MoveToFront

(* The read index moves on by one slot. *)
LEMMA BaseAdvanced ==
  ASSUME InitSize > 1, IndexTypes, size' = size, writeIndex' = writeIndex,
         readIndex' = nextIndex(readIndex, size), readIndex # writeIndex
  PROVE  /\ Offset(writeIndex)' = Offset(writeIndex) - 1
         /\ \A i \in Indices(size) : Published(i)' <=> Published(i) /\ i # readIndex
         /\ nextIndex(writeIndex, size) # readIndex => nextIndex(writeIndex, size) # readIndex'
<1>1. PICK n, b, c, w :
        /\ n = size /\ b = readIndex /\ c = readIndex' /\ w = writeIndex
        /\ n \in Nat \ {0} /\ n > 1 /\ b \in Indices(n) /\ w \in Indices(n) /\ b # w
        /\ c = nextIndex(b, n)
  BY SizeType, ListAssumption DEF IndexTypes
<1>2. c \in Indices(n) /\ c # b
  BY <1>1, NextIndexValue DEF Indices
<1>3. /\ \A i \in Indices(n) : Offset(i) \in 0 .. n - 1 /\ (Offset(i) = 0 <=> i = b)
      /\ \A i \in Indices(n) : Offset(i) = RingCount(b, i, n)
  BY <1>1, Offsets
<1>4. Offset(c) = 1
  <2>1. RingCount(b, c, n) = RingCount(b, b, n) + 1 /\ RingCount(b, b, n) = 0
    BY <1>1, <1>2, OffsetNext, OffsetRange
  <2> QED BY <1>2, <1>3, <2>1
<1>5. \A i \in Indices(n) : Offset(i)' = IF Offset(i) >= 1 THEN Offset(i) - 1 ELSE Offset(i) - 1 + n
  <2>1. \A i \in Indices(n) :
           Offset(i)' = IF Offset(i) >= Offset(c) THEN Offset(i) - Offset(c)
                        ELSE Offset(i) - Offset(c) + n
    BY <1>1, <1>2, RebasedOffsets
  <2> QED BY <1>4, <2>1
<1>6. PICK W : W = Offset(w) /\ W \in 1 .. n - 1
  BY <1>1, <1>3
<1>7. Offset(w)' = W - 1
  BY <1>1, <1>5, <1>6
<1>8. Offset(writeIndex)' = W - 1 /\ Offset(writeIndex) = W
  BY <1>1, <1>6, <1>7 DEF Offset
<1>9. ASSUME NEW i \in Indices(n) PROVE Published(i)' <=> Published(i) /\ i # b
  <2>1. Published(i)' <=> Offset(i)' < W - 1
    BY <1>8 DEF Published
  <2>2. Published(i) <=> Offset(i) < W
    BY <1>8 DEF Published
  <2>3. Offset(i) \in 0 .. n - 1 /\ (Offset(i) = 0 <=> i = b)
    BY <1>3
  <2> QED BY <1>1, <1>5, <1>6, <2>1, <2>2, <2>3
<1>10. nextIndex(w, n) # b => nextIndex(w, n) # c
  <2> SUFFICES ASSUME nextIndex(w, n) # b, nextIndex(w, n) = c PROVE FALSE
    OBVIOUS
  <2>1. RingCount(b, c, n) = RingCount(b, w, n) + 1
    BY <1>1, OffsetNext
  <2> QED BY <1>1, <1>2, <1>3, <1>4, <1>6, <2>1
<1> QED BY <1>1, <1>8, <1>9, <1>10

(* The last reader leaves: all that is published then is still to be read. *)
LEMMA SlotsEnd ==
  ASSUME InitSize > 1, ListParts, OrderInv, SlotInv, NEW r \in Readers, EndAccess(r), ~left'
  PROVE  SlotInv'
<1>1. /\ rpc[r] \in {"idle", "using"} /\ UNCHANGED <<size, writeIndex, slots, wpc, newWrite, handed>>
      /\ isDone[r] \in BOOLEAN
  BY DEF EndAccess, ListRemove, ListParts, QueueTypes
<1>2. Members = {r} /\ Members' = {} /\ front = r /\ back = r /\ RemoveLast(r)
  BY LastLeaves
<1>3. index[r] = readIndex
  BY <1>2 DEF OrderInv, Ordered, Sorted
<1>4. /\ size \in Nat \ {0} /\ readIndex \in Indices(size)
      /\ Offset(writeIndex) \in 0 .. size - 1
      /\ \A i \in Indices(size) : Offset(i) \in 0 .. size - 1 /\ (Offset(i) = 0 <=> i = readIndex)
  BY WriteOffset, Offsets DEF ListParts, IndexTypes
<1>5. \A i \in Indices(size) : Published(i) /\ i # readIndex => slots[i] = "ready"
  <2> SUFFICES ASSUME NEW i \in Indices(size), Published(i), i # readIndex PROVE slots[i] = "ready"
    OBVIOUS
  <2>1. Offset(i) > Offset(index[front]) /\ Offset(i) < Offset(writeIndex)
    BY <1>2, <1>3, <1>4 DEF Published
  <2> QED BY <2>1 DEF SlotInv, NoneSkipped
<1>6. WrittenFirst' /\ HandedOnce' /\ UsingPublished' /\ OwnedReady' /\ AwaitedSlots'
  BY <1>1, <1>2 DEF SlotInv, WrittenFirst, HandedOnce, UsingPublished, OwnedReady, AwaitedSlots
<1>7. CASE isDone[r] /\ ~SlotEmpty(readIndex)
  <2>1. readIndex' = nextIndex(readIndex, size)
    BY <1>2, <1>3, <1>7 DEF RemoveLast
  <2>2. Published(readIndex)
    BY <1>4, <1>7, SlotEmptyOffset DEF ListParts
  <2>3. readIndex # writeIndex
    BY <1>4, <2>2 DEF Published
  <2>4. /\ \A i \in Indices(size) : Published(i)' <=> Published(i) /\ i # readIndex
        /\ nextIndex(writeIndex, size) # readIndex => nextIndex(writeIndex, size) # readIndex'
    BY <1>1, <2>1, <2>3, BaseAdvanced DEF ListParts
  <2>5. slots[readIndex] # "ready"
    <3>1. ~Owns(r)
      BY <1>1, <1>7 DEF Owns
    <3>2. ~(Offset(readIndex) > Offset(index[front])) /\ Offset(readIndex) < Offset(writeIndex)
      BY <1>2, <1>3, <1>4, <2>2 DEF Published
    <3> QED BY <1>2, <1>4, <3>1, <3>2 DEF SlotInv, NoneSkipped
  <2>6. SpaceReserved'
    BY <1>1, <2>4 DEF SlotInv, SpaceReserved
  <2>7. ReadyPublished'
    BY <1>1, <2>4, <2>5 DEF SlotInv, ReadyPublished
  <2>8. \A i \in Indices(size) : Published(i)' => slots'[i] = "ready"
    BY <1>1, <1>5, <2>4
  <2>9. NoneSkipped'
    BY <1>1, <1>2, <2>8 DEF NoneSkipped, Published
  <2> QED BY <1>6, <2>6, <2>7, <2>9 DEF SlotInv
<1>8. CASE ~(isDone[r] /\ ~SlotEmpty(readIndex))
  <2>1. readIndex' = readIndex
    BY <1>2, <1>3, <1>8 DEF RemoveLast
  <2>2. \A i : Published(i)' <=> Published(i)
    BY <1>1, <2>1 DEF Published, Offset
  <2>3. Published(readIndex) => slots[readIndex] = "ready"
    <3>1. CASE isDone[r]
      BY <1>4, <1>8, <3>1, SlotEmptyOffset DEF ListParts
    <3>2. CASE ~isDone[r]
      <4>1. Owns(r)
        BY <1>2, <3>2 DEF Owns, Members
      <4> QED BY <1>2, <1>3, <4>1 DEF SlotInv, OwnedReady
    <3> QED BY <1>1, <3>1, <3>2
  <2>4. SpaceReserved'
    BY <1>1, <2>1 DEF SlotInv, SpaceReserved
  <2>5. ReadyPublished'
    BY <1>1, <2>2 DEF SlotInv, ReadyPublished
  <2>6. \A i \in Indices(size) : Published(i)' => slots'[i] = "ready"
    BY <1>1, <1>5, <2>2, <2>3
  <2>7. NoneSkipped'
    BY <1>1, <1>2, <2>6 DEF NoneSkipped, Published
  <2> QED BY <1>6, <2>4, <2>5, <2>7 DEF SlotInv
<1> QED BY <1>7, <1>8

(* What the slots of the new ring hold: the entries of the old one at the  *)
(* same positions, and nothing after them.                                 *)
LEMMA ResizedContents ==
  ASSUME NEW n \in Nat \ {0}, NEW m \in Nat \ {0}, n < m,
         NEW b \in Indices(n), NEW w \in Indices(n), NEW f, NEW u,
         NEW R, R = ResizedReadIndex(b, w, n, m),
         NEW G, G = ResizedSlots(f, b, w, n, m, u),
         NEW j \in Indices(m)
  PROVE  /\ RingCount(R, j, m) < RingCount(b, w, n) => G[j] = f[RingAt(b, RingCount(R, j, m), n)]
         /\ G[j] # u => RingCount(R, j, m) < RingCount(b, w, n)
<1>1. R \in Indices(m) /\ RingCount(b, w, n) \in 0 .. n - 1
  BY ResizedIndices, OffsetRange
<1>2. RingCount(R, j, m) \in 0 .. m - 1 /\ RingAt(R, RingCount(R, j, m), m) = j
  BY <1>1, OffsetRange, SlotAt
<1>3. ASSUME RingCount(R, j, m) < RingCount(b, w, n)
      PROVE  G[j] = f[RingAt(b, RingCount(R, j, m), n)]
  <2>1. PICK k : k = RingCount(R, j, m)
    OBVIOUS
  <2>2. k \in 0 .. RingCount(b, w, n) - 1
    BY <1>1, <1>2, <1>3, <2>1
  <2>3. G[RingAt(R, k, m)] = f[RingAt(b, k, n)]
    BY <2>2, RingResize
  <2> QED BY <1>2, <2>1, <2>3
<1>4. ASSUME G[j] # u PROVE RingCount(R, j, m) < RingCount(b, w, n)
  <2> DEFINE Copied == {i \in Indices(n) : Populated(i, b, w, m) /\ MovedIndex(i, w, m - n) = j}
  <2>1. Copied # {}
    BY <1>4 DEF ResizedSlots
  <2>2. PICK i \in Indices(n) : Populated(i, b, w, m) /\ MovedIndex(i, w, m - n) = j
    BY <2>1
  <2>3. RingCount(b, i, n) \in 0 .. n - 1 /\ RingAt(b, RingCount(b, i, n), n) = i
    BY OffsetRange, SlotAt
  <2>4. RingCount(b, i, n) < RingCount(b, w, n)
    BY <2>2 DEF Populated, adjustIndexForComparison, RingCount, Indices
  <2>5. PICK k : k = RingCount(b, i, n)
    OBVIOUS
  <2>6. k \in 0 .. RingCount(b, w, n) - 1
    BY <1>1, <2>3, <2>4, <2>5
  <2>7. MovedIndex(i, w, m - n) = RingAt(R, k, m)
    BY <2>3, <2>5, <2>6, RingMoved
  <2>8. RingCount(R, j, m) = k
    BY <1>1, <2>2, <2>6, <2>7, SlotAt
  <2> QED BY <2>4, <2>5, <2>8
<1> QED BY <1>3, <1>4

(* A resize that doubles the queue, between two calls of everybody. *)
LEMMA SlotsResize ==
  ASSUME ListParts, SlotInv, IndexTypes', Resize, size' = 2 * size
  PROVE  SlotInv'
<1>1. /\ size \in Nat \ {0} /\ size' \in Nat \ {0} /\ size < size'
      /\ readIndex' = ResizedReadIndex(readIndex, writeIndex, size, size')
      /\ slots' = ResizedSlots(slots, readIndex, writeIndex, size, size', "empty")
      /\ UNCHANGED <<front, isDone, inQueue, writeIndex, wpc, newWrite, rpc, handed>>
      /\ wpc = "idle" /\ \A r \in Members : rpc[r] = "idle"
  BY ResizeSizes DEF ListParts
<1>2. /\ Members' = Members
      /\ \A q \in Members : Owns(q)' <=> Owns(q)
  BY <1>1 DEF Members, Owns
<1>3. /\ Offset(writeIndex)' = Offset(writeIndex)
      /\ \A q \in Members : At(q)' = At(q)
  BY ResizedOffsets DEF ListParts
<1>4. /\ \A q \in Members : /\ index[q] \in Indices(size) /\ At(q) \in 0 .. size - 1
                            /\ At(q) = Offset(index[q]) /\ index'[q] \in Indices(size')
      /\ Members # {} => front \in Members
  BY <1>2, OwnerTypes DEF IndexTypes
<1>5. PICK n, m, b, w, R :
        /\ n = size /\ m = size' /\ b = readIndex /\ w = writeIndex /\ R = readIndex'
        /\ n \in Nat \ {0} /\ m \in Nat \ {0} /\ n < m
        /\ b \in Indices(n) /\ w \in Indices(n) /\ R \in Indices(m)
  BY <1>1 DEF ListParts, IndexTypes
<1>6. /\ \A i \in Indices(n) : Offset(i) = RingCount(b, i, n) /\ Offset(i) \in 0 .. n - 1
      /\ \A i, j \in Indices(n) : Offset(i) = Offset(j) => i = j
      /\ Offset(writeIndex) = RingCount(b, w, n)
  BY <1>5, Offsets DEF ListParts
<1>7. /\ \A j \in Indices(m) : Offset(j)' = RingCount(R, j, m) /\ Offset(j)' \in 0 .. m - 1
      /\ \A i, j \in Indices(m) : Offset(i)' = Offset(j)' => i = j
  <2>1. \A j \in Indices(m) : Offset(j)' = RingCount(R, j, m)
    BY <1>5, OffsetCount DEF Offset
  <2> QED BY <1>5, <2>1, OffsetRange
<1>8. PICK W : W = Offset(writeIndex) /\ W \in 0 .. n - 1
  BY <1>5, <1>6
(* The slot of the old ring with the offset of a slot of the new one. *)
<1>9. \A j \in Indices(m) : Offset(j)' < n =>
        \E i \in Indices(n) : /\ Offset(i) = Offset(j)'
                              /\ Offset(j)' < W => slots'[j] = slots[i]
  <2> SUFFICES ASSUME NEW j \in Indices(m), Offset(j)' < n
               PROVE  \E i \in Indices(n) : /\ Offset(i) = Offset(j)'
                                            /\ Offset(j)' < W => slots'[j] = slots[i]
    OBVIOUS
  <2>1. PICK k : k = RingCount(R, j, m)
    OBVIOUS
  <2>2. k \in 0 .. n - 1 /\ k = Offset(j)'
    BY <1>5, <1>7, <2>1
  <2>3. RingAt(b, k, n) \in Indices(n) /\ RingCount(b, RingAt(b, k, n), n) = k
    BY <1>5, <2>2, SlotAt
  <2>4. k < W => slots'[j] = slots[RingAt(b, k, n)]
    BY <1>1, <1>5, <1>6, <1>8, <2>1, ResizedContents
  <2> QED BY <1>6, <2>2, <2>3, <2>4
<1>10. \A j \in Indices(m) : slots'[j] = "ready" => Offset(j)' < W
  BY <1>1, <1>5, <1>6, <1>7, <1>8, ResizedContents
(* A reader keeps the offset of its slot. *)
<1>11. \A q \in Members, j \in Indices(m) : At(q) = Offset(j)' <=> index'[q] = j
  <2> SUFFICES ASSUME NEW q \in Members, NEW j \in Indices(m)
               PROVE  At(q) = Offset(j)' <=> index'[q] = j
    OBVIOUS
  <2>1. PICK i : i = index'[q]
    OBVIOUS
  <2>2. i \in Indices(m) /\ At(q)' = Offset(i)'
    BY <1>4, <1>5, <2>1 DEF At, Offset
  <2> QED BY <1>3, <1>7, <2>1, <2>2
<1>12. SpaceReserved' /\ WrittenFirst' /\ HandedOnce' /\ UsingPublished'
  BY <1>1, <1>2 DEF SlotInv, SpaceReserved, WrittenFirst, HandedOnce, UsingPublished
<1>13. OwnedReady'
  <2> SUFFICES ASSUME NEW q \in Members, Owns(q), Published(index[q])' PROVE slots'[index'[q]] = "ready"
    BY <1>2 DEF OwnedReady
  <2>1. PICK j : j = index'[q] /\ j \in Indices(m)
    BY <1>4, <1>5
  <2>2. At(q) = Offset(j)'
    BY <1>11, <2>1
  <2>3. Published(index[q])' <=> At(q) < W
    BY <1>3, <1>8 DEF Published, At
  <2>4. Offset(j)' < W /\ Offset(j)' < n
    BY <1>4, <1>5, <2>2, <2>3
  <2>5. PICK i \in Indices(n) : Offset(i) = Offset(j)' /\ slots'[j] = slots[i]
    BY <1>9, <2>1, <2>4
  <2>6. i = index[q]
    BY <1>4, <1>5, <1>6, <2>2, <2>5
  <2>7. slots[index[q]] = "ready"
    BY <1>4, <1>8, <2>2, <2>4 DEF SlotInv, OwnedReady, Published
  <2> QED BY <2>1, <2>5, <2>6, <2>7
<1>14. ReadyPublished'
  <2>1. \A j \in Indices(m) : Published(j)' <=> Offset(j)' < W
    BY <1>3, <1>8 DEF Published
  <2> QED BY <1>5, <1>10, <2>1 DEF ReadyPublished
<1>15. ASSUME NEW j \in Indices(m), NEW i \in Indices(n), Offset(i) = Offset(j)',
              \E q \in Members : Owns(q) /\ index[q] = i
       PROVE  \E q \in Members : Owns(q)' /\ index'[q] = j
  <2>1. PICK q \in Members : Owns(q) /\ index[q] = i
    BY <1>15
  <2>2. At(q) = Offset(j)'
    BY <1>4, <1>15, <2>1
  <2> QED BY <1>2, <1>11, <2>1, <2>2
<1>16. AwaitedSlots'
  <2> SUFFICES ASSUME Members # {}, NEW j \in Indices(m), W <= Offset(j)', Offset(j)' <= At(front)
               PROVE  \E q \in Members : Owns(q)' /\ index'[q] = j
    BY <1>1, <1>2, <1>3, <1>4, <1>5, <1>8 DEF AwaitedSlots
  <2>1. Offset(j)' < n
    BY <1>4, <1>5, <1>7
  <2>2. PICK i \in Indices(n) : Offset(i) = Offset(j)'
    BY <1>9, <2>1
  <2>3. \E q \in Members : Owns(q) /\ index[q] = i
    BY <1>5, <1>8, <2>2 DEF SlotInv, AwaitedSlots
  <2> QED BY <1>15, <2>2, <2>3
<1>17. NoneSkipped'
  <2> SUFFICES ASSUME NEW j \in Indices(m), Offset(j)' < W
               PROVE  IF Members = {} \/ Offset(j)' > At(front)
                      THEN slots'[j] = "ready"
                      ELSE slots'[j] = "ready" => \E q \in Members : Owns(q)' /\ index'[q] = j
    BY <1>1, <1>2, <1>3, <1>4, <1>5, <1>8 DEF NoneSkipped, At
  <2>1. Offset(j)' < n
    BY <1>5, <1>7, <1>8
  <2>2. PICK i \in Indices(n) : Offset(i) = Offset(j)' /\ slots'[j] = slots[i]
    BY <1>9, <2>1
  <2>3. IF Members = {} \/ Offset(i) > At(front)
        THEN slots[i] = "ready"
        ELSE slots[i] = "ready" => \E q \in Members : Owns(q) /\ index[q] = i
    BY <1>5, <1>8, <2>2 DEF SlotInv, NoneSkipped, At
  <2> QED BY <1>15, <2>2, <2>3
<1> QED BY <1>12, <1>13, <1>14, <1>16, <1>17 DEF SlotInv

(* At first every slot is empty. *)
LEMMA SlotInit == ASSUME InitSize > 1, Init PROVE SlotInv
<1>1. /\ Members = {} /\ wpc = "idle" /\ handed = "ready" /\ writeIndex = readIndex
      /\ \A i \in Indices(size) : slots[i] = "empty"
      /\ \A r \in Readers : rpc[r] = "out"
  BY DEF Init, ListInit, ReaderInit, Members
<1>2. \A i \in Indices(size) : ~(Offset(i) < Offset(writeIndex))
  <2>1. IndexTypes
    BY ListPartsInit DEF ListParts
  <2>2. /\ size \in Nat /\ Offset(writeIndex) = 0
        /\ \A i \in Indices(size) : Offset(i) \in 0 .. size - 1
    BY <1>1, <2>1, Offsets DEF IndexTypes
  <2> SUFFICES ASSUME NEW i \in Indices(size) PROVE ~(Offset(i) < Offset(writeIndex))
    OBVIOUS
  <2>3. Offset(i) \in 0 .. size - 1
    BY <2>2
  <2> QED BY <2>2, <2>3
<1>3. SpaceReserved /\ WrittenFirst /\ UsingPublished /\ OwnedReady /\ HandedOnce
  BY <1>1 DEF SpaceReserved, WrittenFirst, UsingPublished, OwnedReady, HandedOnce
<1>4. ReadyPublished /\ AwaitedSlots /\ NoneSkipped
  BY <1>1, <1>2 DEF ReadyPublished, AwaitedSlots, NoneSkipped
<1> QED BY <1>3, <1>4 DEF SlotInv

(* Every step keeps what the slots hold. *)
LEMMA SlotsStep ==
  ASSUME InitSize > 1, ListParts, OrderInv, SlotInv, [Next]_vars, ~left', ~misread',
         size' # size => size' = 2 * size
  PROVE  SlotInv'
<1>1. CASE UNCHANGED vars
  <2>1. /\ UNCHANGED <<size, readIndex, writeIndex, front, index, inQueue, slots, wpc, newWrite, handed>>
        /\ UNCHANGED <<isDone, rpc>>
    BY <1>1 DEF vars, queueIndices, listVars, listEnds, readerFields, queueVars
  <2> QED BY <2>1, SlotsUnmoved DEF Owns
<1>2. IndexTypes'
  BY ListPartsStep DEF ListParts
<1>3. CASE Resize
  <2>1. size < size' /\ size \in Nat /\ size' \in Nat
    BY <1>3, ResizeSizes DEF ListParts
  <2> QED BY <1>2, <1>3, <2>1, SlotsResize
<1>4. ASSUME NEW r \in Readers, RemoveStep(r) PROVE SlotInv'
  BY <1>4, SlotsMoveToFront, SlotsCheck DEF RemoveStep
<1>5. ASSUME NEW r \in Readers, StartAccess(r) \/ EndAccess(r) PROVE SlotInv'
  BY <1>5, SlotsStart, SlotsEnd
<1> QED BY <1>1, <1>3, <1>4, <1>5, SlotsAdd DEF Next

(* What the slots hold, until isEmpty misreads a slot or a reader leaves   *)
(* before the others.                                                      *)
THEOREM SlotInvariance ==
  InitSize > 1 /\ GrowsByDoubling =>
    (Spec => [](ListParts /\ (~left => OrderInv) /\ (~left /\ ~misread => SlotInv)))
<1> SUFFICES ASSUME InitSize > 1, NEW S \in SUBSET Nat, DoublingSizes(S)
             PROVE  Spec => [](ListParts /\ (~left => OrderInv) /\ (~left /\ ~misread => SlotInv))
  BY DEF GrowsByDoubling
<1> DEFINE Inv == ListParts /\ (~left => OrderInv) /\ (~left /\ ~misread => SlotInv) /\ size \in S
<1>1. Init => Inv
  BY ListPartsInit, OrderInit, SlotInit DEF Init, ListInit, DoublingSizes
<1>2. Inv /\ [Next]_vars => Inv'
  <2> SUFFICES ASSUME Inv, [Next]_vars PROVE Inv'
    OBVIOUS
  <2>1. ListParts'
    BY ListPartsStep
  <2>2. size' \in S /\ (size' # size => size' = 2 * size)
    BY SizesStep DEF ListParts
  <2>3. ~left' => OrderInv'
    BY <2>2, HistoryKept, OrderStep
  <2>4. ~left' /\ ~misread' => SlotInv'
    BY <2>2, HistoryKept, SlotsStep
  <2> QED BY <2>1, <2>2, <2>3, <2>4
<1> QED BY <1>1, <1>2, PTL DEF Spec

(* A reader uses published slots only, and the write index is not one. *)
LEMMA WriterApart ==
  ASSUME ListParts, SlotInv
  PROVE  WriterDisjoint
<1> SUFFICES ASSUME NEW r \in Members, rpc[r] = "using" PROVE index[r] # writeIndex
  BY DEF WriterDisjoint
<1>1. Offset(index[r]) < Offset(writeIndex)
  BY DEF SlotInv, UsingPublished, Published
<1>2. size \in Nat /\ Offset(writeIndex) \in 0 .. size - 1
  BY WriteOffset DEF ListParts
<1> QED BY <1>1, <1>2

(* Any number of readers move, squeeze, join and resize: until isEmpty has *)
(* called a slot populated that was not, or a reader has left before the   *)
(* others, nobody is handed an entry twice or a slot nobody has written,   *)
(* the writer stays out of the slots in use, and no entry is passed over.  *)
THEOREM SafeWithoutMisread ==
  InitSize > 1 /\ GrowsByDoubling => (Spec => []SafeUnlessMisread)
<1>1. ListParts /\ (~left /\ ~misread => SlotInv) => SafeUnlessMisread
  BY WriterApart DEF SafeUnlessMisread, SlotInv
<1> QED BY <1>1, SlotInvariance, PTL

(* A resize carries every entry along. *)
LEMMA ResizeCarries ==
  ASSUME IndexTypes, Resize, NEW i \in Indices(size), Published(i)
  PROVE  slots'[MovedIndex(i, writeIndex, size' - size)] = slots[i]
<1>1. /\ size \in Nat \ {0} /\ size' \in Nat \ {0} /\ size < size'
      /\ readIndex \in Indices(size) /\ writeIndex \in Indices(size)
      /\ slots' = ResizedSlots(slots, readIndex, writeIndex, size, size', "empty")
  BY ResizeSizes DEF IndexTypes
<1>2. PICK n, m, b, w, f, k :
        /\ n = size /\ m = size' /\ b = readIndex /\ w = writeIndex /\ f = slots /\ k = Offset(i)
        /\ n \in Nat \ {0} /\ m \in Nat \ {0} /\ n < m
        /\ b \in Indices(n) /\ w \in Indices(n) /\ i \in Indices(n)
  BY <1>1
<1>3. k = RingCount(b, i, n) /\ k \in 0 .. n - 1 /\ Offset(writeIndex) = RingCount(b, w, n)
  BY <1>2, Offsets
<1>4. RingAt(b, k, n) = i
  BY <1>2, <1>3, SlotAt
<1>5. k < RingCount(b, w, n) /\ RingCount(b, w, n) \in 0 .. n - 1
  BY <1>2, <1>3, OffsetRange DEF Published
<1>6. k \in 0 .. RingCount(b, w, n) - 1
  BY <1>3, <1>5
<1>7. MovedIndex(i, w, m - n) = RingAt(ResizedReadIndex(b, w, n, m), k, m)
  BY <1>2, <1>4, <1>6, RingMoved
<1>8. ResizedSlots(f, b, w, n, m, "empty")[RingAt(ResizedReadIndex(b, w, n, m), k, m)] = f[i]
  BY <1>2, <1>4, <1>6, RingResize
<1> QED BY <1>1, <1>2, <1>7, <1>8

(* The only step that takes an entry hands it to a reader. *)
LEMMA EntryKept ==
  ASSUME ListParts, SlotInv, Next, NEW i \in Indices(size), slots[i] = "ready"
  PROVE  \/ size' # size /\ slots'[MovedIndex(i, writeIndex, size' - size)] = "ready"
         \/ size' = size /\ slots'[i] = "ready" /\ ~(wpc = "insert" /\ i = writeIndex)
         \/ \E r \in Members : index[r] = i /\ rpc[r] # "using" /\ rpc'[r] = "using"
<1>1. /\ Published(i) \/ (wpc = "publish" /\ i = writeIndex)
      /\ ~Published(writeIndex)
  <2>1. size \in Nat /\ Offset(writeIndex) \in 0 .. size - 1
    BY WriteOffset DEF ListParts
  <2> QED BY <2>1 DEF SlotInv, ReadyPublished, Published
<1>2. ~(wpc = "insert" /\ i = writeIndex)
  BY <1>1
<1>3. CASE Resize
  <2>1. wpc = "idle" /\ size' # size
    BY <1>3, ResizeSizes DEF ListParts
  <2> QED BY <1>1, <1>3, <2>1, ResizeCarries DEF ListParts
<1>4. CASE AddInsert
  <2>1. size' = size /\ slots' = [slots EXCEPT ![writeIndex] = "ready"]
        /\ slots \in [Indices(size) -> {"empty", "ready", "taken"}]
    BY <1>4 DEF AddInsert, queueIndices, ListParts, QueueTypes
  <2> QED BY <1>2, <2>1
<1>5. ASSUME NEW r \in Readers, Compare(r)
      PROVE  \/ size' = size /\ slots'[i] = "ready"
             \/ r \in Members /\ index[r] = i /\ rpc[r] # "using" /\ rpc'[r] = "using"
  <2>1. /\ rpc[r] = "compare" /\ size' = size /\ r \in Members
        /\ rpc \in [Readers -> ReaderSteps] /\ slots \in [Indices(size) -> {"empty", "ready", "taken"}]
    BY <1>5, StepsOfMembers DEF Compare, RemoveSlot, queueIndices, ListParts, QueueTypes
  <2>2. \/ slots' = slots
        \/ /\ rpc' = [rpc EXCEPT ![r] = "using"]
           /\ slots' = [slots EXCEPT ![index[r]] = "taken"]
    BY <1>5 DEF Compare, RemoveSlot, Goto
  <2>3. CASE slots' = slots
    BY <2>1, <2>3
  <2>4. CASE /\ rpc' = [rpc EXCEPT ![r] = "using"]
             /\ slots' = [slots EXCEPT ![index[r]] = "taken"]
    <3>1. rpc'[r] = "using"
      BY <2>1, <2>4
    <3>2. index[r] # i => slots'[i] = slots[i]
      BY <2>1, <2>4
    <3> QED BY <2>1, <3>1, <3>2
  <2> QED BY <2>2, <2>3, <2>4
<1>6. CASE /\ ~Resize /\ ~AddInsert /\ \A r \in Readers : ~Compare(r)
  <2>1. size' = size /\ slots' = slots
    BY <1>6 DEF Next, AddStep, AddIsFull, AddPublish, StartAccess, ListAdd, EndAccess, ListRemove,
       RemoveStep, CheckSameSlot, MoveToFront, MoveAhead, Squeeze, CannotMove, ReadWriteIndex,
       AdjustWriteIndex, Handled, queueIndices
  <2> QED BY <1>2, <2>1
<1> QED BY <1>2, <1>3, <1>4, <1>5, <1>6

(* A written entry stays in its slot until a reader takes it: no add       *)
(* overwrites it, no move gives its slot back, and a resize carries it     *)
(* along, in every step before a misread and an early leave.               *)
THEOREM NoEntryLost ==
  InitSize > 1 /\ GrowsByDoubling => (Spec => KeptUnlessMisread)
<1>1. ASSUME ListParts, SlotInv, Next PROVE EntriesStay
  BY <1>1, EntryKept DEF EntriesStay
<1>2. ASSUME ListParts, ~left /\ ~misread => SlotInv, [Next]_vars
      PROVE  [~misread' /\ ~left' => EntriesStay]_vars
  BY <1>1, <1>2, HistoryKept
<1> QED BY <1>2, SlotInvariance, PTL DEF Spec, KeptUnlessMisread

-----------------------------------------------------------------------------
(* A queue with one reader.  It is the only one that moves readIndex, so   *)
(* that the values isEmpty reads one after the other cannot mislead it,    *)
(* and it may leave at any time.                                           *)

SingleReader == \A q, r \in Readers : q = r

(* The reader has taken the entry at readIndex and not moved on. *)
HeadTaken == \E r \in Members : isDone[r] /\ rpc[r] \in {"idle", "using"}

(* What isEmpty has seen of writeIndex is not ahead of it. *)
SeenBehind ==
  /\ \A r \in Readers : rpc[r] = "base" => Offset(seenW[r]) <= Offset(writeIndex)
  /\ \A r \in Readers : rpc[r] = "compare" => seenW[r] - readIndex <= Offset(writeIndex)

AtReadIndex ==
  /\ \A r \in Members : index[r] = readIndex
  /\ \A r \in Members : rpc[r] = "using" => isDone[r]
  /\ HeadTaken => readIndex # writeIndex

PublishedReady ==
  \A i \in Indices(size) : Published(i) => slots[i] = "ready" \/ (HeadTaken /\ i = readIndex)

SingleInv ==
  SpaceReserved /\ WrittenFirst /\ AtReadIndex /\ PublishedReady /\ SeenBehind /\ HandedOnce

(* The only reader is both ends of the list. *)
LEMMA SingleList ==
  ASSUME SingleReader, InitSize > 1, ListParts
  PROVE  /\ Members = {} => front = NULL
         /\ \A r \in Members : Members = {r} /\ front = r /\ back = r /\ ~Spans
<1>1. PICK n \in Nat : \E pos \in [Readers -> Nat] : Linked(n, pos)
  BY DEF ListParts, List
<1>2. PICK pos \in [Readers -> Nat] : Linked(n, pos)
  BY <1>1
<1>3. Members = {} => front = NULL
  BY <1>2, ListEnds DEF ListParts
<1>4. ASSUME NEW r \in Members PROVE Members = {r} /\ front = r /\ back = r
  <2>1. \A q \in Members : q \in Readers
    BY DEF Members
  <2>2. Members = {r}
    BY <2>1 DEF SingleReader
  <2>3. n > 0
    BY <1>2, <2>2, ListEnds DEF ListParts
  <2> QED BY <1>2, <2>2, <2>3 DEF Linked
<1> QED BY <1>3, <1>4, SpansSeveral DEF ListParts

(* The steps that leave the list and the indices of the readers alone. *)
LEMMA SingleAdd == ASSUME ListParts, SingleInv, AddStep PROVE SingleInv'
<1>1. /\ UNCHANGED <<size, readIndex, index, inQueue, isDone, rpc, seenW, handed>>
      /\ Members' = Members /\ (HeadTaken' <=> HeadTaken)
      /\ slots \in [Indices(size) -> {"empty", "ready", "taken"}]
  BY DEF AddStep, AddIsFull, AddInsert, AddPublish, queueIndices, listVars, listEnds, readerFields,
     Members, HeadTaken, ListParts, QueueTypes
<1>2. /\ writeIndex \in Indices(size) /\ size \in Nat \ {0} /\ Offset(writeIndex) \in 0 .. size - 1
      /\ nextIndex(writeIndex, size) \in Indices(size)
      /\ nextIndex(writeIndex, size) # readIndex =>
           Offset(nextIndex(writeIndex, size)) = Offset(writeIndex) + 1
      /\ \A i \in Indices(size) : Offset(i) \in 0 .. size - 1
      /\ \A i, j \in Indices(size) : Offset(i) = Offset(j) => i = j
  BY WriteOffset DEF ListParts
<1>3. \A i : Offset(i)' = Offset(i)
  BY <1>1 DEF Offset
<1>4. HandedOnce'
  BY <1>1 DEF SingleInv, HandedOnce
<1>5. CASE AddIsFull \/ AddInsert
  <2>1. /\ writeIndex' = writeIndex
        /\ \/ /\ wpc = "idle" /\ wpc' = "insert" /\ slots' = slots
              /\ newWrite' = nextIndex(writeIndex, size) /\ nextIndex(writeIndex, size) # readIndex
           \/ /\ wpc = "insert" /\ wpc' = "publish" /\ slots' = [slots EXCEPT ![writeIndex] = "ready"]
              /\ newWrite' = newWrite
    BY <1>5 DEF AddIsFull, AddInsert, queueIndices
  <2>2. \A i : Published(i)' <=> Published(i)
    BY <1>1, <2>1 DEF Published, Offset
  <2>3. SpaceReserved' /\ WrittenFirst'
    BY <1>1, <1>2, <2>1 DEF SingleInv, SpaceReserved, WrittenFirst
  <2>4. AtReadIndex'
    BY <1>1, <2>1 DEF SingleInv, AtReadIndex
  <2>5. PublishedReady'
    <3>1. \A i \in Indices(size) : slots[i] = "ready" => slots'[i] = "ready"
      BY <1>1, <2>1
    <3> QED BY <1>1, <2>2, <3>1 DEF SingleInv, PublishedReady
  <2>6. SeenBehind'
    BY <1>1, <2>1 DEF SingleInv, SeenBehind, Offset
  <2> QED BY <1>4, <2>3, <2>4, <2>5, <2>6 DEF SingleInv
<1>6. CASE AddPublish
  <2>1. /\ writeIndex' = newWrite /\ wpc' = "idle" /\ wpc = "publish" /\ slots' = slots
        /\ newWrite = nextIndex(writeIndex, size) /\ newWrite # readIndex
        /\ slots[writeIndex] = "ready"
    BY <1>6 DEF AddPublish, SingleInv, SpaceReserved, WrittenFirst
  <2>2. Offset(writeIndex)' = Offset(writeIndex) + 1
    <3>1. PICK w : w = writeIndex'
      OBVIOUS
    <3>2. Offset(w) = Offset(writeIndex) + 1
      BY <1>2, <2>1, <3>1
    <3>3. Offset(writeIndex)' = Offset(w)
      BY <1>1, <3>1 DEF Offset
    <3> QED BY <3>2, <3>3
  <2>3. \A i \in Indices(size) : Published(i)' <=> Published(i) \/ i = writeIndex
    <3>1. \A i \in Indices(size) : Published(i)' <=> Offset(i) < Offset(writeIndex) + 1
      BY <1>3, <2>2 DEF Published
    <3> QED BY <1>2, <3>1 DEF Published
  <2>4. SpaceReserved' /\ WrittenFirst'
    BY <2>1 DEF SpaceReserved, WrittenFirst
  <2>5. AtReadIndex'
    BY <1>1, <2>1 DEF SingleInv, AtReadIndex
  <2>6. PublishedReady'
    BY <1>1, <2>1, <2>3 DEF SingleInv, PublishedReady
  <2>7. SeenBehind'
    <3>1. \A r \in Readers : rpc[r] = "base" => Offset(seenW[r]) <= Offset(writeIndex) + 1
      <4> SUFFICES ASSUME NEW r \in Readers, rpc[r] = "base"
                   PROVE  Offset(seenW[r]) <= Offset(writeIndex) + 1
        OBVIOUS
      <4>1. seenW[r] \in Indices(size)
        BY DEF ListParts, SeenIndex
      <4>2. Offset(seenW[r]) \in 0 .. size - 1 /\ Offset(seenW[r]) <= Offset(writeIndex)
        BY <1>2, <4>1 DEF SingleInv, SeenBehind
      <4> QED BY <1>2, <4>2
    <3>2. \A r \in Readers : rpc[r] = "compare" => seenW[r] - readIndex <= Offset(writeIndex) + 1
      <4> SUFFICES ASSUME NEW r \in Readers, rpc[r] = "compare"
                   PROVE  seenW[r] - readIndex <= Offset(writeIndex) + 1
        OBVIOUS
      <4>1. seenW[r] \in Int /\ readIndex \in Int
        BY <1>2 DEF ListParts, QueueTypes, IndexTypes, Indices
      <4> QED BY <1>2, <4>1 DEF SingleInv, SeenBehind
    <3> QED BY <1>1, <1>3, <2>2, <3>1, <3>2 DEF SeenBehind, Offset
  <2> QED BY <1>4, <2>4, <2>5, <2>6, <2>7 DEF SingleInv
<1> QED BY <1>5, <1>6 DEF AddStep

(* What the only reader takes for populated is: readIndex has not moved    *)
(* since isEmpty read writeIndex.                                          *)
LEMMA SingleSees ==
  ASSUME SingleReader, InitSize > 1, ListParts, SingleInv, NEW r \in Readers, Compare(r)
  PROVE  r \in Members /\ index[r] = readIndex /\ (~SeenEmpty(r) => Published(readIndex))
<1>1. /\ rpc[r] = "compare" /\ seenW \in [Readers -> 0 .. 2 * size]
      /\ size \in Nat \ {0} /\ readIndex \in Indices(size) /\ writeIndex \in Indices(size)
  BY SizeType DEF Compare, ListParts, QueueTypes, IndexTypes
<1>2. r \in Members /\ index[r] = readIndex
  BY <1>1, StepsOfMembers DEF ListParts, SingleInv, AtReadIndex
<1>3. Offset(readIndex) = 0 /\ Offset(writeIndex) \in 0 .. size - 1
  BY <1>1, Offsets DEF ListParts
<1>4. ~SeenEmpty(r) => seenW[r] - readIndex > 0
  BY <1>1, <1>2 DEF SeenEmpty, adjustIndexForComparison, Indices
<1>5. seenW[r] - readIndex <= Offset(writeIndex) /\ seenW[r] - readIndex \in Int
  BY <1>1 DEF SingleInv, SeenBehind, Indices
<1>6. ~SeenEmpty(r) => Published(readIndex)
  BY <1>1, <1>3, <1>4, <1>5 DEF Published
<1> QED BY <1>2, <1>6

(* The reader's own steps between two moves. *)
LEMMA SingleCheck ==
  ASSUME SingleReader, InitSize > 1, ListParts, SingleInv, NEW r \in Readers,
         \/ CheckSameSlot(r) \/ ReadWriteIndex(r) \/ AdjustWriteIndex(r)
         \/ Compare(r) \/ Handled(r)
  PROVE  SingleInv'
<1>1. /\ rpc \in [Readers -> ReaderSteps] /\ isDone \in [Readers -> BOOLEAN]
      /\ seenW \in [Readers -> 0 .. 2 * size]
      /\ slots \in [Indices(size) -> {"empty", "ready", "taken"}]
      /\ size \in Nat \ {0} /\ readIndex \in Indices(size) /\ writeIndex \in Indices(size)
  BY SizeType DEF ListParts, QueueTypes, IndexTypes
<1>2. r \in Members /\ Members = {r} /\ index[r] = readIndex
  <2>1. r \in Members
    BY StepsOfMembers DEF ListParts, CheckSameSlot, ReadWriteIndex, AdjustWriteIndex,
       Compare, Handled
  <2> QED BY <2>1, SingleList DEF SingleInv, AtReadIndex
<1>3. \A q \in Readers : q = r
  BY DEF SingleReader
<1>4. /\ UNCHANGED <<size, readIndex, writeIndex, index, inQueue, wpc, newWrite>> /\ Members' = Members
      /\ \A i : Offset(i)' = Offset(i) /\ (Published(i)' <=> Published(i))
  <2>1. UNCHANGED <<size, readIndex, writeIndex, index, inQueue, wpc, newWrite>>
    BY DEF CheckSameSlot, ReadWriteIndex, AdjustWriteIndex, Compare, Handled, RemoveSlot,
       queueIndices, listVars, listEnds, readerFields
  <2> QED BY <2>1 DEF Members, Offset, Published
<1>5. Offset(writeIndex)' = Offset(writeIndex)
  BY <1>4 DEF Offset
<1>6. HeadTaken <=> isDone[r] /\ rpc[r] \in {"idle", "using"}
  BY <1>2 DEF HeadTaken
<1>7. HeadTaken' <=> isDone'[r] /\ rpc'[r] \in {"idle", "using"}
  BY <1>2, <1>4 DEF HeadTaken
<1>8. SpaceReserved'
  BY <1>4 DEF SingleInv, SpaceReserved
<1>9. CASE CheckSameSlot(r) \/ ReadWriteIndex(r) \/ AdjustWriteIndex(r) \/ Handled(r)
  <2>1. slots' = slots /\ handed' = handed /\ isDone' = isDone
    BY <1>9 DEF CheckSameSlot, ReadWriteIndex, AdjustWriteIndex, Handled, listVars, readerFields
  <2>2. \/ rpc[r] = "idle" /\ ~isDone[r] /\ rpc' = [rpc EXCEPT ![r] = "check"] /\ seenW' = seenW
        \/ rpc[r] = "using" /\ rpc' = [rpc EXCEPT ![r] = "idle"] /\ seenW' = seenW
        \/ /\ rpc[r] = "check" /\ rpc' = [rpc EXCEPT ![r] = "base"]
           /\ seenW' = [seenW EXCEPT ![r] = writeIndex]
        \/ /\ rpc[r] = "base" /\ rpc' = [rpc EXCEPT ![r] = "compare"]
           /\ seenW' = [seenW EXCEPT ![r] = adjustIndexForComparison(seenW[r], readIndex, size)]
    BY <1>9 DEF CheckSameSlot, ReadWriteIndex, AdjustWriteIndex, Handled, Goto
  <2>3. HeadTaken' <=> HeadTaken
    BY <1>1, <1>6, <1>7, <2>1, <2>2
  <2>4. WrittenFirst' /\ HandedOnce'
    BY <1>4, <2>1 DEF SingleInv, WrittenFirst, HandedOnce
  <2>5. AtReadIndex'
    BY <1>1, <1>2, <1>4, <2>1, <2>2, <2>3 DEF SingleInv, AtReadIndex
  <2>6. PublishedReady'
    BY <1>4, <2>1, <2>3 DEF SingleInv, PublishedReady
  <2>7. SeenBehind'
    <3>1. rpc'[r] = "base" => seenW'[r] = writeIndex
      BY <1>1, <2>2
    <3>2. rpc'[r] = "compare" =>
            rpc[r] = "base" /\ seenW'[r] = adjustIndexForComparison(seenW[r], readIndex, size)
      BY <1>1, <2>2
    <3>3. Offset(writeIndex) \in Int
      BY <1>1, WriteOffset DEF ListParts
    <3>4. rpc'[r] = "base" => Offset(seenW[r])' <= Offset(writeIndex)'
      <4> SUFFICES ASSUME rpc'[r] = "base" PROVE Offset(seenW[r])' <= Offset(writeIndex)'
        OBVIOUS
      <4>1. Offset(seenW[r])' = Offset(writeIndex)
        BY <1>4, <3>1 DEF Offset
      <4> QED BY <1>5, <3>3, <4>1
    <3>5. rpc'[r] = "compare" => seenW'[r] - readIndex <= Offset(writeIndex)
      BY <3>2 DEF SingleInv, SeenBehind, Offset
    <3>6. \A q \in Readers : rpc'[q] = "base" => Offset(seenW[q])' <= Offset(writeIndex)'
      BY <1>3, <3>4
    <3>7. \A q \in Readers : rpc'[q] = "compare" => seenW'[q] - readIndex' <= Offset(writeIndex)'
      BY <1>3, <1>4, <1>5, <3>5
    <3> QED BY <3>6, <3>7 DEF SeenBehind
  <2> QED BY <1>8, <2>4, <2>5, <2>6, <2>7 DEF SingleInv
<1>10. CASE Compare(r)
  <2>1. PICK isEmpty \in BOOLEAN : /\ RemoveSlot(r, isEmpty)
                                   /\ ~isEmpty => Published(readIndex)
    <3>1. RemoveSlot(r, SeenEmpty(r)) /\ SeenEmpty(r) \in BOOLEAN
      BY <1>10 DEF Compare, SeenEmpty
    <3> QED BY <1>10, <3>1, SingleSees
  <2>2. rpc[r] = "compare" /\ ~HeadTaken
    BY <1>6, <1>10 DEF Compare
  <2>3. Published(readIndex) => slots[readIndex] = "ready" /\ readIndex # writeIndex
    <3>1. Published(readIndex) => readIndex # writeIndex
      BY <1>1, WriteOffset DEF Published, ListParts
    <3> QED BY <1>1, <2>2, <3>1 DEF SingleInv, PublishedReady
  <2>4. isDone' = [isDone EXCEPT ![r] = ~isEmpty]
    BY <2>1 DEF RemoveSlot
  <2>5. SeenBehind'
    <3>1. rpc'[r] \in {"idle", "using"}
      BY <1>1, <2>1 DEF RemoveSlot, Goto
    <3>2. \A q \in Readers : rpc'[q] \in {"idle", "using"}
      BY <1>3, <3>1
    <3> QED BY <3>2 DEF SeenBehind
  <2>6. CASE isEmpty
    <3>1. rpc' = [rpc EXCEPT ![r] = "idle"] /\ slots' = slots /\ handed' = handed /\ ~isDone'[r]
      BY <1>1, <2>1, <2>4, <2>6 DEF RemoveSlot, Goto
    <3>2. ~HeadTaken' /\ rpc'[r] = "idle"
      BY <1>1, <1>7, <3>1
    <3>3. WrittenFirst' /\ HandedOnce' /\ PublishedReady'
      BY <1>4, <2>2, <3>1, <3>2 DEF SingleInv, WrittenFirst, HandedOnce, PublishedReady
    <3>4. AtReadIndex'
      BY <1>2, <1>4, <3>2 DEF SingleInv, AtReadIndex
    <3> QED BY <1>8, <2>5, <3>3, <3>4 DEF SingleInv
  <2>7. CASE ~isEmpty
    <3>1. /\ rpc' = [rpc EXCEPT ![r] = "using"] /\ slots' = [slots EXCEPT ![readIndex] = "taken"]
          /\ handed' = slots[readIndex] /\ isDone'[r]
      BY <1>1, <1>2, <2>1, <2>4, <2>7 DEF RemoveSlot, Goto
    <3>2. HeadTaken' /\ rpc'[r] = "using"
      BY <1>1, <1>7, <3>1
    <3>3. slots[readIndex] = "ready" /\ readIndex # writeIndex
      BY <2>1, <2>3, <2>7
    <3>4. HandedOnce' /\ WrittenFirst'
      BY <1>1, <1>4, <3>1, <3>3 DEF SingleInv, WrittenFirst, HandedOnce
    <3>5. PublishedReady'
      <4>1. \A i \in Indices(size) : i # readIndex => slots'[i] = slots[i]
        BY <1>1, <3>1
      <4> QED BY <1>4, <2>2, <3>2, <4>1 DEF SingleInv, PublishedReady
    <3>6. AtReadIndex'
      BY <1>2, <1>4, <3>1, <3>2, <3>3 DEF SingleInv, AtReadIndex
    <3> QED BY <1>8, <2>5, <3>4, <3>5, <3>6 DEF SingleInv
  <2> QED BY <2>6, <2>7
<1> QED BY <1>9, <1>10

(* The reader gives its slot back, by moving on or by leaving. *)
LEMMA SingleAdvance ==
  ASSUME InitSize > 1, ListParts, SingleInv, HeadTaken,
         readIndex' = nextIndex(readIndex, size),
         UNCHANGED <<size, writeIndex, slots, wpc, newWrite, handed>>,
         \A r \in Readers : rpc'[r] \in {"out", "check"},
         \A r \in Members' : index'[r] = readIndex'
  PROVE  SingleInv'
<1>1. readIndex # writeIndex
  BY DEF SingleInv, AtReadIndex
<1>2. /\ \A i \in Indices(size) : Published(i)' <=> Published(i) /\ i # readIndex
      /\ nextIndex(writeIndex, size) # readIndex => nextIndex(writeIndex, size) # readIndex'
  BY <1>1, BaseAdvanced DEF ListParts
<1>3. ~HeadTaken' /\ \A r \in Members' : rpc'[r] # "using"
  BY DEF HeadTaken, Members
<1>4. SpaceReserved' /\ WrittenFirst' /\ HandedOnce'
  BY <1>2 DEF SingleInv, SpaceReserved, WrittenFirst, HandedOnce
<1>5. AtReadIndex'
  BY <1>3 DEF AtReadIndex
<1>6. PublishedReady'
  BY <1>2, <1>3 DEF SingleInv, PublishedReady
<1>7. SeenBehind'
  BY DEF SeenBehind
<1> QED BY <1>4, <1>5, <1>6, <1>7 DEF SingleInv

(* The reader asks for its next slot. *)
LEMMA SingleMove ==
  ASSUME SingleReader, InitSize > 1, ListParts, SingleInv, NEW r \in Readers, MoveToFront(r)
  PROVE  SingleInv'
<1>1. /\ rpc[r] = "idle" /\ isDone[r] /\ UNCHANGED <<slots, wpc, newWrite, handed>>
      /\ rpc \in [Readers -> ReaderSteps] /\ index \in [Readers -> Int]
  BY DEF MoveToFront, ListParts, QueueTypes, IndexTypes
<1>2. r \in Members /\ front = r /\ back = r /\ ~Spans /\ HeadTaken /\ index[r] = readIndex
  <2>1. r \in Members
    BY <1>1, StepsOfMembers DEF ListParts
  <2> QED BY <1>1, <2>1, SingleList DEF HeadTaken, SingleInv, AtReadIndex
<1>3. MoveFrontOn(r) /\ size' = size /\ writeIndex' = writeIndex /\ rpc' = [rpc EXCEPT ![r] = "check"]
  BY <1>2 DEF MoveToFront, MoveAhead, MoveFromWithin, Squeeze, CannotMove, Goto
<1>4. index'[r] = nextIndex(readIndex, size) /\ readIndex' = nextIndex(readIndex, size)
  BY <1>1, <1>2, <1>3 DEF MoveFrontOn
<1>5. \A q \in Readers : q = r
  BY DEF SingleReader
<1>6. /\ \A q \in Readers : rpc'[q] \in {"out", "check"}
      /\ \A q \in Members' : index'[q] = readIndex'
  BY <1>1, <1>3, <1>4, <1>5 DEF Members
<1> QED BY <1>1, <1>2, <1>3, <1>4, <1>6, SingleAdvance

(* The reader joins: its slot is the first that is still to be read. *)
LEMMA SingleStart ==
  ASSUME SingleReader, InitSize > 1, ListParts, SingleInv, NEW r \in Readers, StartAccess(r)
  PROVE  SingleInv'
<1>1. /\ ListAdd(r) /\ rpc' = [rpc EXCEPT ![r] = "idle"]
      /\ UNCHANGED <<size, readIndex, writeIndex, slots, wpc, newWrite, handed>>
      /\ rpc \in [Readers -> ReaderSteps] /\ isDone \in [Readers -> BOOLEAN] /\ index \in [Readers -> Int]
  BY DEF StartAccess, ListAdd, Goto, queueIndices, ListParts, QueueTypes, IndexTypes
<1>2. \A q \in Readers : q = r
  BY DEF SingleReader
<1>3. Members = {}
  BY <1>1, <1>2 DEF ListAdd, Members
<1>4. AddFirst(r)
  BY <1>1, <1>3, SingleList DEF ListAdd, AddAtFront, AddBehindFront
<1>5. rpc'[r] = "idle" /\ ~isDone'[r] /\ index'[r] = readIndex
  BY <1>1, <1>4 DEF AddFirst
<1>6. ~HeadTaken /\ ~HeadTaken'
  BY <1>2, <1>3, <1>5 DEF HeadTaken, Members
<1>7. \A i : Offset(i)' = Offset(i) /\ (Published(i)' <=> Published(i))
  BY <1>1 DEF Offset, Published
<1>8. SpaceReserved' /\ WrittenFirst' /\ HandedOnce'
  BY <1>1 DEF SingleInv, SpaceReserved, WrittenFirst, HandedOnce
<1>9. AtReadIndex'
  BY <1>1, <1>2, <1>5, <1>6 DEF AtReadIndex, Members
<1>10. PublishedReady'
  BY <1>1, <1>6, <1>7 DEF SingleInv, PublishedReady
<1>11. SeenBehind'
  BY <1>2, <1>5 DEF SeenBehind
<1> QED BY <1>8, <1>9, <1>10, <1>11 DEF SingleInv

(* The reader leaves, whenever it does.  If it has taken the entry in its  *)
(* slot it gives the slot back.                                            *)
LEMMA SingleEnd ==
  ASSUME SingleReader, InitSize > 1, ListParts, SingleInv, NEW r \in Readers, EndAccess(r)
  PROVE  SingleInv'
<1>1. /\ ListRemove(r) /\ rpc' = [rpc EXCEPT ![r] = "out"] /\ rpc[r] \in {"idle", "using"}
      /\ UNCHANGED <<size, writeIndex, slots, wpc, newWrite, handed>>
      /\ rpc \in [Readers -> ReaderSteps] /\ isDone \in [Readers -> BOOLEAN]
      /\ inQueue \in [Readers -> BOOLEAN]
  BY DEF EndAccess, ListRemove, Goto, ListParts, QueueTypes, ListTypes
<1>2. \A q \in Readers : q = r
  BY DEF SingleReader
<1>3. r \in Members /\ Members = {r} /\ front = r /\ back = r /\ index[r] = readIndex
  <2>1. r \in Members
    BY <1>1 DEF ListRemove, Members
  <2> QED BY <2>1, SingleList DEF SingleInv, AtReadIndex
<1>4. RemoveLast(r) /\ Members' = {} /\ rpc'[r] = "out"
  BY <1>1, <1>2, <1>3 DEF ListRemove, GiveSlotToFront, Unlink, RemoveFront, Members
<1>5. HeadTaken <=> isDone[r]
  BY <1>1, <1>3 DEF HeadTaken
<1>6. \A q \in Readers : rpc'[q] \in {"out", "check"}
  BY <1>2, <1>4
<1>7. CASE isDone[r]
  <2>1. readIndex # writeIndex
    BY <1>5, <1>7 DEF SingleInv, AtReadIndex
  <2>2. ~SlotEmpty(readIndex)
    <3>1. size \in Nat \ {0} /\ readIndex \in Indices(size) /\ writeIndex \in Indices(size)
      BY SizeType DEF ListParts, IndexTypes
    <3> QED BY <2>1, <3>1 DEF SlotEmpty, adjustIndexForComparison, Indices
  <2>3. readIndex' = nextIndex(readIndex, size)
    BY <1>3, <1>4, <1>7, <2>2 DEF RemoveLast
  <2> QED BY <1>1, <1>4, <1>5, <1>6, <1>7, <2>3, SingleAdvance
<1>8. CASE ~isDone[r]
  <2>1. readIndex' = readIndex
    BY <1>4, <1>8 DEF RemoveLast
  <2>2. ~HeadTaken /\ ~HeadTaken'
    BY <1>4, <1>5, <1>8 DEF HeadTaken
  <2>3. \A i : Offset(i)' = Offset(i) /\ (Published(i)' <=> Published(i))
    BY <1>1, <2>1 DEF Offset, Published
  <2>4. SpaceReserved' /\ WrittenFirst' /\ HandedOnce'
    BY <1>1, <2>1 DEF SingleInv, SpaceReserved, WrittenFirst, HandedOnce
  <2>5. AtReadIndex'
    BY <1>4, <2>2 DEF AtReadIndex
  <2>6. PublishedReady'
    BY <1>1, <2>2, <2>3 DEF SingleInv, PublishedReady
  <2>7. SeenBehind'
    BY <1>6 DEF SeenBehind
  <2> QED BY <2>4, <2>5, <2>6, <2>7 DEF SingleInv
<1> QED BY <1>7, <1>8

(* The reader at readIndex is moved where readIndex is. *)
LEMMA ReadIndexAdjusted ==
  ASSUME NEW n \in Nat \ {0}, NEW m \in Nat \ {0}, n < m, NEW b \in Indices(n), NEW w \in Indices(n)
  PROVE  LET populated == Populated(b, b, w, m)
             j == IF (populated /\ b > w) \/ (~populated /\ b < w) THEN b + (m - n) ELSE b
         IN  j = ResizedReadIndex(b, w, n, m) /\ (j = w => b = w)
<1>1. Populated(b, b, w, m) <=> b # w
  BY DEF Populated, adjustIndexForComparison, Indices
<1> QED BY <1>1 DEF ResizedReadIndex, Indices

(* A resize keeps the only reader at readIndex, whatever the growth. *)
LEMMA SingleResize ==
  ASSUME ListParts, SingleInv, Resize
  PROVE  SingleInv'
<1>1. /\ size \in Nat \ {0} /\ size' \in Nat \ {0} /\ size < size'
      /\ readIndex \in Indices(size) /\ writeIndex \in Indices(size)
      /\ readIndex' = ResizedReadIndex(readIndex, writeIndex, size, size')
      /\ slots' = ResizedSlots(slots, readIndex, writeIndex, size, size', "empty")
      /\ index' = [r \in Readers |->
                     IF inQueue[r] THEN AdjustedIndex(index[r], size' - size, size')
                     ELSE index[r]]
      /\ UNCHANGED <<isDone, inQueue, writeIndex, wpc, newWrite, rpc, handed>>
      /\ wpc = "idle" /\ \A r \in Members : rpc[r] = "idle"
  BY ResizeSizes DEF ListParts, IndexTypes
<1>2. Members' = Members /\ (HeadTaken' <=> HeadTaken)
  BY <1>1 DEF Members, HeadTaken
<1>3. PICK n, m, b, w, R :
        /\ n = size /\ m = size' /\ b = readIndex /\ w = writeIndex /\ R = readIndex'
        /\ n \in Nat \ {0} /\ m \in Nat \ {0} /\ n < m
        /\ b \in Indices(n) /\ w \in Indices(n)
  BY <1>1
<1>4. R = ResizedReadIndex(b, w, n, m) /\ R \in Indices(m) /\ w \in Indices(m)
  BY <1>1, <1>3, ResizedIndices
<1>5. /\ (IF (Populated(b, b, w, m) /\ b > w) \/ (~Populated(b, b, w, m) /\ b < w)
          THEN b + (m - n) ELSE b) = R
      /\ R = w => b = w
  BY <1>3, <1>4, ReadIndexAdjusted
<1>6. \A r \in Members : index'[r] = R
  <2> SUFFICES ASSUME NEW r \in Members PROVE index'[r] = R
    OBVIOUS
  <2>1. index'[r] = AdjustedIndex(b, m - n, m)
    BY <1>1, <1>3 DEF Members, SingleInv, AtReadIndex
  <2> QED BY <1>3, <1>5, <2>1 DEF AdjustedIndex
<1>7. SpaceReserved' /\ WrittenFirst' /\ HandedOnce'
  BY <1>1 DEF SingleInv, SpaceReserved, WrittenFirst, HandedOnce
<1>8. AtReadIndex'
  BY <1>1, <1>2, <1>3, <1>5, <1>6 DEF SingleInv, AtReadIndex
<1>9. SeenBehind'
  <2>1. \A r \in Readers : rpc[r] \notin {"base", "compare"}
    BY <1>1, StepsOfMembers DEF ListParts
  <2> QED BY <1>1, <2>1 DEF SeenBehind
<1>10. PublishedReady'
  <2> SUFFICES ASSUME NEW j \in Indices(m), Published(j)'
               PROVE  slots'[j] = "ready" \/ (HeadTaken /\ j = R)
    BY <1>2, <1>3 DEF PublishedReady
  <2>1. PICK k : k = RingCount(R, j, m)
    OBVIOUS
  <2>2. Offset(j)' = k /\ Offset(writeIndex)' = RingCount(R, w, m)
    BY <1>1, <1>3, <1>4, <2>1, OffsetCount DEF Offset
  <2>3. RingCount(R, w, m) = RingCount(b, w, n)
    <3>1. RingCount(ResizedReadIndex(b, w, n, m), w, m) = RingCount(b, w, n)
      BY <1>3, RingResize
    <3> QED BY <1>4, <3>1
  <2>4. k < RingCount(b, w, n) /\ k \in 0 .. m - 1 /\ RingCount(b, w, n) \in 0 .. n - 1
    BY <1>3, <1>4, <2>1, <2>2, <2>3, OffsetRange DEF Published
  <2>5. k \in 0 .. n - 1
    BY <1>3, <2>4
  <2>6. PICK i : i = RingAt(b, k, n) /\ i \in Indices(n) /\ RingCount(b, i, n) = k
    BY <1>3, <2>5, SlotAt
  <2>7. slots'[j] = slots[i]
    BY <1>1, <1>3, <1>4, <2>1, <2>4, <2>6, ResizedContents
  <2>8. Published(i)
    <3>1. Offset(i) = k /\ Offset(writeIndex) = RingCount(b, w, n)
      BY <1>3, <2>6, Offsets DEF ListParts
    <3> QED BY <2>4, <3>1 DEF Published
  <2>9. slots[i] = "ready" \/ (HeadTaken /\ i = b)
    BY <1>3, <2>6, <2>8 DEF SingleInv, PublishedReady
  <2>10. i = b => j = R
    <3>1. i = b => k = 0
      BY <1>3, <2>6, OffsetRange
    <3> QED BY <1>3, <1>4, <2>1, <3>1, OffsetRange
  <2> QED BY <2>7, <2>9, <2>10
<1> QED BY <1>7, <1>8, <1>9, <1>10 DEF SingleInv

(* Every step of a queue with one reader. *)
LEMMA SingleStep ==
  ASSUME SingleReader, InitSize > 1, ListParts, SingleInv, [Next]_vars
  PROVE  SingleInv'
<1>1. CASE UNCHANGED vars
  <2>1. /\ UNCHANGED <<size, readIndex, writeIndex, index, isDone, inQueue>>
        /\ UNCHANGED <<slots, wpc, newWrite, rpc, seenW, handed>>
    BY <1>1 DEF vars, queueIndices, listVars, listEnds, readerFields, queueVars
  <2>2. Members' = Members /\ (HeadTaken' <=> HeadTaken)
    BY <2>1 DEF Members, HeadTaken
  <2> QED BY <2>1, <2>2 DEF SingleInv, SpaceReserved, WrittenFirst, AtReadIndex, PublishedReady, Published,
             Offset, SeenBehind, HandedOnce
<1>2. ASSUME NEW r \in Readers, RemoveStep(r) PROVE SingleInv'
  BY <1>2, SingleMove, SingleCheck DEF RemoveStep
<1> QED BY <1>1, <1>2, SingleAdd, SingleStart, SingleEnd, SingleResize DEF Next

(* At first nothing is published. *)
LEMMA SingleInit == ASSUME InitSize > 1, Init PROVE SingleInv
<1>1. /\ Members = {} /\ wpc = "idle" /\ handed = "ready" /\ writeIndex = readIndex
      /\ \A r \in Readers : rpc[r] = "out"
  BY DEF Init, ListInit, ReaderInit, Members
<1>2. \A i \in Indices(size) : ~Published(i)
  <2>1. IndexTypes
    BY ListPartsInit DEF ListParts
  <2>2. /\ size \in Nat /\ Offset(writeIndex) = 0
        /\ \A i \in Indices(size) : Offset(i) \in 0 .. size - 1
    BY <1>1, <2>1, Offsets DEF IndexTypes
  <2> SUFFICES ASSUME NEW i \in Indices(size) PROVE ~Published(i)
    OBVIOUS
  <2>3. Offset(i) \in 0 .. size - 1
    BY <2>2
  <2> QED BY <2>2, <2>3 DEF Published
<1> QED BY <1>1, <1>2 DEF SingleInv, SpaceReserved, WrittenFirst, AtReadIndex, HeadTaken, PublishedReady,
           SeenBehind, HandedOnce

(* The only reader never misreads a slot, and leaves a list of its own. *)
LEMMA SingleHistory ==
  ASSUME SingleReader, InitSize > 1, ListParts, SingleInv, ~left, ~misread, [Next]_vars
  PROVE  ~left' /\ ~misread'
<1>1. ASSUME NEW r \in Readers, Compare(r) PROVE ~left' /\ ~misread'
  <2>1. r \in Members /\ index[r] = readIndex /\ (~SeenEmpty(r) => Published(readIndex))
    BY <1>1, SingleSees
  <2>2. SlotEmpty(readIndex) <=> ~Published(readIndex)
    BY SlotEmptyOffset DEF ListParts, IndexTypes
  <2>3. ~(~SeenEmpty(r) /\ SlotEmpty(index[r]))
    BY <2>1, <2>2
  <2> QED BY <1>1, <2>3 DEF Compare, RemoveSlot
<1>2. ASSUME NEW r \in Readers, EndAccess(r) PROVE ~left' /\ ~misread'
  <2>1. r \in Members
    BY <1>2 DEF EndAccess, ListRemove, Members
  <2>2. Members = {r}
    BY <2>1, SingleList
  <2> QED BY <1>2, <2>2 DEF EndAccess
<1>3. CASE AddStep \/ Resize \/ UNCHANGED vars
  BY <1>3 DEF AddStep, AddIsFull, AddInsert, AddPublish, Resize, vars, queueVars, history
<1>4. ASSUME NEW r \in Readers, StartAccess(r) \/ (RemoveStep(r) /\ ~Compare(r))
      PROVE  ~left' /\ ~misread'
  BY <1>4 DEF StartAccess, RemoveStep, CheckSameSlot, MoveToFront, ReadWriteIndex, AdjustWriteIndex,
     Handled, history
<1> QED BY <1>1, <1>2, <1>3, <1>4 DEF Next

(* A queue with one reader, which may leave at any time and whose isEmpty  *)
(* reads the indices one by one.                                           *)
THEOREM SingleInvariance ==
  InitSize > 1 /\ SingleReader => (Spec => [](ListParts /\ SingleInv /\ ~left /\ ~misread))
<1> SUFFICES ASSUME InitSize > 1, SingleReader
             PROVE  Spec => [](ListParts /\ SingleInv /\ ~left /\ ~misread)
  OBVIOUS
<1> DEFINE Inv == ListParts /\ SingleInv /\ ~left /\ ~misread
<1>1. Init => Inv
  BY ListPartsInit, SingleInit DEF Init
<1>2. Inv /\ [Next]_vars => Inv'
  BY ListPartsStep, SingleStep, SingleHistory
<1> QED BY <1>1, <1>2, PTL DEF Spec

(* With one reader nothing else is needed: it is handed each entry once    *)
(* and the writer stays out of its slot, although isEmpty reads the        *)
(* indices one by one, whenever the reader leaves and comes back, and      *)
(* however the queue grows.                                                *)
THEOREM SingleReaderSafe ==
  InitSize > 1 /\ SingleReader => (Spec => [](HandedOnce /\ WriterDisjoint))
<1>1. SingleInv => HandedOnce /\ WriterDisjoint
  BY DEF SingleInv, AtReadIndex, HeadTaken, HandedOnce, WriterDisjoint
<1> QED BY <1>1, SingleInvariance, PTL

(* In a queue that doubles when it grows, the only reader passes over no   *)
(* entry.                                                                  *)
THEOREM SingleReaderSkipsNone ==
  InitSize > 1 /\ SingleReader /\ GrowsByDoubling => (Spec => []NoneSkipped)
<1>1. SlotInv => NoneSkipped
  BY DEF SlotInv
<1> QED BY <1>1, SingleInvariance, SlotInvariance, PTL

(* And no step loses an entry: it stays in its slot until the only reader  *)
(* takes it, through its leaving and coming back and through resizes.      *)
THEOREM SingleReaderKeepsAll ==
  InitSize > 1 /\ SingleReader /\ GrowsByDoubling => (Spec => NoneLost)
<1>1. ASSUME ListParts, SlotInv, Next PROVE EntriesStay
  BY <1>1, EntryKept DEF EntriesStay
<1>2. ASSUME ListParts, SlotInv, [Next]_vars PROVE [EntriesStay]_vars
  BY <1>1, <1>2
<1> QED BY <1>2, SingleInvariance, SlotInvariance, PTL DEF Spec, NoneLost
=============================================================================
