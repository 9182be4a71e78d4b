-------------------------- MODULE SyncReaderList --------------------------
(***************************************************************************)
(* SyncReaderList: the doubly linked list of ReaderIndex objects, one per  *)
(* reader of a SyncQueue, from back (the oldest slot in use, which is the  *)
(* queue's readIndex) to front (the newest slot assigned).  Every          *)
(* operation runs under indexMutex and is one step.                        *)
(*                                                                         *)
(* A pointer is a reader or NULL.  The stores of an operation are written  *)
(* in the order of the code, because some of them read a pointer that an   *)
(* earlier one has changed.  The first reader of an empty list points to   *)
(* itself, and the previous pointer of the back may be stale: neither is   *)
(* corrected by the code.                                                  *)
(***************************************************************************)
EXTENDS RingIndex, FiniteSets

CONSTANTS
  Readers,   \* threads that may read
  InitSize,  \* queueSize of the constructor
  MaxSize,   \* MAX_QUEUE_SIZE(getEntrySize())
  UIntMax,   \* UINT_MAX
  NULL

ASSUME ListAssumption ==
  /\ InitSize \in Nat \ {0}
  /\ MaxSize \in Nat
  /\ UIntMax \in Nat
  /\ MaxSize <= UIntMax
  /\ NULL \notin Readers

VARIABLES
  size,        \* currentSize of the queue
  readIndex,   \* of the queue
  writeIndex,  \* of the queue
  front, back,
  next,        \* ReaderIndex::next of every reader
  previous,    \* ReaderIndex::previous
  index,       \* ReaderIndex::index
  isDone,      \* ReaderIndex::isDone
  inQueue      \* ReaderIndex::inQueue

listEnds == <<front, back>>
readerFields == <<next, previous, index, isDone, inQueue>>
listVars == <<listEnds, readerFields>>
queueIndices == <<size, readIndex, writeIndex>>

(* The constructor of ReaderIndex. *)
ReaderInit ==
  /\ next = [r \in Readers |-> NULL]
  /\ previous = [r \in Readers |-> NULL]
  /\ index = [r \in Readers |-> -1]
  /\ isDone = [r \in Readers |-> FALSE]
  /\ inQueue = [r \in Readers |-> FALSE]

ListInit ==
  /\ size = InitSize
  /\ readIndex = 0
  /\ writeIndex = 0
  /\ front = NULL
  /\ back = NULL
  /\ ReaderInit

(* p->field = value *)
Store(field, p, value) == [field EXCEPT ![p] = value]

(* The list spans the whole queue: the slot after the front's is the back's. *)
Spans == nextIndex(index[front], size) = index[back]

(* SyncQueue::isEmpty for slot i, on one snapshot of the queue's indices. *)
SlotEmpty(i) ==
  adjustIndexForComparison(writeIndex, readIndex, size)
    <= adjustIndexForComparison(i, readIndex, size)

-----------------------------------------------------------------------------
(* add: the new reader gets the slot after the front's.  In a list that    *)
(* spans the queue it goes just behind the front, on the slot of the       *)
(* reader before it, as a reader that is done with that slot.              *)
AddFirst(r) ==
  /\ front = NULL
  /\ index' = [index EXCEPT ![r] = readIndex]
  /\ front' = r
  /\ back' = r
  /\ next' = Store(next, r, r)
  /\ previous' = Store(previous, r, r)
  /\ isDone' = [isDone EXCEPT ![r] = FALSE]

AddAtFront(r) ==
  /\ front # NULL
  /\ ~Spans
  /\ index' = [index EXCEPT ![r] = nextIndex(index[front], size)]
  /\ previous' = Store(previous, r, front)
  /\ next' = Store(Store(next, r, NULL), front, r)
  /\ front' = r
  /\ isDone' = [isDone EXCEPT ![r] = FALSE]
  /\ UNCHANGED back

(* Mutant of AddBehindFront: the new reader counts as not done. *)
AddBehindFrontNotDone(r) ==
  /\ front # NULL
  /\ Spans
  /\ LET before == previous[front]
     IN  /\ next' = Store(Store(next, r, front), before, r)
         /\ previous' = Store(Store(previous, r, before), front, r)
         /\ index' = [index EXCEPT ![r] = index[before]]
  /\ isDone' = [isDone EXCEPT ![r] = FALSE]
  /\ UNCHANGED <<front, back>>

AddBehindFront(r) ==
  /\ front # NULL
  /\ Spans
  /\ LET before == previous[front]
     IN  /\ next' = Store(Store(next, r, front), before, r)
         /\ previous' = Store(Store(previous, r, before), front, r)
         /\ index' = [index EXCEPT ![r] = index[before]]
  /\ isDone' = [isDone EXCEPT ![r] = TRUE]
  /\ UNCHANGED <<front, back>>

ListAdd(r) ==
  /\ ~inQueue[r]
  /\ AddFirst(r) \/ AddAtFront(r) \/ AddBehindFront(r)
  /\ inQueue' = [inQueue EXCEPT ![r] = TRUE]
  /\ UNCHANGED queueIndices

-----------------------------------------------------------------------------
(* moveToFront: a reader that is done with its slot asks for another.      *)

(* Mutant of MoveFromWithin: moveOut does not relink the previous pointer  *)
(* of the reader after r.                                                  *)
MoveFromWithinHalfLinked(r) ==
  /\ r # front
  /\ index' = [index EXCEPT ![r] = nextIndex(index[front], size)]
  /\ IF r = back
     THEN back' = next[r] /\ readIndex' = index[next[r]]
     ELSE UNCHANGED <<back, readIndex>>
  /\ LET unlinked == IF r = back THEN next ELSE Store(next, previous[r], next[r])
     IN  next' = Store(Store(unlinked, r, NULL), front, r)
  /\ previous' = Store(previous, r, front)
  /\ front' = r

(* moveOut and the relinking at the front.  The queue's readIndex follows  *)
(* the back of the list.                                                   *)
MoveFromWithin(r) ==
  /\ r # front
  /\ index' = [index EXCEPT ![r] = nextIndex(index[front], size)]
  /\ IF r = back
     THEN back' = next[r] /\ readIndex' = index[next[r]]
     ELSE UNCHANGED <<back, readIndex>>
  /\ LET unlinked == IF r = back THEN next ELSE Store(next, previous[r], next[r])
     IN  next' = Store(Store(unlinked, r, NULL), front, r)
  /\ previous' = Store(Store(previous, next[r], previous[r]), r, front)
  /\ front' = r

(* Mutant of MoveFrontOn: the only reader does not update readIndex. *)
MoveFrontOnStale(r) ==
  /\ r = front
  /\ index' = [index EXCEPT ![r] = nextIndex(index[front], size)]
  /\ UNCHANGED <<readIndex, front, back, next, previous>>

MoveFrontOn(r) ==
  /\ r = front
  /\ index' = [index EXCEPT ![r] = nextIndex(index[front], size)]
  /\ readIndex' = IF r = back THEN index'[r] ELSE readIndex
  /\ UNCHANGED <<front, back, next, previous>>

MoveAhead(r) ==
  /\ inQueue[r]
  /\ ~Spans
  /\ MoveFromWithin(r) \/ MoveFrontOn(r)
  /\ UNCHANGED <<size, writeIndex, isDone, inQueue>>

(* The list spans the queue and r is its back: r goes just behind the      *)
(* front, on the slot of the reader there, which frees its own slot.  A    *)
(* list of two is left as it is.                                           *)
Squeeze(r) ==
  /\ inQueue[r]
  /\ Spans
  /\ r = back
  /\ IF next[r] # front
     THEN LET newBack == next[r]
              cut == Store(Store(previous, newBack, NULL), next[newBack], newBack)
              before == cut[front]
          IN  /\ back' = newBack
              /\ next' = Store(Store(next, r, front), before, r)
              /\ previous' = Store(Store(cut, r, before), front, r)
              /\ index' = [index EXCEPT ![r] = index[before]]
     ELSE UNCHANGED <<back, next, previous, index>>
  /\ readIndex' = index'[back']
  /\ UNCHANGED <<size, writeIndex, front, isDone, inQueue>>

(* The list spans the queue: nothing to do but to wait for its back. *)
CannotMove(r) ==
  /\ inQueue[r]
  /\ Spans
  /\ r # back
  /\ UNCHANGED <<queueIndices, listVars>>

-----------------------------------------------------------------------------
(* remove: a reader leaves the list.                                       *)

(* Its slot is still to be read: the front takes the slot over, and the    *)
(* reader behind the front becomes the front, unless that is the leaver.   *)
GiveSlotToFront(r) ==
  /\ r # front
  /\ ~isDone[r]
  /\ index' = [index EXCEPT ![front] = index[r]]
  /\ back' = IF r = back THEN front ELSE back
  /\ LET newFront == IF next[r] = front THEN front ELSE previous[front]
         cut == IF newFront = front THEN next ELSE Store(next, newFront, NULL)
         linked == IF r = back THEN cut ELSE Store(cut, previous[r], front)
         moved == Store(previous, front, previous[r])
     IN  /\ front' = newFront
         /\ next' = Store(IF newFront = front THEN linked
                          ELSE Store(linked, front, linked[r]), r, NULL)
         /\ previous' = Store(IF newFront = front THEN moved
                              ELSE Store(moved, linked[r], front), r, NULL)
  /\ UNCHANGED readIndex

(* It is done with its slot: it is taken out of the list. *)
Unlink(r) ==
  /\ r # front
  /\ isDone[r]
  /\ back' = IF r = back THEN next[r] ELSE back
  /\ next' = Store(IF r = back THEN next ELSE Store(next, previous[r], next[r]), r, NULL)
  /\ previous' = Store(Store(previous, next[r], previous[r]), r, NULL)
  /\ UNCHANGED <<front, index, readIndex>>

(* It is the only reader. *)
RemoveLast(r) ==
  /\ r = front
  /\ r = back
  /\ readIndex' = IF isDone[r] /\ ~SlotEmpty(index[r])
                  THEN nextIndex(index[r], size) ELSE readIndex
  /\ front' = NULL
  /\ back' = NULL
  /\ next' = Store(next, r, NULL)
  /\ previous' = Store(previous, r, NULL)
  /\ UNCHANGED index

(* It is the front of several: the reader behind it becomes the front. *)
RemoveFront(r) ==
  /\ r = front
  /\ r # back
  /\ front' = previous[r]
  /\ next' = Store(Store(next, r, NULL), previous[r], NULL)
  /\ previous' = Store(previous, r, NULL)
  /\ UNCHANGED <<back, index, readIndex>>

ListRemove(r) ==
  /\ inQueue[r]
  /\ GiveSlotToFront(r) \/ Unlink(r) \/ RemoveLast(r) \/ RemoveFront(r)
  /\ inQueue' = [inQueue EXCEPT ![r] = FALSE]
  /\ isDone' = [isDone EXCEPT ![r] = FALSE]
  /\ UNCHANGED <<size, writeIndex>>

-----------------------------------------------------------------------------
(* Mutant of AdjustedIndex: readers of populated slots are not moved. *)
AdjustedIndexUnpopulatedOnly(i, adjustment, newSize) ==
  IF ~Populated(i, readIndex, writeIndex, newSize) /\ i < writeIndex
  THEN i + adjustment ELSE i

(* adjust, called by SyncQueue::resize once the queue has newSize slots,   *)
(* with the adjustment newSize - size and the read index before the resize *)
(* (the unprimed readIndex).  It visits the readers of the list.           *)
AdjustedIndex(i, adjustment, newSize) ==
  LET slotIsPopulated == Populated(i, readIndex, writeIndex, newSize)
  IN  IF (slotIsPopulated /\ i > writeIndex) \/ (~slotIsPopulated /\ i < writeIndex)
      THEN i + adjustment ELSE i

ListAdjust(newSize) ==
  /\ index' = [r \in Readers |->
                 IF inQueue[r] THEN AdjustedIndex(index[r], newSize - size, newSize)
                 ELSE index[r]]
  /\ UNCHANGED <<front, back, next, previous, isDone, inQueue>>

-----------------------------------------------------------------------------
(* The list as a sequence, from back to front along the next pointers. *)
Members == {r \in Readers : inQueue[r]}

Order ==
  LET n == Cardinality(Members)
      at[k \in 1 .. n] == IF k = 1 THEN back
                          ELSE LET p == at[k - 1] IN IF p = NULL THEN NULL ELSE next[p]
  IN  [k \in 1 .. n |-> at[k]]

(* How far a slot is from the base of the queue, in ring order. *)
Offset(i) == adjustIndexForComparison(i, readIndex, size) - readIndex

(* The pointers form one list of exactly the readers that joined: from     *)
(* back along next every reader is met once and the front last, and        *)
(* previous leads back.  moveToFront, squeeze and remove relink it from    *)
(* the middle and from both ends.                                          *)
ListIntact ==
  IF Members = {} THEN front = NULL /\ back = NULL
  ELSE LET n == Cardinality(Members)
           order == Order
       IN  /\ {order[k] : k \in 1 .. n} = Members
           /\ order[n] = front
           /\ \A k \in 2 .. n : previous[order[k]] = order[k - 1]

(* The slots of the readers lie in ring order from the back, which holds   *)
(* the queue's readIndex, to the front, and a reader that shares its slot  *)
(* with the reader before it is done.                                      *)
RingOrdered ==
  LET order == Order
  IN  /\ Members # {} => index[back] = readIndex
      /\ \A k \in 2 .. Cardinality(Members) :
           LET behind == index[order[k - 1]]
               ahead == index[order[k]]
           IN  \/ Offset(behind) < Offset(ahead)
               \/ behind = ahead /\ isDone[order[k]]
=============================================================================
