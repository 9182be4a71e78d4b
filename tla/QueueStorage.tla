--------------------------- MODULE QueueStorage ---------------------------
(***************************************************************************)
(* The memory of a queue: the data array with a cell for every slot, the   *)
(* queue's array of pointers into those cells, and what add, remove,       *)
(* resize and the destructors do to both.                                  *)
(*                                                                         *)
(* A cell has a member for every type of entry it can store, and a pointer *)
(* says which one is used.  Arrays are known by the order of their         *)
(* allocation.  How readers and writers interleave is the business of the  *)
(* modules of the queues, so add and remove are one step here; a resize    *)
(* has a step for every turn of its loop.                                  *)
(***************************************************************************)
EXTENDS RingIndex, Sequences, FiniteSets

CONSTANTS
  InitSize, MaxSize, UIntMax,
  MaxAdds  \* bound: entries added

ASSUME StorageAssumption ==
  /\ InitSize \in Nat \ {0}
  /\ MaxSize \in Nat
  /\ UIntMax \in Nat
  /\ MaxSize <= UIntMax
  /\ MaxAdds \in Nat

VARIABLES
  heap,        \* the arrays ever allocated: their cells
  freed,       \* those that were deleted
  dataEntries, \* the array in use
  single,      \* it is a SingleTypeDataArray, not a SampleDataArray
  size, readIndex, writeIndex,
  queueData,   \* per slot: a pointer
  oldData,     \* the pointers of before the resize, or <<>>
  cursor,      \* the next slot that the resize copies
  phase,       \* "use", "copy" (in a resize), or "end" once the queue is deleted
  held,        \* the entry the reader got last: the pointer and what it held
  paused,      \* the reader sleeps in a pause
  queued,      \* the entries in the queue, oldest first
  added        \* number of entries added

arrayVars == <<heap, freed, dataEntries, single>>
indexVars == <<size, readIndex, writeIndex>>
resizeVars == <<oldData, cursor, phase>>
readerVars == <<held, paused>>
vars == <<arrayVars, indexVars, queueData, resizeVars, readerVars, queued, added>>

Types == {"entry1", "entry2", "other"}
Garbage == [array |-> 0, index |-> 0, member |-> "garbage"]
NULL == [array |-> 0, index |-> 0, member |-> "null"]
nullEntry == [array |-> 0, index |-> 0, member |-> "nullEntry"]
Nothing == [at |-> nullEntry, was |-> 0]

-----------------------------------------------------------------------------
(* The data array.                                                         *)

(* The members of a cell hold the numbers of entries, 0 as constructed. *)
NewArray(n) == [i \in Indices(n) |-> [entry1 |-> 0, entry2 |-> 0]]

(* Mutant of sampleMember: the members are confused. *)
sampleMemberFirst(type) == IF type = "other" THEN "null" ELSE "entry1"

(* QueueData::getQueueEntry: the member for a type. *)
sampleMember(type) == IF type \in {"entry1", "entry2"} THEN type ELSE "null"

(* A cell of SingleTypeDataArray has one, whatever the type. *)
singleMember(type) == "entry1"

(* SingleTypeDataArray leaves the answer to its subclasses; they are       *)
(* assumed to accept the type they store.                                  *)
isCompatibleEntry(type) == single => type = "entry1"

(* ProcessingQueueDataArray::getQueueEntry. *)
getQueueEntry(array, cells, index, type) ==
  LET member == IF single THEN singleMember(type) ELSE sampleMember(type)
  IN  IF index \in DOMAIN cells /\ member # "null"
      THEN [array |-> array, index |-> index, member |-> member]
      ELSE NULL

Live(pointer) == pointer.array \in (1 .. Len(heap)) \ freed
Deref(pointer) == heap[pointer.array][pointer.index][pointer.member]

(* copyTo: operator= of the destination copies an entry of its own type,   *)
(* and nothing of another one.                                             *)
copyTo(cells, pointer, type, entry) ==
  IF pointer.member = type
  THEN [cells EXCEPT ![pointer.index] = [@ EXCEPT ![type] = entry]]
  ELSE cells

-----------------------------------------------------------------------------
(* The constructor leaves the pointers uninitialized. *)
Init ==
  /\ heap = <<NewArray(InitSize)>> /\ freed = {}
  /\ dataEntries = 1
  /\ single \in BOOLEAN
  /\ size = InitSize /\ readIndex = 0 /\ writeIndex = 0
  /\ queueData = [i \in Indices(InitSize) |-> Garbage]
  /\ oldData = <<>> /\ cursor = 0 /\ phase = "use"
  /\ held = Nothing /\ paused = FALSE
  /\ queued = <<>>
  /\ added = 0

(* isFull *)
Full == nextIndex(writeIndex, size) = readIndex

(* insert: an entry that cannot be stored (CANNOT_ADD) changes nothing. *)
Add(type) ==
  /\ phase = "use"
  /\ added < MaxAdds
  /\ ~Full
  /\ isCompatibleEntry(type)
  /\ LET pointer == getQueueEntry(dataEntries, heap[dataEntries], writeIndex, type)
     IN  /\ pointer # NULL
         /\ queueData' = [queueData EXCEPT ![writeIndex] = pointer]
         /\ heap' = [heap EXCEPT ![dataEntries] = copyTo(@, pointer, type, added + 1)]
  /\ writeIndex' = nextIndex(writeIndex, size)
  /\ added' = added + 1
  /\ queued' = Append(queued, [type |-> type, entry |-> added + 1])
  /\ UNCHANGED <<freed, dataEntries, single, size, readIndex, resizeVars, readerVars>>

(* remove: the reader gets a reference and keeps it until it returns for   *)
(* another entry; the null entry when there is none.                       *)
Remove ==
  /\ phase = "use" /\ ~paused
  /\ \/ /\ readIndex # writeIndex
        /\ held' = [at |-> queueData[readIndex], was |-> Head(queued).entry]
        /\ readIndex' = nextIndex(readIndex, size)
        /\ queued' = Tail(queued)
     \/ /\ readIndex = writeIndex
        /\ held' = Nothing
        /\ UNCHANGED <<readIndex, queued>>
  /\ UNCHANGED <<arrayVars, size, writeIndex, queueData, resizeVars, paused, added>>

(* Mutant of Pause: pause(false), which does not wait for the reader. *)
PauseAtOnce ==
  /\ phase = "use" /\ ~paused
  /\ paused' = TRUE
  /\ UNCHANGED <<arrayVars, indexVars, queueData, resizeVars, held, queued, added>>

(* pause(true): the reader, back from handling its entry, sleeps.  Until   *)
(* then it goes on emptying the queue that a producer has found full.      *)
Pause ==
  /\ phase = "use" /\ ~paused
  /\ paused' = TRUE
  /\ held' = Nothing
  /\ UNCHANGED <<arrayVars, indexVars, queueData, resizeVars, queued, added>>

Resume ==
  /\ phase = "use" /\ paused
  /\ paused' = FALSE
  /\ UNCHANGED <<arrayVars, indexVars, queueData, resizeVars, held, queued, added>>

-----------------------------------------------------------------------------
(* resize, by a producer that has waited for the pause; the queue may hold *)
(* any number of entries by now.  A size that is not larger does nothing.  *)
BeginResize ==
  /\ phase = "use" /\ paused
  /\ LET newSize == getNewQueueSize(size, MaxSize, UIntMax)
     IN  /\ newSize > size
         /\ heap' = Append(heap, NewArray(newSize))
         /\ dataEntries' = Len(heap) + 1
         /\ oldData' = queueData
         /\ queueData' = [i \in Indices(newSize) |-> Garbage]
         /\ size' = newSize
  /\ cursor' = readIndex
  /\ phase' = "copy"
  /\ UNCHANGED <<freed, single, readIndex, writeIndex, readerVars, queued, added>>

(* newIndex of the loop *)
NewIndex == MovedIndex(cursor, writeIndex, size - Cardinality(DOMAIN oldData))

(* The type of an entry is that of the member it is stored in. *)
CopySlot ==
  /\ phase = "copy"
  /\ Populated(cursor, readIndex, writeIndex, size)
  /\ LET old == oldData[cursor]
         new == getQueueEntry(dataEntries, heap[dataEntries], NewIndex, old.member)
     IN  IF new # NULL
         THEN /\ queueData' = [queueData EXCEPT ![NewIndex] = new]
              /\ heap' = [heap EXCEPT ![dataEntries] = copyTo(@, new, old.member, Deref(old))]
         ELSE /\ queueData' = [queueData EXCEPT ![NewIndex] = nullEntry]
              /\ UNCHANGED heap
  /\ cursor' = nextIndex(cursor, Cardinality(DOMAIN oldData))
  /\ UNCHANGED <<freed, dataEntries, single, indexVars, oldData, phase, readerVars, queued, added>>

(* Mutant of oldEntries: the array in use. *)
oldEntriesNew == dataEntries

(* The array that dataEntries->resize returned. *)
oldEntries == dataEntries - 1

EndResize ==
  /\ phase = "copy"
  /\ ~Populated(cursor, readIndex, writeIndex, size)
  /\ readIndex' = ResizedReadIndex(readIndex, writeIndex, Cardinality(DOMAIN oldData), size)
  /\ freed' = freed \cup {oldEntries}
  /\ oldData' = <<>> /\ cursor' = 0 /\ phase' = "use"
  /\ UNCHANGED <<heap, dataEntries, single, size, writeIndex, queueData, readerVars, queued, added>>

-----------------------------------------------------------------------------
(* The end: the queue, whose deleteQueueData is false, then the array. *)
DeleteQueue ==
  /\ phase = "use" /\ held = Nothing
  /\ phase' = "end"
  /\ queueData' = <<>>
  /\ queued' = <<>>
  /\ UNCHANGED <<arrayVars, indexVars, oldData, cursor, readerVars, added>>

DeleteArray ==
  /\ phase = "end"
  /\ freed' = freed \cup {dataEntries}
  /\ UNCHANGED <<heap, dataEntries, single, indexVars, queueData, resizeVars, readerVars, queued, added>>

-----------------------------------------------------------------------------
Next ==
  \/ \E type \in Types : Add(type)
  \/ Remove \/ Pause \/ Resume
  \/ BeginResize \/ CopySlot \/ EndResize
  \/ DeleteQueue \/ DeleteArray

Spec == Init /\ [][Next]_vars

-----------------------------------------------------------------------------
(* Types; the data array has a cell for every slot of the queue.           *)
TypeOK ==
  /\ dataEntries = Len(heap)
  /\ readIndex \in Indices(size) /\ writeIndex \in Indices(size)
  /\ phase \in {"use", "copy", "end"}
  /\ phase # "end" => /\ DOMAIN queueData = Indices(size)
                      /\ dataEntries \notin freed
                      /\ DOMAIN heap[dataEntries] = Indices(size)
  /\ held.was \in 0 .. added
  /\ paused \in BOOLEAN

(* The pointer of every published slot leads into the array in use, to the *)
(* member of the type that was added, and there to that entry: through     *)
(* resizes of a full, a partly filled and an empty ring, and although a    *)
(* cell still holds older entries of both types.                           *)
(* No uninitialized pointer is ever followed.                              *)
SlotsHoldQueue ==
  phase = "use" =>
    /\ Len(queued) = RingCount(readIndex, writeIndex, size)
    /\ \A k \in 1 .. Len(queued) :
         LET i == RingAt(readIndex, k - 1, size)
         IN  /\ queueData[i].array = dataEntries
             /\ queueData[i].index = i
             /\ queueData[i].member = queued[k].type
             /\ Deref(queueData[i]) = queued[k].entry

(* The queue does not copy for readers: the entry a reader refers to stays *)
(* as it was, and its array alive, until the reader returns.               *)
HeldIntact == held # Nothing => Live(held.at) /\ Deref(held.at) = held.was

(* Of all arrays ever allocated only the one in use, and during a resize   *)
(* the one before it, is not deleted.                                      *)
NoLeak ==
  (1 .. Len(heap)) \ freed
    \subseteq {dataEntries} \cup (IF phase = "copy" THEN {oldEntries} ELSE {})
=============================================================================
