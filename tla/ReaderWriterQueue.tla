------------------------- MODULE ReaderWriterQueue -------------------------
(***************************************************************************)
(* ReaderWriterQueue (one writer) and SyncWriterQueue (many writers behind *)
(* addMutex): a circular queue whose reader and writers share no lock.     *)
(*                                                                         *)
(* Each read or write of a shared field (readIndex, writeIndex, a slot,    *)
(* the add counter) is a step of its own, so every interleaving of the     *)
(* reader with the writers is explored.  The content of a slot while       *)
(* copyTo is running is Torn.                                              *)
(***************************************************************************)
EXTENDS RingIndex, Sequences

CONSTANTS
  Writers,     \* threads that call add
  Entries,     \* the entries they add
  Compatible,  \* those the data array can store (isCompatibleEntry)
  SyncWriter,  \* TRUE: SyncWriterQueue::add, FALSE: ReaderWriterQueue::add
  InitSize,    \* queueSize of the constructor
  MaxSize,     \* MAX_QUEUE_SIZE(getEntrySize())
  UIntMax,     \* UINT_MAX
  None,        \* no thread, no entry
  Torn,        \* a slot in the middle of being written
  Unwritten    \* a slot nobody has written

ASSUME QueueAssumption ==
  /\ InitSize \in Nat \ {0}
  /\ MaxSize \in Nat
  /\ UIntMax \in Nat
  /\ MaxSize <= UIntMax
  /\ Compatible \subseteq Entries
  /\ None \notin Writers \cup Entries
  /\ SyncWriter \in BOOLEAN
  /\ SyncWriter \/ \A v, w \in Writers : v = w

IS_FULL == -1
CANNOT_ADD == -2

VARIABLES
  size,        \* currentSize
  slots,       \* *queueData[i]
  readIndex,
  writeIndex,
  addedCount,  \* stats.addedCount
  addMutex,    \* the writer that holds it, or None
  wpc,         \* per writer: the next step of its add call
  arg,         \* per writer: the entry being added
  index,       \* per writer: nextIndex of add, then the value it returns
  rpc,         \* the next step of the reader's remove call
  held         \* the slot the reader has a reference to

shared == <<size, slots, readIndex, writeIndex, addedCount>>
writerVars == <<addMutex, wpc, arg, index>>
readerVars == <<rpc, held>>
vars == <<shared, writerVars, readerVars>>

WriterSteps == {"idle", "isFull", "insert", "copyTo", "publish", "count", "release"}
ReaderSteps == {"idle", "bind", "advance", "using"}

Init ==
  /\ size = InitSize
  /\ slots = [i \in Indices(InitSize) |-> Unwritten]
  /\ readIndex = 0
  /\ writeIndex = 0
  /\ addedCount = 0
  /\ addMutex = None
  /\ wpc = [w \in Writers |-> "idle"]
  /\ arg = [w \in Writers |-> None]
  /\ index = [w \in Writers |-> 0]
  /\ rpc = "idle"
  /\ held = 0

Goto(w, step) == wpc' = [wpc EXCEPT ![w] = step]

-----------------------------------------------------------------------------
(* The writers: add(entry).                                                *)

(* SyncWriterQueue::add takes addMutex first; a call that has to wait for  *)
(* it has not started yet.                                                 *)
CallAdd(w) ==
  /\ wpc[w] = "idle"
  /\ SyncWriter => addMutex = None
  /\ addMutex' = IF SyncWriter THEN w ELSE addMutex
  /\ \E e \in Entries : arg' = [arg EXCEPT ![w] = e]
  /\ Goto(w, "isFull")
  /\ UNCHANGED <<shared, index, readerVars>>

(* Mutant of IsFull: the full check is missing. *)
IsFullUnchecked(w) ==
  /\ wpc[w] = "isFull"
  /\ index' = [index EXCEPT ![w] = nextIndex(writeIndex, size)]
  /\ Goto(w, "insert")
  /\ UNCHANGED <<shared, addMutex, arg, readerVars>>

(* isFull and the early return of tryInsert. *)
IsFull(w) ==
  /\ wpc[w] = "isFull"
  /\ LET next == nextIndex(writeIndex, size)
     IN  IF next = readIndex
         THEN index' = [index EXCEPT ![w] = IS_FULL] /\ Goto(w, "release")
         ELSE index' = [index EXCEPT ![w] = next] /\ Goto(w, "insert")
  /\ UNCHANGED <<shared, addMutex, arg, readerVars>>

(* insert(entry): the pointer of the slot is set and copyTo starts, or the *)
(* entry is not one the queue can store.                                   *)
Insert(w) ==
  /\ wpc[w] = "insert"
  /\ IF arg[w] \in Compatible
     THEN /\ slots' = [slots EXCEPT ![writeIndex] = Torn]
          /\ Goto(w, "copyTo")
          /\ UNCHANGED index
     ELSE /\ index' = [index EXCEPT ![w] = CANNOT_ADD]
          /\ Goto(w, "release")
          /\ UNCHANGED slots
  /\ UNCHANGED <<size, readIndex, writeIndex, addedCount, addMutex, arg, readerVars>>

CopyTo(w) ==
  /\ wpc[w] = "copyTo"
  /\ slots' = [slots EXCEPT ![writeIndex] = arg[w]]
  /\ Goto(w, "publish")
  /\ UNCHANGED <<size, readIndex, writeIndex, addedCount, addMutex, arg, index, readerVars>>

(* writeIndex = nextIndex makes the entry visible; add will return the old *)
(* write index.                                                            *)
Publish(w) ==
  /\ wpc[w] = "publish"
  /\ writeIndex' = index[w]
  /\ index' = [index EXCEPT ![w] = writeIndex]
  /\ Goto(w, "count")
  /\ UNCHANGED <<size, slots, readIndex, addedCount, addMutex, arg, readerVars>>

(* stats.incrementAddedCount() on an unsigned int. *)
CountAdd(w) ==
  /\ wpc[w] = "count"
  /\ addedCount' = (addedCount + 1) % (UIntMax + 1)
  /\ Goto(w, "release")
  /\ UNCHANGED <<size, slots, readIndex, writeIndex, addMutex, arg, index, readerVars>>

AddReturns(w) ==
  /\ wpc[w] = "release"
  /\ addMutex' = IF SyncWriter THEN None ELSE addMutex
  /\ arg' = [arg EXCEPT ![w] = None]
  /\ index' = [index EXCEPT ![w] = 0]
  /\ Goto(w, "idle")
  /\ UNCHANGED <<shared, readerVars>>

-----------------------------------------------------------------------------
(* The reader: remove(readerIndex), then the use of the entry it returned, *)
(* which lasts until the reader comes back for another one.                *)

(* Mutant of IsEmpty: a full queue passes as empty. *)
IsEmptyWhenFull ==
  /\ rpc = "idle"
  /\ rpc' = IF writeIndex \in {readIndex, (readIndex + size - 1) % size} THEN "idle" ELSE "bind"
  /\ UNCHANGED <<shared, writerVars, held>>

(* isEmpty; nullEntry is returned when readIndex = writeIndex. *)
IsEmpty ==
  /\ rpc = "idle"
  /\ rpc' = IF readIndex = writeIndex THEN "idle" ELSE "bind"
  /\ UNCHANGED <<shared, writerVars, held>>

Bind ==
  /\ rpc = "bind"
  /\ held' = readIndex
  /\ rpc' = "advance"
  /\ UNCHANGED <<shared, writerVars>>

Advance ==
  /\ rpc = "advance"
  /\ readIndex' = nextIndex(readIndex, size)
  /\ rpc' = "using"
  /\ UNCHANGED <<size, slots, writeIndex, addedCount, writerVars, held>>

DoneUsing ==
  /\ rpc = "using"
  /\ rpc' = "idle"
  /\ UNCHANGED <<shared, writerVars, held>>

-----------------------------------------------------------------------------
(* resize(getNewQueueSize()).  Its callers stop all access to the queue    *)
(* first: no add or remove is running and the reader holds no entry.       *)
Resize ==
  /\ rpc = "idle"
  /\ \A w \in Writers : wpc[w] = "idle"
  /\ LET newSize == getNewQueueSize(size, MaxSize, UIntMax)
     IN  /\ size < newSize
         /\ size' = newSize
         /\ slots' = ResizedSlots(slots, readIndex, writeIndex, size, newSize, Unwritten)
         /\ readIndex' = ResizedReadIndex(readIndex, writeIndex, size, newSize)
  /\ held' = 0
  /\ UNCHANGED <<writeIndex, addedCount, writerVars, rpc>>

-----------------------------------------------------------------------------
AddStep(w) ==
  \/ CallAdd(w) \/ IsFull(w) \/ Insert(w) \/ CopyTo(w)
  \/ Publish(w) \/ CountAdd(w) \/ AddReturns(w)

RemoveStep == IsEmpty \/ Bind \/ Advance \/ DoneUsing

Next == (\E w \in Writers : AddStep(w)) \/ RemoveStep \/ Resize

Spec == Init /\ [][Next]_vars

(* The consumer thread keeps calling remove, and a thread inside add runs  *)
(* on; nobody has to call add or to resize.                                *)
FairSpec ==
  /\ Spec
  /\ WF_vars(RemoveStep)
  /\ \A w \in Writers : WF_vars(wpc[w] # "idle" /\ AddStep(w))

-----------------------------------------------------------------------------
(* Every field keeps its type; the indices stay within the current ring,   *)
(* and the add counter within an unsigned int.                             *)
TypeOK ==
  /\ size \in Nat \ {0}
  /\ slots \in [Indices(size) -> Entries \cup {Torn, Unwritten}]
  /\ readIndex \in Indices(size)
  /\ writeIndex \in Indices(size)
  /\ addedCount \in 0 .. UIntMax
  /\ addMutex \in Writers \cup {None}
  /\ wpc \in [Writers -> WriterSteps]
  /\ arg \in [Writers -> Entries \cup {None}]
  /\ index \in [Writers -> Indices(size) \cup {IS_FULL, CANNOT_ADD}]
  /\ rpc \in ReaderSteps
  /\ held \in Indices(size)

(* A slot the reader refers to is never the one a writer is storing into:  *)
(* the reader is handed a reference into the queue, with no lock and no    *)
(* copy, and relies on isFull keeping the slot before readIndex unused.    *)
NoOverlap ==
  \A w \in Writers :
    ~(wpc[w] \in {"insert", "copyTo", "publish"} /\ rpc \in {"advance", "using"}
        /\ held = writeIndex)

(* At most one thread is between the full check and the end of add. *)
OneWriter ==
  \A v, w \in Writers : wpc[v] # "idle" /\ wpc[w] # "idle" => v = w

-----------------------------------------------------------------------------
(* The refinement mapping to FifoQueue. *)
Contents == [k \in 1 .. RingCount(readIndex, writeIndex, size) |->
               slots[RingAt(readIndex, k - 1, size)]]

AnswerOf(w) ==
  CASE wpc[w] \in {"count", "release"} /\ index[w] = IS_FULL -> "full"
    [] wpc[w] \in {"count", "release"} /\ index[w] = CANNOT_ADD -> "incompatible"
    [] wpc[w] \in {"count", "release"} /\ index[w] \in Nat -> "added"
    [] OTHER -> "none"

(* Adds published, including one whose counter update is still to come. *)
Total ==
  IF \E w \in Writers : wpc[w] = "count"
  THEN (addedCount + 1) % (UIntMax + 1) ELSE addedCount

ReaderOf ==
  CASE rpc = "idle" -> "idle"
    [] rpc \in {"bind", "advance"} -> "removing"
    [] rpc = "using" -> "using"

F == INSTANCE FifoQueue WITH
       contents <- Contents,
       capacity <- size - 1,
       answer <- [w \in Writers |-> AnswerOf(w)],
       reader <- ReaderOf,
       current <- IF rpc = "using" THEN slots[held] ELSE None,
       total <- Total

(* The queue behaves as a bounded FIFO: nothing lost, nothing twice, in    *)
(* order; IS_FULL only when full; the entry in use never changes.          *)
ImplementsFifo == F!Spec

(* A published entry does not stay at the head of the queue: the reader    *)
(* that keeps calling remove gets to use an entry.                         *)
HeadIsTaken == Contents # <<>> ~> rpc = "using"
=============================================================================
