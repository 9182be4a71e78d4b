----------------------------- MODULE SyncQueue -----------------------------
(***************************************************************************)
(* SyncQueue: the circular queue with many readers, which share the        *)
(* SyncReaderList, and no lock between readers and writers.                *)
(*                                                                         *)
(* Every reader has a slot of its own and reads it in place.  What a slot  *)
(* holds is abstracted to what decides whether an entry is handled exactly *)
(* once: nothing, an entry nobody has taken, or an entry somebody took.    *)
(* Adding is one writer's business at any time (addMutex, or the single    *)
(* writer of ReaderWriterQueue, see that module), so one writer stands for *)
(* all of them.                                                            *)
(***************************************************************************)
EXTENDS SyncReaderList

CONSTANT Leavers  \* readers whose worker may end while the queue is in use

ASSUME SyncQueueAssumption == Leavers \subseteq Readers

VARIABLES
  slots,    \* "empty", "ready" or "taken", for every slot
  wpc,      \* the next step of the add call
  newWrite, \* nextIndex of add
  rpc,      \* per reader: the next step of its remove call
  seenW,    \* per reader: isEmpty's adjusted writeIndex (first writeIndex itself)
  handed,   \* what the last reader was handed: "ready", or a slot's other content
  left,     \* history: a reader has left a list that others still read
  misread   \* history: isEmpty has called a slot populated that was not

history == <<left, misread>>
queueVars == <<slots, wpc, newWrite, rpc, seenW, handed, history>>
vars == <<queueIndices, listVars, queueVars>>

ReaderSteps == {"out", "idle", "check", "base", "compare", "using"}

Init ==
  /\ ListInit
  /\ slots = [i \in Indices(InitSize) |-> "empty"]
  /\ wpc = "idle"
  /\ newWrite = 0
  /\ rpc = [r \in Readers |-> "out"]
  /\ seenW = [r \in Readers |-> 0]
  /\ handed = "ready"
  /\ left = FALSE
  /\ misread = FALSE

Goto(r, step) == rpc' = [rpc EXCEPT ![r] = step]

-----------------------------------------------------------------------------
(* Mutant of AddIsFull: the full check is missing. *)
AddIsFullUnchecked ==
  /\ wpc = "idle"
  /\ newWrite' = nextIndex(writeIndex, size)
  /\ wpc' = "insert"
  /\ UNCHANGED <<queueIndices, listVars, slots, rpc, seenW, handed, history>>

(* add: isFull, insert and the publication of the new writeIndex.  An add  *)
(* that finds the queue full changes nothing.                              *)
AddIsFull ==
  /\ wpc = "idle"
  /\ nextIndex(writeIndex, size) # readIndex
  /\ newWrite' = nextIndex(writeIndex, size)
  /\ wpc' = "insert"
  /\ UNCHANGED <<queueIndices, listVars, slots, rpc, seenW, handed, history>>

AddInsert ==
  /\ wpc = "insert"
  /\ slots' = [slots EXCEPT ![writeIndex] = "ready"]
  /\ wpc' = "publish"
  /\ UNCHANGED <<queueIndices, listVars, newWrite, rpc, seenW, handed, history>>

AddPublish ==
  /\ wpc = "publish"
  /\ writeIndex' = newWrite
  /\ newWrite' = 0
  /\ wpc' = "idle"
  /\ UNCHANGED <<size, readIndex, listVars, slots, rpc, seenW, handed, history>>

AddStep == AddIsFull \/ AddInsert \/ AddPublish

-----------------------------------------------------------------------------
(* startAccess and endAccess: a worker joins before its first remove and   *)
(* leaves between two calls, or when handling an entry threw.              *)
StartAccess(r) ==
  /\ rpc[r] = "out"
  /\ ListAdd(r)
  /\ Goto(r, "idle")
  /\ UNCHANGED <<slots, wpc, newWrite, seenW, handed, history>>

EndAccess(r) ==
  /\ r \in Leavers
  /\ rpc[r] \in {"idle", "using"}
  /\ ListRemove(r)
  /\ Goto(r, "out")
  /\ left' = (left \/ Members # {r})
  /\ UNCHANGED <<slots, wpc, newWrite, seenW, handed, misread>>

-----------------------------------------------------------------------------
(* remove: a reader that was not done with its slot checks it again, the   *)
(* others ask for a new slot first.                                        *)
CheckSameSlot(r) ==
  /\ rpc[r] = "idle"
  /\ ~isDone[r]
  /\ Goto(r, "check")
  /\ UNCHANGED <<queueIndices, listVars, slots, wpc, newWrite, seenW, handed, history>>

MoveToFront(r) ==
  /\ rpc[r] = "idle"
  /\ isDone[r]
  /\ \/ MoveAhead(r) /\ Goto(r, "check")
     \/ (Squeeze(r) \/ CannotMove(r)) /\ UNCHANGED rpc
  /\ UNCHANGED <<slots, wpc, newWrite, seenW, handed, history>>

(* Mutant of RemoveSlot: a reader that found its slot empty counts as done *)
(* with it.                                                                *)
RemoveSlotAlwaysDone(r, isEmpty) ==
  /\ isDone' = [isDone EXCEPT ![r] = TRUE]
  /\ IF isEmpty
     THEN Goto(r, "idle") /\ UNCHANGED <<slots, handed>>
     ELSE /\ Goto(r, "using")
          /\ handed' = slots[index[r]]
          /\ slots' = [slots EXCEPT ![index[r]] = "taken"]
  /\ UNCHANGED <<queueIndices, front, back, next, previous, index, inQueue, wpc, newWrite, left>>

(* removeSlot: the answer of isEmpty decides isDone; a slot that is not    *)
(* empty is handed to the reader, whatever it holds.                       *)
RemoveSlot(r, isEmpty) ==
  /\ isDone' = [isDone EXCEPT ![r] = ~isEmpty]
  /\ IF isEmpty
     THEN Goto(r, "idle") /\ UNCHANGED <<slots, handed>>
     ELSE /\ Goto(r, "using")
          /\ handed' = slots[index[r]]
          /\ slots' = [slots EXCEPT ![index[r]] = "taken"]
  /\ UNCHANGED <<queueIndices, front, back, next, previous, index, inQueue, wpc, newWrite, left>>

(* isEmpty as it is compiled: it reads writeIndex, then readIndex to       *)
(* adjust it, then readIndex again to adjust the reader's own index.       *)
ReadWriteIndex(r) ==
  /\ rpc[r] = "check"
  /\ seenW' = [seenW EXCEPT ![r] = writeIndex]
  /\ Goto(r, "base")
  /\ UNCHANGED <<queueIndices, listVars, slots, wpc, newWrite, handed, history>>

AdjustWriteIndex(r) ==
  /\ rpc[r] = "base"
  /\ seenW' = [seenW EXCEPT ![r] = adjustIndexForComparison(@, readIndex, size)]
  /\ Goto(r, "compare")
  /\ UNCHANGED <<queueIndices, listVars, slots, wpc, newWrite, handed, history>>

(* The comparison of isEmpty, with readIndex as it is now. *)
SeenEmpty(r) == seenW[r] <= adjustIndexForComparison(index[r], readIndex, size)

(* Mutant of Compare: < for <=, the slot at writeIndex passes as populated. *)
CompareStrict(r) ==
  /\ rpc[r] = "compare"
  /\ RemoveSlot(r, seenW[r] < adjustIndexForComparison(index[r], readIndex, size))
  /\ seenW' = [seenW EXCEPT ![r] = 0]
  /\ UNCHANGED misread

Compare(r) ==
  /\ rpc[r] = "compare"
  /\ RemoveSlot(r, SeenEmpty(r))
  /\ seenW' = [seenW EXCEPT ![r] = 0]
  /\ misread' = (misread \/ (~SeenEmpty(r) /\ SlotEmpty(index[r])))

(* The consumer is done with the entry and will call remove again. *)
Handled(r) ==
  /\ rpc[r] = "using"
  /\ Goto(r, "idle")
  /\ UNCHANGED <<queueIndices, listVars, slots, wpc, newWrite, seenW, handed, history>>

RemoveStep(r) ==
  \/ CheckSameSlot(r) \/ MoveToFront(r)
  \/ ReadWriteIndex(r) \/ AdjustWriteIndex(r) \/ Compare(r)
  \/ Handled(r)

-----------------------------------------------------------------------------
(* resize, with every writer and every reader paused between two calls:    *)
(* ReaderWriterQueue::resize and then the adjustment of the readers.       *)
Resize ==
  /\ wpc = "idle"
  /\ \A r \in Members : rpc[r] = "idle"
  /\ LET newSize == getNewQueueSize(size, MaxSize, UIntMax)
     IN  /\ size < newSize
         /\ size' = newSize
         /\ slots' = ResizedSlots(slots, readIndex, writeIndex, size, newSize, "empty")
         /\ readIndex' = ResizedReadIndex(readIndex, writeIndex, size, newSize)
         /\ ListAdjust(newSize)
  /\ UNCHANGED <<writeIndex, wpc, newWrite, rpc, seenW, handed, history>>

-----------------------------------------------------------------------------
Next ==
  \/ AddStep
  \/ \E r \in Readers : StartAccess(r) \/ EndAccess(r) \/ RemoveStep(r)
  \/ Resize

Spec == Init /\ [][Next]_vars

(* A reader that joined keeps calling remove and its consumer returns from *)
(* handling an entry; an add that has started ends.                        *)
FairSpec ==
  /\ Spec
  /\ \A r \in Readers : WF_vars(RemoveStep(r))
  /\ WF_vars(wpc # "idle" /\ AddStep)

-----------------------------------------------------------------------------
(* Every field keeps its type, indices stay within the ring. *)
TypeOK ==
  /\ size \in InitSize .. (IF MaxSize > InitSize THEN MaxSize ELSE InitSize)
  /\ readIndex \in Indices(size)
  /\ writeIndex \in Indices(size)
  /\ slots \in [Indices(size) -> {"empty", "ready", "taken"}]
  /\ front \in Readers \cup {NULL}
  /\ back \in Readers \cup {NULL}
  /\ next \in [Readers -> Readers \cup {NULL}]
  /\ previous \in [Readers -> Readers \cup {NULL}]
  /\ \A r \in Members : index[r] \in Indices(size)
  /\ isDone \in [Readers -> BOOLEAN]
  /\ inQueue \in [Readers -> BOOLEAN]
  /\ wpc \in {"idle", "insert", "publish"}
  /\ newWrite \in Indices(size)
  /\ rpc \in [Readers -> ReaderSteps]
  /\ \A r \in Readers : rpc[r] = "out" <=> ~inQueue[r]
  /\ seenW \in [Readers -> 0 .. 2 * size]
  /\ handed \in {"empty", "ready", "taken"}
  /\ left \in BOOLEAN
  /\ misread \in BOOLEAN

Owns(r) == inQueue[r] /\ (rpc[r] \in {"check", "base", "compare"} \/ ~isDone[r])

(* Whoever is handed an entry is the first: never an entry that another    *)
(* reader has taken, never a slot nobody has written.                      *)
HandedOnce == handed = "ready"

(* No two readers wait for or use the same slot: moving to the front,      *)
(* joining, leaving and resizing all assign slots.                         *)
ReadersDisjoint ==
  \A q, r \in Members :
    (Owns(q) \/ rpc[q] = "using") /\ (Owns(r) \/ rpc[r] = "using") /\ q # r
      => index[q] # index[r]

(* The writer never stores into a slot that a reader uses: readers and     *)
(* writers share no lock, only readIndex, which the back of the list holds *)
(* back.                                                                   *)
WriterDisjoint ==
  wpc \in {"insert", "publish"} =>
    \A r \in Members : rpc[r] = "using" => index[r] # writeIndex

(* Until a reader leaves a list that others still read, the list is in     *)
(* ring order (RingOrdered): readIndex is the slot of the slowest reader,  *)
(* through moves, squeezes, joins and resizes.                             *)
InRingOrder == ~left => RingOrdered

(* No entry is passed over: a published entry that nobody has taken lies   *)
(* ahead of the front, where the next mover goes, or in the slot of a      *)
(* reader that will check it; and ahead of the front there are no others.  *)
NoneSkipped ==
  \A i \in Indices(size) :
    Offset(i) < Offset(writeIndex) =>
      IF Members = {} \/ Offset(i) > Offset(index[front])
      THEN slots[i] = "ready"
      ELSE slots[i] = "ready" => \E r \in Members : Owns(r) /\ index[r] = i

(* Several readers are safe but for two things: an isEmpty that calls a    *)
(* slot populated that nobody has written, and a reader that leaves a list *)
(* that others still read.  Before either, every entry is handed to one    *)
(* reader, the writer stores into no slot in use, and no entry is passed   *)
(* over.                                                                   *)
SafeUnlessMisread ==
  ~misread /\ ~left => HandedOnce /\ WriterDisjoint /\ NoneSkipped

(* No step loses a written entry: it stays in its slot until a reader      *)
(* takes it, is not overwritten, and a resize carries it along.            *)
EntriesStay ==
  \A i \in Indices(size) :
    slots[i] = "ready" =>
      \/ size' # size /\ slots'[MovedIndex(i, writeIndex, size' - size)] = "ready"
      \/ size' = size /\ slots'[i] = "ready" /\ ~(wpc = "insert" /\ i = writeIndex)
      \/ \E r \in Members : index[r] = i /\ rpc[r] # "using" /\ rpc'[r] = "using"

(* With one reader no entry is ever lost. *)
NoneLost == [][EntriesStay]_vars

(* With several readers none is lost before a misread or an early leave    *)
(* (see SafeUnlessMisread).                                                *)
KeptUnlessMisread == [][~misread' /\ ~left' => EntriesStay]_vars

(* An entry in the queue is taken as long as somebody reads: the reader    *)
(* that owns its slot checks it, or one that moves to the front gets it.   *)
EveryEntryTaken ==
  \A i \in 0 .. MaxSize - 1 :
    (i \in Indices(size) /\ slots[i] = "ready" /\ Members # {})
      ~> (i \in Indices(size) => slots[i] # "ready" \/ Members = {})

(* A full queue whose readers keep coming back for more gets space for     *)
(* writing again: the comment in moveToFront says that a reader at the     *)
(* back of a list that spans the queue frees up at least one slot.         *)
SpaceIsFreed ==
  (nextIndex(writeIndex, size) = readIndex /\ Members # {})
    ~> (nextIndex(writeIndex, size) # readIndex \/ Members = {})
=============================================================================
