---------------------- MODULE ReaderWriterQueue_proofs ----------------------
(***************************************************************************)
(* Proofs about ReaderWriterQueue, for any number of writers, any size and *)
(* any size limit.                                                         *)
(***************************************************************************)
EXTENDS ReaderWriterQueue, RingIndex_proofs

(* An unsigned counter stays in its range. *)
LEMMA CounterStep ==
  ASSUME NEW c \in 0 .. UIntMax
  PROVE  (c + 1) % (UIntMax + 1) \in 0 .. UIntMax
BY QueueAssumption

-----------------------------------------------------------------------------
(* The inductive invariant.                                                *)

(* Who is inside add holds the mutex, if there is one. *)
MutexHeld ==
  \A w \in Writers : wpc[w] # "idle" /\ SyncWriter => addMutex = w

(* A writer past its full check still has a free slot after its own: the   *)
(* read index may have moved since, but only away from index[w].           *)
SpaceReserved ==
  \A w \in Writers : wpc[w] \in {"insert", "copyTo", "publish"} =>
    index[w] = nextIndex(writeIndex, size) /\ index[w] # readIndex

(* What the writer copied is in the slot when it is published. *)
CopyComplete ==
  \A w \in Writers :
    /\ wpc[w] # "idle" => arg[w] \in Entries
    /\ wpc[w] \in {"copyTo", "publish"} => arg[w] \in Compatible
    /\ wpc[w] = "publish" => slots[writeIndex] = arg[w]

(* Once published, index[w] is the slot the entry went to. *)
ReturnedIndex ==
  \A w \in Writers : wpc[w] = "count" => index[w] \in Indices(size)

(* The reader's slot is the one at the read index before it advances, and  *)
(* the one before the read index afterwards.                               *)
ReaderPosition ==
  /\ rpc \in {"bind", "advance"} => readIndex # writeIndex
  /\ rpc = "advance" => held = readIndex
  /\ rpc = "using" => nextIndex(held, size) = readIndex

IInv == TypeOK /\ MutexHeld /\ SpaceReserved /\ CopyComplete /\ ReturnedIndex /\ ReaderPosition

(* The inductive invariant holds initially. *)
LEMMA InitIInv == Init => IInv
BY QueueAssumption DEF Init, IInv, TypeOK, MutexHeld, SpaceReserved, CopyComplete, ReturnedIndex,
   ReaderPosition, Indices, WriterSteps, ReaderSteps

(* Only one writer is inside add. *)
LEMMA MutexImpliesOneWriter == MutexHeld => OneWriter
BY QueueAssumption DEF MutexHeld, OneWriter

(* Every step preserves the inductive invariant. *)
LEMMA NextIInv == IInv /\ [Next]_vars => IInv'
<1> SUFFICES ASSUME IInv, [Next]_vars PROVE IInv'
  OBVIOUS
<1> USE DEF IInv, TypeOK
<1>0. OneWriter
  BY MutexImpliesOneWriter
<1>i. nextIndex(writeIndex, size) \in Indices(size) /\ nextIndex(readIndex, size) \in Indices(size)
  BY NextIndexValue
<1>1. ASSUME NEW w \in Writers, CallAdd(w) PROVE IInv'
  BY <1>1, QueueAssumption DEF CallAdd, Goto, shared, readerVars, MutexHeld, SpaceReserved, CopyComplete, ReturnedIndex,
     ReaderPosition, WriterSteps
<1>2. ASSUME NEW w \in Writers, IsFull(w) PROVE IInv'
  BY <1>2, <1>i DEF IsFull, Goto, shared, readerVars, MutexHeld, SpaceReserved, CopyComplete, ReturnedIndex,
     ReaderPosition, WriterSteps
<1>3. ASSUME NEW w \in Writers, Insert(w) PROVE IInv'
  BY <1>3, <1>0 DEF Insert, Goto, readerVars, OneWriter, MutexHeld, SpaceReserved, CopyComplete, ReturnedIndex,
     ReaderPosition, WriterSteps
<1>4. ASSUME NEW w \in Writers, CopyTo(w) PROVE IInv'
  BY <1>4, <1>0 DEF CopyTo, Goto, readerVars, OneWriter, MutexHeld, SpaceReserved, CopyComplete, ReturnedIndex,
     ReaderPosition, WriterSteps
<1>5. ASSUME NEW w \in Writers, Publish(w) PROVE IInv'
  BY <1>5, <1>0, <1>i DEF Publish, Goto, readerVars, OneWriter, MutexHeld, SpaceReserved, CopyComplete, ReturnedIndex,
     ReaderPosition, WriterSteps
<1>6. ASSUME NEW w \in Writers, CountAdd(w) PROVE IInv'
  BY <1>6, CounterStep DEF CountAdd, Goto, readerVars, MutexHeld, SpaceReserved, CopyComplete, ReturnedIndex,
     ReaderPosition, WriterSteps
<1>7. ASSUME NEW w \in Writers, AddReturns(w) PROVE IInv'
  BY <1>7, <1>0 DEF AddReturns, Goto, shared, readerVars, OneWriter, MutexHeld, SpaceReserved, CopyComplete, ReturnedIndex,
     ReaderPosition, WriterSteps, Indices
<1>8. CASE IsEmpty
  BY <1>8 DEF IsEmpty, shared, writerVars, MutexHeld, SpaceReserved, CopyComplete, ReturnedIndex,
     ReaderPosition, ReaderSteps
<1>9. CASE Bind
  BY <1>9 DEF Bind, shared, writerVars, MutexHeld, SpaceReserved, CopyComplete, ReturnedIndex,
     ReaderPosition, ReaderSteps
<1>10. CASE Advance
  BY <1>10, <1>i, NextIndexInjective DEF Advance, writerVars, MutexHeld, SpaceReserved, CopyComplete, ReturnedIndex,
     ReaderPosition, ReaderSteps
<1>11. CASE DoneUsing
  BY <1>11 DEF DoneUsing, shared, writerVars, MutexHeld, SpaceReserved, CopyComplete, ReturnedIndex,
     ReaderPosition, ReaderSteps
<1>12. CASE Resize
  <2> DEFINE m == getNewQueueSize(size, MaxSize, UIntMax)
  <2>1. m \in Nat /\ size < m
    BY <1>12, NewSizeBound, QueueAssumption DEF Resize
  <2> HIDE DEF m
  <2>2. /\ size' = m
        /\ slots' = ResizedSlots(slots, readIndex, writeIndex, size, m, Unwritten)
        /\ readIndex' = ResizedReadIndex(readIndex, writeIndex, size, m)
        /\ rpc' = "idle" /\ held' = 0
        /\ \A w \in Writers : wpc'[w] = "idle"
        /\ UNCHANGED <<writeIndex, addedCount, addMutex, wpc, arg, index>>
    BY <1>12 DEF Resize, m, writerVars
  <2>3. slots' \in [Indices(m) -> Entries \cup {Torn, Unwritten}]
    BY <2>1, <2>2, ResizedSlotsType
  <2>4. readIndex' \in Indices(m) /\ writeIndex' \in Indices(m) /\ held' \in Indices(m)
    BY <2>1, <2>2, ResizedIndices DEF Indices
  <2>5. index' \in [Writers -> Indices(m) \cup {IS_FULL, CANNOT_ADD}]
    BY <2>1, <2>2 DEF Indices
  <2> QED
    BY <2>1, <2>2, <2>3, <2>4, <2>5 DEF MutexHeld, SpaceReserved, CopyComplete, ReturnedIndex, ReaderPosition, ReaderSteps
<1>13. CASE UNCHANGED vars
  BY <1>13 DEF vars, shared, writerVars, readerVars, MutexHeld, SpaceReserved, CopyComplete, ReturnedIndex, ReaderPosition
<1> QED
  BY <1>1, <1>2, <1>3, <1>4, <1>5, <1>6, <1>7, <1>8, <1>9, <1>10, <1>11, <1>12, <1>13
  DEF Next, AddStep, RemoveStep

-----------------------------------------------------------------------------
(* The invariant holds in every reachable state of the queue. *)
THEOREM Invariance == Spec => []IInv
BY InitIInv, NextIInv, PTL DEF Spec

(* Every variable keeps its type: in particular both indices stay inside   *)
(* the ring through every add, remove and resize.                          *)
THEOREM TypeCorrect == Spec => []TypeOK
BY Invariance, PTL DEF IInv

(* No writer ever stores into the slot the reader holds a reference to. *)
THEOREM SlotExclusion == Spec => []NoOverlap
<1>1. IInv => NoOverlap
  BY NextIndexValue DEF IInv, TypeOK, NoOverlap, SpaceReserved, ReaderPosition
<1> QED BY <1>1, Invariance, PTL

-----------------------------------------------------------------------------
(* The refinement: the ring implements FifoQueue.                          *)

Count == RingCount(readIndex, writeIndex, size)

(* Contents is a sequence of stored entries. *)
LEMMA ContentsIsSeq ==
  ASSUME IInv
  PROVE  /\ Contents \in Seq(Entries \cup {Torn, Unwritten})
         /\ Len(Contents) = Count
         /\ Count \in 0 .. size - 1
         /\ Contents = <<>> <=> readIndex = writeIndex
<1>1. /\ Count \in 0 .. size - 1
      /\ Count = 0 <=> readIndex = writeIndex
      /\ \A k \in 0 .. Count - 1 : RingAt(readIndex, k, size) \in Indices(size)
  BY RingPositions DEF IInv, TypeOK, Count
<1>2. Contents \in [1 .. Count -> Entries \cup {Torn, Unwritten}]
  <2>1. ASSUME NEW k \in 1 .. Count
        PROVE  slots[RingAt(readIndex, k - 1, size)] \in Entries \cup {Torn, Unwritten}
    BY <1>1 DEF IInv, TypeOK
  <2> QED BY <2>1 DEF Contents, Count
<1>3. Contents \in Seq(Entries \cup {Torn, Unwritten}) /\ Len(Contents) = Count
  BY <1>1, <1>2
<1> QED BY <1>1, <1>3

(* The initial state maps to an empty FIFO queue. *)
LEMMA InitRefines == Init => F!Init
<1> SUFFICES ASSUME Init PROVE F!Init
  OBVIOUS
<1>1. Contents = <<>>
  BY DEF Init, Contents, RingCount
<1>2. \A w \in Writers : AnswerOf(w) = "none"
  BY DEF Init, AnswerOf
<1>3. Total = 0
  BY DEF Init, Total
<1>4. ReaderOf = "idle" /\ rpc # "using" /\ size - 1 = InitSize - 1
  BY DEF Init, ReaderOf
<1> QED BY <1>1, <1>2, <1>3, <1>4 DEF F!Init

(* The slots of the published entries exclude the one at the write index. *)
LEMMA PublishedSlots ==
  ASSUME IInv
  PROVE  \A k \in 0 .. Count - 1 :
           RingAt(readIndex, k, size) \in Indices(size) /\ RingAt(readIndex, k, size) # writeIndex
BY RingPositions DEF IInv, TypeOK, Count

(* A store into the slot at the write index is invisible to the reader. *)
LEMMA StoreIsHidden ==
  ASSUME IInv, NEW e, NEW w \in Writers, wpc[w] \in {"insert", "copyTo"},
         slots' = [slots EXCEPT ![writeIndex] = e],
         UNCHANGED <<size, readIndex, writeIndex, rpc, held>>
  PROVE  /\ Contents' = Contents
         /\ rpc = "using" => slots'[held] = slots[held]
<1>1. \A k \in 0 .. Count - 1 :
        RingAt(readIndex, k, size) \in Indices(size) /\ RingAt(readIndex, k, size) # writeIndex
  BY PublishedSlots
<1>2. Contents' = Contents
  <2>1. Count' = Count /\ Count \in 0 .. size - 1 /\ size \in Nat
    <3>1. Count' = Count
      BY DEF Count
    <3> QED BY <3>1, ContentsIsSeq DEF IInv, TypeOK
  <2>2. ASSUME NEW k \in 1 .. Count
        PROVE  slots'[RingAt(readIndex, k - 1, size)] = slots[RingAt(readIndex, k - 1, size)]
    BY <1>1, <2>1 DEF IInv, TypeOK
  <2> QED BY <2>1, <2>2 DEF Contents, Count
<1>3. rpc = "using" => held # writeIndex
  BY DEF IInv, TypeOK, SpaceReserved, ReaderPosition
<1> QED BY <1>2, <1>3 DEF IInv, TypeOK

(* The answers of the other writers do not change when w takes a step. *)
LEMMA OthersKeepAnswer ==
  ASSUME NEW w \in Writers, NEW step, IInv, Goto(w, step),
         \A v \in Writers : v # w => index'[v] = index[v]
  PROVE  \A v \in Writers : v # w => AnswerOf(v)' = AnswerOf(v)
BY DEF IInv, TypeOK, Goto, AnswerOf

(* The total does not change when w neither publishes nor counts. *)
LEMMA TotalKept ==
  ASSUME NEW w \in Writers, NEW step, IInv, Goto(w, step), step # "count", wpc[w] # "count",
         addedCount' = addedCount
  PROVE  Total' = Total
<1>1. \A v \in Writers : wpc'[v] = "count" <=> wpc[v] = "count"
  BY DEF IInv, TypeOK, Goto
<1> QED BY <1>1 DEF Total

Answers == [w \in Writers |-> AnswerOf(w)]
Current == IF rpc = "using" THEN slots[held] ELSE None
AbstractVars == <<Contents, size - 1, Answers, ReaderOf, Current, Total>>

(* Entering add changes nothing the user of the queue sees. *)
LEMMA CallAddRefines ==
  ASSUME IInv, NEW w \in Writers, CallAdd(w)
  PROVE  UNCHANGED AbstractVars
<1>1. Contents' = Contents /\ ReaderOf' = ReaderOf /\ Current' = Current /\ size' = size
  BY DEF CallAdd, shared, readerVars, Contents, ReaderOf, Current
<1>2. Total' = Total
  <2>1. addedCount' = addedCount
    BY DEF CallAdd, shared
  <2> QED BY <2>1, TotalKept DEF CallAdd
<1>3. \A v \in Writers : AnswerOf(v)' = AnswerOf(v)
  <2>1. index' = index
    BY DEF CallAdd
  <2>2. AnswerOf(w)' = AnswerOf(w)
    BY DEF CallAdd, Goto, AnswerOf, IInv, TypeOK
  <2> QED BY <2>1, <2>2, OthersKeepAnswer DEF CallAdd
<1>4. Answers' = Answers
  BY <1>3 DEF Answers
<1> QED BY <1>1, <1>2, <1>4 DEF AbstractVars

(* The full check answers "full" exactly when the abstract queue is full. *)
LEMMA IsFullRefines ==
  ASSUME IInv, NEW w \in Writers, IsFull(w)
  PROVE  F!Refuse(w) \/ UNCHANGED AbstractVars
<1>1. Contents' = Contents /\ ReaderOf' = ReaderOf /\ Current' = Current /\ size' = size
  BY DEF IsFull, shared, readerVars, Contents, ReaderOf, Current
<1>2. Total' = Total
  <2>1. addedCount' = addedCount
    BY DEF IsFull, shared
  <2> QED BY <2>1, TotalKept DEF IsFull
<1>3. \A v \in Writers : v # w => AnswerOf(v)' = AnswerOf(v)
  <2>1. \A v \in Writers : v # w => index'[v] = index[v]
    BY DEF IsFull, IInv, TypeOK
  <2> QED BY <2>1, OthersKeepAnswer DEF IsFull
<1>4. AnswerOf(w) = "none"
  BY DEF IsFull, AnswerOf
<1>5. CASE nextIndex(writeIndex, size) = readIndex
  <2>1. AnswerOf(w)' = "full"
    BY <1>5 DEF IsFull, Goto, AnswerOf, IInv, TypeOK, IS_FULL, CANNOT_ADD
  <2>2. Len(Contents) = size - 1
    BY <1>5, ContentsIsSeq, RingFull DEF Count, IInv, TypeOK
  <2>3. Answers' = [Answers EXCEPT ![w] = "full"] /\ Answers[w] = "none"
    BY <1>3, <1>4, <2>1 DEF Answers
  <2> QED BY <1>1, <1>2, <2>2, <2>3 DEF F!Refuse, Answers, Current
<1>6. CASE nextIndex(writeIndex, size) # readIndex
  <2>1. AnswerOf(w)' = "none"
    BY <1>6 DEF IsFull, Goto, AnswerOf, IInv, TypeOK
  <2>2. Answers' = Answers
    BY <1>3, <1>4, <2>1 DEF Answers
  <2> QED BY <1>1, <1>2, <2>2 DEF AbstractVars
<1> QED BY <1>5, <1>6

(* Starting the copy is invisible; an incompatible entry is rejected. *)
LEMMA InsertRefines ==
  ASSUME IInv, NEW w \in Writers, Insert(w)
  PROVE  F!Reject(w) \/ UNCHANGED AbstractVars
<1>1. ReaderOf' = ReaderOf /\ size' = size
  BY DEF Insert, readerVars, ReaderOf
<1>2. Total' = Total
  <2>1. addedCount' = addedCount
    BY DEF Insert
  <2> QED BY <2>1, TotalKept DEF Insert
<1>3. \A v \in Writers : v # w => AnswerOf(v)' = AnswerOf(v)
  <2>1. \A v \in Writers : v # w => index'[v] = index[v]
    BY DEF Insert, IInv, TypeOK
  <2> QED BY <2>1, OthersKeepAnswer DEF Insert
<1>4. AnswerOf(w) = "none"
  BY DEF Insert, AnswerOf
<1>5. CASE arg[w] \in Compatible
  <2>1. Contents' = Contents /\ Current' = Current
    <3>1. /\ slots' = [slots EXCEPT ![writeIndex] = Torn]
          /\ UNCHANGED <<size, readIndex, writeIndex, rpc, held>>
          /\ wpc[w] \in {"insert", "copyTo"}
      BY <1>5 DEF Insert, readerVars
    <3> QED BY <3>1, StoreIsHidden DEF Current
  <2>2. AnswerOf(w)' = "none"
    BY <1>5 DEF Insert, Goto, AnswerOf, IInv, TypeOK
  <2>3. Answers' = Answers
    BY <1>3, <1>4, <2>2 DEF Answers
  <2> QED BY <1>1, <1>2, <2>1, <2>3 DEF AbstractVars
<1>6. CASE arg[w] \notin Compatible
  <2>1. Contents' = Contents /\ Current' = Current
    BY <1>6 DEF Insert, readerVars, Contents, Current
  <2>2. AnswerOf(w)' = "incompatible"
    BY <1>6 DEF Insert, Goto, AnswerOf, IInv, TypeOK, IS_FULL, CANNOT_ADD
  <2>3. Answers' = [Answers EXCEPT ![w] = "incompatible"] /\ Answers[w] = "none"
    BY <1>3, <1>4, <2>2 DEF Answers
  <2>4. Entries \ Compatible # {}
    BY <1>6 DEF Insert, IInv, CopyComplete
  <2> QED BY <1>1, <1>2, <2>1, <2>3, <2>4 DEF F!Reject, Answers, Current
<1> QED BY <1>5, <1>6

(* Finishing the copy is invisible. *)
LEMMA CopyToRefines ==
  ASSUME IInv, NEW w \in Writers, CopyTo(w)
  PROVE  UNCHANGED AbstractVars
<1>1. Contents' = Contents /\ Current' = Current
  <2>1. /\ slots' = [slots EXCEPT ![writeIndex] = arg[w]]
        /\ UNCHANGED <<size, readIndex, writeIndex, rpc, held>>
        /\ wpc[w] \in {"insert", "copyTo"}
    BY DEF CopyTo, readerVars
  <2> QED BY <2>1, StoreIsHidden DEF Current
<1>2. ReaderOf' = ReaderOf /\ size' = size
  BY DEF CopyTo, readerVars, ReaderOf
<1>3. Total' = Total
  <2>1. addedCount' = addedCount
    BY DEF CopyTo
  <2> QED BY <2>1, TotalKept DEF CopyTo
<1>4. \A v \in Writers : AnswerOf(v)' = AnswerOf(v)
  <2>1. index' = index
    BY DEF CopyTo
  <2>2. AnswerOf(w)' = AnswerOf(w)
    BY DEF CopyTo, Goto, AnswerOf, IInv, TypeOK
  <2> QED BY <2>1, <2>2, OthersKeepAnswer DEF CopyTo
<1>5. Answers' = Answers
  BY <1>4 DEF Answers
<1> QED BY <1>1, <1>2, <1>3, <1>5 DEF AbstractVars

(* Publishing the write index appends the copied entry. *)
LEMMA PublishRefines ==
  ASSUME IInv, NEW w \in Writers, Publish(w)
  PROVE  F!Enqueue(w)
<1>1. ReaderOf' = ReaderOf /\ Current' = Current /\ size' = size
  BY DEF Publish, readerVars, ReaderOf, Current
<1>2. \A v \in Writers : v # w => wpc[v] = "idle"
  BY MutexImpliesOneWriter DEF IInv, OneWriter, Publish
<1>3. Total' = (Total + 1) % (UIntMax + 1)
  <2>1. ~ \E v \in Writers : wpc[v] = "count"
    BY <1>2 DEF Publish
  <2>2. wpc'[w] = "count"
    BY DEF Publish, Goto, IInv, TypeOK
  <2> QED BY <2>1, <2>2 DEF Total, Publish
<1>4. Answers' = [Answers EXCEPT ![w] = "added"] /\ Answers[w] = "none"
  <2>1. \A v \in Writers : v # w => AnswerOf(v)' = AnswerOf(v)
    <3>1. \A v \in Writers : v # w => index'[v] = index[v]
      BY DEF Publish, IInv, TypeOK
    <3> QED BY <3>1, OthersKeepAnswer DEF Publish
  <2>2. AnswerOf(w) = "none"
    BY DEF Publish, AnswerOf
  <2>3. AnswerOf(w)' = "added"
    BY DEF Publish, Goto, AnswerOf, IInv, TypeOK, IS_FULL, CANNOT_ADD, Indices
  <2> QED BY <2>1, <2>2, <2>3 DEF Answers
<1>5. nextIndex(writeIndex, size) # readIndex /\ writeIndex' = nextIndex(writeIndex, size)
  BY DEF Publish, IInv, SpaceReserved
<1>6. Len(Contents) < size - 1
  BY <1>5, ContentsIsSeq, RingFull DEF Count, IInv, TypeOK
<1>7. Contents' = Append(Contents, arg[w])
  <2> DEFINE n == Count
  <2>1. n \in Nat /\ Len(Contents) = n
    BY ContentsIsSeq DEF IInv, TypeOK
  <2>2. Count' = n + 1
    BY <1>5, RingAppend DEF Count, Publish, IInv, TypeOK
  <2>3. RingAt(readIndex, n, size) = writeIndex
    BY RingPositions DEF Count, IInv, TypeOK
  <2>4. slots[writeIndex] = arg[w]
    BY DEF Publish, IInv, CopyComplete
  <2>5. UNCHANGED <<slots, readIndex, size>>
    BY DEF Publish
  <2>6. Contents' = [k \in 1 .. n + 1 |-> slots[RingAt(readIndex, k - 1, size)]]
    BY <2>2, <2>5 DEF Contents, Count
  <2>7. Contents = [k \in 1 .. n |-> slots[RingAt(readIndex, k - 1, size)]]
    BY DEF Contents, Count
  <2>8. slots[RingAt(readIndex, (n + 1) - 1, size)] = arg[w]
    BY <2>1, <2>3, <2>4
  <2> HIDE DEF n
  <2> QED BY <2>1, <2>6, <2>7, <2>8
<1>8. arg[w] \in Compatible
  BY DEF Publish, IInv, CopyComplete
<1> QED BY <1>1, <1>3, <1>4, <1>6, <1>7, <1>8 DEF F!Enqueue, Answers, Current

(* The counter catches up with the published add. *)
LEMMA CountAddRefines ==
  ASSUME IInv, NEW w \in Writers, CountAdd(w)
  PROVE  UNCHANGED AbstractVars
<1>1. Contents' = Contents /\ ReaderOf' = ReaderOf /\ Current' = Current /\ size' = size
  BY DEF CountAdd, readerVars, Contents, ReaderOf, Current
<1>2. \A v \in Writers : v # w => wpc[v] = "idle"
  BY MutexImpliesOneWriter DEF IInv, OneWriter, CountAdd
<1>3. Total' = Total
  <2>1. ~ \E v \in Writers : wpc'[v] = "count"
    BY <1>2 DEF CountAdd, Goto, IInv, TypeOK
  <2>2. wpc[w] = "count" /\ addedCount' = (addedCount + 1) % (UIntMax + 1)
    BY DEF CountAdd
  <2> QED BY <2>1, <2>2 DEF Total
<1>4. Answers' = Answers
  <2>1. index' = index
    BY DEF CountAdd
  <2>2. AnswerOf(w)' = AnswerOf(w)
    BY DEF CountAdd, Goto, AnswerOf, IInv, TypeOK
  <2> QED BY <2>1, <2>2, OthersKeepAnswer DEF CountAdd, Answers
<1> QED BY <1>1, <1>3, <1>4 DEF AbstractVars

(* The end of add is the end of the abstract call. *)
LEMMA AddReturnsRefines ==
  ASSUME IInv, NEW w \in Writers, AddReturns(w)
  PROVE  F!AddReturns(w)
<1>1. Contents' = Contents /\ ReaderOf' = ReaderOf /\ Current' = Current /\ size' = size
  BY DEF AddReturns, shared, readerVars, Contents, ReaderOf, Current
<1>2. Total' = Total
  <2>1. addedCount' = addedCount
    BY DEF AddReturns, shared
  <2> QED BY <2>1, TotalKept DEF AddReturns
<1>3. \A v \in Writers : v # w => AnswerOf(v)' = AnswerOf(v)
  <2>1. \A v \in Writers : v # w => index'[v] = index[v]
    BY DEF AddReturns, IInv, TypeOK
  <2> QED BY <2>1, OthersKeepAnswer DEF AddReturns
<1>4. AnswerOf(w) # "none" /\ AnswerOf(w)' = "none"
  BY DEF AddReturns, Goto, AnswerOf, IInv, TypeOK, Indices
<1>5. Answers' = [Answers EXCEPT ![w] = "none"] /\ Answers[w] # "none"
  BY <1>3, <1>4 DEF Answers
<1> QED BY <1>1, <1>2, <1>5 DEF F!AddReturns, Answers, Current

(* The reader finds an entry exactly when the abstract queue has one. *)
LEMMA IsEmptyRefines ==
  ASSUME IInv, IsEmpty
  PROVE  F!StartRemove \/ UNCHANGED AbstractVars
<1>1. /\ Contents' = Contents /\ size' = size /\ Total' = Total /\ Answers' = Answers
      /\ Current' = Current
  BY DEF IsEmpty, shared, writerVars, Contents, Total, Answers, AnswerOf, Current
<1>2. CASE readIndex = writeIndex
  <2>1. ReaderOf' = ReaderOf
    BY <1>2 DEF IsEmpty, ReaderOf
  <2> QED BY <1>1, <2>1 DEF AbstractVars
<1>3. CASE readIndex # writeIndex
  <2>1. ReaderOf = "idle" /\ ReaderOf' = "removing"
    BY <1>3 DEF IsEmpty, ReaderOf
  <2>2. Contents # <<>>
    BY <1>3, ContentsIsSeq
  <2> QED BY <1>1, <2>1, <2>2 DEF F!StartRemove, Answers, Current
<1> QED BY <1>2, <1>3

(* Binding the reference is invisible. *)
LEMMA BindRefines ==
  ASSUME IInv, Bind
  PROVE  UNCHANGED AbstractVars
<1>1. /\ Contents' = Contents /\ size' = size /\ Total' = Total /\ Answers' = Answers
      /\ Current' = Current
  BY DEF Bind, shared, writerVars, Contents, Total, Answers, AnswerOf, Current
<1>2. ReaderOf' = ReaderOf
  BY DEF Bind, ReaderOf
<1> QED BY <1>1, <1>2 DEF AbstractVars

(* Advancing the read index takes the oldest entry. *)
LEMMA AdvanceRefines ==
  ASSUME IInv, Advance
  PROVE  F!Dequeue
<1>1. size' = size /\ Total' = Total /\ Answers' = Answers
  BY DEF Advance, writerVars, Total, Answers, AnswerOf
<1>2. ReaderOf = "removing" /\ ReaderOf' = "using"
  BY DEF Advance, ReaderOf
<1>3. readIndex # writeIndex /\ held = readIndex
  BY DEF Advance, IInv, ReaderPosition
<1> DEFINE n == Count
<1>4. n \in Nat /\ n # 0 /\ Len(Contents) = n /\ Contents # <<>>
  BY <1>3, ContentsIsSeq, RingPositions DEF Count, IInv, TypeOK
<1>5. Count' = n - 1
  BY <1>3, RingDrop DEF Count, Advance, IInv, TypeOK
<1>6. \A k \in 0 .. n - 2 : RingAt(readIndex', k, size) = RingAt(readIndex, k + 1, size)
  BY <1>3, RingDrop DEF Count, Advance, IInv, TypeOK
<1>7. Contents' = [k \in 1 .. n - 1 |-> slots[RingAt(readIndex', k - 1, size)]]
  BY <1>5 DEF Contents, Count, Advance
<1>8. Contents = [k \in 1 .. n |-> slots[RingAt(readIndex, k - 1, size)]]
  BY DEF Contents, Count
<1>9. Contents' = Tail(Contents)
  <2> HIDE DEF n
  <2>1. \A k \in 1 .. n - 1 :
          slots[RingAt(readIndex', k - 1, size)] = slots[RingAt(readIndex, (k + 1) - 1, size)]
    BY <1>4, <1>6
  <2>2. Tail(Contents) = [k \in 1 .. n - 1 |-> Contents[k + 1]]
    BY <1>4, <1>8
  <2>3. Tail(Contents) = [k \in 1 .. n - 1 |-> slots[RingAt(readIndex, (k + 1) - 1, size)]]
    BY <1>4, <1>8, <2>2
  <2> QED BY <1>7, <2>1, <2>3
<1>10. Current' = Head(Contents)
  <2>1. Current' = slots[readIndex]
    BY <1>3 DEF Current, Advance
  <2>2. RingAt(readIndex, 0, size) = readIndex
    BY RingPositions DEF IInv, TypeOK
  <2> HIDE DEF n
  <2>3. Head(Contents) = slots[RingAt(readIndex, 1 - 1, size)]
    BY <1>4, <1>8
  <2> QED BY <2>1, <2>2, <2>3
<1> HIDE DEF n
<1> QED BY <1>1, <1>2, <1>4, <1>9, <1>10 DEF F!Dequeue, Answers, Current

(* The reader is done with the entry. *)
LEMMA DoneUsingRefines ==
  ASSUME IInv, DoneUsing
  PROVE  F!Release
<1>1. Contents' = Contents /\ size' = size /\ Total' = Total /\ Answers' = Answers
  BY DEF DoneUsing, shared, writerVars, Contents, Total, Answers, AnswerOf
<1>2. ReaderOf = "using" /\ ReaderOf' = "idle" /\ Current' = None
  BY DEF DoneUsing, ReaderOf, Current
<1> QED BY <1>1, <1>2 DEF F!Release, Answers, Current

(* A resize keeps every entry and their order. *)
LEMMA ResizeRefines ==
  ASSUME IInv, Resize
  PROVE  F!Grow
<1> DEFINE m == getNewQueueSize(size, MaxSize, UIntMax)
<1>1. m \in Nat /\ size < m /\ m <= MaxSize
  BY NewSizeBound, QueueAssumption DEF Resize, IInv, TypeOK
<1> HIDE DEF m
<1>2. /\ size' = m
      /\ slots' = ResizedSlots(slots, readIndex, writeIndex, size, m, Unwritten)
      /\ readIndex' = ResizedReadIndex(readIndex, writeIndex, size, m)
      /\ rpc = "idle" /\ rpc' = "idle"
      /\ UNCHANGED <<writeIndex, addedCount, wpc, index>>
      /\ \A w \in Writers : wpc[w] = "idle"
  BY DEF Resize, m, writerVars
<1>3. Contents' = Contents
  <2>1. /\ Count' = Count
        /\ \A k \in 0 .. Count - 1 :
             slots'[RingAt(readIndex', k, m)] = slots[RingAt(readIndex, k, size)]
    BY <1>1, <1>2, RingResize DEF Count, IInv, TypeOK
  <2>2. Count \in Nat
    BY ContentsIsSeq DEF IInv, TypeOK
  <2>3. \A k \in 1 .. Count :
             slots'[RingAt(readIndex', k - 1, size')] = slots[RingAt(readIndex, k - 1, size)]
    BY <1>2, <2>1, <2>2
  <2> QED BY <2>1, <2>3 DEF Contents, Count
<1>4. Total' = Total /\ Answers' = Answers
  BY <1>2 DEF Total, Answers, AnswerOf
<1>5. \A w \in Writers : Answers[w] = "none"
  BY <1>2 DEF Answers, AnswerOf
<1>6. ReaderOf = "idle" /\ ReaderOf' = "idle" /\ Current' = Current
  BY <1>2 DEF ReaderOf, Current
<1>7. size' - 1 \in 0 .. MaxSize - 1 /\ size' - 1 > size - 1
  BY <1>1, <1>2, QueueAssumption DEF IInv, TypeOK
<1> QED BY <1>3, <1>4, <1>5, <1>6, <1>7 DEF F!Grow, Answers, Current

(* The ring with its lock-free reader implements the bounded FIFO queue:   *)
(* no entry is lost, duplicated or reordered by any interleaving of the    *)
(* writers, the reader and a resize, IS_FULL is answered only by a full    *)
(* queue, and the entry the reader uses stays as it was added.             *)
THEOREM FifoRefinement == Spec => ImplementsFifo
<1>1. IInv /\ [Next]_vars => [F!Next]_(F!vars)
  <2> SUFFICES ASSUME IInv, [Next]_vars
               PROVE  F!Next \/ UNCHANGED AbstractVars
    BY DEF F!vars, AbstractVars, Answers, Current
  <2>1. ASSUME NEW w \in Writers, AddStep(w)
        PROVE  F!Next \/ UNCHANGED AbstractVars
    BY <2>1, CallAddRefines, IsFullRefines, InsertRefines, CopyToRefines, PublishRefines,
       CountAddRefines, AddReturnsRefines DEF AddStep, F!Next
  <2>2. CASE RemoveStep
    BY <2>2, IsEmptyRefines, BindRefines, AdvanceRefines, DoneUsingRefines DEF RemoveStep, F!Next
  <2>3. CASE Resize
    BY <2>3, ResizeRefines DEF F!Next
  <2>4. CASE UNCHANGED vars
    BY <2>4 DEF vars, shared, writerVars, readerVars, AbstractVars, Contents, Answers, AnswerOf,
       ReaderOf, Current, Total
  <2> QED BY <2>1, <2>2, <2>3, <2>4 DEF Next
<1> QED BY <1>1, InitRefines, Invariance, PTL DEF Spec, ImplementsFifo, F!Spec
=============================================================================
