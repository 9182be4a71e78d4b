------------------------ MODULE QueueStorage_proofs ------------------------
(***************************************************************************)
(* Proofs about QueueStorage, for every initial size, size limit and       *)
(* number of adds.                                                         *)
(***************************************************************************)
EXTENDS QueueStorage, RingIndex_proofs, FiniteSetTheorems, SequenceTheorems

Members == {"entry1", "entry2"}
Cells == [entry1 : Nat, entry2 : Nat]
Arrays == UNION {[Indices(n) -> Cells] : n \in Nat \ {0}}
Records == [type : Members, entry : Nat]

(* The size of the ring that is being copied. *)
oldSize == Cardinality(DOMAIN oldData)

-----------------------------------------------------------------------------
(* The inductive invariant.                                                *)

(* The shape of the arrays, before, during and after a resize. *)
Shape ==
  /\ single \in BOOLEAN /\ added \in Nat
  /\ size \in Nat \ {0}
  /\ readIndex \in Indices(size) /\ writeIndex \in Indices(size)
  /\ phase \in {"use", "copy", "end"}
  /\ heap \in Seq(Arrays) /\ dataEntries = Len(heap) /\ dataEntries \in Nat \ {0}
  /\ phase # "end" => /\ DOMAIN queueData = Indices(size)
                      /\ heap[dataEntries] \in [Indices(size) -> Cells]

(* Arrays are deleted in the order of their allocation. *)
FreedInOrder ==
  \/ phase \in {"use", "end"} /\ freed = 1 .. dataEntries - 1
  \/ phase = "copy" /\ dataEntries > 1 /\ freed = 1 .. dataEntries - 2
  \/ phase = "end" /\ freed = 1 .. dataEntries

(* A resize copies from a smaller ring, and has come to one of its slots,  *)
(* not past the write index; nobody holds an entry.                        *)
Copying ==
  phase = "copy" =>
    /\ oldSize \in Nat \ {0} /\ oldSize < size
    /\ DOMAIN oldData = Indices(oldSize)
    /\ heap[dataEntries - 1] \in [Indices(oldSize) -> Cells]
    /\ readIndex \in Indices(oldSize) /\ writeIndex \in Indices(oldSize)
    /\ cursor \in Indices(oldSize)
    /\ RingCount(readIndex, cursor, oldSize) <= RingCount(readIndex, writeIndex, oldSize)
    /\ held = Nothing

(* The entries of the queue are of types that the array stores. *)
QueuedTypes ==
  /\ queued \in Seq(Records)
  /\ \A k \in 1 .. Len(queued) :
       /\ queued[k].entry <= added
       /\ single => queued[k].type = "entry1"

(* pointer leads to slot i of array, whose cells hold the entry q there. *)
Stores(array, cells, pointer, i, q) ==
  /\ pointer = [array |-> array, index |-> i, member |-> q.type]
  /\ cells[i][q.type] = q.entry

(* The first n of the entries q are stored in the ring that begins at slot *)
(* r of array, which has size m.                                           *)
StoredUpTo(q, n, array, cells, pointers, r, m) ==
  \A k \in 1 .. n :
    Stores(array, cells, pointers[RingAt(r, k - 1, m)], RingAt(r, k - 1, m), q[k])

(* Between resizes the ring holds the queue. *)
RingHoldsQueue ==
  phase = "use" =>
    /\ Len(queued) = RingCount(readIndex, writeIndex, size)
    /\ StoredUpTo(queued, Len(queued), dataEntries, heap[dataEntries], queueData, readIndex, size)

(* In a resize the old ring holds the queue, and the new one holds what    *)
(* has been copied.                                                        *)
RingsHoldQueue ==
  phase = "copy" =>
    /\ Len(queued) = RingCount(readIndex, writeIndex, oldSize)
    /\ StoredUpTo(queued, Len(queued), dataEntries - 1, heap[dataEntries - 1], oldData, readIndex, oldSize)
    /\ StoredUpTo(queued, RingCount(readIndex, cursor, oldSize), dataEntries, heap[dataEntries], queueData,
                  ResizedReadIndex(readIndex, writeIndex, oldSize, size), size)

(* A paused reader holds nothing. *)
PausedReader == paused \in BOOLEAN /\ (paused => held = Nothing)

(* The reader's entry is in the slot before readIndex, which the full test *)
(* keeps free.                                                             *)
HeldBehindReader ==
  /\ held.was \in 0 .. added
  /\ held # Nothing =>
       /\ phase = "use"
       /\ \E i \in Indices(size), member \in Members :
            /\ nextIndex(i, size) = readIndex
            /\ held.at = [array |-> dataEntries, index |-> i, member |-> member]
            /\ heap[dataEntries][i][member] = held.was

IInv ==
  /\ Shape /\ FreedInOrder /\ Copying /\ QueuedTypes
  /\ RingHoldsQueue /\ RingsHoldQueue /\ HeldBehindReader /\ PausedReader

-----------------------------------------------------------------------------
(* Storing an entry.                                                       *)

(* A store into a cell changes one member of it. *)
LEMMA CellStore ==
  ASSUME NEW n \in Nat \ {0}, NEW cells \in [Indices(n) -> Cells],
         NEW i \in Indices(n), NEW m \in Members, NEW e \in Nat
  PROVE  LET C == [cells EXCEPT ![i] = [@ EXCEPT ![m] = e]]
         IN  /\ C \in [Indices(n) -> Cells]
             /\ C[i][m] = e
             /\ \A j \in Indices(n) : j # i => C[j] = cells[j]
<1>1. [cells[i] EXCEPT ![m] = e] \in Cells
  BY DEF Cells, Members
<1>2. [cells[i] EXCEPT ![m] = e][m] = e
  BY DEF Cells, Members
<1> QED BY <1>1, <1>2

(* Another array in place of the one in use. *)
LEMMA ArrayStore ==
  ASSUME Shape, NEW C \in [Indices(size) -> Cells]
  PROVE  LET H == [heap EXCEPT ![dataEntries] = C]
         IN  H \in Seq(Arrays) /\ Len(H) = Len(heap) /\ H[dataEntries] = C
<1>1. C \in Arrays
  BY DEF Arrays, Shape
<1>2. dataEntries \in 1 .. Len(heap)
  BY DEF Shape
<1> HIDE DEF Arrays
<1> QED BY <1>1, <1>2 DEF Shape

(* The inductive invariant holds initially. *)
LEMMA InitIInv == Init => IInv
<1> SUFFICES ASSUME Init PROVE IInv
  OBVIOUS
<1>1. NewArray(InitSize) \in [Indices(InitSize) -> Cells]
  BY DEF NewArray, Cells
<1>2. NewArray(InitSize) \in Arrays
  BY <1>1, StorageAssumption DEF Arrays
<1>3. heap \in Seq(Arrays) /\ Len(heap) = 1 /\ heap[1] = NewArray(InitSize)
  BY <1>2 DEF Init
<1>4. Shape
  BY <1>1, <1>3, StorageAssumption DEF Init, Shape, Indices
<1>5. FreedInOrder /\ Copying /\ QueuedTypes /\ RingsHoldQueue
  BY DEF Init, FreedInOrder, Copying, QueuedTypes, RingsHoldQueue
<1>6. RingHoldsQueue
  BY StorageAssumption DEF Init, RingHoldsQueue, RingCount, StoredUpTo
<1>7. HeldBehindReader
  BY DEF Init, HeldBehindReader, Nothing
<1>8. PausedReader
  BY DEF Init, PausedReader
<1> QED BY <1>4, <1>5, <1>6, <1>7, <1>8 DEF IInv

(* An added entry goes to the free slot at writeIndex: the entries of the  *)
(* queue and the one the reader holds are in others.                       *)
LEMMA AddIInv ==
  ASSUME IInv, NEW type \in Types, Add(type)
  PROVE  IInv'
<1> DEFINE C == [heap[dataEntries] EXCEPT ![writeIndex] = [@ EXCEPT ![type] = added + 1]]
           P == [array |-> dataEntries, index |-> writeIndex, member |-> type]
           Q == [type |-> type, entry |-> added + 1]
<1>1. type \in Members /\ (single => type = "entry1")
  BY DEF Add, isCompatibleEntry, getQueueEntry, sampleMember, Types, Members
<1>2. getQueueEntry(dataEntries, heap[dataEntries], writeIndex, type) = P
  BY <1>1 DEF Add, getQueueEntry, sampleMember, singleMember, Members
<1>3. /\ phase = "use" /\ phase' = "use"
      /\ queueData' = [queueData EXCEPT ![writeIndex] = P]
      /\ heap' = [heap EXCEPT ![dataEntries] = C]
      /\ nextIndex(writeIndex, size) # readIndex
      /\ writeIndex' = nextIndex(writeIndex, size)
      /\ added' = added + 1
      /\ queued' = Append(queued, Q)
      /\ UNCHANGED <<freed, dataEntries, single, size, readIndex, oldData, cursor, held, paused>>
  BY <1>2 DEF Add, Full, copyTo, resizeVars, readerVars
<1>4. /\ size \in Nat \ {0} /\ readIndex \in Indices(size) /\ writeIndex \in Indices(size)
      /\ heap[dataEntries] \in [Indices(size) -> Cells] /\ DOMAIN queueData = Indices(size)
      /\ added \in Nat
  BY <1>3 DEF IInv, Shape
<1>5. /\ C \in [Indices(size) -> Cells]
      /\ C[writeIndex][type] = added + 1
      /\ \A j \in Indices(size) : j # writeIndex => C[j] = heap[dataEntries][j]
  <2> HIDE DEF Members, Cells
  <2>1. added + 1 \in Nat
    BY <1>4
  <2> QED BY <1>1, <1>4, <2>1, CellStore
<1>6. heap' \in Seq(Arrays) /\ Len(heap') = Len(heap) /\ heap'[dataEntries] = C
  BY <1>3, <1>5, ArrayStore DEF IInv
<1> HIDE DEF C
<1>7. Shape'
  BY <1>3, <1>4, <1>5, <1>6, NextIndexValue DEF IInv, Shape
<1>8. FreedInOrder' /\ Copying' /\ RingsHoldQueue'
  BY <1>3 DEF IInv, FreedInOrder, Copying, RingsHoldQueue
<1>9. /\ queued \in Seq(Records) /\ queued' \in Seq(Records)
      /\ Len(queued') = Len(queued) + 1
      /\ \A k \in 1 .. Len(queued) : queued'[k] = queued[k]
      /\ queued'[Len(queued) + 1] = Q
  BY <1>1, <1>3, <1>4 DEF IInv, QueuedTypes, Records
<1>10. QueuedTypes'
  <2>1. \A k \in 1 .. Len(queued) : queued[k].entry \in Nat /\ queued[k].entry <= added
    <3>1. \A k \in 1 .. Len(queued) : queued[k] \in Records
      BY <1>9
    <3>2. \A k \in 1 .. Len(queued) : queued[k].entry <= added
      BY DEF IInv, QueuedTypes
    <3> QED BY <3>1, <3>2 DEF Records
  <2>2. ASSUME NEW k \in 1 .. Len(queued) + 1
        PROVE  queued'[k].entry <= added + 1 /\ (single => queued'[k].type = "entry1")
    <3>1. CASE k = Len(queued) + 1
      BY <1>1, <1>4, <1>9, <3>1
    <3>2. CASE k \in 1 .. Len(queued)
      BY <1>4, <1>9, <2>1, <3>2 DEF IInv, QueuedTypes
    <3> QED BY <1>9, <3>1, <3>2
  <2> QED BY <1>3, <1>9, <2>2 DEF QueuedTypes
<1>11. RingHoldsQueue'
  <2>1. Len(queued) = RingCount(readIndex, writeIndex, size) /\ Len(queued) \in Nat
    BY <1>3, <1>9 DEF IInv, RingHoldsQueue
  <2>2. Len(queued') = RingCount(readIndex, writeIndex', size)
    BY <1>3, <1>4, <1>9, <2>1, RingAppend
  <2>3. ASSUME NEW k \in 1 .. Len(queued)
        PROVE  Stores(dataEntries, C, queueData'[RingAt(readIndex, k - 1, size)],
                      RingAt(readIndex, k - 1, size), queued'[k])
    <3> DEFINE i == RingAt(readIndex, k - 1, size)
    <3>1. i \in Indices(size) /\ i # writeIndex
      <4>1. \A j \in 0 .. RingCount(readIndex, writeIndex, size) - 1 :
              RingAt(readIndex, j, size) \in Indices(size) /\ RingAt(readIndex, j, size) # writeIndex
        BY ONLY <1>4, RingPositions
      <4>2. k - 1 \in 0 .. RingCount(readIndex, writeIndex, size) - 1
        BY <2>1
      <4> QED BY <4>1, <4>2
    <3>2. Stores(dataEntries, heap[dataEntries], queueData[i], i, queued[k])
      BY <1>3 DEF IInv, RingHoldsQueue, StoredUpTo
    <3>3. queueData'[i] = queueData[i] /\ C[i] = heap[dataEntries][i] /\ queued'[k] = queued[k]
      BY <1>3, <1>4, <1>5, <1>9, <3>1
    <3> HIDE DEF i
    <3>4. Stores(dataEntries, C, queueData'[i], i, queued'[k])
      BY <3>2, <3>3 DEF Stores
    <3> QED BY <3>4 DEF i
  <2>4. RingAt(readIndex, Len(queued), size) = writeIndex
    BY <1>4, <2>1, RingPositions
  <2>5. Stores(dataEntries, C, queueData'[writeIndex], writeIndex, Q)
    BY <1>3, <1>4, <1>5 DEF Stores
  <2>6. StoredUpTo(queued', Len(queued) + 1, dataEntries, C, queueData', readIndex, size)
    <3> SUFFICES ASSUME NEW k \in 1 .. Len(queued) + 1
                 PROVE  Stores(dataEntries, C, queueData'[RingAt(readIndex, k - 1, size)],
                               RingAt(readIndex, k - 1, size), queued'[k])
      BY <1>3 DEF StoredUpTo
    <3>1. CASE k = Len(queued) + 1
      BY <1>9, <2>1, <2>4, <2>5, <3>1
    <3> QED BY <2>1, <2>3, <3>1
  <2> QED BY <1>3, <1>6, <1>9, <2>2, <2>6 DEF RingHoldsQueue
<1>12. HeldBehindReader'
  <2>1. held.was \in 0 .. added + 1
    BY <1>4 DEF IInv, HeldBehindReader
  <2>2. ASSUME held # Nothing,
               NEW i \in Indices(size), NEW member \in Members, nextIndex(i, size) = readIndex,
               heap[dataEntries][i][member] = held.was
        PROVE  heap'[dataEntries][i][member] = held.was
    BY <1>3, <1>5, <1>6, <2>2
  <2> QED BY <1>3, <2>1, <2>2 DEF IInv, HeldBehindReader
<1>13. PausedReader'
  BY <1>3 DEF IInv, PausedReader
<1> QED BY <1>7, <1>8, <1>10, <1>11, <1>12, <1>13 DEF IInv

(* The reader's reference leads to the slot that readIndex leaves. *)
LEMMA RemoveIInv ==
  ASSUME IInv, Remove
  PROVE  IInv'
<1>1. /\ phase = "use" /\ phase' = "use" /\ ~paused
      /\ UNCHANGED <<arrayVars, size, writeIndex, queueData, resizeVars, paused, added>>
  BY DEF Remove, resizeVars
<1>2. /\ size \in Nat \ {0} /\ readIndex \in Indices(size) /\ writeIndex \in Indices(size)
      /\ queued \in Seq(Records) /\ Len(queued) \in Nat /\ added \in Nat
  BY DEF IInv, Shape, QueuedTypes
<1>3. /\ Len(queued) = RingCount(readIndex, writeIndex, size)
      /\ StoredUpTo(queued, Len(queued), dataEntries, heap[dataEntries], queueData, readIndex, size)
  BY <1>1 DEF IInv, RingHoldsQueue
<1>4. FreedInOrder' /\ Copying' /\ RingsHoldQueue' /\ PausedReader'
  <2>1. PausedReader'
    BY <1>1 DEF IInv, PausedReader
  <2> QED BY <1>1, <2>1 DEF IInv, FreedInOrder, Copying, RingsHoldQueue, arrayVars
<1>5. CASE readIndex = writeIndex
  <2>1. held' = Nothing /\ UNCHANGED <<readIndex, queued>>
    BY <1>5 DEF Remove
  <2>2. Shape' /\ QueuedTypes' /\ RingHoldsQueue'
    BY <1>1, <2>1 DEF IInv, Shape, QueuedTypes, RingHoldsQueue, arrayVars
  <2>3. HeldBehindReader'
    BY <1>1, <1>2, <2>1 DEF HeldBehindReader, Nothing
  <2> QED BY <1>4, <2>2, <2>3 DEF IInv
<1>6. CASE readIndex # writeIndex
  <2>1. /\ held' = [at |-> queueData[readIndex], was |-> Head(queued).entry]
        /\ readIndex' = nextIndex(readIndex, size)
        /\ queued' = Tail(queued)
    BY <1>6 DEF Remove
  <2>2. Len(queued) > 0
    BY <1>2, <1>3, <1>6, RingPositions
  <2>3. /\ Head(queued) = queued[1] /\ queued[1] \in Records
        /\ queued' \in Seq(Records) /\ Len(queued') = Len(queued) - 1
        /\ \A k \in 1 .. Len(queued) - 1 : queued'[k] = queued[k + 1]
    BY <1>2, <2>1, <2>2
  <2>4. Shape'
    BY <1>1, <1>2, <2>1, NextIndexValue DEF IInv, Shape, arrayVars
  <2>5. QueuedTypes'
    <3>1. ASSUME NEW k \in 1 .. Len(queued) - 1
          PROVE  queued'[k].entry <= added /\ (single => queued'[k].type = "entry1")
      <4>1. k + 1 \in 1 .. Len(queued) /\ queued'[k] = queued[k + 1]
        BY <1>2, <2>3
      <4> QED BY <4>1 DEF IInv, QueuedTypes
    <3> QED BY <1>1, <2>3, <3>1 DEF QueuedTypes, arrayVars
  <2>6. RingHoldsQueue'
    <3>1. /\ RingCount(readIndex', writeIndex, size) = Len(queued) - 1
          /\ \A k \in 0 .. Len(queued) - 2 :
               RingAt(readIndex', k, size) = RingAt(readIndex, k + 1, size)
      BY <1>2, <1>3, <1>6, <2>1, RingDrop
    <3>2. ASSUME NEW k \in 1 .. Len(queued) - 1
          PROVE  Stores(dataEntries, heap[dataEntries], queueData[RingAt(readIndex', k - 1, size)],
                        RingAt(readIndex', k - 1, size), queued'[k])
      <4>1. Stores(dataEntries, heap[dataEntries], queueData[RingAt(readIndex, (k + 1) - 1, size)],
                   RingAt(readIndex, (k + 1) - 1, size), queued[k + 1])
        BY <1>2, <1>3 DEF StoredUpTo
      <4>2. k - 1 \in 0 .. Len(queued) - 2 /\ (k - 1) + 1 = (k + 1) - 1
        BY <1>2
      <4>3. RingAt(readIndex', k - 1, size) = RingAt(readIndex, (k + 1) - 1, size)
        BY <3>1, <4>2
      <4> QED BY <2>3, <4>1, <4>3
    <3> QED BY <1>1, <2>3, <3>1, <3>2 DEF RingHoldsQueue, StoredUpTo, arrayVars
  <2>7. HeldBehindReader'
    <3>1. Stores(dataEntries, heap[dataEntries], queueData[readIndex], readIndex, queued[1])
      <4>1. RingAt(readIndex, 1 - 1, size) = readIndex
        BY <1>2, RingPositions
      <4> QED BY <1>2, <1>3, <2>2, <4>1 DEF StoredUpTo
    <3>2. queued[1].type \in Members /\ queued[1].entry \in 0 .. added
      <4>1. queued[1].entry <= added
        BY <1>2, <2>2 DEF IInv, QueuedTypes
      <4> QED BY <1>2, <2>3, <4>1 DEF Records
    <3> QED BY <1>1, <1>2, <2>1, <2>3, <3>1, <3>2 DEF HeldBehindReader, Stores, arrayVars
  <2> QED BY <1>4, <2>4, <2>5, <2>6, <2>7 DEF IInv
<1> QED BY <1>5, <1>6

(* A paused reader holds nothing. *)
LEMMA PauseIInv ==
  ASSUME IInv, Pause \/ Resume
  PROVE  IInv'
<1>1. Shape' /\ FreedInOrder' /\ QueuedTypes' /\ RingHoldsQueue'
  BY DEF IInv, Pause, Resume, Shape, FreedInOrder, QueuedTypes, RingHoldsQueue,
     arrayVars, indexVars, resizeVars
<1>2. Copying' /\ RingsHoldQueue'
  BY DEF IInv, Pause, Resume, Copying, RingsHoldQueue, resizeVars
<1>3. HeldBehindReader'
  <2>1. CASE Pause
    BY <2>1 DEF IInv, Pause, Shape, HeldBehindReader, Nothing
  <2>2. CASE Resume
    <3>1. UNCHANGED <<heap, dataEntries, size, readIndex, phase, held, added>>
      BY <2>2 DEF Resume, arrayVars, indexVars, resizeVars
    <3> QED BY <3>1 DEF IInv, HeldBehindReader
  <2> QED BY <2>1, <2>2
<1>4. PausedReader'
  BY DEF IInv, Pause, Resume, PausedReader
<1> QED BY <1>1, <1>2, <1>3, <1>4 DEF IInv

(* The end of a queue. *)
LEMMA DeleteIInv ==
  ASSUME IInv, DeleteQueue \/ DeleteArray
  PROVE  IInv'
<1>1. CASE DeleteQueue
  <2>1. Shape' /\ FreedInOrder' /\ Copying' /\ RingHoldsQueue' /\ RingsHoldQueue'
    BY <1>1 DEF IInv, DeleteQueue, Shape, FreedInOrder, Copying, RingHoldsQueue, RingsHoldQueue,
       arrayVars, indexVars
  <2>2. QueuedTypes'
    BY <1>1 DEF DeleteQueue, QueuedTypes
  <2>3. HeldBehindReader'
    BY <1>1 DEF IInv, DeleteQueue, HeldBehindReader, readerVars
  <2>4. PausedReader'
    BY <1>1 DEF IInv, DeleteQueue, PausedReader, readerVars
  <2> QED BY <2>1, <2>2, <2>3, <2>4 DEF IInv
<1>2. CASE DeleteArray
  <2>1. Shape' /\ Copying' /\ QueuedTypes' /\ RingHoldsQueue' /\ RingsHoldQueue' /\ HeldBehindReader'
    BY <1>2 DEF IInv, DeleteArray, Shape, Copying, QueuedTypes, RingHoldsQueue, RingsHoldQueue,
       HeldBehindReader, arrayVars, indexVars, resizeVars, readerVars
  <2>2. FreedInOrder'
    <3>1. freed = 1 .. dataEntries - 1 \/ freed = 1 .. dataEntries
      BY <1>2 DEF IInv, DeleteArray, FreedInOrder
    <3>2. freed' = 1 .. dataEntries
      BY <1>2, <3>1 DEF DeleteArray, IInv, Shape
    <3> QED BY <1>2, <3>2 DEF DeleteArray, FreedInOrder, resizeVars
  <2>3. PausedReader'
    BY <1>2 DEF IInv, DeleteArray, PausedReader, readerVars
  <2> QED BY <2>1, <2>2, <2>3 DEF IInv
<1> QED BY <1>1, <1>2

(* The copying starts at the read index, with nobody holding an entry. *)
LEMMA BeginResizeIInv ==
  ASSUME IInv, BeginResize
  PROVE  IInv'
<1> DEFINE m == getNewQueueSize(size, MaxSize, UIntMax)
<1>1. m \in Nat /\ m > size
  BY NewSizeBound, StorageAssumption DEF BeginResize, IInv, Shape
<1>2. /\ phase = "use" /\ phase' = "copy" /\ held = Nothing
      /\ heap' = Append(heap, NewArray(m))
      /\ dataEntries' = Len(heap) + 1
      /\ oldData' = queueData
      /\ queueData' = [i \in Indices(m) |-> Garbage]
      /\ size' = m /\ cursor' = readIndex
      /\ UNCHANGED <<freed, single, readIndex, writeIndex, held, paused, queued, added>>
  BY DEF BeginResize, readerVars, IInv, PausedReader
<1> HIDE DEF m
<1>3. /\ size \in Nat \ {0} /\ readIndex \in Indices(size) /\ writeIndex \in Indices(size)
      /\ heap \in Seq(Arrays) /\ dataEntries = Len(heap) /\ dataEntries \in Nat \ {0}
      /\ DOMAIN queueData = Indices(size)
      /\ heap[dataEntries] \in [Indices(size) -> Cells]
  BY <1>2 DEF IInv, Shape
<1>4. NewArray(m) \in [Indices(m) -> Cells]
  BY DEF NewArray, Cells
<1>5. NewArray(m) \in Arrays
  BY <1>1, <1>3, <1>4 DEF Arrays
<1>6. /\ heap' \in Seq(Arrays) /\ Len(heap') = Len(heap) + 1
      /\ heap'[dataEntries'] = NewArray(m)
      /\ heap'[dataEntries' - 1] = heap[dataEntries]
  BY <1>2, <1>3, <1>5
<1>7. Shape'
  <2>1. readIndex \in Indices(m) /\ writeIndex \in Indices(m)
    BY <1>1, <1>3 DEF Indices
  <2>2. DOMAIN queueData' = Indices(m)
    BY <1>2
  <2> QED BY <1>1, <1>2, <1>3, <1>4, <1>6, <2>1, <2>2 DEF IInv, Shape
<1>8. oldSize' = size
  <2>1. Cardinality(0 .. size - 1) = size
    BY <1>3, FS_Interval
  <2> QED BY <1>2, <1>3, <2>1 DEF oldSize, Indices
<1>9. FreedInOrder'
  <2>1. freed = 1 .. dataEntries - 1
    BY <1>2 DEF IInv, FreedInOrder
  <2> QED BY <1>2, <1>3, <2>1 DEF FreedInOrder
<1>10. Copying'
  <2>1. RingCount(readIndex, readIndex, size) <= RingCount(readIndex, writeIndex, size)
    BY <1>3, RingPositions
  <2> QED BY <1>1, <1>2, <1>3, <1>6, <1>8, <2>1 DEF Copying
<1>11. QueuedTypes'
  BY <1>2 DEF IInv, QueuedTypes
<1>12. RingHoldsQueue' /\ HeldBehindReader'
  BY <1>2 DEF IInv, RingHoldsQueue, HeldBehindReader
<1>13. RingsHoldQueue'
  <2>1. /\ Len(queued) = RingCount(readIndex, writeIndex, size)
        /\ StoredUpTo(queued, Len(queued), dataEntries, heap[dataEntries], queueData, readIndex, size)
    BY <1>2 DEF IInv, RingHoldsQueue
  <2>2. RingCount(readIndex, readIndex, size) = 0
    BY <1>3, RingPositions
  <2>3. dataEntries' - 1 = dataEntries
    BY <1>2, <1>3
  <2>4. \A array, cells, pointers, r, n : StoredUpTo(queued, 0, array, cells, pointers, r, n)
    BY DEF StoredUpTo
  <2> QED BY <1>2, <1>6, <1>8, <2>1, <2>2, <2>3, <2>4 DEF RingsHoldQueue
<1>14. PausedReader'
  BY <1>2 DEF IInv, PausedReader
<1> QED BY <1>7, <1>9, <1>10, <1>11, <1>12, <1>13, <1>14 DEF IInv

(* A turn of the loop copies the entry at the cursor to the same position  *)
(* of the new ring.                                                        *)
LEMMA CopySlotIInv ==
  ASSUME IInv, CopySlot
  PROVE  IInv'
<1> DEFINE c == RingCount(readIndex, cursor, oldSize)
           R == ResizedReadIndex(readIndex, writeIndex, oldSize, size)
           q == queued[c + 1]
           P == [array |-> dataEntries, index |-> NewIndex, member |-> q.type]
           C == [heap[dataEntries] EXCEPT ![NewIndex] = [@ EXCEPT ![q.type] = q.entry]]
<1>1. /\ phase = "copy" /\ Populated(cursor, readIndex, writeIndex, size)
      /\ cursor' = nextIndex(cursor, oldSize)
      /\ UNCHANGED <<freed, dataEntries, single, size, readIndex, writeIndex, oldData, phase, held,
                     paused, queued, added>>
  BY DEF CopySlot, oldSize, indexVars, readerVars
<1>2. /\ oldSize \in Nat \ {0} /\ size \in Nat \ {0} /\ oldSize < size
      /\ readIndex \in Indices(oldSize) /\ writeIndex \in Indices(oldSize)
      /\ cursor \in Indices(oldSize)
      /\ queued \in Seq(Records) /\ Len(queued) \in Nat
      /\ Len(queued) = RingCount(readIndex, writeIndex, oldSize)
      /\ heap[dataEntries] \in [Indices(size) -> Cells] /\ DOMAIN queueData = Indices(size)
      /\ heap \in Seq(Arrays) /\ dataEntries = Len(heap) /\ dataEntries \in Nat \ {0}
  BY <1>1 DEF IInv, Shape, Copying, QueuedTypes, RingsHoldQueue
<1>3. RingCount(readIndex, writeIndex, oldSize) \in 0 .. oldSize - 1
  BY <1>2, RingPositions
<1>4. c \in 0 .. Len(queued) - 1 /\ RingAt(readIndex, c, oldSize) = cursor
  <2>1. c \in 0 .. oldSize - 1 /\ RingAt(readIndex, c, oldSize) = cursor
    BY <1>2, RingPositions
  <2>2. c < RingCount(readIndex, writeIndex, oldSize)
    BY <1>1, <1>2, PopulatedPosition
  <2> QED BY <1>2, <2>1, <2>2
<1>5. NewIndex = RingAt(R, c, size) /\ NewIndex \in Indices(size)
  BY <1>2, <1>4, RingMoved DEF NewIndex, oldSize
<1>6. RingCount(readIndex, cursor', oldSize) = c + 1
  <2>1. c # oldSize - 1
    BY <1>2, <1>3, <1>4
  <2>2. nextIndex(cursor, oldSize) # readIndex
    BY <1>2, <2>1, RingFull
  <2> QED BY <1>1, <1>2, <2>2, RingAppend
<1>7. c + 1 \in 1 .. Len(queued) /\ (c + 1) - 1 = c
  BY <1>2, <1>4
<1>8. /\ q \in Records /\ q.type \in Members /\ q.entry \in Nat
      /\ single => q.type = "entry1"
  <2>1. q \in Records
    BY <1>2, <1>7
  <2> QED BY <1>7, <2>1 DEF Records, IInv, QueuedTypes
<1>9. oldData[cursor].member = q.type /\ Deref(oldData[cursor]) = q.entry
  <2>1. Stores(dataEntries - 1, heap[dataEntries - 1], oldData[RingAt(readIndex, (c + 1) - 1, oldSize)],
               RingAt(readIndex, (c + 1) - 1, oldSize), q)
    BY <1>1, <1>7 DEF IInv, RingsHoldQueue, StoredUpTo
  <2>2. Stores(dataEntries - 1, heap[dataEntries - 1], oldData[cursor], cursor, q)
    BY <1>4, <1>7, <2>1
  <2> QED BY <2>2 DEF Stores, Deref
<1>10. getQueueEntry(dataEntries, heap[dataEntries], NewIndex, oldData[cursor].member) = P
  BY <1>2, <1>5, <1>8, <1>9 DEF getQueueEntry, sampleMember, singleMember, Members
<1>11. P # NULL
  BY <1>2 DEF NULL
<1>12. /\ queueData' = [queueData EXCEPT ![NewIndex] = P]
       /\ heap' = [heap EXCEPT ![dataEntries] = copyTo(@, P, q.type, q.entry)]
  BY <1>9, <1>10, <1>11 DEF CopySlot
<1>13. heap' = [heap EXCEPT ![dataEntries] = C]
  BY <1>12 DEF copyTo
<1> HIDE DEF c, R, q, NewIndex
<1>14. /\ C \in [Indices(size) -> Cells]
       /\ C[NewIndex][q.type] = q.entry
       /\ \A j \in Indices(size) : j # NewIndex => C[j] = heap[dataEntries][j]
  BY <1>2, <1>5, <1>8, CellStore
<1>15. /\ heap' \in Seq(Arrays) /\ Len(heap') = Len(heap) /\ heap'[dataEntries] = C
       /\ heap'[dataEntries - 1] = heap[dataEntries - 1]
  <2>1. heap' \in Seq(Arrays) /\ Len(heap') = Len(heap) /\ heap'[dataEntries] = C
    BY <1>13, <1>14, ArrayStore DEF IInv
  <2>2. dataEntries - 1 \in 1 .. Len(heap)
    BY <1>1, <1>2 DEF IInv, FreedInOrder
  <2> QED BY <1>2, <1>13, <2>1, <2>2
<1> HIDE DEF C
<1>16. Shape'
  BY <1>1, <1>2, <1>12, <1>14, <1>15 DEF IInv, Shape
<1>17. oldSize' = oldSize
  BY <1>1 DEF oldSize
<1>18. Copying'
  <2>1. RingCount(readIndex, cursor', oldSize) <= RingCount(readIndex, writeIndex, oldSize)
    BY <1>2, <1>4, <1>6
  <2> QED BY <1>1, <1>2, <1>15, <1>17, <2>1, NextIndexValue DEF IInv, Copying
<1>19. FreedInOrder' /\ QueuedTypes' /\ RingHoldsQueue' /\ HeldBehindReader'
  BY <1>1 DEF IInv, FreedInOrder, QueuedTypes, RingHoldsQueue, HeldBehindReader
<1>20. StoredUpTo(queued, c + 1, dataEntries, C, queueData', R, size)
  <2> SUFFICES ASSUME NEW k \in 1 .. c + 1
               PROVE  Stores(dataEntries, C, queueData'[RingAt(R, k - 1, size)],
                             RingAt(R, k - 1, size), queued[k])
    BY DEF StoredUpTo
  <2>1. CASE k = c + 1
    <3>1. RingAt(R, k - 1, size) = NewIndex
      BY <1>5, <1>7, <2>1
    <3>2. queueData'[NewIndex] = P /\ queued[k] = q
      BY <1>2, <1>5, <1>12, <2>1 DEF q
    <3> QED BY <1>14, <3>1, <3>2 DEF Stores
  <2>2. CASE k \in 1 .. c
    <3> DEFINE i == RingAt(R, k - 1, size)
    <3>1. k - 1 \in Indices(size) /\ c \in Indices(size) /\ k - 1 # c /\ R \in Indices(size)
      <4>1. RingCount(readIndex, writeIndex, oldSize) \in 0 .. oldSize - 1
        BY <1>2, RingPositions
      <4>2. R \in Indices(size)
        BY <1>2, ResizedIndices DEF R
      <4> QED BY <1>2, <1>4, <2>2, <4>1, <4>2 DEF Indices
    <3>2. i \in Indices(size) /\ i # NewIndex
      <4>1. i # NewIndex
        BY <1>2, <1>5, <3>1, RingDistinct
      <4>2. i \in Indices(size)
        BY <1>2, <3>1 DEF RingAt, Indices
      <4> QED BY <4>1, <4>2
    <3>3. Stores(dataEntries, heap[dataEntries], queueData[i], i, queued[k])
      BY <1>1, <2>2 DEF IInv, RingsHoldQueue, StoredUpTo, c, R
    <3>4. queueData'[i] = queueData[i] /\ C[i] = heap[dataEntries][i]
      BY <1>2, <1>12, <1>14, <3>2
    <3> HIDE DEF i
    <3>5. Stores(dataEntries, C, queueData'[i], i, queued[k])
      BY <3>3, <3>4 DEF Stores
    <3> QED BY <3>5 DEF i
  <2> QED BY <1>4, <1>2, <2>1, <2>2
<1>21. RingsHoldQueue'
  BY <1>1, <1>6, <1>15, <1>17, <1>20 DEF IInv, RingsHoldQueue, c, R
<1>22. PausedReader'
  BY <1>1 DEF IInv, PausedReader
<1> QED BY <1>16, <1>18, <1>19, <1>21, <1>22 DEF IInv

(* When the loop ends, everything has been copied. *)
LEMMA EndResizeIInv ==
  ASSUME IInv, EndResize
  PROVE  IInv'
<1> DEFINE R == ResizedReadIndex(readIndex, writeIndex, oldSize, size)
<1>1. /\ phase = "copy" /\ phase' = "use" /\ ~Populated(cursor, readIndex, writeIndex, size)
      /\ readIndex' = R /\ freed' = freed \cup {dataEntries - 1}
      /\ UNCHANGED <<heap, dataEntries, single, size, writeIndex, queueData, held, paused, queued, added>>
  BY DEF EndResize, oldEntries, oldSize, readerVars
<1>2. /\ oldSize \in Nat \ {0} /\ size \in Nat \ {0} /\ oldSize < size
      /\ readIndex \in Indices(oldSize) /\ writeIndex \in Indices(oldSize)
      /\ cursor \in Indices(oldSize)
      /\ RingCount(readIndex, cursor, oldSize) <= RingCount(readIndex, writeIndex, oldSize)
      /\ Len(queued) = RingCount(readIndex, writeIndex, oldSize)
      /\ held = Nothing
  BY <1>1 DEF IInv, Shape, Copying, RingsHoldQueue
<1>3. RingCount(readIndex, cursor, oldSize) = RingCount(readIndex, writeIndex, oldSize)
  <2>1. RingCount(readIndex, cursor, oldSize) \in Nat /\ RingCount(readIndex, writeIndex, oldSize) \in Nat
    BY <1>2, RingPositions
  <2> QED BY <1>1, <1>2, <2>1, PopulatedPosition
<1>4. R \in Indices(size)
  BY <1>2, ResizedIndices
<1>5. Shape'
  BY <1>1, <1>4 DEF IInv, Shape
<1>6. FreedInOrder'
  <2>1. freed = 1 .. dataEntries - 2 /\ dataEntries > 1 /\ dataEntries \in Nat
    BY <1>1 DEF IInv, Shape, FreedInOrder
  <2>2. freed' = 1 .. dataEntries - 1
    BY <1>1, <2>1
  <2> QED BY <1>1, <2>2 DEF FreedInOrder
<1>7. Copying' /\ RingsHoldQueue' /\ QueuedTypes' /\ HeldBehindReader'
  BY <1>1, <1>2 DEF IInv, Copying, RingsHoldQueue, QueuedTypes, HeldBehindReader
<1>8. RingHoldsQueue'
  <2>1. RingCount(R, writeIndex, size) = Len(queued)
    BY <1>2, RingResize
  <2>2. StoredUpTo(queued, Len(queued), dataEntries, heap[dataEntries], queueData, R, size)
    BY <1>1, <1>2, <1>3 DEF IInv, RingsHoldQueue
  <2> QED BY <1>1, <2>1, <2>2 DEF RingHoldsQueue
<1>9. PausedReader'
  BY <1>1 DEF IInv, PausedReader
<1> QED BY <1>5, <1>6, <1>7, <1>8, <1>9 DEF IInv

(* Every step preserves the inductive invariant. *)
LEMMA NextIInv == IInv /\ [Next]_vars => IInv'
<1> SUFFICES ASSUME IInv, [Next]_vars PROVE IInv'
  OBVIOUS
<1>1. CASE UNCHANGED vars
  BY <1>1 DEF IInv, Shape, FreedInOrder, Copying, QueuedTypes, RingHoldsQueue, RingsHoldQueue,
     HeldBehindReader, PausedReader, oldSize, vars, arrayVars, indexVars, resizeVars, readerVars
<1> QED
  BY <1>1, AddIInv, RemoveIInv, PauseIInv, BeginResizeIInv, CopySlotIInv, EndResizeIInv, DeleteIInv
  DEF Next

-----------------------------------------------------------------------------
(* The invariant holds in every reachable state. *)
THEOREM Invariance == Spec => []IInv
BY InitIInv, NextIInv, PTL DEF Spec

(* The array in use is alive and has a cell for every slot of the queue. *)
THEOREM TypeCorrect == Spec => []TypeOK
<1>1. IInv => TypeOK
  BY DEF IInv, Shape, FreedInOrder, HeldBehindReader, PausedReader, TypeOK
<1> QED BY <1>1, Invariance, PTL

(* The pointer of every published slot leads to the entry that was added.  *)
THEOREM SlotsCorrect == Spec => []SlotsHoldQueue
<1>1. ASSUME IInv, phase = "use", NEW k \in 1 .. Len(queued)
      PROVE  LET i == RingAt(readIndex, k - 1, size)
             IN  /\ queueData[i].array = dataEntries
                 /\ queueData[i].index = i
                 /\ queueData[i].member = queued[k].type
                 /\ Deref(queueData[i]) = queued[k].entry
  <2> DEFINE i == RingAt(readIndex, k - 1, size)
  <2>1. Stores(dataEntries, heap[dataEntries], queueData[i], i, queued[k])
    BY <1>1 DEF IInv, RingHoldsQueue, StoredUpTo
  <2> HIDE DEF i
  <2>2. /\ queueData[i].array = dataEntries
        /\ queueData[i].index = i
        /\ queueData[i].member = queued[k].type
        /\ Deref(queueData[i]) = queued[k].entry
    BY <2>1 DEF Stores, Deref
  <2> QED BY <2>2 DEF i
<1>2. IInv => SlotsHoldQueue
  BY <1>1 DEF IInv, RingHoldsQueue, SlotsHoldQueue
<1> QED BY <1>2, Invariance, PTL

(* The entry a reader refers to is neither overwritten nor deleted. *)
THEOREM ReferenceSafe == Spec => []HeldIntact
<1>1. ASSUME IInv, held # Nothing PROVE Live(held.at) /\ Deref(held.at) = held.was
  <2>1. PICK i \in Indices(size), member \in Members :
          /\ held.at = [array |-> dataEntries, index |-> i, member |-> member]
          /\ heap[dataEntries][i][member] = held.was
    BY <1>1 DEF IInv, HeldBehindReader
  <2>2. dataEntries \in (1 .. Len(heap)) \ freed
    BY <1>1 DEF IInv, Shape, FreedInOrder, HeldBehindReader
  <2> QED BY <2>1, <2>2 DEF Live, Deref
<1> QED BY <1>1, Invariance, PTL DEF HeldIntact

(* No array is leaked, through any number of resizes. *)
THEOREM ArraysFreed == Spec => []NoLeak
<1>1. IInv => NoLeak
  BY DEF IInv, Shape, FreedInOrder, NoLeak, oldEntries
<1> QED BY <1>1, Invariance, PTL

=============================================================================
