---------------------------- MODULE MCSyncQueue ----------------------------
(* Instances of SyncQueue for TLC. *)
EXTENDS SyncQueue, TLC

CONSTANTS r1, r2, r3

OneReader == {r1}
TwoReaders == {r1, r2}
ThreeReaders == {r1, r2, r3}
ThreeReaderSymmetry == Permutations(ThreeReaders)

(* The state without what no property of sync_queue depends on: the slot   *)
(* that a reader had before it left, the two pointers beyond the ends of   *)
(* the list, which no operation follows, and the contents of the slots     *)
(* once a reader misread one or left.                                      *)
LiveIndex == [r \in Readers |-> IF inQueue[r] THEN index[r] ELSE -1]
LiveNext == [r \in Readers |-> IF r = front THEN NULL ELSE next[r]]
LivePrevious == [r \in Readers |-> IF r = back THEN NULL ELSE previous[r]]
LiveSlots == IF misread \/ left THEN <<>> ELSE <<slots, handed>>
LiveView ==
  <<queueIndices, listEnds, LiveIndex, LiveNext, LivePrevious, isDone, inQueue,
    wpc, newWrite, rpc, seenW, history, LiveSlots>>

(* Bound: once a reader has left before the others the queue is explored   *)
(* only up to its last growth.                                             *)
EarlyLeaveBound == left => size < MaxSize
=============================================================================
