----------------------------- MODULE RingIndex -----------------------------
(***************************************************************************)
(* Index arithmetic of the circular queue: the pure functions that         *)
(* ProcessingQueue and ReaderWriterQueue compute indices and sizes with.   *)
(* A ring of n slots has the indices 0 .. n-1.                             *)
(***************************************************************************)
EXTENDS Integers

Indices(n) == 0 .. n - 1

(* Mutant of nextIndex: no wrap at the end. *)
nextIndexUnwrapped(i, n) == i + 1

(* ProcessingQueue::nextIndex: the slot after i, wrapping at the end.      *)
nextIndex(i, n) == (i + 1) % n

(* ReaderWriterQueue::adjustIndexForComparison: readIndex is the base of   *)
(* the queue, so an index below it is one turn further on.                 *)
adjustIndexForComparison(i, base, n) == IF i < base THEN i + n ELSE i

(* ProcessingQueue::getNewQueueSize: twice the size, saturating at         *)
(* uintMax instead of overflowing, and never above maxSize.                *)
getNewQueueSize(n, maxSize, uintMax) ==
  LET doubled == IF n >= uintMax \div 2 THEN uintMax ELSE 2 * n
  IN  IF doubled > maxSize THEN maxSize ELSE doubled

(***************************************************************************)
(* ReaderWriterQueue::resize, from oldN to newN slots, with the read and   *)
(* write indices r and w of the old ring.  Populated slots behind the      *)
(* write index move to the end of the new ring; the others stay.           *)
(***************************************************************************)

(* The loop condition of the copy: the slots from r up to w, in ring       *)
(* order.  It is evaluated after currentSize was set, hence with newN.     *)
Populated(i, r, w, newN) ==
  adjustIndexForComparison(i, r, newN) < adjustIndexForComparison(w, r, newN)

(* The slot of the new ring that slot i of the old one is copied to.       *)
MovedIndex(i, w, adjustment) == IF i > w THEN i + adjustment ELSE i

(* The new slots: what was copied, and cells nobody has written.           *)
ResizedSlots(slots, r, w, oldN, newN, unwritten) ==
  LET adjustment == newN - oldN
      Copied(j) == {i \in Indices(oldN) : /\ Populated(i, r, w, newN)
                                          /\ MovedIndex(i, w, adjustment) = j}
  IN  [j \in Indices(newN) |->
         IF Copied(j) = {} THEN unwritten
         ELSE slots[CHOOSE i \in Copied(j) : TRUE]]

(* Mutant of ResizedReadIndex: the read index does not follow its slot. *)
StaleReadIndex(r, w, oldN, newN) == r

(* The read index after the copy; the write index stays where it is.       *)
ResizedReadIndex(r, w, oldN, newN) == IF r >= w + 1 THEN r + (newN - oldN) ELSE r

(* The number of published entries in a ring, and the slot of the k-th     *)
(* entry after the read index (k from 0), with the wrap made explicit.     *)
RingCount(r, w, n) == IF w >= r THEN w - r ELSE w - r + n
RingAt(r, k, n) == IF r + k < n THEN r + k ELSE r + k - n
=============================================================================
