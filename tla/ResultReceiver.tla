-------------------------- MODULE ResultReceiver --------------------------
(***************************************************************************)
(* The hand-over of a result: a producer keeps a ResultReceiver, an entry  *)
(* of the queue a ResultReceiverHolder that points to it, and the consumer *)
(* that handles the entry sets the value.                                  *)
(*                                                                         *)
(* A receiver is known by its owner: it is a local variable of the owner,  *)
(* which constructs the next one at the same address.                      *)
(***************************************************************************)
EXTENDS Naturals

CONSTANTS
  Owners,   \* threads that wait for results
  None      \* nobody, and the value STATUS_UNKNOWN

VARIABLE receiver  \* per owner: the receiver at its address

(* The fields, and whether the owner waits on isPopulatedCond.  lock is    *)
(* TRUE while setPopulated holds isPopulatedLock.                          *)
NewReceiver == [alive |-> TRUE, populated |-> FALSE, value |-> None,
                waiting |-> FALSE, lock |-> FALSE]
NoReceiver == [NewReceiver EXCEPT !.alive = FALSE]

ReceiverInit == receiver = [o \in Owners |-> NoReceiver]

Construct(o) == receiver' = [receiver EXCEPT ![o] = NewReceiver]
Destroy(o) == receiver' = [receiver EXCEPT ![o] = NoReceiver]

-----------------------------------------------------------------------------
(* The consumer: ResultReceiverHolder::setValue on a holder that is        *)
(* linked.  It is the only one that uses its holder.  The owner may have   *)
(* destroyed the receiver: what is done to it then is done to the memory   *)
(* at its address, where the next one is constructed.                      *)

(* Mutant of setValue: the value is given to a copy. *)
setValueOfCopy(o, value) == UNCHANGED receiver

setValue(o, value) == receiver' = [receiver EXCEPT ![o].value = value]

(* setPopulated, in two steps: the flag, which the owner reads without the *)
(* lock, and the signal.                                                   *)
SetFlag(o) ==
  /\ ~receiver[o].lock
  /\ receiver' = [receiver EXCEPT ![o].populated = TRUE, ![o].lock = TRUE]

SignalPopulated(o) ==
  receiver' = [receiver EXCEPT ![o].waiting = FALSE, ![o].lock = FALSE]

-----------------------------------------------------------------------------
(* The owner: getValue(true).                                              *)

(* The first look at the flag, without the lock. *)
isPopulated(o) == receiver[o].populated

(* Mutant of Await: the flag is not read again under the lock. *)
AwaitUnchecked(o) ==
  /\ ~receiver[o].lock
  /\ receiver' = [receiver EXCEPT ![o].waiting = TRUE]

(* The second look, and the wait, which is not in a loop: it is assumed    *)
(* not to return without a signal.                                         *)
Await(o) ==
  /\ ~receiver[o].lock
  /\ receiver' = [receiver EXCEPT ![o].waiting = ~receiver[o].populated]

Awaited(o) == ~receiver[o].waiting /\ ~receiver[o].lock
=============================================================================
