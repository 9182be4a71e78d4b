----------------------------- MODULE FifoQueue -----------------------------
(***************************************************************************)
(* What a queue with one reader promises its users: a bounded first-in     *)
(* first-out sequence.  An add answers "full" only when the queue is full, *)
(* a remove answers "empty" only when it is empty, and the entry handed to *)
(* the reader is not disturbed while the reader uses it (current).         *)
(***************************************************************************)
EXTENDS Integers, Sequences

CONSTANTS
  Writers,     \* threads that add
  Entries,     \* what may be passed to add
  Compatible,  \* the entries the queue can store
  InitSize,    \* slots of the first ring
  MaxSize,     \* the size limit
  UIntMax,     \* largest unsigned int
  None         \* no entry

VARIABLES
  contents,  \* the entries added and not yet removed, oldest first
  capacity,  \* how many entries fit
  answer,    \* per writer: what its add call will return
  reader,    \* the reader: "idle", "removing" or "using"
  current,   \* the entry the reader uses, or None
  total      \* adds so far, in an unsigned int

vars == <<contents, capacity, answer, reader, current, total>>

Answers == {"none", "added", "full", "incompatible"}

Init ==
  /\ contents = <<>>
  /\ capacity = InitSize - 1
  /\ answer = [w \in Writers |-> "none"]
  /\ reader = "idle"
  /\ current = None
  /\ total = 0

(* An add that succeeds. *)
Enqueue(w) ==
  /\ answer[w] = "none"
  /\ Len(contents) < capacity
  /\ \E e \in Compatible : contents' = Append(contents, e)
  /\ total' = (total + 1) % (UIntMax + 1)
  /\ answer' = [answer EXCEPT ![w] = "added"]
  /\ UNCHANGED <<capacity, reader, current>>

(* An add that finds no space. *)
Refuse(w) ==
  /\ answer[w] = "none"
  /\ Len(contents) = capacity
  /\ answer' = [answer EXCEPT ![w] = "full"]
  /\ UNCHANGED <<contents, capacity, reader, current, total>>

(* An add of an entry the queue cannot store. *)
Reject(w) ==
  /\ answer[w] = "none"
  /\ Entries \ Compatible # {}
  /\ answer' = [answer EXCEPT ![w] = "incompatible"]
  /\ UNCHANGED <<contents, capacity, reader, current, total>>

AddReturns(w) ==
  /\ answer[w] # "none"
  /\ answer' = [answer EXCEPT ![w] = "none"]
  /\ UNCHANGED <<contents, capacity, reader, current, total>>

(* The reader asks for an entry and there is one.  A remove that finds the *)
(* queue empty changes nothing.                                            *)
StartRemove ==
  /\ reader = "idle"
  /\ contents # <<>>
  /\ reader' = "removing"
  /\ UNCHANGED <<contents, capacity, answer, current, total>>

Dequeue ==
  /\ reader = "removing"
  /\ contents # <<>>
  /\ current' = Head(contents)
  /\ contents' = Tail(contents)
  /\ reader' = "using"
  /\ UNCHANGED <<capacity, answer, total>>

Release ==
  /\ reader = "using"
  /\ reader' = "idle"
  /\ current' = None
  /\ UNCHANGED <<contents, capacity, answer, total>>

(* Growing keeps every entry and their order. *)
Grow ==
  /\ reader = "idle"
  /\ \A w \in Writers : answer[w] = "none"
  /\ \E n \in 0 .. MaxSize - 1 : n > capacity /\ capacity' = n
  /\ UNCHANGED <<contents, answer, reader, current, total>>

Next ==
  \/ \E w \in Writers : Enqueue(w) \/ Refuse(w) \/ Reject(w) \/ AddReturns(w)
  \/ StartRemove \/ Dequeue \/ Release
  \/ Grow

Spec == Init /\ [][Next]_vars
=============================================================================
