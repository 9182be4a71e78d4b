-------------------------- MODULE ResizeControls --------------------------
(***************************************************************************)
(* Growing a queue that is in use: QueueProducerInterface::addToQueue with *)
(* the ResizeControls object its producers share, and the workers that the *)
(* resizing producer pauses.                                               *)
(*                                                                         *)
(* The queue is abstracted to its size and the number of slots from its    *)
(* readIndex to its writeIndex, which cannot be written; what they hold is *)
(* the business of ReaderWriterQueue and SyncQueue, whose Resize assumes   *)
(* what this module establishes: nobody else accesses the queue meanwhile. *)
(* A step that takes resizeQueuesLock and releases it again is one step,   *)
(* enabled when the lock is free.                                          *)
(***************************************************************************)
EXTENDS RingIndex, FiniteSets

CONSTANTS
  Adders,    \* producer threads
  Workers,   \* worker threads
  InitSize, MaxSize, UIntMax,
  MaxCalls,  \* bound: add calls per producer
  StartWhileResizing,  \* FALSE: nobody calls start() during a resize
  None       \* no thread

ASSUME ResizeAssumption ==
  /\ InitSize \in Nat \ {0}
  /\ MaxSize \in Nat
  /\ UIntMax \in Nat
  /\ MaxSize <= UIntMax
  /\ MaxCalls \in Nat
  /\ StartWhileResizing \in BOOLEAN
  /\ IsFiniteSet(Adders)
  /\ None \notin Adders

VARIABLES
  size, count,       \* the queue: its slots, and how many are not free for writing
  lock,              \* holder of resizeQueuesLock, or None
  resizing,
  addingCount,
  pc,                \* per producer: the next step of addToQueue
  index,             \* per producer: what the last adder.add() returned
  compatible,        \* per producer: the queue can store its entry
  calls,             \* per producer: add calls so far
  pauseFlag,         \* isPausedFlag of the workers
  worker             \* per worker: where it is in Worker::run

queue == <<size, count>>
controls == <<lock, resizing, addingCount>>
adderVars == <<pc, index, compatible, calls>>
workerVars == <<pauseFlag, worker>>
vars == <<queue, controls, adderVars, workerVars>>

Results == {"none", "added", "full", "cannot"}
(* Steps at which a producer is counted in addingCount. *)
Counted == {"add", "checkResizable", "spin", "checkFull"}
(* Steps of a producer that holds resizeQueuesLock. *)
Locked == {"addLocked", "checkFullForResize"}
(* Steps of the producer that has set resizing, before and once everybody is paused. *)
Pausing == {"pauseAdders", "pause", "waitIdle"}
Growing == {"resize", "resume", "resumeAdders"}
Steps == {"idle", "waitForResize", "asleep", "recheck", "asleepFull", "return"}
           \cup Counted \cup Locked \cup Pausing \cup Growing
WorkerSteps == {"off", "loop", "working", "paused"}

Init ==
  /\ size = InitSize
  /\ count = 0
  /\ lock = None
  /\ resizing = FALSE
  /\ addingCount = 0
  /\ pc = [a \in Adders |-> "idle"]
  /\ index = [a \in Adders |-> "none"]
  /\ compatible = [a \in Adders |-> TRUE]
  /\ calls = [a \in Adders |-> 0]
  /\ pauseFlag = FALSE
  /\ worker = [w \in Workers |-> "off"]

Goto(a, step) == pc' = [pc EXCEPT ![a] = step]

-----------------------------------------------------------------------------
CallAdd(a) ==
  /\ pc[a] = "idle"
  /\ calls[a] < MaxCalls
  /\ calls' = [calls EXCEPT ![a] = @ + 1]
  /\ \E c \in BOOLEAN : compatible' = [compatible EXCEPT ![a] = c]
  /\ Goto(a, "waitForResize")
  /\ UNCHANGED <<queue, controls, index, workerVars>>

(* waitForResize: sleep while a resize is in progress, then be counted. *)
WaitForResize(a) ==
  /\ pc[a] = "waitForResize"
  /\ lock = None
  /\ IF resizing
     THEN Goto(a, "asleep") /\ UNCHANGED addingCount
     ELSE Goto(a, "add") /\ addingCount' = addingCount + 1
  /\ UNCHANGED <<queue, lock, resizing, index, compatible, calls, workerVars>>

(* adder.add(): the queue's add, see ReaderWriterQueue. *)
TryAdd(a) ==
  LET full == count >= size - 1
      result == IF full THEN "full" ELSE IF compatible[a] THEN "added" ELSE "cannot"
  IN  /\ index' = [index EXCEPT ![a] = result]
      /\ count' = IF result = "added" THEN count + 1 ELSE count
      /\ UNCHANGED <<size, controls, compatible, calls, workerVars>>

Add(a) ==
  /\ pc[a] = "add"
  /\ TryAdd(a)
  /\ Goto(a, "checkResizable")

(* checkResizable: a full queue that cannot grow is retried until it has   *)
(* space.                                                                  *)
CheckResizable(a) ==
  /\ pc[a] = "checkResizable"
  /\ Goto(a, IF index[a] = "full" /\ size >= MaxSize THEN "spin" ELSE "checkFull")
  /\ UNCHANGED <<queue, controls, index, compatible, calls, workerVars>>

Spin(a) ==
  /\ pc[a] = "spin"
  /\ TryAdd(a)
  /\ Goto(a, IF index'[a] = "full" THEN "spin" ELSE "checkFull")

(* Mutant of CheckFull: it does not wait for a resize in progress. *)
CheckFullImpatient(a) ==
  /\ pc[a] = "checkFull"
  /\ lock = None
  /\ addingCount' = addingCount - 1
  /\ \/ index[a] # "full" /\ Goto(a, "return") /\ UNCHANGED lock
     \/ index[a] = "full" /\ Goto(a, "addLocked") /\ lock' = a
  /\ UNCHANGED <<queue, resizing, index, compatible, calls, workerVars>>

(* checkFull: not counted any more; a producer that met a full queue waits *)
(* for the resize in progress and keeps the lock.                          *)
CheckFull(a) ==
  /\ pc[a] = "checkFull"
  /\ lock = None
  /\ addingCount' = addingCount - 1
  /\ \/ index[a] # "full" /\ Goto(a, "return") /\ UNCHANGED lock
     \/ index[a] = "full" /\ resizing /\ Goto(a, "asleepFull") /\ UNCHANGED lock
     \/ index[a] = "full" /\ ~resizing /\ Goto(a, "addLocked") /\ lock' = a
  /\ UNCHANGED <<queue, resizing, index, compatible, calls, workerVars>>

Recheck(a) ==
  /\ pc[a] = "recheck"
  /\ lock = None
  /\ IF resizing
     THEN Goto(a, "asleepFull") /\ UNCHANGED lock
     ELSE Goto(a, "addLocked") /\ lock' = a
  /\ UNCHANGED <<queue, resizing, addingCount, index, compatible, calls, workerVars>>

AddLocked(a) ==
  /\ pc[a] = "addLocked"
  /\ TryAdd(a)
  /\ Goto(a, "checkFullForResize")

CheckFullForResize(a) ==
  /\ pc[a] = "checkFullForResize"
  /\ resizing' = (index[a] = "full")
  /\ lock' = None
  /\ Goto(a, IF index[a] = "full" THEN "pauseAdders" ELSE "return")
  /\ UNCHANGED <<queue, addingCount, index, compatible, calls, workerVars>>

(* Where a thread goes on whose wait on isResizingCond returns. *)
Woken(step) ==
  CASE step = "asleep" -> "waitForResize"
    [] step = "asleepFull" -> "recheck"
    [] OTHER -> step

(* pthread_cond_wait may return without a broadcast. *)
SpuriousWakeup(a) ==
  /\ pc[a] \in {"asleep", "asleepFull"}
  /\ Goto(a, Woken(pc[a]))
  /\ UNCHANGED <<queue, controls, index, compatible, calls, workerVars>>

-----------------------------------------------------------------------------
(* The resizing producer.                                                  *)

(* Mutant of PauseAdders: it does not wait for the other producers. *)
PauseAddersAtOnce(a) ==
  /\ pc[a] = "pauseAdders"
  /\ Goto(a, "pause")
  /\ UNCHANGED <<queue, controls, index, compatible, calls, workerVars>>

(* pauseAdders: poll addingCount, without the lock, until it is zero. *)
PauseAdders(a) ==
  /\ pc[a] = "pauseAdders"
  /\ addingCount = 0
  /\ Goto(a, "pause")
  /\ UNCHANGED <<queue, controls, index, compatible, calls, workerVars>>

(* pause(true): tell every worker, then wait for the running ones.  With   *)
(* no workers running there is nobody to tell.                             *)
Pause(a) ==
  /\ pc[a] = "pause"
  /\ pauseFlag' = (\E w \in Workers : worker[w] # "off")
  /\ Goto(a, "waitIdle")
  /\ UNCHANGED <<queue, controls, index, compatible, calls, worker>>

WaitIdle(a) ==
  /\ pc[a] = "waitIdle"
  /\ pauseFlag => \A w \in Workers : worker[w] \in {"off", "paused"}
  /\ Goto(a, "resize")
  /\ UNCHANGED <<queue, controls, index, compatible, calls, workerVars>>

Resize(a) ==
  /\ pc[a] = "resize"
  /\ LET newSize == getNewQueueSize(size, MaxSize, UIntMax)
     IN  size' = IF size >= newSize THEN size ELSE newSize
  /\ Goto(a, "resume")
  /\ UNCHANGED <<count, controls, index, compatible, calls, workerVars>>

Resume(a) ==
  /\ pc[a] = "resume"
  /\ pauseFlag' = FALSE
  /\ worker' = [w \in Workers |-> IF worker[w] = "paused" THEN "loop" ELSE worker[w]]
  /\ Goto(a, "resumeAdders")
  /\ UNCHANGED <<queue, controls, index, compatible, calls>>

(* Mutant of ResumeAdders: no broadcast. *)
ResumeAddersSilently(a) ==
  /\ pc[a] = "resumeAdders"
  /\ lock = None
  /\ addingCount' = addingCount + 1
  /\ resizing' = FALSE
  /\ Goto(a, "add")
  /\ UNCHANGED <<queue, lock, index, compatible, calls, workerVars>>

(* Mutant of ResumeAdders: the caller is not counted again. *)
ResumeAddersUncounted(a) ==
  /\ pc[a] = "resumeAdders"
  /\ lock = None
  /\ resizing' = FALSE
  /\ pc' = [b \in Adders |-> IF b = a THEN "add" ELSE Woken(pc[b])]
  /\ UNCHANGED <<queue, lock, addingCount, index, compatible, calls, workerVars>>

(* resumeAdders wakes all sleepers; the caller is counted again and goes   *)
(* on to add.                                                              *)
ResumeAdders(a) ==
  /\ pc[a] = "resumeAdders"
  /\ lock = None
  /\ addingCount' = addingCount + 1
  /\ resizing' = FALSE
  /\ pc' = [b \in Adders |-> IF b = a THEN "add" ELSE Woken(pc[b])]
  /\ UNCHANGED <<queue, lock, index, compatible, calls, workerVars>>

AddReturns(a) ==
  /\ pc[a] = "return"
  /\ Goto(a, "idle")
  /\ index' = [index EXCEPT ![a] = "none"]
  /\ UNCHANGED <<queue, controls, compatible, calls, workerVars>>

-----------------------------------------------------------------------------
(* The workers.                                                            *)

(* QueueProcessor::start starts the workers, which are not paused, whether *)
(* or not the processor is.                                                *)
Start ==
  /\ \A w \in Workers : worker[w] = "off"
  /\ StartWhileResizing \/ \A a \in Adders : pc[a] \notin Pausing \cup Growing
  /\ worker' = [w \in Workers |-> "loop"]
  /\ UNCHANGED <<queue, controls, adderVars, pauseFlag>>

(* Worker::run: look at the pause flag, and then work or be idle.  A       *)
(* worker without work looks again when it is signalled.                   *)
Look(w) ==
  /\ worker[w] = "loop"
  /\ worker' = [worker EXCEPT ![w] = IF pauseFlag THEN "paused" ELSE "working"]
  /\ UNCHANGED <<queue, controls, adderVars, pauseFlag>>

(* A pass of doWork frees no slot, one or several: the slot of an entry    *)
(* that was handled is writable again only when the back of the reader     *)
(* list moves on, which may leave the slots of several readers behind.     *)
DoWork(w) ==
  /\ worker[w] = "working"
  /\ \E n \in 0 .. count : count' = n
  /\ worker' = [worker EXCEPT ![w] = "loop"]
  /\ UNCHANGED <<size, controls, adderVars, pauseFlag>>

-----------------------------------------------------------------------------
AddStep(a) ==
  \/ WaitForResize(a) \/ Add(a) \/ CheckResizable(a) \/ Spin(a)
  \/ CheckFull(a) \/ Recheck(a) \/ AddLocked(a) \/ CheckFullForResize(a)
  \/ PauseAdders(a) \/ Pause(a) \/ WaitIdle(a) \/ Resize(a)
  \/ Resume(a) \/ ResumeAdders(a) \/ AddReturns(a)

WorkStep(w) == Look(w) \/ DoWork(w)

Next ==
  \/ \E a \in Adders : CallAdd(a) \/ AddStep(a) \/ SpuriousWakeup(a)
  \/ Start
  \/ \E w \in Workers : WorkStep(w)

Spec == Init /\ [][Next]_vars

(* Every thread runs on.  No fairness of resizeQueuesLock is assumed: the  *)
(* number of calls is finite.  Nobody has to start the processor.          *)
FairSpec ==
  /\ Spec
  /\ \A a \in Adders : WF_vars(AddStep(a))
  /\ \A w \in Workers : WF_vars(WorkStep(w))

-----------------------------------------------------------------------------
(* Every field keeps its type. *)
TypeOK ==
  /\ size \in Nat \ {0}
  /\ count \in Nat
  /\ lock \in Adders \cup {None}
  /\ resizing \in BOOLEAN
  /\ addingCount \in Nat
  /\ pc \in [Adders -> Steps]
  /\ index \in [Adders -> Results]
  /\ compatible \in [Adders -> BOOLEAN]
  /\ calls \in [Adders -> 0 .. MaxCalls]
  /\ pauseFlag \in BOOLEAN
  /\ worker \in [Workers -> WorkerSteps]

(* Steps at which a producer reads or writes the queue. *)
Accessing == {"add", "checkResizable", "spin", "addLocked"}

(* While the queue is being resized no other thread accesses it: no        *)
(* producer is adding or resizing, and no worker is reading (the promise   *)
(* in the comment of class ResizeControls).                                *)
ResizeExclusive ==
  \A a \in Adders :
    pc[a] = "resize" =>
      /\ \A b \in Adders \ {a} : pc[b] \notin Accessing \cup Pausing \cup Growing
      /\ \A w \in Workers : worker[w] # "working"

(* The queue is resized only by a producer that found it full, with no     *)
(* other resize since: the size at which its add failed is still current.  *)
(* (Expressed on steps: from the failing add under the lock to the resize  *)
(* nobody else changes the size.)                                          *)
NoInterveningResize ==
  [][\A a \in Adders :
       pc[a] \in {"checkFullForResize"} \cup Pausing => size' = size]_vars

(* The queue has reached its limit and is full. *)
FullAtLimit == size >= MaxSize /\ count >= size - 1

(* Once the processor is started every add call returns, unless the        *)
(* workers leave the queue full at its limit for ever: nobody sleeps       *)
(* forever waiting for the end of a resize, and the resizer gets its turn  *)
(* although it waits for all other producers, who may wait for space.      *)
EveryAddReturns ==
  \/ <>[]FullAtLimit
  \/ \A a \in Adders :
       (pc[a] # "idle" /\ \A w \in Workers : worker[w] # "off") ~> pc[a] = "idle"
=============================================================================
