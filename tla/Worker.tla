------------------------------ MODULE Worker ------------------------------
(***************************************************************************)
(* The worker threads of a QueueProcessor: Worker::run with its two ways   *)
(* to sleep (no work, paused) and its death, and the methods others call   *)
(* on a worker.  QueueProcessor composes them.                             *)
(*                                                                         *)
(* A critical section is a step.  What run() reads inside one without its  *)
(* protection (isWork, isTerminatedFlag, isPausedFlag) is changed by       *)
(* others before they enter a section of the same mutex.  Only pause()     *)
(* keeps a mutex, hasPausedLock, while it takes another one; the field     *)
(* pauseLock says so.                                                      *)
(*                                                                         *)
(* The queue is what SyncQueue promises its readers: an entry is handed to *)
(* one worker, and a worker that finds none is assigned a slot which a     *)
(* later add fills, so that this worker and no other has to be woken.      *)
(***************************************************************************)
EXTENDS Naturals, FiniteSets

CONSTANTS
  N,            \* numWorkers
  MaxAdds,      \* bound: entries added to the queue
  MaxFailures   \* bound: entries at which the consumer throws

ASSUME WorkerAssumption ==
  /\ N \in Nat \ {0}
  /\ MaxAdds \in Nat
  /\ MaxFailures \in Nat

VARIABLES
  worker,  \* per worker: the flags of the object that are set
  thread,  \* per worker: the next step of run(); "off" when there is none
  slot,    \* per worker: the entry it is assigned, or 0
  expecting, \* the workers assigned a slot that is not written yet
  entry,   \* per entry: where it is
  exiting  \* per worker: threads that have set isDeadFlag and still signal it

workerVars == <<worker, thread>>
queueVars == <<slot, expecting, entry>>

Workers == 1 .. N
Entries == 1 .. MaxAdds
Flags == {"started", "paused", "idle", "terminated", "dead", "waiting", "joiners",
          "pauseLock", "idleWaiter", "workWaiter"}
ThreadSteps == {"off", "init", "toPause", "paused", "pauseWoken", "doWork", "handle",
                "toWait", "waiting", "waitWoken", "check", "failPause", "failWait",
                "finalize", "signalDead"}

(* The constructor.  idleWaiter and workWaiter say that somebody waits on  *)
(* the conditions isIdle and isWorkWaiting; the worker's own waits are the *)
(* steps "paused" and "waiting" of its thread.                             *)
NewWorker == {}

WorkerInit ==
  /\ worker = [w \in Workers |-> NewWorker]
  /\ thread = [w \in Workers |-> "off"]
  /\ slot = [w \in Workers |-> 0]
  /\ expecting = {}
  /\ entry = [e \in Entries |-> "new"]
  /\ exiting = [w \in Workers |-> 0]

Run(w, step) == thread' = [thread EXCEPT ![w] = step]
Set(w, flags) == worker' = [worker EXCEPT ![w] = @ \cup flags]
Unset(w, flags) == worker' = [worker EXCEPT ![w] = @ \ flags]

-----------------------------------------------------------------------------
(* The queue as its readers see it.                                        *)
Queued == {e \in Entries : entry[e] = "queued"}
Pending == {e \in Entries : entry[e] \in {"queued", "assigned"}}
Oldest == CHOOSE e \in Queued : \A f \in Queued : e <= f

(* Add the next entry: to the slot somebody waits for, or to the queue. *)
Enqueue(e) ==
  /\ entry[e] = "new"
  /\ \A f \in Entries : f < e => entry[f] # "new"
  /\ \/ /\ expecting = {}
        /\ entry' = [entry EXCEPT ![e] = "queued"]
        /\ UNCHANGED <<slot, expecting>>
     \/ \E w \in expecting :
          /\ slot' = [slot EXCEPT ![w] = e]
          /\ expecting' = expecting \ {w}
          /\ entry' = [entry EXCEPT ![e] = "assigned"]

isWork(w) == slot[w] # 0

-----------------------------------------------------------------------------
(* Worker::run                                                             *)

(* isPausedFlag is read without a lock. *)
Branch(w) == IF "paused" \in worker[w] THEN "toPause" ELSE "doWork"

(* init: startAccess, which leaves the worker without an entry, and into   *)
(* the loop, whatever isTerminatedFlag says.                               *)
Enter(w) ==
  /\ thread[w] = "init"
  /\ Run(w, Branch(w))
  /\ UNCHANGED <<worker, queueVars>>

(* The end of the loop, and its next turn. *)
Loop(w) ==
  /\ thread[w] = "check"
  /\ Run(w, IF "terminated" \in worker[w] THEN "finalize" ELSE Branch(w))
  /\ UNCHANGED <<worker, queueVars>>

BecomeIdle(w) ==
  /\ thread[w] = "toPause"
  /\ "pauseLock" \notin worker[w]
  /\ IF "paused" \in worker[w] /\ "terminated" \notin worker[w]
     THEN /\ worker' = [worker EXCEPT ![w] = (@ \cup {"idle"}) \ {"idleWaiter"}]
          /\ Run(w, "paused")
     ELSE Run(w, "check") /\ UNCHANGED worker
  /\ UNCHANGED queueVars

EndPause(w) ==
  /\ thread[w] = "pauseWoken"
  /\ "pauseLock" \notin worker[w]
  /\ Unset(w, {"idle"})
  /\ Run(w, "check")
  /\ UNCHANGED queueVars

(* doWork: remove, and a slot to wait for when there is nothing to remove. *)
Remove(w) ==
  /\ thread[w] = "doWork"
  /\ \/ isWork(w) /\ Run(w, "handle") /\ UNCHANGED queueVars
     \/ /\ ~isWork(w)
        /\ w \notin expecting /\ Queued # {}
        /\ slot' = [slot EXCEPT ![w] = Oldest]
        /\ entry' = [entry EXCEPT ![Oldest] = "assigned"]
        /\ Run(w, "handle")
        /\ UNCHANGED expecting
     \/ /\ ~isWork(w)
        /\ w \in expecting \/ Queued = {}
        /\ expecting' = expecting \cup {w}
        /\ Run(w, "toWait")
        /\ UNCHANGED <<slot, entry>>
  /\ UNCHANGED worker

HandleEnds(w, outcome, step) ==
  /\ thread[w] = "handle"
  /\ entry' = [entry EXCEPT ![slot[w]] = outcome]
  /\ slot' = [slot EXCEPT ![w] = 0]
  /\ Run(w, step)
  /\ UNCHANGED expecting

Handle(w) == HandleEnds(w, "handled", "check") /\ UNCHANGED worker

(* The consumer throws: the worker is terminated.  It will release those   *)
(* who wait for a pause, then those who wait for the end of its work.      *)
Throw(w) ==
  /\ Cardinality({e \in Entries : entry[e] = "lost"}) < MaxFailures
  /\ HandleEnds(w, "lost", "failPause")
  /\ Set(w, {"terminated"})

(* Mutant of mayWait: isWork() is not asked again under the lock. *)
mayWaitAtOnce(w) == "terminated" \notin worker[w] /\ "paused" \notin worker[w]

mayWait(w) == ~isWork(w) /\ "terminated" \notin worker[w] /\ "paused" \notin worker[w]

(* isWorkWaiting is broadcast if there are joiners. *)
ToldJoiners(w) == IF "joiners" \in worker[w] THEN {"workWaiter"} ELSE {}

(* Sleep when there is no work, after telling those who wait for that.     *)
(* The processor's workers have no timeout.                                *)
WaitForWork(w) ==
  /\ thread[w] = "toWait"
  /\ IF mayWait(w)
     THEN /\ worker' = [worker EXCEPT ![w] = (@ \cup {"waiting"}) \ ToldJoiners(w)]
          /\ Run(w, "waiting")
     ELSE Run(w, "check") /\ UNCHANGED worker
  /\ UNCHANGED queueVars

EndWait(w) ==
  /\ thread[w] = "waitWoken"
  /\ Unset(w, {"waiting"})
  /\ Run(w, "check")
  /\ UNCHANGED queueVars

(* pthread_cond_wait may return without a signal; the worker's loop does   *)
(* not mind.                                                               *)
SpuriousWakeup(w) ==
  /\ \/ thread[w] = "paused" /\ Run(w, "pauseWoken")
     \/ thread[w] = "waiting" /\ Run(w, "waitWoken")
  /\ UNCHANGED <<worker, queueVars>>

(* Mutant of FailPause: a pending pause is not released. *)
FailPauseSilently(w) ==
  /\ thread[w] = "failPause"
  /\ Run(w, "failWait")
  /\ UNCHANGED <<worker, queueVars>>

FailPause(w) ==
  /\ thread[w] = "failPause"
  /\ "pauseLock" \notin worker[w]
  /\ IF "paused" \in worker[w] THEN Unset(w, {"idle", "idleWaiter"}) ELSE UNCHANGED worker
  /\ Run(w, "failWait")
  /\ UNCHANGED queueVars

FailWait(w) ==
  /\ thread[w] = "failWait"
  /\ Unset(w, {"waiting"} \cup ToldJoiners(w))
  /\ Run(w, "finalize")
  /\ UNCHANGED queueVars

(* finalize: endAccess gives an entry that was not handled back. *)
Finalize(w) ==
  /\ thread[w] = "finalize"
  /\ slot' = [slot EXCEPT ![w] = 0]
  /\ expecting' = expecting \ {w}
  /\ entry' = [e \in Entries |-> IF slot[w] = e THEN "queued" ELSE entry[e]]
  /\ Run(w, "signalDead")
  /\ UNCHANGED worker

(* signalDead, up to the flag that join reads without the lock: the worker *)
(* may be deleted, and another one started, from here on.                  *)
SignalDead(w) ==
  /\ thread[w] = "signalDead"
  /\ Set(w, {"dead"})
  /\ Run(w, "off")
  /\ exiting' = [exiting EXCEPT ![w] = @ + 1]
  /\ UNCHANGED queueVars

(* The signal and the release that end signalDead, and the thread. *)
Exit(w) ==
  /\ exiting[w] > 0
  /\ exiting' = [exiting EXCEPT ![w] = @ - 1]
  /\ UNCHANGED <<workerVars, queueVars>>

RunStep(w) ==
  \/ Enter(w) \/ Loop(w) \/ BecomeIdle(w) \/ EndPause(w)
  \/ Remove(w) \/ Handle(w) \/ Throw(w) \/ WaitForWork(w) \/ EndWait(w)
  \/ FailPause(w) \/ FailWait(w) \/ Finalize(w)

ThreadStep(w) ==
  \/ RunStep(w) /\ UNCHANGED exiting
  \/ SignalDead(w) \/ Exit(w)

-----------------------------------------------------------------------------
(* The methods of a worker.                                                *)

(* start: has an effect once, and none on a terminated worker. *)
start(w, object) ==
  IF object \cap {"started", "terminated"} = {}
  THEN /\ worker' = [worker EXCEPT ![w] = object \cup {"started"}]
       /\ Run(w, "init")
  ELSE UNCHANGED workerVars

Woken(w, from, to) ==
  IF thread[w] = from THEN Run(w, to) ELSE UNCHANGED thread

(* signal: the worker is woken if it waits; with block the caller waits    *)
(* until the worker has no work.  Its wait is not in a loop: it is assumed *)
(* not to return without a broadcast.                                      *)
signal(w, block) ==
  /\ IF "waiting" \in worker[w] THEN Woken(w, "waiting", "waitWoken") ELSE UNCHANGED thread
  /\ IF block /\ "terminated" \notin worker[w] /\ "started" \in worker[w]
     THEN Set(w, {"joiners", "workWaiter"})
     ELSE UNCHANGED worker

(* pause, first half: the flag is set and hasPausedLock kept. *)
SetPaused(w) ==
  /\ "pauseLock" \notin worker[w]
  /\ Set(w, {"paused", "pauseLock"})
  /\ UNCHANGED thread

(* pause, second half: signal(), so that the worker does not wait for work *)
(* any more.                                                               *)
SignalPaused(w) ==
  /\ IF "waiting" \in worker[w] THEN Woken(w, "waiting", "waitWoken") ELSE UNCHANGED thread
  /\ Unset(w, {"pauseLock"})

(* pause(true): wait for the worker, unless it is idle or not started.     *)
(* Also this wait is not in a loop.                                        *)
AwaitIdle(w) ==
  /\ "pauseLock" \notin worker[w]
  /\ IF "idle" \notin worker[w] /\ "started" \in worker[w]
     THEN Set(w, {"idleWaiter"})
     ELSE UNCHANGED worker
  /\ UNCHANGED thread

resume(w) ==
  IF "paused" \in worker[w]
  THEN /\ "pauseLock" \notin worker[w]
       /\ Unset(w, {"paused"})
       /\ Woken(w, "paused", "pauseWoken")
  ELSE UNCHANGED workerVars

(* stop, last step: release those who wait for a pause. *)
ReleasePausers(w) ==
  /\ "pauseLock" \notin worker[w]
  /\ Unset(w, {"idle", "idleWaiter"})
  /\ UNCHANGED thread
=============================================================================
