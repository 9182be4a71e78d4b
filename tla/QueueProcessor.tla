-------------------------- MODULE QueueProcessor --------------------------
(***************************************************************************)
(* The life cycle of a QueueProcessor: start, stop, terminate, nested      *)
(* pauses and the broadcast of an add, called by several client threads on *)
(* the workers of module Worker.                                           *)
(*                                                                         *)
(* startLock is held at the steps of StartLocked.  The loops over the      *)
(* workers run under workerLock and share one cursor; taking the lock is   *)
(* part of the first turn of a loop.                                       *)
(***************************************************************************)
EXTENDS Worker

CONSTANTS
  Clients,   \* threads that call the processor
  None,      \* no client
  MaxCalls,  \* bound: calls of start, stop, terminate and pause
  Careful    \* TRUE: clients keep start, stop, terminate and pauses apart

ASSUME ProcessorAssumption ==
  /\ MaxCalls \in Nat
  /\ Careful \in BOOLEAN
  /\ None \notin Clients

VARIABLES
  isRunningFlag, isPausedFlag, isTerminatedFlag, nestedPauseCounter,
  processing,  \* the workers whose processingWorker is not NULL
  cleared,     \* the vector of workers has been cleared
  pc,          \* per client: the next step of its call
  call,        \* per client: the method it called, or "none"
  workerLock,  \* the holder of workerLock, or None
  cursor,      \* the worker at which its loop is
  hold,        \* per client: "no", or the kind of the pause it has to undo
  calls,       \* number of calls so far
  toDrain      \* per client: entries that were there when it called stop

flagVars == <<isRunningFlag, isPausedFlag, isTerminatedFlag, nestedPauseCounter>>
objectVars == <<processing, cleared>>
clientVars == <<call, hold, calls, toDrain>>
loopVars == <<workerLock, cursor>>
vars == <<workerVars, queueVars, exiting, flagVars, objectVars, pc, loopVars, clientVars>>

LifeCycle == {"start", "stop", "terminate"}
Pauses == {"pause", "pauseBlock"}
Methods == LifeCycle \cup Pauses \cup {"resume", "add"}

StartLocked == {"setRunning", "creating", "restarting", "draining", "drainWait", "stopping",
                "stopResume", "stopSignal", "stopRelease", "joining", "pausing", "pauseSignal",
                "idling", "idleWait", "resuming"}
Steps == {"idle", "start", "terminate", "terminated", "stop", "clear", "pause", "resume",
          "broadcast"}
           \cup StartLocked

Init ==
  /\ WorkerInit
  /\ isRunningFlag = FALSE /\ isPausedFlag = FALSE /\ isTerminatedFlag = FALSE
  /\ nestedPauseCounter = 0
  /\ processing = {}
  /\ cleared = FALSE
  /\ pc = [c \in Clients |-> "idle"]
  /\ call = [c \in Clients |-> "none"]
  /\ workerLock = None
  /\ cursor = 1
  /\ hold = [c \in Clients |-> "no"]
  /\ calls = 0
  /\ toDrain = [c \in Clients |-> {}]

Goto(c, step) == pc' = [pc EXCEPT ![c] = step]
startLockFree == \A d \in Clients : pc[d] \notin StartLocked
mayUseWorkers(c) == workerLock \in {None, c}

(* The call returns; a pause has to be undone by the client, a resume is   *)
(* what undoes it.                                                         *)
Returns(c) ==
  /\ Goto(c, "idle")
  /\ call' = [call EXCEPT ![c] = "none"]
  /\ hold' = [hold EXCEPT ![c] = IF call[c] \in Pauses THEN call[c]
                                 ELSE IF call[c] = "resume" THEN "no" ELSE @]
  /\ toDrain' = [toDrain EXCEPT ![c] = {}]
  /\ UNCHANGED calls

(* Mutant of LastTurn: the loop runs past the last worker. *)
LastTurnLate == cursor > N

LastTurn == cursor = N

(* One turn of a loop over the workers: to the next worker, or out of the  *)
(* loop and on to another one, which keeps workerLock.                     *)
Turn(c, step, after) ==
  /\ cursor' = IF LastTurn THEN 1 ELSE cursor + 1
  /\ workerLock' = c
  /\ Goto(c, IF LastTurn THEN after ELSE step)
  /\ UNCHANGED clientVars

(* One turn of the last loop of a call. *)
FinalTurn(c, step) ==
  IF LastTurn
  THEN cursor' = 1 /\ workerLock' = None /\ Returns(c)
  ELSE Turn(c, step, step)

-----------------------------------------------------------------------------
(* What clients call.                                                      *)

(* What Careful clients keep apart: a pause, from its call to the return   *)
(* of its resume, from start, stop and terminate; terminate from start;    *)
(* pause(true) from a pause(false) before it or racing with it.            *)
InPause(d) == hold[d] # "no" \/ call[d] \in Pauses \cup {"resume"}
MayCall(method) ==
  Careful =>
    /\ method \in LifeCycle => \A d \in Clients : ~InPause(d)
    /\ method \in Pauses => \A d \in Clients : call[d] \notin LifeCycle
    /\ method = "start" => \A d \in Clients : call[d] # "terminate"
    /\ method = "terminate" => \A d \in Clients : call[d] # "start"
    /\ method = "pauseBlock" => \A d \in Clients : "pause" \notin {call[d], hold[d]}
    /\ method = "pause" => \A d \in Clients : call[d] # "pauseBlock"

Call(c, method, step) ==
  /\ pc[c] = "idle"
  /\ MayCall(method)
  /\ call' = [call EXCEPT ![c] = method]
  /\ Goto(c, step)
  /\ UNCHANGED <<workerVars, objectVars, loopVars>>

Counted ==
  /\ calls < MaxCalls
  /\ calls' = calls + 1

CallStart(c) ==
  /\ ~isTerminatedFlag
  /\ Counted
  /\ Call(c, "start", "start")
  /\ UNCHANGED <<queueVars, flagVars, hold, toDrain>>

(* isRunningFlag is read without a lock first, here and in terminate. *)
CallStop(c) ==
  /\ isRunningFlag
  /\ Counted
  /\ Call(c, "stop", "stop")
  /\ toDrain' = [toDrain EXCEPT ![c] = Pending]
  /\ UNCHANGED <<queueVars, flagVars, hold>>

(* terminate, also called by the destructor: others may come in between    *)
(* its look at the flag and the assignment.                                *)
CallTerminate(c) ==
  /\ ~isTerminatedFlag
  /\ Counted
  /\ Call(c, "terminate", "terminate")
  /\ toDrain' = [toDrain EXCEPT ![c] = Pending]
  /\ UNCHANGED <<queueVars, flagVars, hold>>

(* A client undoes its pause before it pauses again.  *)
CallPause(c, method) ==
  /\ hold[c] = "no"
  /\ ~isTerminatedFlag
  /\ Counted
  /\ Call(c, method, "pause")
  /\ UNCHANGED <<queueVars, flagVars, hold, toDrain>>

CallResume(c) ==
  /\ hold[c] # "no"
  /\ ~isTerminatedFlag
  /\ Call(c, "resume", "resume")
  /\ UNCHANGED <<queueVars, flagVars, hold, calls, toDrain>>

(* A terminated processor ignores pause and resume, and the caller cannot  *)
(* tell.                                                                   *)
CallIgnored(c) ==
  /\ pc[c] = "idle"
  /\ isTerminatedFlag
  /\ \/ hold[c] = "no" /\ hold' = [hold EXCEPT ![c] = "pauseBlock"]
     \/ hold[c] # "no" /\ hold' = [hold EXCEPT ![c] = "no"]
  /\ MayCall("pauseBlock")
  /\ UNCHANGED <<workerVars, queueVars, flagVars, objectVars, pc, loopVars, call, calls, toDrain>>

(* QueueProducerInterface::add: the entry, then the broadcast.  How the    *)
(* queue is resized is the business of ResizeControls.                     *)
CallAdd(c) ==
  /\ ~isTerminatedFlag
  /\ \E e \in Entries : Enqueue(e)
  /\ Call(c, "add", "broadcast")
  /\ UNCHANGED <<flagVars, hold, calls, toDrain>>

-----------------------------------------------------------------------------
(* start                                                                   *)

StartLock(c) ==
  /\ pc[c] = "start"
  /\ startLockFree
  /\ IF isTerminatedFlag
     THEN Returns(c)
     ELSE Goto(c, "setRunning") /\ UNCHANGED clientVars
  /\ UNCHANGED <<workerVars, queueVars, flagVars, objectVars, loopVars>>

(* Only terminate, which needs no lock to look, may come in between. *)
SetRunning(c) ==
  /\ pc[c] = "setRunning"
  /\ isRunningFlag' = TRUE
  /\ Goto(c, IF isRunningFlag THEN "restarting" ELSE "creating")
  /\ UNCHANGED <<workerVars, queueVars, isPausedFlag, isTerminatedFlag, nestedPauseCounter,
                 objectVars, loopVars, clientVars>>

(* Every worker is new, whether or not the processor is paused. *)
CreateWorker(c) ==
  /\ pc[c] = "creating"
  /\ mayUseWorkers(c)
  /\ start(cursor, NewWorker)
  /\ processing' = processing \cup {cursor}
  /\ FinalTurn(c, "creating")
  /\ UNCHANGED <<queueVars, flagVars, cleared>>

RestartWorker(c) ==
  /\ pc[c] = "restarting"
  /\ mayUseWorkers(c)
  /\ start(cursor, worker[cursor])
  /\ FinalTurn(c, "restarting")
  /\ UNCHANGED <<queueVars, flagVars, objectVars>>

-----------------------------------------------------------------------------
(* stop and terminate                                                      *)

SetTerminated(c) ==
  /\ pc[c] = "terminate"
  /\ isTerminatedFlag' = TRUE
  /\ Goto(c, "terminated")
  /\ UNCHANGED <<workerVars, queueVars, isRunningFlag, isPausedFlag, nestedPauseCounter,
                 objectVars, loopVars, clientVars>>

(* The first look of the stop() in terminate. *)
CheckRunning(c) ==
  /\ pc[c] = "terminated"
  /\ Goto(c, IF isRunningFlag THEN "stop" ELSE "clear")
  /\ UNCHANGED <<workerVars, queueVars, flagVars, objectVars, loopVars, clientVars>>

(* What stop does last.  nestedPauseCounter is left as it is, and          *)
(* terminate goes on to clear the workers.                                 *)
StopReturns(c) ==
  /\ isRunningFlag' = FALSE
  /\ isPausedFlag' = FALSE
  /\ IF call[c] = "terminate" THEN Goto(c, "clear") /\ UNCHANGED clientVars ELSE Returns(c)
  /\ UNCHANGED <<isTerminatedFlag, nestedPauseCounter>>

StopLock(c) ==
  /\ pc[c] = "stop"
  /\ startLockFree
  /\ IF isRunningFlag
     THEN Goto(c, "draining") /\ UNCHANGED <<flagVars, clientVars>>
     ELSE StopReturns(c)
  /\ UNCHANGED <<workerVars, queueVars, objectVars, loopVars>>

(* signal(true) *)
Drain(c) ==
  /\ pc[c] = "draining"
  /\ mayUseWorkers(c)
  /\ signal(cursor, TRUE)
  /\ workerLock' = c
  /\ Goto(c, "drainWait")
  /\ UNCHANGED <<queueVars, flagVars, objectVars, cursor, clientVars>>

DrainEnds(c) ==
  /\ pc[c] = "drainWait"
  /\ "workWaiter" \notin worker[cursor]
  /\ Turn(c, "draining", "stopping")
  /\ UNCHANGED <<workerVars, queueVars, flagVars, objectVars>>

(* Worker::stop, for a worker that was started: the flag, resume(),        *)
(* signal(), and those who wait for a pause.                               *)
StopWorker(c) ==
  /\ pc[c] = "stopping"
  /\ Set(cursor, {"terminated"})
  /\ Goto(c, "stopResume")
  /\ UNCHANGED <<thread, queueVars, flagVars, objectVars, loopVars, clientVars>>

StopResume(c) ==
  /\ pc[c] = "stopResume"
  /\ resume(cursor)
  /\ Goto(c, "stopSignal")
  /\ UNCHANGED <<queueVars, flagVars, objectVars, loopVars, clientVars>>

StopSignal(c) ==
  /\ pc[c] = "stopSignal"
  /\ signal(cursor, FALSE)
  /\ Goto(c, "stopRelease")
  /\ UNCHANGED <<queueVars, flagVars, objectVars, loopVars, clientVars>>

StopRelease(c) ==
  /\ pc[c] = "stopRelease"
  /\ ReleasePausers(cursor)
  /\ Turn(c, "stopping", "joining")
  /\ UNCHANGED <<queueVars, flagVars, objectVars>>

(* Mutant of joined: the thread is not waited for. *)
joinedAtOnce(w) == TRUE

(* Worker::join returns. *)
joined(w) == "dead" \in worker[w]

(* join, and the worker is deleted. *)
Join(c) ==
  /\ pc[c] = "joining"
  /\ joined(cursor)
  /\ processing' = processing \ {cursor}
  /\ worker' = [worker EXCEPT ![cursor] = NewWorker]
  /\ IF LastTurn
     THEN cursor' = 1 /\ workerLock' = None /\ StopReturns(c)
     ELSE Turn(c, "joining", "joining") /\ UNCHANGED flagVars
  /\ UNCHANGED <<thread, queueVars, cleared>>

Clear(c) ==
  /\ pc[c] = "clear"
  /\ workerLock = None
  /\ cleared' = TRUE
  /\ Returns(c)
  /\ UNCHANGED <<workerVars, queueVars, flagVars, processing, loopVars>>

-----------------------------------------------------------------------------
(* pause and resume                                                        *)

(* What pause does last: the flag and the count, and its return. *)
PauseReturns(c) ==
  /\ isPausedFlag' = TRUE
  /\ nestedPauseCounter' = nestedPauseCounter + 1
  /\ Returns(c)
  /\ UNCHANGED <<isRunningFlag, isTerminatedFlag>>

PauseLock(c) ==
  /\ pc[c] = "pause"
  /\ startLockFree
  /\ IF isPausedFlag \/ ~isRunningFlag
     THEN PauseReturns(c)
     ELSE Goto(c, "pausing") /\ UNCHANGED <<flagVars, clientVars>>
  /\ UNCHANGED <<workerVars, queueVars, objectVars, loopVars>>

(* The next turn of the loops of pause; with block a second loop follows,  *)
(* which waits for the workers.                                            *)
PauseTurn(c, step) ==
  IF LastTurn /\ ~(step = "pausing" /\ call[c] = "pauseBlock")
  THEN cursor' = 1 /\ workerLock' = None /\ PauseReturns(c)
  ELSE Turn(c, step, "idling") /\ UNCHANGED flagVars

(* pause(false) of a worker; a worker that was terminated is passed over. *)
PauseWorker(c) ==
  /\ pc[c] = "pausing"
  /\ mayUseWorkers(c)
  /\ IF "terminated" \in worker[cursor]
     THEN PauseTurn(c, "pausing") /\ UNCHANGED workerVars
     ELSE /\ SetPaused(cursor)
          /\ workerLock' = c
          /\ Goto(c, "pauseSignal")
          /\ UNCHANGED <<cursor, flagVars, clientVars>>
  /\ UNCHANGED <<queueVars, objectVars>>

PauseSignal(c) ==
  /\ pc[c] = "pauseSignal"
  /\ SignalPaused(cursor)
  /\ PauseTurn(c, "pausing")
  /\ UNCHANGED <<queueVars, objectVars>>

(* pause(true) of a worker, whose flag has been set already. *)
Idle(c) ==
  /\ pc[c] = "idling"
  /\ IF "terminated" \in worker[cursor]
     THEN PauseTurn(c, "idling") /\ UNCHANGED workerVars
     ELSE AwaitIdle(cursor) /\ Goto(c, "idleWait") /\ UNCHANGED <<loopVars, flagVars, clientVars>>
  /\ UNCHANGED <<queueVars, objectVars>>

IdleEnds(c) ==
  /\ pc[c] = "idleWait"
  /\ "idleWaiter" \notin worker[cursor]
  /\ PauseTurn(c, "idling")
  /\ UNCHANGED <<workerVars, queueVars, objectVars>>

(* Mutants of LastResume: the first resume ends all pauses; the counter is *)
(* tested before it is decremented.                                        *)
LastResumeFirst == TRUE
LastResumeLate == nestedPauseCounter = 0

(* The counter is 0 once decremented. *)
LastResume == nestedPauseCounter = 1

(* Only the resume that undoes the last pause resumes the workers. *)
ResumeLock(c) ==
  /\ pc[c] = "resume"
  /\ startLockFree
  /\ nestedPauseCounter' = IF isPausedFlag THEN nestedPauseCounter - 1 ELSE nestedPauseCounter
  /\ IF isPausedFlag /\ LastResume
     THEN Goto(c, "resuming") /\ UNCHANGED clientVars
     ELSE Returns(c)
  /\ UNCHANGED <<workerVars, queueVars, isRunningFlag, isPausedFlag, isTerminatedFlag,
                 objectVars, loopVars>>

ResumeWorker(c) ==
  /\ pc[c] = "resuming"
  /\ mayUseWorkers(c)
  /\ IF isRunningFlag THEN resume(cursor) ELSE UNCHANGED workerVars
  /\ isPausedFlag' = (isRunningFlag /\ ~LastTurn)
  /\ IF isRunningFlag THEN FinalTurn(c, "resuming") ELSE Returns(c) /\ UNCHANGED loopVars
  /\ UNCHANGED <<queueVars, isRunningFlag, isTerminatedFlag, nestedPauseCounter, objectVars>>

-----------------------------------------------------------------------------
Broadcast(c) ==
  /\ pc[c] = "broadcast"
  /\ mayUseWorkers(c)
  /\ IF cursor \in processing /\ ~cleared THEN signal(cursor, FALSE) ELSE UNCHANGED workerVars
  /\ FinalTurn(c, "broadcast")
  /\ UNCHANGED <<queueVars, flagVars, objectVars>>

-----------------------------------------------------------------------------
CallStep(c) ==
  /\ \/ StartLock(c) \/ SetRunning(c) \/ CreateWorker(c) \/ RestartWorker(c)
     \/ SetTerminated(c) \/ CheckRunning(c)
     \/ StopLock(c) \/ Drain(c) \/ DrainEnds(c) \/ StopWorker(c) \/ StopResume(c)
     \/ StopSignal(c) \/ StopRelease(c) \/ Join(c) \/ Clear(c)
     \/ PauseLock(c) \/ PauseWorker(c) \/ PauseSignal(c) \/ Idle(c) \/ IdleEnds(c)
     \/ ResumeLock(c) \/ ResumeWorker(c)
     \/ Broadcast(c)
  /\ UNCHANGED exiting

Calls(c) ==
  /\ \/ CallStart(c) \/ CallStop(c) \/ CallTerminate(c)
     \/ \E method \in Pauses : CallPause(c, method)
     \/ CallResume(c) \/ CallIgnored(c) \/ CallAdd(c)
  /\ UNCHANGED exiting

processorVars == <<flagVars, objectVars, pc, loopVars, clientVars>>
WorkersAct(w) == ThreadStep(w) /\ UNCHANGED processorVars

Next ==
  \/ \E c \in Clients : Calls(c) \/ CallStep(c)
  \/ \E w \in Workers : WorkersAct(w) \/ (SpuriousWakeup(w) /\ UNCHANGED <<exiting, processorVars>>)

Spec == Init /\ [][Next]_vars

(* Every thread runs on; nobody has to make a call.  The calls are finite  *)
(* in number, so weak fairness of the steps that take a lock is enough.    *)
FairSpec ==
  /\ Spec
  /\ \A c \in Clients : WF_vars(CallStep(c))
  /\ \A w \in Workers : WF_vars(WorkersAct(w))

-----------------------------------------------------------------------------
(* Every field keeps its type, and the cursor is at the first worker when  *)
(* nobody is in a loop over the workers.                                   *)
TypeOK ==
  /\ worker \in [Workers -> SUBSET Flags]
  /\ thread \in [Workers -> ThreadSteps]
  /\ slot \in [Workers -> Entries \cup {0}]
  /\ expecting \subseteq Workers
  /\ entry \in [Entries -> {"new", "queued", "assigned", "handled", "lost"}]
  /\ exiting \in [Workers -> Nat]
  /\ isRunningFlag \in BOOLEAN /\ isPausedFlag \in BOOLEAN
  /\ isTerminatedFlag \in BOOLEAN /\ cleared \in BOOLEAN
  /\ nestedPauseCounter \in Nat
  /\ processing \subseteq Workers
  /\ pc \in [Clients -> Steps]
  /\ call \in [Clients -> Methods \cup {"none"}]
  /\ cursor \in Workers
  /\ workerLock \in Clients \cup {None}
  /\ workerLock = None => cursor = 1
  /\ hold \in [Clients -> Pauses \cup {"no"}]
  /\ calls \in 0 .. MaxCalls
  /\ toDrain \in [Clients -> SUBSET Entries]

(* Steps of a worker at which it joins the readers of the queue, looks for *)
(* an entry or uses one.                                                   *)
Working == {"init", "doWork", "handle", "toWait"}

(* From the return of pause(true) to the call of the matching resume no    *)
(* worker takes or uses an entry, however often others pause and resume    *)
(* meanwhile, and none leaves the queue either (finalize calls endAccess)  *)
(* unless a consumer threw: a resize relies on it (QueueProcessor.h: "the  *)
(* call will block until all threads are idle").  A worker whose consumer  *)
(* threw is passed over by pause and may still have to leave.              *)
PausedIsIdle ==
  \A c \in Clients :
    hold[c] = "pauseBlock" /\ call[c] = "none" =>
      \A w \in Workers :
        /\ thread[w] \notin Working
        /\ thread[w] = "finalize" => \E e \in Entries : entry[e] = "lost"

(* Once every pause has been undone no worker is told to pause any more:   *)
(* the counter of nested pauses and the flags of the workers agree.        *)
PausesUndone ==
  (\A c \in Clients : ~InPause(c) /\ call[c] \notin LifeCycle) =>
    /\ nestedPauseCounter = 0
    /\ ~isPausedFlag
    /\ \A w \in processing : "paused" \notin worker[w]

(* When stop() has told the first worker to stop, every entry that was in  *)
(* the queue when it was called has been handled (the comment in stop: "We *)
(* will wait until the worker threads are done with their work"), unless   *)
(* the consumer threw.                                                     *)
StopDrains ==
  \A c \in Clients :
    pc[c] \in {"stopResume", "joining"} /\ (\A e \in Entries : entry[e] # "lost") =>
      \A e \in toDrain[c] : entry[e] = "handled"

(* A worker object is deleted, or replaced by a new one, only when its     *)
(* thread is past finalize and has set isDeadFlag: it never uses the queue *)
(* or the consumer again, although it may still have to signal the         *)
(* condition and release the mutex of the object it is about to lose.      *)
(* After terminate no worker is left.                                      *)
NoThreadLeft ==
  /\ \A w \in Workers \ processing : thread[w] = "off"
  /\ cleared => processing = {}

(* Every call returns: pause(true) and stop() wait for workers which wait  *)
(* for work, are told to pause or die at that moment.  (The calls are      *)
(* finite in number, so all have returned in the end.)                     *)
EveryCallReturns == []<>(\A c \in Clients : pc[c] = "idle")

(* A resume that was called returns, so that the stop() which waits for    *)
(* the paused workers is released (the comment in stop: "If workers are    *)
(* paused, this will block until they are resumed").                       *)
ResumeReturns == \A c \in Clients : call[c] = "resume" ~> call[c] = "none"

(* No entry is forgotten by sleeping workers: while the processor runs and *)
(* is not paused, what was added is handled, as long as one worker lives.  *)
WorkGetsDone ==
  \A e \in Entries :
    e \in Pending ~> \/ e \notin Pending
                     \/ ~isRunningFlag \/ isPausedFlag
                     \/ \A w \in Workers : "terminated" \in worker[w]
=============================================================================
