----------------------- MODULE QueueProcessor_proofs -----------------------
(***************************************************************************)
(* Proofs about QueueProcessor, for any number of workers, clients, calls, *)
(* entries and exceptions.                                                 *)
(***************************************************************************)
EXTENDS QueueProcessor, FiniteSetTheorems, WellFoundedInduction, TLAPS

-----------------------------------------------------------------------------
(* The inductive invariant, whatever clients do.                           *)

StopLocked == {"draining", "drainWait", "stopping", "stopResume", "stopSignal", "stopRelease",
               "joining"}
StopSteps == {"stop"} \cup StopLocked
StartSteps == {"start", "setRunning", "creating", "restarting"}
PauseSteps == {"pause", "pausing", "pauseSignal", "idling", "idleWait"}
Dying == {"failPause", "failWait", "finalize", "signalDead", "off"}

(* The steps at which a client is sure to hold workerLock, and those at    *)
(* which it may hold it.                                                   *)
InLoop == {"drainWait", "stopping", "stopResume", "stopSignal", "stopRelease", "joining",
           "pauseSignal", "idling", "idleWait"}
AtLoop == InLoop \cup {"creating", "restarting", "draining", "pausing", "resuming", "broadcast"}

(* A client is at a step of the method it called. *)
CallStage ==
  \A c \in Clients :
    /\ call[c] = "none" <=> pc[c] = "idle"
    /\ call[c] = "start" <=> pc[c] \in StartSteps
    /\ pc[c] \in StopSteps => call[c] \in {"stop", "terminate"}
    /\ pc[c] \in {"terminate", "terminated", "clear"} => call[c] = "terminate"
    /\ pc[c] \in PauseSteps <=> call[c] \in Pauses
    /\ pc[c] \in {"idling", "idleWait"} => call[c] = "pauseBlock"
    /\ pc[c] \in {"resume", "resuming"} <=> call[c] = "resume"
    /\ pc[c] = "broadcast" <=> call[c] = "add"

(* One client holds startLock, one workerLock. *)
LockOrder ==
  /\ \A c, d \in Clients : pc[c] \in StartLocked /\ pc[d] \in StartLocked => c = d
  /\ \A c \in Clients : /\ pc[c] \in InLoop => workerLock = c
                        /\ workerLock = c => pc[c] \in AtLoop

(* The worker a client's loop is at: 1 before its first turn. *)
At(c) == IF workerLock = c THEN cursor ELSE 1

(* Which workers there are at each step of start and stop. *)
LifeStage ==
  /\ \A c \in Clients :
       /\ pc[c] = "creating" => processing = 1 .. At(c) - 1
       /\ pc[c] = "joining" => processing = cursor .. N
       /\ pc[c] \in {"creating", "restarting", "pausing", "pauseSignal", "idling", "idleWait"}
                      \cup StopLocked => isRunningFlag
       /\ pc[c] = "resuming" /\ workerLock = c => isRunningFlag
  /\ (\A c \in Clients : pc[c] \notin {"creating", "joining"}) =>
       /\ isRunningFlag => processing = Workers
       /\ ~isRunningFlag => processing = {}

(* The thread of a worker that exists runs until the worker is dead. *)
ThreadsLive ==
  \A w \in Workers :
    /\ w \notin processing => worker[w] = NewWorker /\ thread[w] = "off"
    /\ w \in processing => /\ "started" \in worker[w]
                           /\ "dead" \in worker[w] <=> thread[w] = "off"

(* Entries and the workers they are assigned to. *)
Assignment ==
  /\ \A e \in Entries : entry[e] = "assigned" <=> \E w \in Workers : slot[w] = e
  /\ \A v, w \in Workers : slot[v] = slot[w] /\ slot[v] # 0 => v = w
  /\ \A w \in Workers :
       /\ thread[w] = "handle" => slot[w] # 0
       /\ thread[w] = "toWait" => slot[w] # 0 \/ w \in expecting
       /\ thread[w] \in {"signalDead", "off"} => slot[w] = 0
       /\ w \in expecting => slot[w] = 0 /\ thread[w] \notin {"signalDead", "off"}

NoneLost == \A e \in Entries : entry[e] # "lost"

(* A worker is terminated because its consumer threw or because stop has   *)
(* come to it; a thread ends only when its worker is terminated.           *)
Terminations ==
  \A w \in Workers :
    /\ thread[w] \in Dying \ {"off"} => "terminated" \in worker[w]
    /\ w \in processing /\ thread[w] = "off" => "terminated" \in worker[w]
    /\ "terminated" \in worker[w] /\ (NoneLost \/ thread[w] \notin Dying) =>
         \E c \in Clients :
           \/ pc[c] \in {"stopping", "stopResume", "stopSignal", "stopRelease"}
           \/ pc[c] = "joining" /\ w >= cursor
    /\ \A c \in Clients : /\ pc[c] = "joining" /\ w >= cursor => "terminated" \in worker[w]
                          /\ pc[c] = "stopping" /\ w < cursor => "terminated" \in worker[w]
                          /\ pc[c] \in {"stopResume", "stopSignal", "stopRelease"} /\ w <= cursor =>
                               "terminated" \in worker[w]

(* A worker is promised the next entry only if none is in the queue, as    *)
(* long as none is terminated.                                             *)
ExpectingInTurn ==
  (\A w \in Workers : "terminated" \notin worker[w]) => expecting = {} \/ Queued = {}

(* Workers before k have had no entry of toDrain[c] since they were drained. *)
DrainedBefore(c, k) ==
  /\ k > 1 => toDrain[c] \cap Queued = {}
  /\ \A w \in Workers : w < k => slot[w] \notin toDrain[c]

DrainStage ==
  NoneLost =>
    \A c \in Clients :
      /\ \A e \in toDrain[c] : entry[e] # "new"
      /\ pc[c] = "draining" => DrainedBefore(c, At(c))
      /\ pc[c] = "drainWait" =>
           /\ DrainedBefore(c, cursor)
           /\ "workWaiter" \in worker[cursor] \/ DrainedBefore(c, cursor + 1)
      /\ pc[c] \in {"stopping", "stopResume", "stopSignal", "stopRelease", "joining"} =>
           \A e \in toDrain[c] : entry[e] = "handled"

(* The counter is positive while there are pauses to undo. *)
CounterStage ==
  isPausedFlag /\ (\A c \in Clients : pc[c] # "resuming") => nestedPauseCounter > 0

IInv ==
  /\ TypeOK /\ CallStage /\ LockOrder /\ LifeStage /\ ThreadsLive /\ Assignment
  /\ Terminations /\ ExpectingInTurn /\ DrainStage /\ CounterStage

-----------------------------------------------------------------------------
(* Types.                                                                  *)

WorkerType ==
  /\ worker \in [Workers -> SUBSET Flags]
  /\ thread \in [Workers -> ThreadSteps]

QueueType ==
  /\ slot \in [Workers -> Entries \cup {0}]
  /\ expecting \subseteq Workers
  /\ entry \in [Entries -> {"new", "queued", "assigned", "handled", "lost"}]

ExitType == exiting \in [Workers -> Nat]

FlagType ==
  /\ isRunningFlag \in BOOLEAN /\ isPausedFlag \in BOOLEAN
  /\ isTerminatedFlag \in BOOLEAN /\ cleared \in BOOLEAN

ProcessorType ==
  /\ nestedPauseCounter \in Nat
  /\ processing \subseteq Workers
  /\ pc \in [Clients -> Steps]
  /\ call \in [Clients -> Methods \cup {"none"}]
  /\ cursor \in Workers
  /\ workerLock \in Clients \cup {None}
  /\ workerLock = None => cursor = 1
  /\ hold \in [Clients -> Pauses \cup {"no"}]
  /\ calls \in 0 .. MaxCalls
  /\ toDrain \in [Clients -> SUBSET Entries]

(* The parts of the type invariant. *)
LEMMA TypeParts ==
  TypeOK <=> WorkerType /\ QueueType /\ ExitType /\ FlagType /\ ProcessorType
BY DEF TypeOK, WorkerType, QueueType, ExitType, FlagType, ProcessorType

(* A step of run(), of the worker's death up to its flag, or out of a wait *)
(* that nobody ended.                                                      *)
Moves(w) == RunStep(w) \/ SignalDead(w) \/ SpuriousWakeup(w)

(* What a method other than start does to worker w: it changes some of its *)
(* flags, and may wake it.                                                 *)
Nudged(w, flags) ==
  /\ worker' \in [Workers -> SUBSET Flags] /\ thread' \in [Workers -> ThreadSteps]
  /\ \A v \in Workers : v # w => worker'[v] = worker[v] /\ thread'[v] = thread[v]
  /\ \A f \in Flags \ flags : f \in worker'[w] <=> f \in worker[w]
  /\ \/ thread'[w] = thread[w]
     \/ thread[w] = "waiting" /\ thread'[w] = "waitWoken"
     \/ thread[w] = "paused" /\ thread'[w] = "pauseWoken"

(* The methods of a worker have no other effect than that. *)
LEMMA MethodsNudge ==
  ASSUME WorkerType, NEW w \in Workers
  PROVE  /\ \A block \in BOOLEAN :
              signal(w, block) => Nudged(w, IF block THEN {"joiners", "workWaiter"} ELSE {})
         /\ SetPaused(w) => Nudged(w, {"paused", "pauseLock"})
         /\ SignalPaused(w) => Nudged(w, {"pauseLock"})
         /\ AwaitIdle(w) => Nudged(w, {"idleWaiter"})
         /\ resume(w) => Nudged(w, {"paused"})
         /\ ReleasePausers(w) => Nudged(w, {"idle", "idleWaiter"})
         /\ Set(w, {"terminated"}) /\ UNCHANGED thread => Nudged(w, {"terminated"})
         /\ UNCHANGED workerVars => Nudged(w, {})
<1> USE DEF WorkerType, Nudged
<1>1. {"waitWoken", "pauseWoken"} \subseteq ThreadSteps
  BY DEF ThreadSteps
<1>2. ASSUME NEW block \in BOOLEAN, signal(w, block)
      PROVE  Nudged(w, IF block THEN {"joiners", "workWaiter"} ELSE {})
  BY <1>1, <1>2 DEF signal, Woken, Set, Run, Flags
<1>3. ASSUME SetPaused(w) PROVE Nudged(w, {"paused", "pauseLock"})
  BY <1>3 DEF SetPaused, Set, Flags
<1>4. ASSUME SignalPaused(w) PROVE Nudged(w, {"pauseLock"})
  BY <1>1, <1>4 DEF SignalPaused, Woken, Unset, Run, Flags
<1>5. ASSUME AwaitIdle(w) PROVE Nudged(w, {"idleWaiter"})
  BY <1>5 DEF AwaitIdle, Set, Flags
<1>6. ASSUME resume(w) PROVE Nudged(w, {"paused"})
  BY <1>1, <1>6 DEF resume, Woken, Unset, Run, workerVars, Flags
<1>7. ASSUME ReleasePausers(w) PROVE Nudged(w, {"idle", "idleWaiter"})
  BY <1>7 DEF ReleasePausers, Unset, Flags
<1>8. ASSUME Set(w, {"terminated"}), UNCHANGED thread PROVE Nudged(w, {"terminated"})
  BY <1>8 DEF Set, Flags
<1>9. ASSUME UNCHANGED workerVars PROVE Nudged(w, {})
  BY <1>9 DEF workerVars
<1> QED BY <1>2, <1>3, <1>4, <1>5, <1>6, <1>7, <1>8, <1>9

(* Clients are at steps of their calls, and locks exclude. *)
LEMMA ControlNext ==
  ASSUME TypeOK, CallStage, LockOrder, LifeStage, NEW c \in Clients, Calls(c) \/ CallStep(c)
  PROVE  CallStage' /\ LockOrder'
<1>0. /\ pc \in [Clients -> Steps] /\ call \in [Clients -> Methods \cup {"none"}]
      /\ None \notin Clients /\ isRunningFlag \in BOOLEAN
  BY ProcessorAssumption, WorkerAssumption DEF TypeOK
<1> USE <1>0 DEF loopVars, clientVars, CallStage, LockOrder, LifeStage, StartLocked,
      StartSteps, StopSteps, StopLocked, PauseSteps, Pauses, InLoop, AtLoop
<1>1. CASE CallStart(c)
  BY <1>1 DEF CallStart, Call, Counted, Goto
<1>2. CASE CallStop(c)
  BY <1>2 DEF CallStop, Call, Counted, Goto, Pending
<1>3. CASE CallTerminate(c)
  BY <1>3 DEF CallTerminate, Call, Counted, Goto, Pending
<1>4. CASE \E method \in Pauses : CallPause(c, method)
  BY <1>4 DEF CallPause, Call, Counted, Goto
<1>5. CASE CallResume(c)
  BY <1>5 DEF CallResume, Call, Goto
<1>6. CASE CallIgnored(c)
  BY <1>6 DEF CallIgnored
<1>7. CASE CallAdd(c)
  BY <1>7 DEF CallAdd, Call, Goto
<1>8. CASE StartLock(c)
  BY <1>8 DEF StartLock, startLockFree, Returns, Goto
<1>9. CASE SetRunning(c)
  BY <1>9 DEF SetRunning, Goto
<1>10. CASE CreateWorker(c)
  BY <1>10 DEF CreateWorker, mayUseWorkers, FinalTurn, Turn, LastTurn, Returns, Goto
<1>11. CASE RestartWorker(c)
  BY <1>11 DEF RestartWorker, mayUseWorkers, FinalTurn, Turn, LastTurn, Returns, Goto
<1>12. CASE StopLock(c)
  BY <1>12 DEF StopLock, startLockFree, StopReturns, Returns, Goto
<1>13. CASE Drain(c)
  BY <1>13 DEF Drain, mayUseWorkers, Goto
<1>14. CASE DrainEnds(c)
  BY <1>14 DEF DrainEnds, Turn, LastTurn, Goto
<1>15. CASE StopWorker(c)
  BY <1>15 DEF StopWorker, Goto
<1>16. CASE StopResume(c)
  BY <1>16 DEF StopResume, Goto
<1>17. CASE StopSignal(c)
  BY <1>17 DEF StopSignal, Goto
<1>18. CASE StopRelease(c)
  BY <1>18 DEF StopRelease, Turn, LastTurn, Goto
<1>19. CASE Join(c)
  BY <1>19 DEF Join, Turn, LastTurn, StopReturns, Returns, Goto
<1>20. CASE Clear(c)
  BY <1>20 DEF Clear, Returns, Goto
<1>21. CASE PauseLock(c)
  BY <1>21 DEF PauseLock, startLockFree, PauseReturns, Returns, Goto
<1>22. CASE PauseWorker(c)
  BY <1>22 DEF PauseWorker, mayUseWorkers, PauseTurn, PauseReturns, Turn, LastTurn, Returns, Goto
<1>23. CASE PauseSignal(c)
  BY <1>23 DEF PauseSignal, PauseTurn, PauseReturns, Turn, LastTurn, Returns, Goto
<1>24. CASE Idle(c)
  BY <1>24 DEF Idle, PauseTurn, PauseReturns, Turn, LastTurn, Returns, Goto
<1>25. CASE IdleEnds(c)
  BY <1>25 DEF IdleEnds, PauseTurn, PauseReturns, Turn, LastTurn, Returns, Goto
<1>26. CASE ResumeLock(c)
  BY <1>26 DEF ResumeLock, startLockFree, LastResume, Returns, Goto
<1>27. CASE ResumeWorker(c)
  BY <1>27 DEF ResumeWorker, mayUseWorkers, FinalTurn, Turn, LastTurn, Returns, Goto
<1>28. CASE Broadcast(c)
  BY <1>28 DEF Broadcast, mayUseWorkers, FinalTurn, Turn, LastTurn, Returns, Goto
<1>29. CASE SetTerminated(c)
  BY <1>29 DEF SetTerminated, Goto
<1>30. CASE CheckRunning(c)
  BY <1>30 DEF CheckRunning, Goto
<1> QED BY <1>29, <1>30, <1>1, <1>2, <1>3, <1>4, <1>5, <1>6, <1>7, <1>8, <1>9, <1>10, <1>11, <1>12, <1>13,
     <1>14, <1>15, <1>16, <1>17, <1>18, <1>19, <1>20, <1>21, <1>22, <1>23, <1>24, <1>25, <1>26,
     <1>27, <1>28 DEF Calls, CallStep

(* Workers are created and deleted one by one. *)
LEMMA LifeNext ==
  ASSUME TypeOK, LockOrder, LifeStage, NEW c \in Clients, Calls(c) \/ CallStep(c)
  PROVE  LifeStage'
<1>0. /\ pc \in [Clients -> Steps] /\ cursor \in Workers /\ isRunningFlag \in BOOLEAN
      /\ workerLock = None => cursor = 1
      /\ None \notin Clients /\ N \in Nat \ {0}
  BY ProcessorAssumption, WorkerAssumption DEF TypeOK
<1> USE <1>0 DEF flagVars, objectVars, loopVars, LockOrder, LifeStage, At, Workers,
      StartLocked, StopLocked, InLoop, AtLoop
<1>1. CASE CallStart(c)
  BY <1>1 DEF CallStart, Call, Counted, Goto
<1>2. CASE CallStop(c)
  BY <1>2 DEF CallStop, Call, Counted, Goto, Pending
<1>3. CASE CallTerminate(c)
  BY <1>3 DEF CallTerminate, Call, Counted, Goto, Pending
<1>4. CASE \E method \in Pauses : CallPause(c, method)
  BY <1>4 DEF CallPause, Call, Counted, Goto
<1>5. CASE CallResume(c)
  BY <1>5 DEF CallResume, Call, Goto
<1>6. CASE CallIgnored(c)
  BY <1>6 DEF CallIgnored
<1>7. CASE CallAdd(c)
  BY <1>7 DEF CallAdd, Call, Goto
<1>8. CASE StartLock(c)
  BY <1>8 DEF StartLock, startLockFree, Returns, Goto
<1>9. CASE SetRunning(c)
  BY <1>9 DEF SetRunning, Goto
<1>10. CASE CreateWorker(c)
  <2>1. At(c) = cursor
    BY <1>0, <1>10 DEF CreateWorker, mayUseWorkers, At
  <2>2. processing' = 1 .. cursor
    BY <1>0, <2>1, <1>10 DEF CreateWorker, LifeStage, Workers
  <2>3. \A d \in Clients : d # c => pc[d] \notin StartLocked /\ pc'[d] = pc[d]
    BY <1>0, <1>10 DEF CreateWorker, FinalTurn, Turn, Returns, Goto, LockOrder, StartLocked
  <2>4. isRunningFlag'
    BY <1>10 DEF CreateWorker, LifeStage, flagVars
  <2>5. CASE cursor = N
    <3>1. pc'[c] = "idle" /\ processing' = Workers
      BY <1>0, <2>2, <2>5, <1>10 DEF CreateWorker, FinalTurn, LastTurn, Returns, Goto, Workers
    <3> QED BY <2>3, <2>4, <3>1 DEF LifeStage, StartLocked, StopLocked
  <2>6. CASE cursor # N
    <3>1. pc'[c] = "creating" /\ workerLock' = c /\ cursor' = cursor + 1
      BY <1>0, <2>6, <1>10 DEF CreateWorker, FinalTurn, Turn, LastTurn, Returns, Goto
    <3>2. processing' = 1 .. At(c)' - 1
      BY <1>0, <2>2, <3>1 DEF At, Workers
    <3> QED BY <2>3, <2>4, <3>1, <3>2 DEF LifeStage, StartLocked, StopLocked
  <2> QED BY <2>5, <2>6
<1>11. CASE RestartWorker(c)
  BY <1>11 DEF RestartWorker, mayUseWorkers, FinalTurn, Turn, LastTurn, Returns, Goto
<1>12. CASE StopLock(c)
  BY <1>12 DEF StopLock, startLockFree, StopReturns, Returns, Goto
<1>13. CASE Drain(c)
  BY <1>13 DEF Drain, mayUseWorkers, Goto
<1>14. CASE DrainEnds(c)
  BY <1>14 DEF DrainEnds, Turn, LastTurn, Goto
<1>15. CASE StopWorker(c)
  BY <1>15 DEF StopWorker, Goto
<1>16. CASE StopResume(c)
  BY <1>16 DEF StopResume, Goto
<1>17. CASE StopSignal(c)
  BY <1>17 DEF StopSignal, Goto
<1>18. CASE StopRelease(c)
  BY <1>18 DEF StopRelease, Turn, LastTurn, Goto
<1>19. CASE Join(c)
  BY <1>19 DEF Join, Turn, LastTurn, StopReturns, Returns, Goto
<1>20. CASE Clear(c)
  BY <1>20 DEF Clear, Returns, Goto
<1>21. CASE PauseLock(c)
  BY <1>21 DEF PauseLock, startLockFree, PauseReturns, Returns, Goto
<1>22. CASE PauseWorker(c)
  BY <1>22 DEF PauseWorker, mayUseWorkers, PauseTurn, PauseReturns, Turn, LastTurn, Returns, Goto
<1>23. CASE PauseSignal(c)
  BY <1>23 DEF PauseSignal, PauseTurn, PauseReturns, Turn, LastTurn, Returns, Goto
<1>24. CASE Idle(c)
  BY <1>24 DEF Idle, PauseTurn, PauseReturns, Turn, LastTurn, Returns, Goto
<1>25. CASE IdleEnds(c)
  BY <1>25 DEF IdleEnds, PauseTurn, PauseReturns, Turn, LastTurn, Returns, Goto
<1>26. CASE ResumeLock(c)
  BY <1>26 DEF ResumeLock, startLockFree, LastResume, Returns, Goto
<1>27. CASE ResumeWorker(c)
  BY <1>27 DEF ResumeWorker, mayUseWorkers, FinalTurn, Turn, LastTurn, Returns, Goto
<1>28. CASE Broadcast(c)
  BY <1>28 DEF Broadcast, mayUseWorkers, FinalTurn, Turn, LastTurn, Returns, Goto
<1>29. CASE SetTerminated(c)
  BY <1>29 DEF SetTerminated, Goto
<1>30. CASE CheckRunning(c)
  BY <1>30 DEF CheckRunning, Goto
<1> QED BY <1>29, <1>30, <1>1, <1>2, <1>3, <1>4, <1>5, <1>6, <1>7, <1>8, <1>9, <1>10, <1>11, <1>12, <1>13,
     <1>14, <1>15, <1>16, <1>17, <1>18, <1>19, <1>20, <1>21, <1>22, <1>23, <1>24, <1>25, <1>26,
     <1>27, <1>28 DEF Calls, CallStep

(* A pause in force has been counted. *)
LEMMA CounterNext ==
  ASSUME TypeOK, LockOrder, CounterStage, NEW c \in Clients, Calls(c) \/ CallStep(c)
  PROVE  CounterStage'
<1>0. pc \in [Clients -> Steps] /\ nestedPauseCounter \in Nat /\ isPausedFlag \in BOOLEAN
  BY ProcessorAssumption, WorkerAssumption DEF TypeOK
<1> USE <1>0 DEF flagVars, loopVars, LockOrder, CounterStage, StartLocked, InLoop, AtLoop
<1>1. CASE CallStart(c)
  BY <1>1 DEF CallStart, Call, Counted, Goto
<1>2. CASE CallStop(c)
  BY <1>2 DEF CallStop, Call, Counted, Goto, Pending
<1>3. CASE CallTerminate(c)
  BY <1>3 DEF CallTerminate, Call, Counted, Goto, Pending
<1>4. CASE \E method \in Pauses : CallPause(c, method)
  <2>1. \/ nestedPauseCounter' = nestedPauseCounter + 1
        \/ (isPausedFlag' <=> isPausedFlag) /\ nestedPauseCounter' = nestedPauseCounter
    BY <1>0, <1>4 DEF CallPause, Call, Counted, Goto, flagVars
  <2>2. pc[c] # "resuming" /\ \A d \in Clients : d # c => pc'[d] = pc[d]
    BY <1>0, <1>4 DEF CallPause, Call, Counted, Goto, flagVars
  <2> QED BY <1>0, <2>1, <2>2 DEF CounterStage
<1>5. CASE CallResume(c)
  BY <1>5 DEF CallResume, Call, Goto
<1>6. CASE CallIgnored(c)
  BY <1>6 DEF CallIgnored
<1>7. CASE CallAdd(c)
  BY <1>7 DEF CallAdd, Call, Goto
<1>8. CASE StartLock(c)
  BY <1>8 DEF StartLock, startLockFree, Returns, Goto
<1>9. CASE SetRunning(c)
  BY <1>9 DEF SetRunning, Goto
<1>10. CASE CreateWorker(c)
  BY <1>10 DEF CreateWorker, mayUseWorkers, FinalTurn, Turn, LastTurn, Returns, Goto
<1>11. CASE RestartWorker(c)
  BY <1>11 DEF RestartWorker, mayUseWorkers, FinalTurn, Turn, LastTurn, Returns, Goto
<1>12. CASE StopLock(c)
  BY <1>12 DEF StopLock, startLockFree, StopReturns, Returns, Goto
<1>13. CASE Drain(c)
  BY <1>13 DEF Drain, mayUseWorkers, Goto
<1>14. CASE DrainEnds(c)
  BY <1>14 DEF DrainEnds, Turn, LastTurn, Goto
<1>15. CASE StopWorker(c)
  BY <1>15 DEF StopWorker, Goto
<1>16. CASE StopResume(c)
  BY <1>16 DEF StopResume, Goto
<1>17. CASE StopSignal(c)
  BY <1>17 DEF StopSignal, Goto
<1>18. CASE StopRelease(c)
  BY <1>18 DEF StopRelease, Turn, LastTurn, Goto
<1>19. CASE Join(c)
  BY <1>19 DEF Join, Turn, LastTurn, StopReturns, Returns, Goto
<1>20. CASE Clear(c)
  BY <1>20 DEF Clear, Returns, Goto
<1>21. CASE PauseLock(c)
  <2>1. \/ nestedPauseCounter' = nestedPauseCounter + 1
        \/ (isPausedFlag' <=> isPausedFlag) /\ nestedPauseCounter' = nestedPauseCounter
    BY <1>0, <1>21 DEF PauseLock, startLockFree, PauseReturns, Returns, Goto, flagVars
  <2>2. pc[c] # "resuming" /\ \A d \in Clients : d # c => pc'[d] = pc[d]
    BY <1>0, <1>21 DEF PauseLock, startLockFree, PauseReturns, Returns, Goto, flagVars
  <2> QED BY <1>0, <2>1, <2>2 DEF CounterStage
<1>22. CASE PauseWorker(c)
  <2>1. \/ nestedPauseCounter' = nestedPauseCounter + 1
        \/ (isPausedFlag' <=> isPausedFlag) /\ nestedPauseCounter' = nestedPauseCounter
    BY <1>0, <1>22 DEF PauseWorker, mayUseWorkers, PauseTurn, PauseReturns, Turn, LastTurn,
         Returns, Goto, flagVars
  <2>2. pc[c] # "resuming" /\ \A d \in Clients : d # c => pc'[d] = pc[d]
    BY <1>0, <1>22 DEF PauseWorker, mayUseWorkers, PauseTurn, PauseReturns, Turn, LastTurn,
         Returns, Goto, flagVars
  <2> QED BY <1>0, <2>1, <2>2 DEF CounterStage
<1>23. CASE PauseSignal(c)
  <2>1. \/ nestedPauseCounter' = nestedPauseCounter + 1
        \/ (isPausedFlag' <=> isPausedFlag) /\ nestedPauseCounter' = nestedPauseCounter
    BY <1>0, <1>23 DEF PauseSignal, PauseTurn, PauseReturns, Turn, LastTurn, Returns, Goto,
         flagVars
  <2>2. pc[c] # "resuming" /\ \A d \in Clients : d # c => pc'[d] = pc[d]
    BY <1>0, <1>23 DEF PauseSignal, PauseTurn, PauseReturns, Turn, LastTurn, Returns, Goto,
         flagVars
  <2> QED BY <1>0, <2>1, <2>2 DEF CounterStage
<1>24. CASE Idle(c)
  <2>1. \/ nestedPauseCounter' = nestedPauseCounter + 1
        \/ (isPausedFlag' <=> isPausedFlag) /\ nestedPauseCounter' = nestedPauseCounter
    BY <1>0, <1>24 DEF Idle, PauseTurn, PauseReturns, Turn, LastTurn, Returns, Goto, flagVars
  <2>2. pc[c] # "resuming" /\ \A d \in Clients : d # c => pc'[d] = pc[d]
    BY <1>0, <1>24 DEF Idle, PauseTurn, PauseReturns, Turn, LastTurn, Returns, Goto, flagVars
  <2> QED BY <1>0, <2>1, <2>2 DEF CounterStage
<1>25. CASE IdleEnds(c)
  <2>1. \/ nestedPauseCounter' = nestedPauseCounter + 1
        \/ (isPausedFlag' <=> isPausedFlag) /\ nestedPauseCounter' = nestedPauseCounter
    BY <1>0, <1>25 DEF IdleEnds, PauseTurn, PauseReturns, Turn, LastTurn, Returns, Goto, flagVars
  <2>2. pc[c] # "resuming" /\ \A d \in Clients : d # c => pc'[d] = pc[d]
    BY <1>0, <1>25 DEF IdleEnds, PauseTurn, PauseReturns, Turn, LastTurn, Returns, Goto, flagVars
  <2> QED BY <1>0, <2>1, <2>2 DEF CounterStage
<1>26. CASE ResumeLock(c)
  BY <1>26 DEF ResumeLock, startLockFree, LastResume, Returns, Goto
<1>27. CASE ResumeWorker(c)
  BY <1>27 DEF ResumeWorker, mayUseWorkers, FinalTurn, Turn, LastTurn, Returns, Goto
<1>28. CASE Broadcast(c)
  BY <1>28 DEF Broadcast, mayUseWorkers, FinalTurn, Turn, LastTurn, Returns, Goto
<1>29. CASE SetTerminated(c)
  BY <1>29 DEF SetTerminated, Goto
<1>30. CASE CheckRunning(c)
  BY <1>30 DEF CheckRunning, Goto
<1> QED BY <1>29, <1>30, <1>1, <1>2, <1>3, <1>4, <1>5, <1>6, <1>7, <1>8, <1>9, <1>10, <1>11, <1>12, <1>13,
     <1>14, <1>15, <1>16, <1>17, <1>18, <1>19, <1>20, <1>21, <1>22, <1>23, <1>24, <1>25, <1>26,
     <1>27, <1>28 DEF Calls, CallStep

(* The processor's flags are Boolean. *)
LEMMA FlagTypeNext ==
  ASSUME FlagType, NEW c \in Clients, Calls(c) \/ CallStep(c)
  PROVE  FlagType'
<1> USE DEF flagVars, objectVars, FlagType
<1>1. CASE CallStart(c)
  BY <1>1 DEF CallStart, Call, Counted, Goto
<1>2. CASE CallStop(c)
  BY <1>2 DEF CallStop, Call, Counted, Goto, Pending
<1>3. CASE CallTerminate(c)
  BY <1>3 DEF CallTerminate, Call, Counted, Goto, Pending
<1>4. CASE \E method \in Pauses : CallPause(c, method)
  BY <1>4 DEF CallPause, Call, Counted, Goto
<1>5. CASE CallResume(c)
  BY <1>5 DEF CallResume, Call, Goto
<1>6. CASE CallIgnored(c)
  BY <1>6 DEF CallIgnored
<1>7. CASE CallAdd(c)
  BY <1>7 DEF CallAdd, Call, Goto
<1>8. CASE StartLock(c)
  BY <1>8 DEF StartLock, startLockFree, Returns, Goto
<1>9. CASE SetRunning(c)
  BY <1>9 DEF SetRunning, Goto
<1>10. CASE CreateWorker(c)
  BY <1>10 DEF CreateWorker, mayUseWorkers, FinalTurn, Turn, LastTurn, Returns, Goto
<1>11. CASE RestartWorker(c)
  BY <1>11 DEF RestartWorker, mayUseWorkers, FinalTurn, Turn, LastTurn, Returns, Goto
<1>12. CASE StopLock(c)
  BY <1>12 DEF StopLock, startLockFree, StopReturns, Returns, Goto
<1>13. CASE Drain(c)
  BY <1>13 DEF Drain, mayUseWorkers, Goto
<1>14. CASE DrainEnds(c)
  BY <1>14 DEF DrainEnds, Turn, LastTurn, Goto
<1>15. CASE StopWorker(c)
  BY <1>15 DEF StopWorker, Goto
<1>16. CASE StopResume(c)
  BY <1>16 DEF StopResume, Goto
<1>17. CASE StopSignal(c)
  BY <1>17 DEF StopSignal, Goto
<1>18. CASE StopRelease(c)
  BY <1>18 DEF StopRelease, Turn, LastTurn, Goto
<1>19. CASE Join(c)
  BY <1>19 DEF Join, Turn, LastTurn, StopReturns, Returns, Goto
<1>20. CASE Clear(c)
  BY <1>20 DEF Clear, Returns, Goto
<1>21. CASE PauseLock(c)
  BY <1>21 DEF PauseLock, startLockFree, PauseReturns, Returns, Goto
<1>22. CASE PauseWorker(c)
  BY <1>22 DEF PauseWorker, mayUseWorkers, PauseTurn, PauseReturns, Turn, LastTurn, Returns, Goto
<1>23. CASE PauseSignal(c)
  BY <1>23 DEF PauseSignal, PauseTurn, PauseReturns, Turn, LastTurn, Returns, Goto
<1>24. CASE Idle(c)
  BY <1>24 DEF Idle, PauseTurn, PauseReturns, Turn, LastTurn, Returns, Goto
<1>25. CASE IdleEnds(c)
  BY <1>25 DEF IdleEnds, PauseTurn, PauseReturns, Turn, LastTurn, Returns, Goto
<1>26. CASE ResumeLock(c)
  BY <1>26 DEF ResumeLock, startLockFree, LastResume, Returns, Goto
<1>27. CASE ResumeWorker(c)
  BY <1>27 DEF ResumeWorker, mayUseWorkers, FinalTurn, Turn, LastTurn, Returns, Goto
<1>28. CASE Broadcast(c)
  BY <1>28 DEF Broadcast, mayUseWorkers, FinalTurn, Turn, LastTurn, Returns, Goto
<1>29. CASE SetTerminated(c)
  BY <1>29 DEF SetTerminated, Goto
<1>30. CASE CheckRunning(c)
  BY <1>30 DEF CheckRunning, Goto
<1> QED BY <1>29, <1>30, <1>1, <1>2, <1>3, <1>4, <1>5, <1>6, <1>7, <1>8, <1>9, <1>10, <1>11, <1>12, <1>13,
     <1>14, <1>15, <1>16, <1>17, <1>18, <1>19, <1>20, <1>21, <1>22, <1>23, <1>24, <1>25, <1>26,
     <1>27, <1>28 DEF Calls, CallStep

(* The processor's other fields keep their types. *)
LEMMA ProcessorTypeNext ==
  ASSUME TypeOK, LockOrder, LifeStage, CounterStage, NEW c \in Clients, Calls(c) \/ CallStep(c)
  PROVE  ProcessorType'
<1>0. ProcessorType /\ N \in Nat \ {0} /\ None \notin Clients /\ MaxCalls \in Nat
  BY ProcessorAssumption, WorkerAssumption DEF TypeOK, ProcessorType
<1> USE <1>0 DEF flagVars, objectVars, loopVars, clientVars, ProcessorType, CounterStage,
      LockOrder, LifeStage, StartLocked, StopLocked, AtLoop, InLoop, Steps, Methods,
      LifeCycle, Pauses, Workers, Entries
<1>1. CASE CallStart(c)
  BY <1>1 DEF CallStart, Call, Counted, Goto
<1>2. CASE CallStop(c)
  BY <1>2 DEF CallStop, Call, Counted, Goto, Pending
<1>3. CASE CallTerminate(c)
  BY <1>3 DEF CallTerminate, Call, Counted, Goto, Pending
<1>4. CASE \E method \in Pauses : CallPause(c, method)
  BY <1>4 DEF CallPause, Call, Counted, Goto
<1>5. CASE CallResume(c)
  BY <1>5 DEF CallResume, Call, Goto
<1>6. CASE CallIgnored(c)
  BY <1>6 DEF CallIgnored
<1>7. CASE CallAdd(c)
  BY <1>7 DEF CallAdd, Call, Goto
<1>8. CASE StartLock(c)
  BY <1>8 DEF StartLock, startLockFree, Returns, Goto
<1>9. CASE SetRunning(c)
  BY <1>9 DEF SetRunning, Goto
<1>10. CASE CreateWorker(c)
  BY <1>10 DEF CreateWorker, mayUseWorkers, FinalTurn, Turn, LastTurn, Returns, Goto
<1>11. CASE RestartWorker(c)
  BY <1>11 DEF RestartWorker, mayUseWorkers, FinalTurn, Turn, LastTurn, Returns, Goto
<1>12. CASE StopLock(c)
  BY <1>12 DEF StopLock, startLockFree, StopReturns, Returns, Goto
<1>13. CASE Drain(c)
  BY <1>13 DEF Drain, mayUseWorkers, Goto
<1>14. CASE DrainEnds(c)
  BY <1>14 DEF DrainEnds, Turn, LastTurn, Goto
<1>15. CASE StopWorker(c)
  BY <1>15 DEF StopWorker, Goto
<1>16. CASE StopResume(c)
  BY <1>16 DEF StopResume, Goto
<1>17. CASE StopSignal(c)
  BY <1>17 DEF StopSignal, Goto
<1>18. CASE StopRelease(c)
  BY <1>18 DEF StopRelease, Turn, LastTurn, Goto
<1>19. CASE Join(c)
  BY <1>19 DEF Join, Turn, LastTurn, StopReturns, Returns, Goto
<1>20. CASE Clear(c)
  BY <1>20 DEF Clear, Returns, Goto
<1>21. CASE PauseLock(c)
  BY <1>21 DEF PauseLock, startLockFree, PauseReturns, Returns, Goto
<1>22. CASE PauseWorker(c)
  BY <1>22 DEF PauseWorker, mayUseWorkers, PauseTurn, PauseReturns, Turn, LastTurn, Returns, Goto
<1>23. CASE PauseSignal(c)
  BY <1>23 DEF PauseSignal, PauseTurn, PauseReturns, Turn, LastTurn, Returns, Goto
<1>24. CASE Idle(c)
  BY <1>24 DEF Idle, PauseTurn, PauseReturns, Turn, LastTurn, Returns, Goto
<1>25. CASE IdleEnds(c)
  BY <1>25 DEF IdleEnds, PauseTurn, PauseReturns, Turn, LastTurn, Returns, Goto
<1>26. CASE ResumeLock(c)
  BY <1>26 DEF ResumeLock, startLockFree, LastResume, Returns, Goto
<1>27. CASE ResumeWorker(c)
  BY <1>27 DEF ResumeWorker, mayUseWorkers, FinalTurn, Turn, LastTurn, Returns, Goto
<1>28. CASE Broadcast(c)
  BY <1>28 DEF Broadcast, mayUseWorkers, FinalTurn, Turn, LastTurn, Returns, Goto
<1>29. CASE SetTerminated(c)
  BY <1>29 DEF SetTerminated, Goto
<1>30. CASE CheckRunning(c)
  BY <1>30 DEF CheckRunning, Goto
<1> QED BY <1>29, <1>30, <1>1, <1>2, <1>3, <1>4, <1>5, <1>6, <1>7, <1>8, <1>9, <1>10, <1>11, <1>12, <1>13,
     <1>14, <1>15, <1>16, <1>17, <1>18, <1>19, <1>20, <1>21, <1>22, <1>23, <1>24, <1>25, <1>26,
     <1>27, <1>28 DEF Calls, CallStep


-----------------------------------------------------------------------------
(* Workers and their threads.                                              *)

(* A method that may change fewer flags. *)
LEMMA NudgedLess ==
  ASSUME NEW w, NEW A, NEW B, A \subseteq B, Nudged(w, A)
  PROVE  Nudged(w, B)
BY DEF Nudged

Marks == {"started", "dead", "terminated"}

(* The client steps that create a worker, delete one, or terminate one. *)
Drastic(c) == CreateWorker(c) \/ Join(c) \/ StopWorker(c)

(* All other steps of clients nudge a worker that exists. *)
LEMMA ClientNudges ==
  ASSUME TypeOK, LockOrder, LifeStage, ThreadsLive, NEW c \in Clients, Calls(c) \/ CallStep(c)
  PROVE  \/ Drastic(c)
         \/ /\ UNCHANGED processing
            /\ Nudged(cursor, Flags \ Marks)
            /\ cursor \in processing \/ UNCHANGED workerVars
<1>0. WorkerType /\ cursor \in Workers /\ pc \in [Clients -> Steps] /\ isRunningFlag \in BOOLEAN
  BY DEF TypeOK, WorkerType
<1> DEFINE Kept == UNCHANGED <<workerVars, processing>>
           Goal == /\ UNCHANGED processing
                   /\ Nudged(cursor, Flags \ Marks)
                   /\ cursor \in processing \/ UNCHANGED workerVars
<1>a. Kept => Goal
  BY <1>0, MethodsNudge, NudgedLess
<1>b. pc[c] \in StartLocked \ {"setRunning", "creating", "joining", "resuming"} =>
        processing = Workers
  BY DEF LifeStage, LockOrder, StartLocked, StopLocked
<1>c. ASSUME UNCHANGED processing, cursor \in processing,
             NEW flags \in SUBSET (Flags \ Marks), Nudged(cursor, flags)
      PROVE  Goal
  BY <1>c, NudgedLess
<1> SUFFICES ASSUME ~Drastic(c) PROVE Goal
  OBVIOUS
<1> HIDE DEF Goal
<1>d. /\ {} \subseteq Flags \ Marks /\ {"joiners", "workWaiter"} \subseteq Flags \ Marks
      /\ {"paused", "pauseLock"} \subseteq Flags \ Marks /\ {"pauseLock"} \subseteq Flags \ Marks
      /\ {"idleWaiter"} \subseteq Flags \ Marks /\ {"paused"} \subseteq Flags \ Marks
      /\ {"idle", "idleWaiter"} \subseteq Flags \ Marks
  BY DEF Flags, Marks
<1>1. CASE Calls(c)
  BY <1>1, <1>a DEF Calls, CallStart, CallStop, CallTerminate, CallPause, CallResume, CallIgnored,
     CallAdd, Call, objectVars
<1>2. CASE \/ StartLock(c) \/ SetRunning(c) \/ StopLock(c) \/ DrainEnds(c) \/ Clear(c)
           \/ PauseLock(c) \/ IdleEnds(c) \/ ResumeLock(c)
  BY <1>2, <1>a DEF StartLock, SetRunning, StopLock, DrainEnds, Clear, PauseLock, IdleEnds,
     ResumeLock, objectVars
<1>3. CASE RestartWorker(c)
  <2>1. cursor \in processing
    BY <1>0, <1>3, <1>b DEF RestartWorker, StartLocked
  <2>2. UNCHANGED workerVars
    BY <1>0, <1>3, <2>1 DEF RestartWorker, start, ThreadsLive
  <2> QED BY <1>3, <1>a, <2>2 DEF RestartWorker, objectVars
<1>4. CASE Drain(c)
  <2>1. Nudged(cursor, {"joiners", "workWaiter"})
    BY <1>0, <1>4, MethodsNudge DEF Drain
  <2> QED BY <1>0, <1>4, <1>b, <1>c, <1>d, <2>1 DEF Drain, objectVars, StartLocked
<1>5. CASE StopResume(c)
  <2>1. Nudged(cursor, {"paused"})
    BY <1>0, <1>5, MethodsNudge DEF StopResume
  <2> QED BY <1>0, <1>5, <1>b, <1>c, <1>d, <2>1 DEF StopResume, objectVars, StartLocked
<1>6. CASE StopSignal(c)
  <2>1. Nudged(cursor, {})
    BY <1>0, <1>6, MethodsNudge DEF StopSignal
  <2> QED BY <1>0, <1>6, <1>b, <1>c, <1>d, <2>1 DEF StopSignal, objectVars, StartLocked
<1>7. CASE StopRelease(c)
  <2>1. Nudged(cursor, {"idle", "idleWaiter"})
    BY <1>0, <1>7, MethodsNudge DEF StopRelease
  <2> QED BY <1>0, <1>7, <1>b, <1>c, <1>d, <2>1 DEF StopRelease, objectVars, StartLocked
<1>8. CASE PauseWorker(c)
  <2>1. Nudged(cursor, {"paused", "pauseLock"}) \/ UNCHANGED workerVars
    BY <1>0, <1>8, MethodsNudge DEF PauseWorker
  <2> QED BY <1>0, <1>8, <1>a, <1>b, <1>c, <1>d, <2>1 DEF PauseWorker, objectVars, StartLocked
<1>9. CASE PauseSignal(c)
  <2>1. Nudged(cursor, {"pauseLock"})
    BY <1>0, <1>9, MethodsNudge DEF PauseSignal
  <2> QED BY <1>0, <1>9, <1>b, <1>c, <1>d, <2>1 DEF PauseSignal, objectVars, StartLocked
<1>10. CASE Idle(c)
  <2>1. Nudged(cursor, {"idleWaiter"}) \/ UNCHANGED workerVars
    BY <1>0, <1>10, MethodsNudge DEF Idle
  <2> QED BY <1>0, <1>10, <1>a, <1>b, <1>c, <1>d, <2>1 DEF Idle, objectVars, StartLocked
<1>11. CASE ResumeWorker(c)
  <2>1. CASE isRunningFlag
    <3>1. Nudged(cursor, {"paused"})
      BY <1>0, <1>11, <2>1, MethodsNudge DEF ResumeWorker
    <3>2. processing = Workers
      BY <1>11, <2>1 DEF ResumeWorker, LifeStage, LockOrder, StartLocked
    <3> QED BY <1>0, <1>11, <1>c, <1>d, <3>1, <3>2 DEF ResumeWorker, objectVars
  <2>2. CASE ~isRunningFlag
    BY <1>11, <2>2, <1>a DEF ResumeWorker, objectVars
  <2> QED BY <1>0, <2>1, <2>2
<1>12. CASE Broadcast(c)
  <2>1. UNCHANGED workerVars \/ (cursor \in processing /\ Nudged(cursor, {}))
    BY <1>0, <1>12, MethodsNudge DEF Broadcast
  <2> QED BY <1>12, <1>a, <1>c, <1>d, <2>1 DEF Broadcast, objectVars
<1>13. CASE SetTerminated(c) \/ CheckRunning(c)
  BY <1>13, <1>a DEF SetTerminated, CheckRunning, objectVars
<1> QED
  BY <1>13, <1>1, <1>2, <1>3, <1>4, <1>5, <1>6, <1>7, <1>8, <1>9, <1>10, <1>11, <1>12
  DEF CallStep, Drastic

(* What the drastic steps do. *)
LEMMA CreateEffect ==
  ASSUME TypeOK, LockOrder, LifeStage, ThreadsLive, NEW c \in Clients, CreateWorker(c)
  PROVE  /\ cursor \notin processing /\ At(c) = cursor
         /\ worker' = [worker EXCEPT ![cursor] = {"started"}]
         /\ thread' = [thread EXCEPT ![cursor] = "init"]
         /\ processing' = processing \cup {cursor}
<1>1. At(c) = cursor
  BY ProcessorAssumption DEF CreateWorker, mayUseWorkers, At, TypeOK
<1>2. cursor \notin processing
  BY <1>1, WorkerAssumption DEF CreateWorker, LifeStage, TypeOK, Workers
<1> QED BY <1>1, <1>2 DEF CreateWorker, start, Run, NewWorker

(* A worker is joined, and reset, once its thread has ended.               *)
LEMMA JoinEffect ==
  ASSUME TypeOK, LockOrder, LifeStage, ThreadsLive, NEW c \in Clients, Join(c)
  PROVE  /\ cursor \in processing /\ thread[cursor] = "off"
         /\ worker' = [worker EXCEPT ![cursor] = {}]
         /\ UNCHANGED thread
         /\ processing' = processing \ {cursor}
<1>1. cursor \in processing
  BY WorkerAssumption DEF Join, LifeStage, TypeOK, Workers
<1>2. thread[cursor] = "off"
  BY <1>1 DEF Join, joined, ThreadsLive, TypeOK
<1> QED BY <1>1, <1>2 DEF Join, NewWorker

(* A worker that is told to terminate is signalled or broadcast to.        *)
LEMMA StopEffect ==
  ASSUME TypeOK, LockOrder, LifeStage, NEW c \in Clients, StopWorker(c)
  PROVE  /\ cursor \in processing
         /\ Nudged(cursor, {"terminated"})
         /\ worker' = [worker EXCEPT ![cursor] = @ \cup {"terminated"}]
         /\ UNCHANGED <<processing, thread>>
<1>1. cursor \in processing
  BY DEF StopWorker, LifeStage, TypeOK, LockOrder, StartLocked, StopLocked
<1>2. Nudged(cursor, {"terminated"})
  BY MethodsNudge DEF StopWorker, TypeOK, WorkerType
<1> QED BY <1>1, <1>2 DEF StopWorker, Set, objectVars

(* Clients keep workers and their threads in step. *)
LEMMA ClientThreads ==
  ASSUME TypeOK, LockOrder, LifeStage, ThreadsLive, NEW c \in Clients, Calls(c) \/ CallStep(c)
  PROVE  WorkerType' /\ ThreadsLive'
<1>0. WorkerType /\ cursor \in Workers
  BY DEF TypeOK, WorkerType
<1>1. CASE CreateWorker(c)
  <2>1. {"started"} \subseteq Flags /\ "init" \in ThreadSteps
    BY DEF Flags, ThreadSteps
  <2> QED BY <1>0, <1>1, <2>1, CreateEffect DEF ThreadsLive, WorkerType
<1>2. CASE Join(c)
  BY <1>0, <1>2, JoinEffect DEF ThreadsLive, WorkerType, NewWorker
<1>3. CASE StopWorker(c)
  BY <1>0, <1>3, StopEffect DEF ThreadsLive, WorkerType, Flags, Nudged
<1>4. CASE /\ UNCHANGED processing
           /\ Nudged(cursor, Flags \ Marks)
           /\ cursor \in processing \/ UNCHANGED workerVars
  BY <1>0, <1>4 DEF ThreadsLive, WorkerType, Nudged, Flags, Marks, workerVars
<1> QED BY <1>1, <1>2, <1>3, <1>4, ClientNudges DEF Drastic

(* A thread's steps keep the types of its worker. *)
LEMMA ThreadTypes ==
  ASSUME TypeOK, NEW w \in Workers, Moves(w), UNCHANGED processorVars
  PROVE  WorkerType'
<1>0. WorkerType
  BY  DEF TypeOK, WorkerType
<1> USE <1>0 DEF WorkerType, ThreadSteps, Flags
<1>1. CASE Enter(w)
  BY <1>1 DEF Enter, Run, Branch
<1>2. CASE Loop(w)
  BY <1>2 DEF Loop, Run, Branch
<1>3. CASE BecomeIdle(w)
  BY <1>3 DEF BecomeIdle, Run
<1>4. CASE EndPause(w)
  BY <1>4 DEF EndPause, Unset, Run
<1>5. CASE Remove(w)
  BY <1>5 DEF Remove, isWork, Run
<1>6. CASE Handle(w)
  BY <1>6 DEF Handle, HandleEnds, Run
<1>7. CASE Throw(w)
  BY <1>7 DEF Throw, HandleEnds, Set, Run
<1>8. CASE WaitForWork(w)
  BY <1>8 DEF WaitForWork, mayWait, isWork, ToldJoiners, Run
<1>9. CASE EndWait(w)
  BY <1>9 DEF EndWait, Unset, Run
<1>10. CASE FailPause(w)
  BY <1>10 DEF FailPause, Unset, Run
<1>11. CASE FailWait(w)
  BY <1>11 DEF FailWait, Unset, ToldJoiners, Run
<1>12. CASE Finalize(w)
  BY <1>12 DEF Finalize, Set, Run
<1>13. CASE SpuriousWakeup(w)
  BY <1>13 DEF SpuriousWakeup, Run
<1>14. CASE SignalDead(w)
  BY <1>14 DEF SignalDead, Set, Run
<1> QED BY <1>14, <1>1, <1>2, <1>3, <1>4, <1>5, <1>6, <1>7, <1>8, <1>9, <1>10, <1>11, <1>12, <1>13
      DEF Moves, RunStep

(* A thread ends when its worker is dead. *)
LEMMA ThreadThreads ==
  ASSUME TypeOK, ThreadsLive, NEW w \in Workers, Moves(w), UNCHANGED
         processorVars
  PROVE  ThreadsLive'
<1>0. /\ WorkerType /\ UNCHANGED processing
      /\ w \in processing \/ thread[w] = "off"
  BY  DEF TypeOK, WorkerType, processorVars, objectVars, ThreadsLive
<1> USE <1>0 DEF WorkerType, ThreadsLive, Flags, NewWorker
<1>1. CASE Enter(w)
  BY <1>1 DEF Enter, Run, Branch
<1>2. CASE Loop(w)
  BY <1>2 DEF Loop, Run, Branch
<1>3. CASE BecomeIdle(w)
  BY <1>3 DEF BecomeIdle, Run
<1>4. CASE EndPause(w)
  BY <1>4 DEF EndPause, Unset, Run
<1>5. CASE Remove(w)
  BY <1>5 DEF Remove, isWork, Run
<1>6. CASE Handle(w)
  BY <1>6 DEF Handle, HandleEnds, Run
<1>7. CASE Throw(w)
  BY <1>7 DEF Throw, HandleEnds, Set, Run
<1>8. CASE WaitForWork(w)
  BY <1>8 DEF WaitForWork, mayWait, isWork, ToldJoiners, Run
<1>9. CASE EndWait(w)
  BY <1>9 DEF EndWait, Unset, Run
<1>10. CASE FailPause(w)
  BY <1>10 DEF FailPause, Unset, Run
<1>11. CASE FailWait(w)
  BY <1>11 DEF FailWait, Unset, ToldJoiners, Run
<1>12. CASE Finalize(w)
  BY <1>12 DEF Finalize, Set, Run
<1>13. CASE SpuriousWakeup(w)
  BY <1>13 DEF SpuriousWakeup, Run
<1>14. CASE SignalDead(w)
  BY <1>14 DEF SignalDead, Set, Run
<1> QED BY <1>14, <1>1, <1>2, <1>3, <1>4, <1>5, <1>6, <1>7, <1>8, <1>9, <1>10, <1>11, <1>12, <1>13
      DEF Moves, RunStep


-----------------------------------------------------------------------------
(* Clients do not disturb each other.                                      *)

(* A step of a client leaves the others' calls alone, and the worker at     *)
(* which another client's loop is.                                          *)
LEMMA OtherClients ==
  ASSUME TypeOK, LockOrder, NEW c \in Clients, Calls(c) \/ CallStep(c)
  PROVE  \A d \in Clients \ {c} :
           /\ pc'[d] = pc[d] /\ call'[d] = call[d] /\ hold'[d] = hold[d]
           /\ toDrain'[d] = toDrain[d]
           /\ workerLock' = d <=> workerLock = d
           /\ At(d)' = At(d)
           /\ pc[d] \in InLoop => workerLock = d
           /\ workerLock = d => cursor' = cursor /\ UNCHANGED workerVars
<1>0. /\ pc \in [Clients -> Steps] /\ call \in [Clients -> Methods \cup {"none"}]
      /\ hold \in [Clients -> Pauses \cup {"no"}] /\ toDrain \in [Clients -> SUBSET Entries]
      /\ None \notin Clients
  BY ProcessorAssumption, WorkerAssumption DEF TypeOK
<1> USE <1>0 DEF loopVars, clientVars, workerVars, LockOrder, At, StartLocked, InLoop,
      AtLoop
<1>1. CASE CallStart(c)
  BY <1>1 DEF CallStart, Call, Counted, Goto
<1>2. CASE CallStop(c)
  BY <1>2 DEF CallStop, Call, Counted, Goto, Pending
<1>3. CASE CallTerminate(c)
  BY <1>3 DEF CallTerminate, Call, Counted, Goto, Pending
<1>4. CASE \E method \in Pauses : CallPause(c, method)
  BY <1>4 DEF CallPause, Call, Counted, Goto
<1>5. CASE CallResume(c)
  BY <1>5 DEF CallResume, Call, Goto
<1>6. CASE CallIgnored(c)
  BY <1>6 DEF CallIgnored
<1>7. CASE CallAdd(c)
  BY <1>7 DEF CallAdd, Call, Goto
<1>8. CASE StartLock(c)
  BY <1>8 DEF StartLock, startLockFree, Returns, Goto
<1>9. CASE SetRunning(c)
  BY <1>9 DEF SetRunning, Goto
<1>10. CASE CreateWorker(c)
  BY <1>10 DEF CreateWorker, mayUseWorkers, FinalTurn, Turn, LastTurn, Returns, Goto
<1>11. CASE RestartWorker(c)
  BY <1>11 DEF RestartWorker, mayUseWorkers, FinalTurn, Turn, LastTurn, Returns, Goto
<1>12. CASE StopLock(c)
  BY <1>12 DEF StopLock, startLockFree, StopReturns, Returns, Goto
<1>13. CASE Drain(c)
  BY <1>13 DEF Drain, mayUseWorkers, Goto
<1>14. CASE DrainEnds(c)
  BY <1>14 DEF DrainEnds, Turn, LastTurn, Goto
<1>15. CASE StopWorker(c)
  BY <1>15 DEF StopWorker, Goto
<1>16. CASE StopResume(c)
  BY <1>16 DEF StopResume, Goto
<1>17. CASE StopSignal(c)
  BY <1>17 DEF StopSignal, Goto
<1>18. CASE StopRelease(c)
  BY <1>18 DEF StopRelease, Turn, LastTurn, Goto
<1>19. CASE Join(c)
  BY <1>19 DEF Join, Turn, LastTurn, StopReturns, Returns, Goto
<1>20. CASE Clear(c)
  BY <1>20 DEF Clear, Returns, Goto
<1>21. CASE PauseLock(c)
  BY <1>21 DEF PauseLock, startLockFree, PauseReturns, Returns, Goto
<1>22. CASE PauseWorker(c)
  BY <1>22 DEF PauseWorker, mayUseWorkers, PauseTurn, PauseReturns, Turn, LastTurn, Returns, Goto
<1>23. CASE PauseSignal(c)
  BY <1>23 DEF PauseSignal, PauseTurn, PauseReturns, Turn, LastTurn, Returns, Goto
<1>24. CASE Idle(c)
  BY <1>24 DEF Idle, PauseTurn, PauseReturns, Turn, LastTurn, Returns, Goto
<1>25. CASE IdleEnds(c)
  BY <1>25 DEF IdleEnds, PauseTurn, PauseReturns, Turn, LastTurn, Returns, Goto
<1>26. CASE ResumeLock(c)
  BY <1>26 DEF ResumeLock, startLockFree, LastResume, Returns, Goto
<1>27. CASE ResumeWorker(c)
  BY <1>27 DEF ResumeWorker, mayUseWorkers, FinalTurn, Turn, LastTurn, Returns, Goto
<1>28. CASE Broadcast(c)
  BY <1>28 DEF Broadcast, mayUseWorkers, FinalTurn, Turn, LastTurn, Returns, Goto
<1>29. CASE SetTerminated(c)
  BY <1>29 DEF SetTerminated, Goto
<1>30. CASE CheckRunning(c)
  BY <1>30 DEF CheckRunning, Goto
<1> QED BY <1>29, <1>30, <1>1, <1>2, <1>3, <1>4, <1>5, <1>6, <1>7, <1>8, <1>9, <1>10, <1>11, <1>12, <1>13,
     <1>14, <1>15, <1>16, <1>17, <1>18, <1>19, <1>20, <1>21, <1>22, <1>23, <1>24, <1>25, <1>26,
     <1>27, <1>28 DEF Calls, CallStep

(* The steps of stop after the queue was drained. *)
StopTail == {"stopping", "stopResume", "stopSignal", "stopRelease", "joining"}

(* Which steps lead through the second half of stop. *)
LEMMA StopTailSteps ==
  ASSUME TypeOK, LockOrder, NEW c \in Clients, Calls(c) \/ CallStep(c)
  PROVE  \/ pc[c] \notin StopTail /\ pc'[c] \notin StopTail
         \/ DrainEnds(c) \/ StopWorker(c) \/ StopResume(c) \/ StopSignal(c) \/ StopRelease(c)
         \/ Join(c)
<1>0. pc \in [Clients -> Steps]
  BY ProcessorAssumption, WorkerAssumption DEF TypeOK
<1> USE <1>0 DEF clientVars, StopTail
<1>1. CASE CallStart(c)
  BY <1>1 DEF CallStart, Call, Counted, Goto
<1>2. CASE CallStop(c)
  BY <1>2 DEF CallStop, Call, Counted, Goto, Pending
<1>3. CASE CallTerminate(c)
  BY <1>3 DEF CallTerminate, Call, Counted, Goto, Pending
<1>4. CASE \E method \in Pauses : CallPause(c, method)
  BY <1>4 DEF CallPause, Call, Counted, Goto
<1>5. CASE CallResume(c)
  BY <1>5 DEF CallResume, Call, Goto
<1>6. CASE CallIgnored(c)
  BY <1>6 DEF CallIgnored
<1>7. CASE CallAdd(c)
  BY <1>7 DEF CallAdd, Call, Goto
<1>8. CASE StartLock(c)
  BY <1>8 DEF StartLock, startLockFree, Returns, Goto
<1>9. CASE SetRunning(c)
  BY <1>9 DEF SetRunning, Goto
<1>10. CASE CreateWorker(c)
  BY <1>10 DEF CreateWorker, mayUseWorkers, FinalTurn, Turn, LastTurn, Returns, Goto
<1>11. CASE RestartWorker(c)
  BY <1>11 DEF RestartWorker, mayUseWorkers, FinalTurn, Turn, LastTurn, Returns, Goto
<1>12. CASE StopLock(c)
  BY <1>12 DEF StopLock, startLockFree, StopReturns, Returns, Goto
<1>13. CASE Drain(c)
  BY <1>13 DEF Drain, mayUseWorkers, Goto
<1>14. CASE DrainEnds(c)
  BY <1>14 DEF DrainEnds, Turn, LastTurn, Goto
<1>15. CASE StopWorker(c)
  BY <1>15 DEF StopWorker, Goto
<1>16. CASE StopResume(c)
  BY <1>16 DEF StopResume, Goto
<1>17. CASE StopSignal(c)
  BY <1>17 DEF StopSignal, Goto
<1>18. CASE StopRelease(c)
  BY <1>18 DEF StopRelease, Turn, LastTurn, Goto
<1>19. CASE Join(c)
  BY <1>19 DEF Join, Turn, LastTurn, StopReturns, Returns, Goto
<1>20. CASE Clear(c)
  BY <1>20 DEF Clear, Returns, Goto
<1>21. CASE PauseLock(c)
  BY <1>21 DEF PauseLock, startLockFree, PauseReturns, Returns, Goto
<1>22. CASE PauseWorker(c)
  BY <1>22 DEF PauseWorker, mayUseWorkers, PauseTurn, PauseReturns, Turn, LastTurn, Returns, Goto
<1>23. CASE PauseSignal(c)
  BY <1>23 DEF PauseSignal, PauseTurn, PauseReturns, Turn, LastTurn, Returns, Goto
<1>24. CASE Idle(c)
  BY <1>24 DEF Idle, PauseTurn, PauseReturns, Turn, LastTurn, Returns, Goto
<1>25. CASE IdleEnds(c)
  BY <1>25 DEF IdleEnds, PauseTurn, PauseReturns, Turn, LastTurn, Returns, Goto
<1>26. CASE ResumeLock(c)
  BY <1>26 DEF ResumeLock, startLockFree, LastResume, Returns, Goto
<1>27. CASE ResumeWorker(c)
  BY <1>27 DEF ResumeWorker, mayUseWorkers, FinalTurn, Turn, LastTurn, Returns, Goto
<1>28. CASE Broadcast(c)
  BY <1>28 DEF Broadcast, mayUseWorkers, FinalTurn, Turn, LastTurn, Returns, Goto
<1>29. CASE SetTerminated(c)
  BY <1>29 DEF SetTerminated, Goto
<1>30. CASE CheckRunning(c)
  BY <1>30 DEF CheckRunning, Goto
<1> QED BY <1>29, <1>30, <1>1, <1>2, <1>3, <1>4, <1>5, <1>6, <1>7, <1>8, <1>9, <1>10, <1>11, <1>12, <1>13,
     <1>14, <1>15, <1>16, <1>17, <1>18, <1>19, <1>20, <1>21, <1>22, <1>23, <1>24, <1>25, <1>26,
     <1>27, <1>28 DEF Calls, CallStep

(* Clients neither handle nor lose entries. *)
LEMMA ClientEntries ==
  ASSUME TypeOK, NEW c \in Clients, Calls(c) \/ CallStep(c)
  PROVE  /\ QueueType'
         /\ \A e \in Entries : \A s \in {"handled", "lost"} : entry'[e] = s <=> entry[e] = s
         /\ CallAdd(c) \/ UNCHANGED queueVars
<1>0. QueueType
  BY ProcessorAssumption, WorkerAssumption DEF TypeOK, QueueType
<1> USE <1>0 DEF queueVars, QueueType
<1>1. CASE CallStart(c)
  BY <1>1 DEF CallStart, Call, Counted, Goto
<1>2. CASE CallStop(c)
  BY <1>2 DEF CallStop, Call, Counted, Goto, Pending
<1>3. CASE CallTerminate(c)
  BY <1>3 DEF CallTerminate, Call, Counted, Goto, Pending
<1>4. CASE \E method \in Pauses : CallPause(c, method)
  BY <1>4 DEF CallPause, Call, Counted, Goto
<1>5. CASE CallResume(c)
  BY <1>5 DEF CallResume, Call, Goto
<1>6. CASE CallIgnored(c)
  BY <1>6 DEF CallIgnored
<1>7. CASE CallAdd(c)
  BY <1>0, <1>7 DEF CallAdd, Enqueue, QueueType
<1>8. CASE StartLock(c)
  BY <1>8 DEF StartLock, startLockFree, Returns, Goto
<1>9. CASE SetRunning(c)
  BY <1>9 DEF SetRunning, Goto
<1>10. CASE CreateWorker(c)
  BY <1>10 DEF CreateWorker, mayUseWorkers, FinalTurn, Turn, LastTurn, Returns, Goto
<1>11. CASE RestartWorker(c)
  BY <1>11 DEF RestartWorker, mayUseWorkers, FinalTurn, Turn, LastTurn, Returns, Goto
<1>12. CASE StopLock(c)
  BY <1>12 DEF StopLock, startLockFree, StopReturns, Returns, Goto
<1>13. CASE Drain(c)
  BY <1>13 DEF Drain, mayUseWorkers, Goto
<1>14. CASE DrainEnds(c)
  BY <1>14 DEF DrainEnds, Turn, LastTurn, Goto
<1>15. CASE StopWorker(c)
  BY <1>15 DEF StopWorker, Goto
<1>16. CASE StopResume(c)
  BY <1>16 DEF StopResume, Goto
<1>17. CASE StopSignal(c)
  BY <1>17 DEF StopSignal, Goto
<1>18. CASE StopRelease(c)
  BY <1>18 DEF StopRelease, Turn, LastTurn, Goto
<1>19. CASE Join(c)
  BY <1>19 DEF Join, Turn, LastTurn, StopReturns, Returns, Goto
<1>20. CASE Clear(c)
  BY <1>20 DEF Clear, Returns, Goto
<1>21. CASE PauseLock(c)
  BY <1>21 DEF PauseLock, startLockFree, PauseReturns, Returns, Goto
<1>22. CASE PauseWorker(c)
  BY <1>22 DEF PauseWorker, mayUseWorkers, PauseTurn, PauseReturns, Turn, LastTurn, Returns, Goto
<1>23. CASE PauseSignal(c)
  BY <1>23 DEF PauseSignal, PauseTurn, PauseReturns, Turn, LastTurn, Returns, Goto
<1>24. CASE Idle(c)
  BY <1>24 DEF Idle, PauseTurn, PauseReturns, Turn, LastTurn, Returns, Goto
<1>25. CASE IdleEnds(c)
  BY <1>25 DEF IdleEnds, PauseTurn, PauseReturns, Turn, LastTurn, Returns, Goto
<1>26. CASE ResumeLock(c)
  BY <1>26 DEF ResumeLock, startLockFree, LastResume, Returns, Goto
<1>27. CASE ResumeWorker(c)
  BY <1>27 DEF ResumeWorker, mayUseWorkers, FinalTurn, Turn, LastTurn, Returns, Goto
<1>28. CASE Broadcast(c)
  BY <1>28 DEF Broadcast, mayUseWorkers, FinalTurn, Turn, LastTurn, Returns, Goto
<1>29. CASE SetTerminated(c)
  BY <1>29 DEF SetTerminated, Goto
<1>30. CASE CheckRunning(c)
  BY <1>30 DEF CheckRunning, Goto
<1> QED BY <1>29, <1>30, <1>1, <1>2, <1>3, <1>4, <1>5, <1>6, <1>7, <1>8, <1>9, <1>10, <1>11, <1>12, <1>13,
     <1>14, <1>15, <1>16, <1>17, <1>18, <1>19, <1>20, <1>21, <1>22, <1>23, <1>24, <1>25, <1>26,
     <1>27, <1>28 DEF Calls, CallStep


-----------------------------------------------------------------------------
(* The queue.                                                              *)

(* Adding an entry keeps the assignment of entries to workers. *)
LEMMA EnqueueAssignment ==
  ASSUME QueueType, Assignment, NEW e \in Entries, Enqueue(e), UNCHANGED thread
  PROVE  Assignment'
<1>0. 0 \notin Entries /\ e # 0
  BY WorkerAssumption DEF Entries
<1>1. \A w \in Workers : slot[w] # e
  BY DEF Enqueue, Assignment
<1>2. CASE expecting = {}
  <2>1. entry' = [entry EXCEPT ![e] = "queued"] /\ UNCHANGED <<slot, expecting>>
    BY <1>2 DEF Enqueue
  <2> QED BY <1>0, <1>1, <2>1 DEF Assignment, QueueType
<1>3. ASSUME NEW w \in expecting, slot' = [slot EXCEPT ![w] = e], expecting' = expecting \ {w},
             entry' = [entry EXCEPT ![e] = "assigned"]
      PROVE  Assignment'
  <2>1. w \in Workers /\ slot[w] = 0
    BY <1>3 DEF QueueType, Assignment
  <2>2. \A f \in Entries : entry'[f] = "assigned" <=> \E v \in Workers : slot'[v] = f
    <3>1. ASSUME NEW f \in Entries, f # e
          PROVE  entry'[f] = "assigned" <=> \E v \in Workers : slot'[v] = f
      <4>1. entry'[f] = entry[f]
        BY <1>3, <3>1 DEF QueueType
      <4>2. \A v \in Workers : slot'[v] = f <=> slot[v] = f
        BY <1>0, <1>3, <2>1, <3>1 DEF QueueType
      <4> QED BY <4>1, <4>2 DEF Assignment
    <3>2. entry'[e] = "assigned" /\ slot'[w] = e
      BY <1>3, <2>1 DEF QueueType
    <3> QED BY <2>1, <3>1, <3>2
  <2>3. \A u, v \in Workers : slot'[u] = slot'[v] /\ slot'[u] # 0 => u = v
    BY <1>1, <1>3, <2>1 DEF QueueType, Assignment
  <2>4. \A v \in Workers :
         /\ thread[v] = "handle" => slot'[v] # 0
         /\ thread[v] = "toWait" => slot'[v] # 0 \/ v \in expecting'
         /\ thread[v] \in {"signalDead", "off"} => slot'[v] = 0
         /\ v \in expecting' => slot'[v] = 0 /\ thread[v] \notin {"signalDead", "off"}
    BY <1>0, <1>3, <2>1 DEF QueueType, Assignment
  <2> QED BY <2>2, <2>3, <2>4 DEF Assignment
<1> QED BY <1>2, <1>3 DEF Enqueue

(* Clients keep the assignment. *)
LEMMA ClientAssignment ==
  ASSUME TypeOK, LockOrder, LifeStage, ThreadsLive, Assignment,
         NEW c \in Clients, Calls(c) \/ CallStep(c)
  PROVE  Assignment'
<1>0. WorkerType /\ QueueType /\ cursor \in Workers
  BY DEF TypeOK, WorkerType, QueueType
<1>1. CASE CallAdd(c)
  BY <1>0, <1>1, EnqueueAssignment DEF CallAdd, Call, workerVars
<1>2. CASE UNCHANGED queueVars
  <2>1. \A v \in Workers :
          /\ thread'[v] \in {"handle", "toWait"} => thread'[v] = thread[v]
          /\ thread'[v] = "off" => thread[v] = "off"
          /\ thread[v] # "off" => thread'[v] # "off"
          /\ thread'[v] = "signalDead" <=> thread[v] = "signalDead"
          /\ thread'[v] # thread[v] => thread[v] # "off" \/ CreateWorker(c)
    <3>1. CASE CreateWorker(c)
      <4>1. thread[cursor] = "off"
        BY <1>0, <3>1, CreateEffect DEF ThreadsLive
      <4> QED BY <1>0, <3>1, <4>1, CreateEffect DEF WorkerType
    <3>2. CASE Join(c)
      BY <3>2, JoinEffect
    <3>3. CASE StopWorker(c)
      BY <3>3, StopEffect
    <3>4. CASE Nudged(cursor, Flags \ Marks)
      BY <1>0, <3>4 DEF Nudged
    <3> QED BY <3>1, <3>2, <3>3, <3>4, ClientNudges DEF Drastic
  <2> QED BY <1>2, <2>1 DEF Assignment, queueVars
<1> QED BY <1>1, <1>2, ClientEntries

(* Who is terminated at which step of stop. *)
LEMMA ClientTerminations ==
  ASSUME TypeOK, LockOrder, LifeStage, ThreadsLive, Terminations,
         NEW c \in Clients, Calls(c) \/ CallStep(c)
  PROVE  Terminations'
<1>0. /\ WorkerType /\ cursor \in Workers /\ pc \in [Clients -> Steps] /\ N \in Nat \ {0}
      /\ processing \subseteq Workers
  BY WorkerAssumption DEF TypeOK, WorkerType
<1>1. NoneLost' <=> NoneLost
  BY ClientEntries DEF NoneLost
<1>2. \A d \in Clients \ {c} : pc'[d] = pc[d] /\ (pc[d] \in StopTail => cursor' = cursor)
  BY OtherClients DEF StopTail, InLoop
<1>3. ASSUME pc[c] \notin StopTail, pc'[c] \notin StopTail, ~Drastic(c) PROVE Terminations'
  <2>1. Nudged(cursor, Flags \ Marks) /\ UNCHANGED processing
    BY <1>3, ClientNudges
  <2>2. \A w \in Workers :
          /\ "terminated" \in worker'[w] <=> "terminated" \in worker[w]
          /\ \A s \in Dying : thread'[w] = s <=> thread[w] = s
    BY <1>0, <2>1 DEF Nudged, Flags, Marks, Dying
  <2>3. \A d \in Clients : \A s \in StopTail :
          (pc'[d] = s <=> pc[d] = s) /\ (pc[d] = s => cursor' = cursor)
    BY <1>2, <1>3
  <2> QED BY <1>1, <2>1, <2>2, <2>3 DEF Terminations, StopTail, Dying
<1>4. CASE CreateWorker(c)
  <2>1. pc[c] \notin StopTail /\ pc'[c] \notin StopTail
    BY <1>0, <1>4 DEF CreateWorker, FinalTurn, Turn, Returns, Goto, StopTail
  <2>2. \A d \in Clients : \A s \in StopTail : pc[d] # s /\ pc'[d] # s
    BY <1>2, <1>4, <2>1 DEF CreateWorker, LockOrder, StartLocked, StopTail
  <2>3. /\ worker' = [worker EXCEPT ![cursor] = {"started"}]
        /\ thread' = [thread EXCEPT ![cursor] = "init"]
        /\ processing' = processing \cup {cursor}
    BY <1>4, CreateEffect
  <2> QED BY <1>0, <1>1, <2>2, <2>3 DEF Terminations, StopTail, Dying, WorkerType
<1>5. CASE DrainEnds(c)
  <2>1. /\ pc[c] \notin StopTail /\ pc'[c] \in {"draining", "stopping"}
        /\ pc'[c] = "stopping" => cursor' = 1
        /\ UNCHANGED <<worker, thread, processing>>
    BY <1>0, <1>5 DEF DrainEnds, Turn, LastTurn, Goto, StopTail, workerVars, objectVars
  <2>2. \A d \in Clients \ {c} : pc'[d] = pc[d] /\ pc[d] \notin StopTail
    BY <1>2, <1>5 DEF DrainEnds, LockOrder, StartLocked, StopTail
  <2>3. \A w \in Workers : w >= 1
    BY DEF Workers
  <2> QED BY <1>1, <2>1, <2>2, <2>3 DEF Terminations, StopTail, Workers
<1>6. ASSUME StopWorker(c) \/ StopResume(c) \/ StopSignal(c) \/ StopRelease(c)
      PROVE  Terminations'
  <2>1. \A d \in Clients \ {c} : pc'[d] = pc[d] /\ pc[d] \notin StopTail
    BY <1>2, <1>6 DEF StopWorker, StopResume, StopSignal, StopRelease, LockOrder, StartLocked,
         StopTail
  <2>2. /\ UNCHANGED processing
        /\ \A w \in Workers : \A s \in Dying : thread'[w] = s <=> thread[w] = s
        /\ \A w \in Workers : "terminated" \in worker[w] => "terminated" \in worker'[w]
        /\ StopWorker(c) => "terminated" \in worker'[cursor]
    <3>1. CASE StopWorker(c)
      BY <1>0, <3>1, StopEffect DEF WorkerType
    <3>2. CASE ~StopWorker(c)
      <4>1. ~Drastic(c)
        BY <1>6, <3>2 DEF Drastic, StopResume, StopSignal, StopRelease, CreateWorker, Join
      <4>2. Nudged(cursor, Flags \ Marks) /\ UNCHANGED processing
        BY <4>1, ClientNudges
      <4> QED BY <1>0, <3>2, <4>2 DEF Nudged, Flags, Marks, Dying
    <3> QED BY <3>1, <3>2
  <2>3. \/ /\ pc[c] = "stopping" /\ pc'[c] = "stopResume" /\ cursor' = cursor /\ StopWorker(c)
        \/ /\ pc[c] \in {"stopResume", "stopSignal"} /\ pc'[c] \in {"stopSignal", "stopRelease"}
           /\ cursor' = cursor
        \/ pc[c] = "stopRelease" /\ pc'[c] = "stopping" /\ cursor' = cursor + 1
        \/ pc[c] = "stopRelease" /\ pc'[c] = "joining" /\ cursor = N /\ cursor' = 1
    BY <1>0, <1>6 DEF StopWorker, StopResume, StopSignal, StopRelease, Turn, LastTurn, Goto,
         loopVars
  <2>4. \A w \in Workers :
          /\ pc'[c] = "joining" /\ w >= cursor' => "terminated" \in worker'[w]
          /\ pc'[c] = "stopping" /\ w < cursor' => "terminated" \in worker'[w]
          /\ pc'[c] \in {"stopResume", "stopSignal", "stopRelease"} /\ w <= cursor' =>
                "terminated" \in worker'[w]
    BY <1>0, <2>2, <2>3 DEF Terminations, Workers
  <2>5. \A w \in Workers : pc'[c] = "joining" => w >= cursor'
    <3>1. pc'[c] = "joining" => cursor' = 1
      BY <2>3
    <3> QED BY <3>1 DEF Workers
  <2>6. pc'[c] \in StopTail
    BY <2>3 DEF StopTail
  <2> QED BY <2>1, <2>2, <2>4, <2>5, <2>6 DEF Terminations, StopTail, Dying
<1>7. CASE Join(c)
  <2>1. \A d \in Clients \ {c} : pc'[d] = pc[d] /\ pc[d] \notin StopTail
    BY <1>2, <1>7 DEF Join, LockOrder, StartLocked, StopTail
  <2>2. /\ worker' = [worker EXCEPT ![cursor] = {}] /\ UNCHANGED thread
        /\ processing' = processing \ {cursor}
    BY <1>7, JoinEffect
  <2>3. \A w \in Workers : w < cursor => worker[w] = {}
    BY <1>0, <1>7 DEF Join, LifeStage, ThreadsLive, NewWorker, Workers
  <2>4. \/ pc'[c] = "joining" /\ cursor' = cursor + 1
        \/ pc'[c] \in {"clear", "idle"} /\ cursor = N
    BY <1>0, <1>7 DEF Join, Turn, LastTurn, StopReturns, Returns, Goto
  <2>5. pc[c] = "joining" /\ (thread[cursor] = "off")
    BY <1>7, JoinEffect DEF Join
  <2> QED BY <1>0, <1>1, <2>1, <2>2, <2>3, <2>4, <2>5 DEF Terminations, StopTail, Dying,
       WorkerType, Workers
<1> QED BY <1>3, <1>4, <1>5, <1>6, <1>7, StopTailSteps DEF Drastic

(* A worker is promised the next entry in its turn, whatever clients do. *)
LEMMA ClientExpecting ==
  ASSUME TypeOK, LockOrder, LifeStage, ThreadsLive, Assignment, Terminations, ExpectingInTurn,
         NEW c \in Clients, Calls(c) \/ CallStep(c)
  PROVE  ExpectingInTurn'
<1>0. WorkerType /\ QueueType /\ cursor \in Workers /\ N \in Nat \ {0}
  BY WorkerAssumption DEF TypeOK, WorkerType, QueueType
<1> SUFFICES ASSUME \A w \in Workers : "terminated" \notin worker'[w]
             PROVE  expecting' = {} \/ Queued' = {}
  BY DEF ExpectingInTurn
<1>1. CASE CallAdd(c)
  <2>1. UNCHANGED worker
    BY <1>1 DEF CallAdd, Call, workerVars
  <2>2. expecting = {} \/ Queued = {}
    BY <2>1 DEF ExpectingInTurn
  <2>3. PICK e \in Entries : Enqueue(e)
    BY <1>1 DEF CallAdd
  <2>4. CASE expecting = {}
    BY <2>3, <2>4 DEF Enqueue
  <2>5. CASE expecting # {}
    <3>1. entry' = [entry EXCEPT ![e] = "assigned"]
      BY <2>3, <2>5 DEF Enqueue
    <3> QED BY <1>0, <2>2, <2>5, <3>1 DEF Queued, QueueType
  <2> QED BY <2>4, <2>5
<1>2. CASE UNCHANGED queueVars
  <2>1. CASE \A w \in Workers : "terminated" \notin worker[w]
    BY <1>2, <2>1 DEF ExpectingInTurn, queueVars, Queued
  <2>2. CASE Join(c)
    <3>1. cursor = N
      <4>1. \A w \in Workers : w > cursor => "terminated" \in worker'[w]
        BY <1>0, <2>2, JoinEffect DEF Join, Terminations, WorkerType, Workers
      <4> QED BY <1>0, <4>1 DEF Workers
    <3>2. \A w \in Workers : thread[w] = "off"
      BY <1>0, <2>2, <3>1, JoinEffect DEF Join, LifeStage, ThreadsLive, Workers
    <3>3. expecting = {}
      BY <1>0, <3>2 DEF Assignment, QueueType
    <3> QED BY <1>2, <3>3 DEF queueVars
  <2>3. CASE CreateWorker(c)
    <3>1. \A w \in Workers : "terminated" \notin worker[w]
      BY <1>0, <2>3, CreateEffect DEF ThreadsLive, NewWorker, WorkerType
    <3> QED BY <2>1, <3>1
  <2>4. CASE StopWorker(c)
    BY <1>0, <2>4, StopEffect DEF WorkerType
  <2>5. CASE Nudged(cursor, Flags \ Marks)
    <3>1. \A w \in Workers : "terminated" \notin worker[w]
      BY <1>0, <2>5 DEF Nudged, Flags, Marks
    <3> QED BY <2>1, <3>1
  <2> QED BY <2>2, <2>3, <2>4, <2>5, ClientNudges DEF Drastic
<1> QED BY <1>1, <1>2, ClientEntries

(* How stop gets from one worker to the next, and what it has to drain. *)
LEMMA DrainSteps ==
  ASSUME TypeOK, LockOrder, NEW c \in Clients, Calls(c) \/ CallStep(c)
  PROVE  /\ \/ toDrain'[c] = toDrain[c]
            \/ toDrain'[c] = {}
            \/ toDrain'[c] = Pending /\ pc'[c] \in {"stop", "terminate"}
         /\ pc'[c] = "draining" => \/ At(c)' = 1
                                   \/ /\ DrainEnds(c) /\ cursor # N
                                      /\ At(c)' = cursor + 1
         /\ pc'[c] = "drainWait" => Drain(c) /\ At(c) = cursor /\ cursor' = cursor
         /\ pc'[c] \in StopTail => pc[c] \in StopTail \/ (DrainEnds(c) /\ cursor = N)
<1>0. /\ pc \in [Clients -> Steps] /\ toDrain \in [Clients -> SUBSET Entries]
      /\ workerLock = None => cursor = 1
      /\ None \notin Clients
  BY ProcessorAssumption, WorkerAssumption DEF TypeOK
<1> USE <1>0 DEF loopVars, clientVars, LockOrder, At, StopTail, AtLoop, InLoop
<1>1. CASE CallStart(c)
  BY <1>1 DEF CallStart, Call, Counted, Goto
<1>2. CASE CallStop(c)
  BY <1>2 DEF CallStop, Call, Counted, Goto, Pending
<1>3. CASE CallTerminate(c)
  BY <1>3 DEF CallTerminate, Call, Counted, Goto, Pending
<1>4. CASE \E method \in Pauses : CallPause(c, method)
  BY <1>4 DEF CallPause, Call, Counted, Goto
<1>5. CASE CallResume(c)
  BY <1>5 DEF CallResume, Call, Goto
<1>6. CASE CallIgnored(c)
  BY <1>6 DEF CallIgnored
<1>7. CASE CallAdd(c)
  BY <1>7 DEF CallAdd, Call, Goto
<1>8. CASE StartLock(c)
  BY <1>8 DEF StartLock, startLockFree, Returns, Goto
<1>9. CASE SetRunning(c)
  BY <1>9 DEF SetRunning, Goto
<1>10. CASE CreateWorker(c)
  BY <1>10 DEF CreateWorker, mayUseWorkers, FinalTurn, Turn, LastTurn, Returns, Goto
<1>11. CASE RestartWorker(c)
  BY <1>11 DEF RestartWorker, mayUseWorkers, FinalTurn, Turn, LastTurn, Returns, Goto
<1>12. CASE StopLock(c)
  BY <1>12 DEF StopLock, startLockFree, StopReturns, Returns, Goto
<1>13. CASE Drain(c)
  BY <1>13 DEF Drain, mayUseWorkers, Goto
<1>14. CASE DrainEnds(c)
  BY <1>14 DEF DrainEnds, Turn, LastTurn, Goto
<1>15. CASE StopWorker(c)
  BY <1>15 DEF StopWorker, Goto
<1>16. CASE StopResume(c)
  BY <1>16 DEF StopResume, Goto
<1>17. CASE StopSignal(c)
  BY <1>17 DEF StopSignal, Goto
<1>18. CASE StopRelease(c)
  BY <1>18 DEF StopRelease, Turn, LastTurn, Goto
<1>19. CASE Join(c)
  BY <1>19 DEF Join, Turn, LastTurn, StopReturns, Returns, Goto
<1>20. CASE Clear(c)
  BY <1>20 DEF Clear, Returns, Goto
<1>21. CASE PauseLock(c)
  BY <1>21 DEF PauseLock, startLockFree, PauseReturns, Returns, Goto
<1>22. CASE PauseWorker(c)
  BY <1>22 DEF PauseWorker, mayUseWorkers, PauseTurn, PauseReturns, Turn, LastTurn, Returns, Goto
<1>23. CASE PauseSignal(c)
  BY <1>23 DEF PauseSignal, PauseTurn, PauseReturns, Turn, LastTurn, Returns, Goto
<1>24. CASE Idle(c)
  BY <1>24 DEF Idle, PauseTurn, PauseReturns, Turn, LastTurn, Returns, Goto
<1>25. CASE IdleEnds(c)
  BY <1>25 DEF IdleEnds, PauseTurn, PauseReturns, Turn, LastTurn, Returns, Goto
<1>26. CASE ResumeLock(c)
  BY <1>26 DEF ResumeLock, startLockFree, LastResume, Returns, Goto
<1>27. CASE ResumeWorker(c)
  BY <1>27 DEF ResumeWorker, mayUseWorkers, FinalTurn, Turn, LastTurn, Returns, Goto
<1>28. CASE Broadcast(c)
  BY <1>28 DEF Broadcast, mayUseWorkers, FinalTurn, Turn, LastTurn, Returns, Goto
<1>29. CASE SetTerminated(c)
  BY <1>29 DEF SetTerminated, Goto
<1>30. CASE CheckRunning(c)
  BY <1>30 DEF CheckRunning, Goto
<1> QED BY <1>29, <1>30, <1>1, <1>2, <1>3, <1>4, <1>5, <1>6, <1>7, <1>8, <1>9, <1>10, <1>11, <1>12, <1>13,
     <1>14, <1>15, <1>16, <1>17, <1>18, <1>19, <1>20, <1>21, <1>22, <1>23, <1>24, <1>25, <1>26,
     <1>27, <1>28 DEF Calls, CallStep

(* Adding an entry does not concern entries that were added before. *)
LEMMA AddsOnlyNew ==
  ASSUME TypeOK, NEW c \in Clients, Calls(c) \/ CallStep(c),
         NEW T \in SUBSET Entries, \A e \in T : entry[e] # "new"
  PROVE  /\ \A e \in T : entry'[e] = entry[e]
         /\ \A w \in Workers : slot'[w] \in T => slot'[w] = slot[w]
<1>0. QueueType
  BY DEF TypeOK, QueueType
<1>1. CASE CallAdd(c)
  BY <1>0, <1>1 DEF CallAdd, Enqueue, QueueType
<1>2. CASE UNCHANGED queueVars
  BY <1>2 DEF queueVars
<1> QED BY <1>1, <1>2, ClientEntries

(* The progress of stop through the workers, in the steps of clients. *)
LEMMA ClientDrain ==
  ASSUME TypeOK, CallStage, LockOrder, LifeStage, ThreadsLive, Assignment, Terminations,
         DrainStage, NEW c \in Clients, Calls(c) \/ CallStep(c)
  PROVE  DrainStage'
<1>0. /\ WorkerType /\ QueueType /\ cursor \in Workers /\ N \in Nat \ {0}
      /\ toDrain \in [Clients -> SUBSET Entries]
  BY WorkerAssumption DEF TypeOK, WorkerType, QueueType
<1>1. NoneLost' <=> NoneLost
  BY ClientEntries DEF NoneLost
<1> SUFFICES ASSUME NoneLost PROVE DrainStage'
  BY <1>1 DEF DrainStage
<1> DEFINE Stage(d) ==
      /\ \A e \in toDrain[d] : entry[e] # "new"
      /\ pc[d] = "draining" => DrainedBefore(d, At(d))
      /\ pc[d] = "drainWait" =>
           /\ DrainedBefore(d, cursor)
           /\ "workWaiter" \in worker[cursor] \/ DrainedBefore(d, cursor + 1)
      /\ pc[d] \in StopTail => \A e \in toDrain[d] : entry[e] = "handled"
<1>2. \A d \in Clients : Stage(d)
  BY DEF DrainStage, StopTail
<1>3. ASSUME NEW d \in Clients, toDrain'[d] = toDrain[d]
      PROVE  /\ \A e \in toDrain[d] : entry'[e] = entry[e]
             /\ \A k \in Nat : DrainedBefore(d, k) => DrainedBefore(d, k)'
  <2>1. /\ \A e \in toDrain[d] : entry'[e] = entry[e]
        /\ \A w \in Workers : slot'[w] \in toDrain[d] => slot'[w] = slot[w]
    BY <1>0, <1>2, AddsOnlyNew
  <2> QED BY <1>3, <2>1 DEF DrainedBefore, Queued
<1>4. ASSUME NEW d \in Clients \ {c} PROVE Stage(d)'
  <2>1. /\ pc'[d] = pc[d] /\ toDrain'[d] = toDrain[d] /\ At(d)' = At(d)
        /\ pc[d] \in InLoop => cursor' = cursor /\ UNCHANGED worker
    BY OtherClients DEF workerVars
  <2>2. At(d) \in Nat /\ cursor \in Nat /\ cursor + 1 \in Nat
    BY <1>0 DEF At, Workers
  <2>3. Stage(d)
    BY <1>2
  <2>4. /\ \A e \in toDrain[d] : entry'[e] = entry[e]
        /\ \A k \in Nat : DrainedBefore(d, k) => DrainedBefore(d, k)'
    BY <1>3, <2>1
  <2>5. pc[d] = "drainWait" =>
          /\ DrainedBefore(d, cursor)'
          /\ "workWaiter" \in worker'[cursor'] \/ DrainedBefore(d, cursor + 1)'
    <3>1. pc[d] = "drainWait" => cursor' = cursor /\ UNCHANGED worker
      BY <2>1 DEF InLoop
    <3> QED BY <2>1, <2>2, <2>3, <2>4, <3>1 DEF DrainedBefore
  <2>6. pc[d] = "draining" => DrainedBefore(d, At(d))'
    BY <2>1, <2>2, <2>3, <2>4 DEF DrainedBefore
  <2> QED BY <2>1, <2>3, <2>4, <2>5, <2>6
<1>5. Stage(c)'
  <2>1. CASE toDrain'[c] = {}
    BY <2>1 DEF DrainedBefore
  <2>2. CASE toDrain'[c] = Pending /\ pc'[c] \in {"stop", "terminate"}
    <3>1. \A e \in Pending : e \in Entries /\ entry[e] # "new"
      BY DEF Pending
    <3>2. \A e \in Pending : entry'[e] # "new"
      BY <3>1, AddsOnlyNew
    <3> QED BY <2>2, <3>2 DEF StopTail
  <2>3. CASE toDrain'[c] = toDrain[c]
    <3>1. /\ \A e \in toDrain[c] : entry'[e] = entry[e]
          /\ \A k \in Nat : DrainedBefore(c, k) => DrainedBefore(c, k)'
      BY <1>3, <2>3
    <3>2. Stage(c)
      BY <1>2
    <3>3. \A e \in toDrain'[c] : entry'[e] # "new"
      BY <2>3, <3>1, <3>2
    <3>4. ASSUME pc'[c] = "draining" PROVE DrainedBefore(c, At(c))'
      <4>1. CASE At(c)' = 1
        BY <4>1 DEF DrainedBefore, Workers
      <4>2. CASE DrainEnds(c) /\ At(c)' = cursor + 1
        <5>1. DrainedBefore(c, cursor + 1)
          BY <3>2, <4>2 DEF DrainEnds
        <5> QED BY <1>0, <3>1, <4>2, <5>1 DEF Workers, DrainedBefore
      <4> QED BY <3>4, <4>1, <4>2, DrainSteps
    <3>5. ASSUME pc'[c] = "drainWait"
          PROVE  DrainedBefore(c, cursor)' /\ "workWaiter" \in worker'[cursor']
      <4>1. Drain(c) /\ At(c) = cursor /\ cursor' = cursor
        BY <3>5, DrainSteps
      <4>2. DrainedBefore(c, cursor)
        BY <3>2, <4>1 DEF Drain
      <4>3. "terminated" \notin worker[cursor]
        BY <1>0, <4>1 DEF Terminations, Drain, LockOrder, StartLocked
      <4>4. "started" \in worker[cursor]
        BY <1>0, <4>1 DEF Drain, LifeStage, ThreadsLive, LockOrder, StartLocked, StopLocked
      <4>5. "workWaiter" \in worker'[cursor]
        BY <1>0, <4>1, <4>3, <4>4 DEF Drain, signal, Set, WorkerType
      <4> QED BY <1>0, <3>1, <4>1, <4>2, <4>5 DEF Workers, DrainedBefore
    <3>6. ASSUME pc'[c] \in StopTail PROVE \A e \in toDrain'[c] : entry'[e] = "handled"
      <4>1. CASE pc[c] \in StopTail
        BY <2>3, <3>1, <3>2, <4>1
      <4>2. CASE DrainEnds(c) /\ cursor = N
        <5>1. DrainedBefore(c, N + 1)
          BY <3>2, <4>2 DEF DrainEnds
        <5>2. \A e \in toDrain[c] : entry[e] \notin {"new", "lost", "queued", "assigned"}
          BY <1>0, <3>2, <5>1 DEF DrainedBefore, NoneLost, Queued, Assignment, Workers
        <5> QED BY <1>0, <2>3, <3>1, <5>2 DEF QueueType
      <4> QED BY <3>6, <4>1, <4>2, DrainSteps
    <3> QED BY <3>3, <3>4, <3>5, <3>6
  <2> QED BY <2>1, <2>2, <2>3, DrainSteps
<1> QED BY <1>4, <1>5 DEF DrainStage, StopTail


-----------------------------------------------------------------------------
(* The steps of threads.                                                   *)

(* A queue that is not empty has a first entry. *)
LEMMA OldestQueued ==
  ASSUME Queued # {}
  PROVE  Oldest \in Queued
<1>1. Queued \subseteq Nat
  BY WorkerAssumption DEF Queued, Entries
<1>2. \E e \in Queued : \A f \in Queued : ~(<<f, e>> \in OpToRel(<, Nat))
  BY <1>1, NatLessThanWellFounded, WFMin, Zenon
<1>3. \E e \in Queued : \A f \in Queued : e <= f
  <2>1. \A e, f \in Nat : f < e => <<f, e>> \in OpToRel(<, Nat)
    BY DEF OpToRel
  <2>2. \A e, f \in Nat : ~(f < e) => e <= f
    OBVIOUS
  <2> QED BY <1>1, <1>2, <2>1, <2>2, Zenon
<1> QED BY <1>3 DEF Oldest

(* What a step of a thread does to entries. *)
LEMMA ThreadEntries ==
  ASSUME TypeOK, Assignment, NEW w \in Workers, Moves(w)
  PROVE  /\ QueueType'
         /\ \A v \in Workers \ {w} :
              slot'[v] = slot[v] /\ thread'[v] = thread[v] /\ worker'[v] = worker[v]
         /\ \/ UNCHANGED queueVars
            \/ Remove(w) /\ UNCHANGED <<slot, entry>> /\ expecting' = expecting \cup {w}
            \/ /\ Remove(w) /\ slot[w] = 0 /\ w \notin expecting /\ UNCHANGED expecting
               /\ \E e \in Queued : /\ slot' = [slot EXCEPT ![w] = e]
                                    /\ entry' = [entry EXCEPT ![e] = "assigned"]
            \/ /\ Handle(w) \/ Throw(w)
               /\ UNCHANGED expecting
               /\ slot[w] \in Entries /\ slot' = [slot EXCEPT ![w] = 0]
               /\ entry' = [entry EXCEPT ![slot[w]] = IF Throw(w) THEN "lost" ELSE "handled"]
            \/ /\ Finalize(w)
               /\ slot' = [slot EXCEPT ![w] = 0] /\ expecting' = expecting \ {w}
               /\ entry' = [e \in Entries |-> IF slot[w] = e THEN "queued" ELSE entry[e]]
<1>0. WorkerType /\ QueueType
  BY DEF TypeOK, WorkerType, QueueType
<1>1. CASE Enter(w) \/ Loop(w) \/ SpuriousWakeup(w) \/ SignalDead(w)
  BY <1>0, <1>1 DEF Enter, Loop, SpuriousWakeup, SignalDead, Set, Run, queueVars, QueueType,
     WorkerType
<1>2. CASE BecomeIdle(w) \/ EndPause(w) \/ WaitForWork(w) \/ EndWait(w)
  BY <1>0, <1>2 DEF BecomeIdle, EndPause, WaitForWork, EndWait, Unset, Run, queueVars, QueueType,
     WorkerType
<1>3. CASE FailPause(w) \/ FailWait(w)
  BY <1>0, <1>3 DEF FailPause, FailWait, Unset, Run, queueVars, QueueType, WorkerType
<1>4. CASE Remove(w)
  <2>1. Queued # {} => Oldest \in Queued
    BY OldestQueued
  <2>2. \A v \in Workers \ {w} : thread'[v] = thread[v] /\ worker'[v] = worker[v]
    BY <1>0, <1>4 DEF Remove, Run, WorkerType
  <2>3. CASE UNCHANGED queueVars
    BY <1>0, <2>2, <2>3 DEF queueVars, QueueType
  <2>4. CASE /\ ~isWork(w) /\ w \notin expecting /\ Queued # {}
             /\ slot' = [slot EXCEPT ![w] = Oldest]
             /\ entry' = [entry EXCEPT ![Oldest] = "assigned"]
             /\ UNCHANGED expecting
    <3>1. QueueType'
      BY <1>0, <2>1, <2>4 DEF QueueType, Queued
    <3> QED BY <1>0, <1>4, <2>1, <2>2, <2>4, <3>1 DEF isWork, QueueType
  <2>5. CASE expecting' = expecting \cup {w} /\ UNCHANGED <<slot, entry>>
    BY <1>0, <1>4, <2>2, <2>5 DEF QueueType
  <2> QED BY <1>4, <2>3, <2>4, <2>5 DEF Remove
<1>5. CASE Handle(w) \/ Throw(w)
  <2>1. thread[w] = "handle" /\ slot[w] \in Entries
    BY <1>0, <1>5 DEF Handle, Throw, HandleEnds, Assignment, QueueType
  <2>2. ~(Handle(w) /\ Throw(w))
    BY <1>0, <2>1 DEF Handle, Throw, HandleEnds, Run, WorkerType
  <2> QED BY <1>0, <1>5, <2>1, <2>2 DEF Handle, Throw, HandleEnds, Run, Set, QueueType, WorkerType
<1>6. CASE Finalize(w)
  BY <1>0, <1>6 DEF Finalize, Set, Run, QueueType, WorkerType
<1> QED BY <1>1, <1>2, <1>3, <1>4, <1>5, <1>6 DEF Moves, RunStep

(* Where a thread goes, and when it is terminated. *)
LEMMA ThreadMoves ==
  ASSUME TypeOK, NEW w \in Workers, Moves(w)
  PROVE  /\ thread'[w] \in {"handle", "toWait"} => Remove(w)
         /\ thread'[w] = "off" => SignalDead(w)
         /\ thread'[w] = "signalDead" => Finalize(w)
         /\ thread[w] \in Dying => thread'[w] \in Dying
         /\ "terminated" \in worker[w] => "terminated" \in worker'[w]
         /\ "terminated" \in worker'[w] => "terminated" \in worker[w] \/ Throw(w)
         /\ thread'[w] \in Dying =>
              thread[w] \in Dying \/ "terminated" \in worker'[w]
<1>0. WorkerType
  BY  DEF TypeOK, WorkerType
<1> USE <1>0 DEF Dying, WorkerType
<1>1. CASE Enter(w)
  BY <1>1 DEF Enter, Run, Branch
<1>2. CASE Loop(w)
  BY <1>2 DEF Loop, Run, Branch
<1>3. CASE BecomeIdle(w)
  BY <1>3 DEF BecomeIdle, Run
<1>4. CASE EndPause(w)
  BY <1>4 DEF EndPause, Unset, Run
<1>5. CASE Remove(w)
  BY <1>5 DEF Remove, isWork, Run
<1>6. CASE Handle(w)
  BY <1>6 DEF Handle, HandleEnds, Run
<1>7. CASE Throw(w)
  BY <1>7 DEF Throw, HandleEnds, Set, Run
<1>8. CASE WaitForWork(w)
  BY <1>8 DEF WaitForWork, mayWait, isWork, ToldJoiners, Run
<1>9. CASE EndWait(w)
  BY <1>9 DEF EndWait, Unset, Run
<1>10. CASE FailPause(w)
  BY <1>10 DEF FailPause, Unset, Run
<1>11. CASE FailWait(w)
  BY <1>11 DEF FailWait, Unset, ToldJoiners, Run
<1>12. CASE Finalize(w)
  BY <1>12 DEF Finalize, Set, Run
<1>13. CASE SpuriousWakeup(w)
  BY <1>13 DEF SpuriousWakeup, Run
<1>14. CASE SignalDead(w)
  BY <1>14 DEF SignalDead, Set, Run
<1> QED BY <1>14, <1>1, <1>2, <1>3, <1>4, <1>5, <1>6, <1>7, <1>8, <1>9, <1>10, <1>11, <1>12, <1>13
      DEF Moves, RunStep

(* Threads keep the assignment of entries to workers. *)
LEMMA ThreadAssignment ==
  ASSUME TypeOK, Assignment, NEW w \in Workers, Moves(w)
  PROVE  Assignment'
<1>0. WorkerType /\ QueueType /\ 0 \notin Entries
  BY WorkerAssumption DEF TypeOK, WorkerType, QueueType, Entries
<1>1. \A v \in Workers \ {w} : slot'[v] = slot[v] /\ thread'[v] = thread[v]
  BY ThreadEntries
<1>2. /\ thread'[w] \in {"handle", "toWait"} => Remove(w)
      /\ thread'[w] = "off" => SignalDead(w)
      /\ thread'[w] = "signalDead" => Finalize(w)
  BY ThreadMoves
<1>3. CASE Remove(w)
  <2>1. thread[w] = "doWork"
    BY <1>3 DEF Remove
  <2>2. CASE slot[w] # 0
    <3>1. UNCHANGED queueVars /\ thread'[w] = "handle"
      BY <1>0, <1>3, <2>2 DEF Remove, isWork, Run, WorkerType
    <3> QED BY <1>1, <2>1, <2>2, <3>1 DEF Assignment, queueVars
  <2>3. CASE slot[w] = 0 /\ w \notin expecting /\ Queued # {}
    <3>1. PICK e \in Queued : /\ slot' = [slot EXCEPT ![w] = e]
                              /\ entry' = [entry EXCEPT ![e] = "assigned"]
      BY <1>3, <2>3, OldestQueued DEF Remove, isWork
    <3>2. UNCHANGED expecting /\ thread'[w] = "handle"
      BY <1>0, <1>3, <2>3 DEF Remove, isWork, Run, WorkerType
    <3>3. e \in Entries /\ e # 0 /\ entry[e] = "queued" /\ \A v \in Workers : slot[v] # e
      BY <1>0 DEF Queued, Assignment
    <3>4. \A f \in Entries : entry'[f] = "assigned" <=> \E v \in Workers : slot'[v] = f
      <4>1. ASSUME NEW f \in Entries, f # e
            PROVE  entry'[f] = "assigned" <=> \E v \in Workers : slot'[v] = f
        <5>1. entry'[f] = entry[f]
          BY <1>0, <3>1, <4>1 DEF QueueType
        <5>2. \A v \in Workers : slot'[v] = f <=> slot[v] = f
          BY <1>0, <2>3, <3>1, <4>1 DEF QueueType
        <5> QED BY <5>1, <5>2 DEF Assignment
      <4>2. entry'[e] = "assigned" /\ slot'[w] = e
        BY <1>0, <3>1, <3>3 DEF QueueType
      <4> QED BY <4>1, <4>2
    <3>5. slot'[w] = e
      BY <1>0, <3>1 DEF QueueType
    <3> QED BY <1>1, <2>3, <3>2, <3>3, <3>4, <3>5 DEF Assignment
  <2>4. CASE slot[w] = 0 /\ (w \in expecting \/ Queued = {})
    <3>1. /\ UNCHANGED <<slot, entry>> /\ expecting' = expecting \cup {w}
          /\ thread'[w] = "toWait"
      BY <1>0, <1>3, <2>4 DEF Remove, isWork, Run, WorkerType
    <3> QED BY <1>1, <2>4, <3>1 DEF Assignment
  <2> QED BY <2>2, <2>3, <2>4
<1>4. CASE Handle(w) \/ Throw(w)
  <2>1. /\ slot[w] \in Entries /\ slot' = [slot EXCEPT ![w] = 0] /\ UNCHANGED expecting
        /\ entry' = [entry EXCEPT ![slot[w]] = IF Throw(w) THEN "lost" ELSE "handled"]
        /\ thread'[w] \in {"check", "failPause"}
    <3>1. thread[w] = "handle" /\ slot[w] \in Entries
      BY <1>0, <1>4 DEF Handle, Throw, HandleEnds, Assignment, QueueType
    <3>2. ~(Handle(w) /\ Throw(w))
      BY <1>0, <3>1 DEF Handle, Throw, HandleEnds, Run, WorkerType
    <3> QED BY <1>0, <1>4, <3>1, <3>2 DEF Handle, Throw, HandleEnds, Run, WorkerType
  <2>2. \A f \in Entries : entry'[f] = "assigned" <=> \E v \in Workers : slot'[v] = f
    <3>1. ASSUME NEW f \in Entries, f # slot[w]
          PROVE  entry'[f] = "assigned" <=> \E v \in Workers : slot'[v] = f
      <4>1. entry'[f] = entry[f]
        BY <1>0, <2>1, <3>1 DEF QueueType
      <4>2. \A v \in Workers : slot'[v] = f <=> slot[v] = f
        BY <1>0, <2>1, <3>1 DEF QueueType
      <4> QED BY <4>1, <4>2 DEF Assignment
    <3>2. entry'[slot[w]] # "assigned" /\ \A v \in Workers : slot'[v] # slot[w]
      BY <1>0, <2>1 DEF QueueType, Assignment
    <3> QED BY <3>1, <3>2
  <2>3. slot'[w] = 0
    BY <1>0, <2>1 DEF QueueType
  <2> QED BY <1>0, <1>1, <2>1, <2>2, <2>3 DEF Assignment
<1>5. CASE Finalize(w)
  <2>1. /\ slot' = [slot EXCEPT ![w] = 0] /\ expecting' = expecting \ {w}
        /\ entry' = [e \in Entries |-> IF slot[w] = e THEN "queued" ELSE entry[e]]
        /\ thread'[w] = "signalDead"
    BY <1>0, <1>5 DEF Finalize, Run, WorkerType
  <2>2. \A f \in Entries : entry'[f] = "assigned" <=> \E v \in Workers : slot'[v] = f
    <3>1. ASSUME NEW f \in Entries, f # slot[w]
          PROVE  entry'[f] = "assigned" <=> \E v \in Workers : slot'[v] = f
      <4>1. entry'[f] = entry[f]
        BY <1>0, <2>1, <3>1 DEF QueueType
      <4>2. \A v \in Workers : slot'[v] = f <=> slot[v] = f
        BY <1>0, <2>1, <3>1 DEF QueueType
      <4> QED BY <4>1, <4>2 DEF Assignment
    <3>2. slot[w] \in Entries => entry'[slot[w]] = "queued" /\ \A v \in Workers : slot'[v] # slot[w]
      BY <1>0, <2>1 DEF QueueType, Assignment
    <3> QED BY <3>1, <3>2
  <2>3. slot'[w] = 0
    BY <1>0, <2>1 DEF QueueType
  <2> QED BY <1>0, <1>1, <2>1, <2>2, <2>3 DEF Assignment
<1>6. CASE UNCHANGED queueVars /\ ~Remove(w) /\ ~Finalize(w)
  <2>1. thread'[w] = "off" => thread[w] = "signalDead"
    BY <1>2 DEF SignalDead
  <2> QED BY <1>1, <1>2, <1>6, <2>1 DEF Assignment, queueVars
<1> QED BY <1>3, <1>4, <1>5, <1>6, ThreadEntries

(* A worker is terminated by an exception or by stop. *)
LEMMA ThreadTerminations ==
  ASSUME TypeOK, Assignment, Terminations, NEW w \in Workers, Moves(w),
         UNCHANGED processorVars
  PROVE  Terminations' /\ (NoneLost' => NoneLost)
<1>0. QueueType
  BY DEF TypeOK, QueueType
<1>1. UNCHANGED <<pc, cursor, processing>>
  BY DEF processorVars, loopVars, objectVars
<1>2. \A v \in Workers \ {w} : thread'[v] = thread[v] /\ worker'[v] = worker[v]
  BY ThreadEntries
<1>3. NoneLost' => NoneLost
  <2>1. ASSUME NEW e \in Entries, entry[e] = "lost" PROVE entry'[e] = "lost"
    BY <1>0, <2>1, ThreadEntries DEF QueueType, Queued, Assignment, queueVars
  <2> QED BY <2>1 DEF NoneLost
<1>4. Throw(w) => ~NoneLost'
  <2>1. Throw(w) => slot[w] \in Entries /\ entry' = [entry EXCEPT ![slot[w]] = "lost"]
    BY <1>0 DEF Throw, HandleEnds, Assignment, QueueType
  <2> QED BY <1>0, <2>1 DEF NoneLost, QueueType
<1>5. Throw(w) => thread'[w] = "failPause"
  BY DEF Throw, HandleEnds, Run, TypeOK
<1>6. /\ thread[w] \in Dying => thread'[w] \in Dying
      /\ "terminated" \in worker[w] => "terminated" \in worker'[w]
      /\ "terminated" \in worker'[w] => "terminated" \in worker[w] \/ Throw(w)
      /\ thread'[w] \in Dying => thread[w] \in Dying \/ "terminated" \in worker'[w]
  BY ThreadMoves
<1>7. thread[w] # "off"
  BY DEF Moves, RunStep, Enter, Loop, BecomeIdle, EndPause, Remove, Handle, Throw, HandleEnds,
     WaitForWork, EndWait, FailPause, FailWait, Finalize, SignalDead, SpuriousWakeup
<1>8. thread'[w] \in Dying => "terminated" \in worker'[w]
  BY <1>6, <1>7 DEF Terminations
<1>9. "terminated" \in worker'[w] /\ (NoneLost' \/ thread'[w] \notin Dying) =>
        "terminated" \in worker[w] /\ (NoneLost \/ thread[w] \notin Dying)
  BY <1>3, <1>4, <1>5, <1>6 DEF Dying
<1> QED BY <1>1, <1>2, <1>3, <1>6, <1>8, <1>9 DEF Terminations, Dying

(* As long as no worker fails, stop alone terminates workers. *)
LEMMA NoneTerminated ==
  ASSUME LockOrder, Terminations, NoneLost, NEW c \in Clients,
         pc[c] \in StartLocked \ StopTail
  PROVE  \A w \in Workers : "terminated" \notin worker[w] /\ thread[w] \notin Dying \ {"off"}
BY DEF LockOrder, Terminations, StartLocked, StopTail

(* A worker is promised the next entry in its turn. *)
LEMMA ThreadExpecting ==
  ASSUME TypeOK, Assignment, Terminations, ExpectingInTurn,
         NEW w \in Workers, Moves(w), UNCHANGED processorVars
  PROVE  ExpectingInTurn'
<1>0. QueueType
  BY DEF TypeOK, QueueType
<1> SUFFICES ASSUME \A v \in Workers : "terminated" \notin worker'[v]
             PROVE  expecting' = {} \/ Queued' = {}
  BY DEF ExpectingInTurn
<1>1. \A v \in Workers : "terminated" \notin worker[v]
  BY ThreadEntries, ThreadMoves
<1>2. expecting = {} \/ Queued = {}
  BY <1>1 DEF ExpectingInTurn
<1>3. ~Throw(w) /\ ~Finalize(w)
  BY <1>1 DEF Throw, Set, Finalize, Terminations, Dying, TypeOK
<1>4. CASE UNCHANGED queueVars
  BY <1>2, <1>4 DEF queueVars, Queued
<1>5. CASE Remove(w) /\ UNCHANGED <<slot, entry>> /\ expecting' = expecting \cup {w}
  <2>1. w \in expecting \/ Queued = {} \/ expecting' = expecting
    BY <1>5 DEF Remove, queueVars
  <2> QED BY <1>2, <1>5, <2>1 DEF Queued
<1>6. CASE /\ UNCHANGED expecting
           /\ \E e \in Queued : entry' = [entry EXCEPT ![e] = "assigned"]
  BY <1>0, <1>2, <1>6 DEF Queued, QueueType
<1>7. CASE /\ UNCHANGED expecting
           /\ slot[w] \in Entries /\ entry' = [entry EXCEPT ![slot[w]] = "handled"]
  BY <1>0, <1>2, <1>7 DEF Queued, QueueType
<1> QED BY <1>3, <1>4, <1>5, <1>6, <1>7, ThreadEntries

(* The progress of stop through the workers, in the steps of threads. *)
LEMMA ThreadDrain ==
  ASSUME TypeOK, LockOrder, Assignment, Terminations, ExpectingInTurn, DrainStage,
         NEW w \in Workers, Moves(w), UNCHANGED processorVars
  PROVE  DrainStage'
<1>0. /\ WorkerType /\ QueueType /\ cursor \in Workers /\ N \in Nat \ {0} /\ 0 \notin Entries
      /\ toDrain \in [Clients -> SUBSET Entries]
  BY WorkerAssumption DEF TypeOK, WorkerType, QueueType, Entries
<1>1. UNCHANGED <<pc, cursor, workerLock, toDrain>>
  BY DEF processorVars, loopVars, clientVars
<1> SUFFICES ASSUME NoneLost', NEW c \in Clients
    PROVE  /\ \A e \in toDrain[c] : entry'[e] # "new"
           /\ pc[c] = "draining" => DrainedBefore(c, At(c))'
           /\ pc[c] = "drainWait" =>
                /\ DrainedBefore(c, cursor)'
                /\ "workWaiter" \in worker'[cursor] \/ DrainedBefore(c, cursor + 1)'
           /\ pc[c] \in StopTail => \A e \in toDrain[c] : entry'[e] = "handled"
  BY <1>1 DEF DrainStage, StopTail
<1>2. NoneLost
  BY ThreadTerminations
<1>3. /\ \A e \in toDrain[c] : entry[e] # "new"
      /\ pc[c] = "draining" => DrainedBefore(c, At(c))
      /\ pc[c] = "drainWait" =>
           /\ DrainedBefore(c, cursor)
           /\ "workWaiter" \in worker[cursor] \/ DrainedBefore(c, cursor + 1)
      /\ pc[c] \in StopTail => \A e \in toDrain[c] : entry[e] = "handled"
  BY <1>2 DEF DrainStage, StopTail
<1>4. \A e \in Entries : /\ entry[e] # "new" => entry'[e] # "new"
                         /\ entry[e] = "handled" => entry'[e] = "handled"
  BY <1>0, ThreadEntries DEF QueueType, Queued, Assignment, queueVars
<1>5. ASSUME pc[c] \in {"draining", "drainWait"} PROVE ~Finalize(w) /\ ~FailWait(w)
  BY <1>2, <1>5, NoneTerminated DEF Finalize, FailWait, StartLocked, StopTail, Dying
<1>6. ASSUME pc[c] \in {"draining", "drainWait"}, NEW k \in Nat, DrainedBefore(c, k)
      PROVE  DrainedBefore(c, k)'
  <2>1. ~Finalize(w)
    BY <1>5, <1>6
  <2>2. \A e \in Entries : entry'[e] = "queued" => entry[e] = "queued"
    BY <1>0, <2>1, ThreadEntries DEF QueueType, queueVars
  <2>3. slot'[w] = slot[w] \/ slot'[w] = 0 \/ slot'[w] \in Queued
    BY <1>0, ThreadEntries DEF QueueType, queueVars
  <2>4. \A v \in Workers \ {w} : slot'[v] = slot[v]
    BY ThreadEntries
  <2>5. k > 1 => toDrain[c] \cap Queued' = {}
    BY <1>0, <1>6, <2>2 DEF DrainedBefore, Queued
  <2>6. \A v \in Workers : v < k => slot'[v] \notin toDrain[c]
    <3>1. w < k => k > 1
      BY DEF Workers
    <3> QED BY <1>0, <1>6, <2>3, <2>4, <3>1 DEF DrainedBefore, Queued
  <2> QED BY <1>1, <2>5, <2>6 DEF DrainedBefore
<1>7. ASSUME pc[c] = "draining" PROVE DrainedBefore(c, At(c))'
  <2>1. At(c) \in Nat /\ At(c)' = At(c)
    BY <1>0, <1>1 DEF At, Workers
  <2> QED BY <1>3, <1>6, <1>7, <2>1 DEF DrainedBefore
<1>8. ASSUME pc[c] = "drainWait"
      PROVE  /\ DrainedBefore(c, cursor)'
             /\ "workWaiter" \in worker'[cursor] \/ DrainedBefore(c, cursor + 1)'
  <2>1. cursor \in Nat /\ cursor + 1 \in Nat
    BY <1>0 DEF Workers
  <2>2. DrainedBefore(c, cursor)'
    BY <1>1, <1>3, <1>6, <1>8, <2>1 DEF DrainedBefore
  <2>3. DrainedBefore(c, cursor + 1) => DrainedBefore(c, cursor + 1)'
    BY <1>1, <1>6, <1>8, <2>1 DEF DrainedBefore
  <2>4. ASSUME "workWaiter" \in worker[cursor], "workWaiter" \notin worker'[cursor]
        PROVE  DrainedBefore(c, cursor + 1)
    <3>1. w = cursor
      BY <1>0, <2>4, ThreadEntries
    <3>2. WaitForWork(w) /\ mayWait(w)
      <4>1. ~FailWait(w)
        BY <1>5, <1>8
      <4>2. CASE Enter(w) \/ Loop(w) \/ Remove(w) \/ Handle(w) \/ SpuriousWakeup(w)
        BY <2>4, <4>2 DEF Enter, Loop, Remove, Handle, SpuriousWakeup
      <4>3. CASE Finalize(w) \/ SignalDead(w) \/ Throw(w)
        BY <1>0, <2>4, <3>1, <4>3 DEF Finalize, SignalDead, Throw, Set, WorkerType
      <4>4. CASE BecomeIdle(w) \/ EndPause(w) \/ EndWait(w) \/ FailPause(w)
        BY <1>0, <2>4, <3>1, <4>4 DEF BecomeIdle, EndPause, EndWait, FailPause, Unset, WorkerType
      <4>5. CASE WaitForWork(w)
        BY <2>4, <4>5 DEF WaitForWork
      <4> QED BY <4>1, <4>2, <4>3, <4>4, <4>5 DEF Moves, RunStep
    <3>3. slot[w] = 0 /\ w \in expecting
      BY <3>2 DEF WaitForWork, mayWait, isWork, Assignment
    <3>4. \A v \in Workers : "terminated" \notin worker[v]
      BY <1>2, <1>8, NoneTerminated DEF StartLocked, StopTail
    <3>5. Queued = {}
      BY <3>3, <3>4 DEF ExpectingInTurn
    <3> QED BY <1>0, <1>3, <1>8, <2>1, <3>1, <3>3, <3>5 DEF DrainedBefore, Workers
  <2> QED BY <1>3, <1>8, <2>2, <2>3, <2>4
<1>9. \A e \in toDrain[c] : e \in Entries
  BY <1>0
<1> QED BY <1>3, <1>4, <1>7, <1>8, <1>9

(* What threads leave alone. *)
LEMMA ThreadFrame ==
  ASSUME TypeOK, CallStage, LockOrder, LifeStage, CounterStage, UNCHANGED processorVars
  PROVE  FlagType' /\ ProcessorType' /\ CallStage' /\ LockOrder' /\ LifeStage' /\ CounterStage'
<1> USE DEF processorVars, flagVars, objectVars, loopVars, clientVars
<1>1. FlagType'
  BY DEF FlagType, TypeOK
<1>2. ProcessorType'
  BY DEF ProcessorType, TypeOK
<1>3. CallStage' /\ LockOrder'
  BY DEF CallStage, LockOrder
<1>4. LifeStage'
  BY DEF LifeStage, At
<1>5. CounterStage'
  BY DEF CounterStage
<1> QED BY <1>1, <1>2, <1>3, <1>4, <1>5

-----------------------------------------------------------------------------
(* The invariant holds.                                                    *)

(* The initial state has no worker and no client in a call.                *)
LEMMA InitIInv == Init => IInv
<1> SUFFICES ASSUME Init PROVE IInv
  OBVIOUS
<1> USE WorkerAssumption, ProcessorAssumption DEF Init, WorkerInit, NewWorker
<1>1. TypeOK
  <2>1. "off" \in ThreadSteps /\ "idle" \in Steps /\ 1 \in Workers
    BY DEF ThreadSteps, Steps, Workers
  <2>2. WorkerType /\ QueueType /\ ExitType
    BY <2>1 DEF WorkerType, QueueType, ExitType
  <2>3. FlagType
    BY DEF FlagType
  <2>4. ProcessorType
    BY <2>1 DEF ProcessorType
  <2> QED BY <2>2, <2>3, <2>4, TypeParts
<1>2. CallStage /\ LockOrder
  BY DEF CallStage, LockOrder, StartSteps, StopSteps, StopLocked, PauseSteps, Pauses, StartLocked,
     InLoop
<1>3. LifeStage /\ ThreadsLive /\ CounterStage
  BY DEF LifeStage, ThreadsLive, CounterStage, StopLocked
<1>4. Assignment
  BY DEF Assignment, Entries
<1>5. Terminations
  BY DEF Terminations, Dying
<1>6. ExpectingInTurn
  BY DEF ExpectingInTurn
<1>7. DrainStage
  BY DEF DrainStage
<1> QED BY <1>1, <1>2, <1>3, <1>4, <1>5, <1>6, <1>7 DEF IInv

(* Threads that come to their end are counted. *)
LEMMA ExitTypeNext == TypeOK /\ [Next]_vars => ExitType'
<1> SUFFICES ASSUME TypeOK, [Next]_vars PROVE ExitType'
  OBVIOUS
<1>0. exiting \in [Workers -> Nat]
  BY DEF TypeOK
<1> USE <1>0 DEF ExitType
<1>1. CASE UNCHANGED exiting
  BY <1>1
<1>2. ASSUME NEW w \in Workers, SignalDead(w) \/ Exit(w) PROVE ExitType'
  BY <1>2 DEF SignalDead, Exit
<1> QED BY <1>1, <1>2 DEF Next, Calls, CallStep, WorkersAct, ThreadStep, vars

(* One of the lemmas above for every action.                               *)
LEMMA NextIInv == IInv /\ [Next]_vars => IInv'
<1> SUFFICES ASSUME IInv, [Next]_vars PROVE IInv'
  OBVIOUS
<1>0. /\ TypeOK /\ CallStage /\ LockOrder /\ LifeStage /\ ThreadsLive /\ Assignment
      /\ Terminations /\ ExpectingInTurn /\ DrainStage /\ CounterStage
  BY DEF IInv
<1>e. ExitType'
  BY <1>0, ExitTypeNext
<1>1. ASSUME NEW c \in Clients, Calls(c) \/ CallStep(c) PROVE IInv'
  <2>1. CallStage' /\ LockOrder' /\ LifeStage' /\ CounterStage'
    BY <1>0, <1>1, ControlNext, LifeNext, CounterNext
  <2>2. WorkerType' /\ ThreadsLive'
    BY <1>0, <1>1, ClientThreads
  <2>3. FlagType' /\ ProcessorType' /\ QueueType'
    BY <1>0, <1>1, FlagTypeNext, ProcessorTypeNext, ClientEntries, TypeParts
  <2>4. Assignment' /\ Terminations' /\ ExpectingInTurn' /\ DrainStage'
    BY <1>0, <1>1, ClientAssignment, ClientTerminations, ClientExpecting, ClientDrain
  <2>5. TypeOK'
    BY <1>e, <2>2, <2>3 DEF TypeOK, WorkerType, QueueType, ExitType, FlagType, ProcessorType
  <2> QED BY <2>1, <2>2, <2>4, <2>5 DEF IInv
<1>2. ASSUME NEW w \in Workers, Moves(w), UNCHANGED processorVars
      PROVE  IInv'
  <2>1. FlagType' /\ ProcessorType' /\ CallStage' /\ LockOrder' /\ LifeStage' /\ CounterStage'
    BY <1>0, <1>2, ThreadFrame
  <2>2. WorkerType' /\ ThreadsLive'
    BY <1>0, <1>2, ThreadTypes, ThreadThreads
  <2>3. QueueType' /\ Assignment'
    BY <1>0, <1>2, ThreadEntries, ThreadAssignment
  <2>4. Terminations' /\ ExpectingInTurn' /\ DrainStage'
    BY <1>0, <1>2, ThreadTerminations, ThreadExpecting, ThreadDrain
  <2>5. TypeOK'
    BY <1>e, <2>1, <2>2, <2>3 DEF TypeOK, WorkerType, QueueType, ExitType, FlagType, ProcessorType
  <2> QED BY <2>1, <2>2, <2>3, <2>4, <2>5 DEF IInv
<1>3. CASE UNCHANGED vars \/ \E w \in Workers : Exit(w) /\ UNCHANGED processorVars
  <2>1. UNCHANGED processorVars /\ UNCHANGED workerVars /\ UNCHANGED queueVars
    BY <1>3 DEF vars, Exit, processorVars
  <2>2. FlagType' /\ ProcessorType' /\ CallStage' /\ LockOrder' /\ LifeStage' /\ CounterStage'
    BY <1>0, <2>1, ThreadFrame
  <2> USE <2>1 DEF processorVars, workerVars, queueVars, loopVars, clientVars, objectVars
  <2>3. WorkerType' /\ QueueType'
    BY <1>0, <2>1, TypeParts DEF WorkerType, QueueType
  <2>4. ThreadsLive' /\ Assignment'
    BY <1>0, <2>1 DEF ThreadsLive, Assignment
  <2>5. Terminations'
    BY <1>0, <2>1 DEF Terminations, NoneLost
  <2>6. ExpectingInTurn' /\ DrainStage'
    BY <1>0, <2>1 DEF ExpectingInTurn, DrainStage, DrainedBefore, NoneLost, Queued, At
  <2>7. TypeOK'
    BY <1>e, <2>2, <2>3 DEF TypeOK, WorkerType, QueueType, ExitType, FlagType, ProcessorType
  <2> QED BY <2>2, <2>4, <2>5, <2>6, <2>7 DEF IInv
<1> QED BY <1>1, <1>2, <1>3 DEF Next, WorkersAct, ThreadStep, Moves

(* The inductive invariant holds in every reachable state, however many    *)
(* clients call the processor and in whatever order.                       *)
THEOREM Invariance == Spec => []IInv
BY InitIInv, NextIInv, PTL DEF Spec

(* Every field of the processor and of its workers keeps its type, and the *)
(* cursor of the loops is back at the first worker when workerLock is      *)
(* released.                                                               *)
THEOREM TypeCorrect == Spec => []TypeOK
<1>1. IInv => TypeOK
  BY DEF IInv
<1> QED BY <1>1, Invariance, PTL

(* stop() drains the queue before it tells the first worker to stop: every *)
(* entry that was there when it was called has been handled by then, or    *)
(* the consumer has thrown.                                                *)
THEOREM StopHandlesAll == Spec => []StopDrains
<1>1. IInv => StopDrains
  BY DEF IInv, DrainStage, StopDrains, NoneLost
<1> QED BY <1>1, Invariance, PTL

=============================================================================
