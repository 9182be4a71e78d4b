----------------------- MODULE CarefulClients_proofs -----------------------
(***************************************************************************)
(* Proofs about QueueProcessor when its clients keep start, stop,          *)
(* terminate and pauses apart (Careful): what a pause promises, and what   *)
(* is left after terminate.                                                *)
(***************************************************************************)
EXTENDS QueueProcessor_proofs

-----------------------------------------------------------------------------
(* What careful clients add to it.                                         *)

(* A pause excludes start, stop and terminate. *)
PausesApart ==
  (\E c \in Clients : call[c] \in LifeCycle) => \A c \in Clients : ~InPause(c)

(* A terminated processor is not started, paused or resumed, and is        *)
(* cleared in the end.                                                     *)
TerminatedStage ==
  /\ isTerminatedFlag => \A c \in Clients : call[c] \notin {"start", "resume"} \cup Pauses
  /\ isTerminatedFlag => cleared \/ \E c \in Clients : call[c] = "terminate"
  /\ \A c \in Clients : call[c] = "terminate" /\ pc[c] # "terminate" => isTerminatedFlag
  /\ \A c, d \in Clients : call[c] = "terminate" => call[d] # "start"
  /\ \A c \in Clients : pc[c] = "clear" => ~isRunningFlag
  /\ cleared => isTerminatedFlag /\ ~isRunningFlag

(* The clients whose pause the counter counts. *)
Holders == {c \in Clients : hold[c] # "no" /\ pc[c] # "resuming"}

PauseCount ==
  /\ nestedPauseCounter = IF isTerminatedFlag THEN 0 ELSE Cardinality(Holders)
  /\ ~isTerminatedFlag => IsFiniteSet(Holders)
  /\ isPausedFlag <=> ~isTerminatedFlag /\ \E c \in Clients : hold[c] # "no"
  /\ \A c \in Clients :
       /\ call[c] = "resume" => hold[c] # "no"
       /\ call[c] \in Pauses => hold[c] = "no"
       /\ pc[c] = "resuming" => nestedPauseCounter = 0
       /\ pc[c] \in {"pausing", "pauseSignal", "idling", "idleWait"} => ~isPausedFlag

(* A blocking pause does not meet one that does not block. *)
BlockingApart ==
  \A c, d \in Clients : call[c] = "pauseBlock" => "pause" \notin {call[d], hold[d]}

(* Who is told to pause: nobody without a pause. *)
ToldToPause ==
  \A w \in Workers : "paused" \in worker[w] =>
    \/ isPausedFlag /\ \A c \in Clients : pc[c] = "resuming" => w >= At(c)
    \/ \E c \in Clients : \/ pc[c] = "pausing" /\ w < At(c)
                          \/ pc[c] = "pauseSignal" /\ w <= cursor
                          \/ pc[c] \in {"idling", "idleWait"}

(* A worker that will not work before it is resumed. *)
Told(w) == "paused" \in worker[w] \/ thread[w] \in Dying
Quiet(w) == Told(w) /\ thread[w] \notin Working

IdleOnlyPaused ==
  \A w \in Workers : "idle" \in worker[w] => thread[w] \in {"paused", "pauseWoken"}

(* How far a blocking pause has got. *)
PauseStage ==
  \A c \in Clients :
    /\ pc[c] = "pausing" => \A w \in Workers : w < At(c) => Told(w)
    /\ pc[c] = "pauseSignal" => \A w \in Workers : w <= cursor => Told(w)
    /\ pc[c] \in {"idling", "idleWait"} =>
         /\ \A w \in Workers : Told(w)
         /\ \A w \in Workers : w < cursor => Quiet(w)
    /\ pc[c] = "idleWait" => "idleWaiter" \in worker[cursor] \/ Quiet(cursor)
    /\ hold[c] = "pauseBlock" /\ pc[c] # "resuming" => \A w \in Workers : Quiet(w)

CInv ==
  /\ PausesApart /\ TerminatedStage /\ PauseCount /\ BlockingApart
  /\ ToldToPause /\ IdleOnlyPaused /\ PauseStage

-----------------------------------------------------------------------------
(* A step goes on with the call of its client or returns from it. *)
LEMMA StepReturns ==
  ASSUME TypeOK, CallStage, NEW c \in Clients, CallStep(c)
  PROVE  \/ call'[c] = call[c] /\ hold'[c] = hold[c] /\ pc'[c] # "idle"
         \/ /\ call'[c] = "none" /\ pc'[c] = "idle" /\ call[c] # "none"
            /\ call[c] \in Pauses => hold'[c] = call[c]
            /\ call[c] = "resume" => hold'[c] = "no"
            /\ call[c] \notin Pauses \cup {"resume"} => hold'[c] = hold[c]
            /\ call[c] = "terminate" => cleared'  
<1>0. /\ pc \in [Clients -> Steps] /\ call \in [Clients -> Methods \cup {"none"}]
      /\ hold \in [Clients -> Pauses \cup {"no"}]
  BY ProcessorAssumption, WorkerAssumption DEF TypeOK
<1> USE <1>0 DEF clientVars, Pauses, CallStage, StartSteps, StopSteps, StopLocked,
      PauseSteps
<1>1. CASE StartLock(c)
  BY <1>1 DEF StartLock, startLockFree, Returns, Goto
<1>2. CASE SetRunning(c)
  BY <1>2 DEF SetRunning, Goto
<1>3. CASE CreateWorker(c)
  BY <1>3 DEF CreateWorker, mayUseWorkers, FinalTurn, Turn, LastTurn, Returns, Goto
<1>4. CASE RestartWorker(c)
  BY <1>4 DEF RestartWorker, mayUseWorkers, FinalTurn, Turn, LastTurn, Returns, Goto
<1>5. CASE StopLock(c)
  BY <1>5 DEF StopLock, startLockFree, StopReturns, Returns, Goto
<1>6. CASE Drain(c)
  BY <1>6 DEF Drain, mayUseWorkers, Goto
<1>7. CASE DrainEnds(c)
  BY <1>7 DEF DrainEnds, Turn, LastTurn, Goto
<1>8. CASE StopWorker(c)
  BY <1>8 DEF StopWorker, Goto
<1>9. CASE StopResume(c)
  BY <1>9 DEF StopResume, Goto
<1>10. CASE StopSignal(c)
  BY <1>10 DEF StopSignal, Goto
<1>11. CASE StopRelease(c)
  BY <1>11 DEF StopRelease, Turn, LastTurn, Goto
<1>12. CASE Join(c)
  BY <1>12 DEF Join, Turn, LastTurn, StopReturns, Returns, Goto
<1>13. CASE Clear(c)
  BY <1>13 DEF Clear, Returns, Goto
<1>14. CASE PauseLock(c)
  BY <1>14 DEF PauseLock, startLockFree, PauseReturns, Returns, Goto
<1>15. CASE PauseWorker(c)
  BY <1>15 DEF PauseWorker, mayUseWorkers, PauseTurn, PauseReturns, Turn, LastTurn, Returns, Goto
<1>16. CASE PauseSignal(c)
  BY <1>16 DEF PauseSignal, PauseTurn, PauseReturns, Turn, LastTurn, Returns, Goto
<1>17. CASE Idle(c)
  BY <1>17 DEF Idle, PauseTurn, PauseReturns, Turn, LastTurn, Returns, Goto
<1>18. CASE IdleEnds(c)
  BY <1>18 DEF IdleEnds, PauseTurn, PauseReturns, Turn, LastTurn, Returns, Goto
<1>19. CASE ResumeLock(c)
  BY <1>19 DEF ResumeLock, startLockFree, LastResume, Returns, Goto
<1>20. CASE ResumeWorker(c)
  BY <1>20 DEF ResumeWorker, mayUseWorkers, FinalTurn, Turn, LastTurn, Returns, Goto
<1>21. CASE Broadcast(c)
  BY <1>21 DEF Broadcast, mayUseWorkers, FinalTurn, Turn, LastTurn, Returns, Goto
<1>22. CASE SetTerminated(c)
  BY <1>22 DEF SetTerminated, Goto
<1>23. CASE CheckRunning(c)
  BY <1>23 DEF CheckRunning, Goto
<1> QED BY <1>22, <1>23, <1>1, <1>2, <1>3, <1>4, <1>5, <1>6, <1>7, <1>8, <1>9, <1>10, <1>11, <1>12, <1>13,
     <1>14, <1>15, <1>16, <1>17, <1>18, <1>19, <1>20, <1>21 DEF CallStep

(* What a call is allowed to start with. *)
LEMMA CallCalls ==
  ASSUME TypeOK, Careful, NEW c \in Clients, Calls(c)
  PROVE  \/ /\ hold'[c] = hold[c] /\ call'[c] \in LifeCycle /\ MayCall(call'[c])
            /\ call'[c] = "start" => ~isTerminatedFlag
         \/ /\ hold'[c] = hold[c] /\ call'[c] \in Pauses /\ MayCall(call'[c])
            /\ hold[c] = "no" /\ ~isTerminatedFlag
         \/ hold'[c] = hold[c] /\ call'[c] = "resume" /\ hold[c] # "no" /\ ~isTerminatedFlag
         \/ hold'[c] = hold[c] /\ call'[c] = "add"
         \/ /\ CallIgnored(c) /\ call'[c] = call[c] /\ MayCall("pauseBlock")
            /\ hold'[c] \in {"no", "pauseBlock"} /\ isTerminatedFlag
<1>0. /\ call \in [Clients -> Methods \cup {"none"}] /\ hold \in [Clients -> Pauses \cup {"no"}]
      /\ isTerminatedFlag \in BOOLEAN
  BY DEF TypeOK
<1>1. CASE CallStart(c) \/ CallStop(c) \/ CallTerminate(c)
  BY <1>0, <1>1 DEF CallStart, CallStop, CallTerminate, Call, LifeCycle
<1>2. CASE \E method \in Pauses : CallPause(c, method)
  BY <1>0, <1>2 DEF CallPause, Call
<1>3. CASE CallResume(c) \/ CallAdd(c)
  BY <1>0, <1>3 DEF CallResume, CallAdd, Call
<1>4. CASE CallIgnored(c)
  BY <1>0, <1>4 DEF CallIgnored
<1> QED BY <1>1, <1>2, <1>3, <1>4 DEF Calls

(* A pause excludes start, stop and terminate. *)
LEMMA PausesApartNext ==
  ASSUME Careful, TypeOK, CallStage, LockOrder, PausesApart,
         NEW c \in Clients, Calls(c) \/ CallStep(c)
  PROVE  PausesApart'
<1>1. \A d \in Clients \ {c} : call'[d] = call[d] /\ hold'[d] = hold[d]
  BY OtherClients
<1>2. CASE Calls(c)
  BY <1>1, <1>2, CallCalls DEF PausesApart, MayCall, InPause, Pauses, LifeCycle
<1>3. CASE CallStep(c)
  BY <1>1, <1>3, StepReturns DEF PausesApart, InPause, Pauses, LifeCycle
<1> QED BY <1>2, <1>3

(* A blocking pause does not meet one that does not block. *)
LEMMA BlockingApartNext ==
  ASSUME Careful, TypeOK, CallStage, LockOrder, BlockingApart,
         NEW c \in Clients, Calls(c) \/ CallStep(c)
  PROVE  BlockingApart'
<1>1. \A d \in Clients \ {c} : call'[d] = call[d] /\ hold'[d] = hold[d]
  BY OtherClients
<1>2. CASE Calls(c)
  BY <1>1, <1>2, CallCalls DEF BlockingApart, MayCall, Pauses, LifeCycle
<1>3. CASE CallStep(c)
  BY <1>1, <1>3, StepReturns DEF BlockingApart, Pauses
<1> QED BY <1>2, <1>3

(* Which steps of clients change the processor's flags. *)
LEMMA FlagSteps ==
  ASSUME TypeOK, CallStage, NEW c \in Clients, Calls(c) \/ CallStep(c)
  PROVE  /\ (isTerminatedFlag' <=> isTerminatedFlag) \/ SetTerminated(c)
         /\ (isRunningFlag' <=> isRunningFlag) \/ SetRunning(c) \/ ~isRunningFlag'
         /\ (cleared' <=> cleared) \/ Clear(c)
         /\ pc'[c] = "clear" => ~isRunningFlag'
         /\ pc[c] = "clear" => Clear(c)
<1>0. pc \in [Clients -> Steps] /\ isRunningFlag \in BOOLEAN
  BY ProcessorAssumption, WorkerAssumption DEF TypeOK
<1> USE <1>0 DEF flagVars, objectVars, CallStage
<1>1. CASE CallStart(c)
  BY <1>1 DEF CallStart, Call, Counted, Goto
<1>2. CASE CallStop(c)
  BY <1>2 DEF CallStop, Call, Counted, Goto, Pending
<1>3. CASE CallTerminate(c)
  BY <1>3 DEF CallTerminate, Call, Counted, Goto, Pending
<1>4. CASE \E method \in Pauses : CallPause(c, method)
  BY <1>4 DEF CallPause, Call, Counted, Goto
<1>5. CASE CallResume(c)
  BY <1>5 DEF CallResume, Call, Goto
<1>6. CASE CallIgnored(c)
  BY <1>6 DEF CallIgnored
<1>7. CASE CallAdd(c)
  BY <1>7 DEF CallAdd, Call, Goto
<1>8. CASE StartLock(c)
  BY <1>8 DEF StartLock, startLockFree, Returns, Goto
<1>9. CASE SetRunning(c)
  BY <1>9 DEF SetRunning, Goto
<1>10. CASE CreateWorker(c)
  BY <1>10 DEF CreateWorker, mayUseWorkers, FinalTurn, Turn, LastTurn, Returns, Goto
<1>11. CASE RestartWorker(c)
  BY <1>11 DEF RestartWorker, mayUseWorkers, FinalTurn, Turn, LastTurn, Returns, Goto
<1>12. CASE StopLock(c)
  BY <1>12 DEF StopLock, startLockFree, StopReturns, Returns, Goto
<1>13. CASE Drain(c)
  BY <1>13 DEF Drain, mayUseWorkers, Goto
<1>14. CASE DrainEnds(c)
  BY <1>14 DEF DrainEnds, Turn, LastTurn, Goto
<1>15. CASE StopWorker(c)
  BY <1>15 DEF StopWorker, Goto
<1>16. CASE StopResume(c)
  BY <1>16 DEF StopResume, Goto
<1>17. CASE StopSignal(c)
  BY <1>17 DEF StopSignal, Goto
<1>18. CASE StopRelease(c)
  BY <1>18 DEF StopRelease, Turn, LastTurn, Goto
<1>19. CASE Join(c)
  BY <1>19 DEF Join, Turn, LastTurn, StopReturns, Returns, Goto
<1>20. CASE Clear(c)
  BY <1>20 DEF Clear, Returns, Goto
<1>21. CASE PauseLock(c)
  BY <1>21 DEF PauseLock, startLockFree, PauseReturns, Returns, Goto
<1>22. CASE PauseWorker(c)
  BY <1>22 DEF PauseWorker, mayUseWorkers, PauseTurn, PauseReturns, Turn, LastTurn, Returns, Goto
<1>23. CASE PauseSignal(c)
  BY <1>23 DEF PauseSignal, PauseTurn, PauseReturns, Turn, LastTurn, Returns, Goto
<1>24. CASE Idle(c)
  BY <1>24 DEF Idle, PauseTurn, PauseReturns, Turn, LastTurn, Returns, Goto
<1>25. CASE IdleEnds(c)
  BY <1>25 DEF IdleEnds, PauseTurn, PauseReturns, Turn, LastTurn, Returns, Goto
<1>26. CASE ResumeLock(c)
  BY <1>26 DEF ResumeLock, startLockFree, LastResume, Returns, Goto
<1>27. CASE ResumeWorker(c)
  BY <1>27 DEF ResumeWorker, mayUseWorkers, FinalTurn, Turn, LastTurn, Returns, Goto
<1>28. CASE Broadcast(c)
  BY <1>28 DEF Broadcast, mayUseWorkers, FinalTurn, Turn, LastTurn, Returns, Goto
<1>29. CASE SetTerminated(c)
  BY <1>29 DEF SetTerminated, Goto
<1>30. CASE CheckRunning(c)
  BY <1>30 DEF CheckRunning, Goto
<1> QED BY <1>29, <1>30, <1>1, <1>2, <1>3, <1>4, <1>5, <1>6, <1>7, <1>8, <1>9, <1>10, <1>11, <1>12, <1>13,
     <1>14, <1>15, <1>16, <1>17, <1>18, <1>19, <1>20, <1>21, <1>22, <1>23, <1>24, <1>25, <1>26,
     <1>27, <1>28 DEF Calls, CallStep

(* A client at the first step of terminate takes that step. *)
LEMMA TerminateStep ==
  ASSUME NEW c \in Clients, CallStep(c), pc[c] = "terminate"
  PROVE  SetTerminated(c)
BY DEF CallStep, StartLock, SetRunning, CreateWorker, RestartWorker, CheckRunning, StopLock, Drain,
   DrainEnds, StopWorker, StopResume, StopSignal, StopRelease, Join, Clear, PauseLock, PauseWorker,
   PauseSignal, Idle, IdleEnds, ResumeLock, ResumeWorker, Broadcast

(* A terminated processor is not started, paused or resumed again. *)
LEMMA TerminatedNext ==
  ASSUME Careful, TypeOK, CallStage, LockOrder, PausesApart, TerminatedStage,
         NEW c \in Clients, Calls(c) \/ CallStep(c)
  PROVE  TerminatedStage'
<1>0. /\ isTerminatedFlag \in BOOLEAN /\ isRunningFlag \in BOOLEAN /\ cleared \in BOOLEAN
      /\ pc \in [Clients -> Steps] /\ call \in [Clients -> Methods \cup {"none"}]
  BY DEF TypeOK
<1>1. \A d \in Clients \ {c} : call'[d] = call[d] /\ pc'[d] = pc[d]
  BY OtherClients
<1>2. CASE SetTerminated(c)
  <2>1. /\ isTerminatedFlag' /\ call' = call /\ call[c] = "terminate" /\ pc'[c] = "terminated"
        /\ isRunningFlag' = isRunningFlag /\ cleared' = cleared
    BY <1>0, <1>2 DEF SetTerminated, Goto, objectVars, clientVars, CallStage
  <2>2. \A d \in Clients : call'[d] \notin {"start", "resume"} \cup Pauses
    BY <2>1 DEF PausesApart, TerminatedStage, InPause, LifeCycle
  <2> QED BY <1>0, <1>1, <2>1, <2>2 DEF TerminatedStage
<1>3. CASE ~SetTerminated(c)
  <2>1. isTerminatedFlag' <=> isTerminatedFlag
    BY <1>3, FlagSteps
  <2>2. /\ call'[c] \in {"start", "resume"} \cup Pauses =>
             call'[c] = call[c] \/ ~isTerminatedFlag
        /\ call[c] = "terminate" => call'[c] = "terminate" \/ cleared'
        /\ call'[c] = "terminate" /\ pc'[c] # "terminate" => isTerminatedFlag
        /\ \A d \in Clients : /\ call'[c] = "terminate" => call'[d] # "start"
                              /\ call'[c] = "start" => call'[d] # "terminate"
    <3>1. CASE CallStep(c)
      <4>1. pc[c] = "terminate" => SetTerminated(c)
        BY <3>1, TerminateStep
      <4> QED BY <1>1, <1>3, <3>1, <4>1, StepReturns DEF Pauses, TerminatedStage
    <3>2. CASE CallIgnored(c)
      BY <1>1, <3>2 DEF CallIgnored, TerminatedStage
    <3>3. CASE CallStop(c) \/ CallResume(c) \/ CallAdd(c)
      BY <1>0, <3>3 DEF CallStop, CallResume, CallAdd, Call, CallStage, Pauses
    <3>4. CASE \E method \in Pauses : CallPause(c, method)
      BY <1>0, <3>4 DEF CallPause, Call, CallStage, Pauses
    <3>5. CASE CallStart(c)
      BY <1>0, <1>1, <3>5 DEF CallStart, Call, MayCall, CallStage, Pauses
    <3>6. CASE CallTerminate(c)
      BY <1>0, <1>1, <3>6 DEF CallTerminate, Call, Goto, MayCall, CallStage, Pauses
    <3> QED BY <3>1, <3>2, <3>3, <3>4, <3>5, <3>6 DEF Calls
  <2>3. SetRunning(c) => ~isTerminatedFlag
    BY DEF SetRunning, CallStage, StartSteps, TerminatedStage
  <2>4. Clear(c) => cleared' /\ isTerminatedFlag /\ ~isRunningFlag /\ (isRunningFlag' <=> isRunningFlag)
    BY DEF Clear, CallStage, TerminatedStage, flagVars
  <2>5. cleared => cleared'
    BY <2>4, FlagSteps
  <2>6. isTerminatedFlag => cleared' \/ \E d \in Clients : call'[d] = "terminate"
    BY <1>1, <2>2, <2>5 DEF TerminatedStage
  <2>7. cleared' => isTerminatedFlag /\ ~isRunningFlag'
    BY <2>3, <2>4, FlagSteps DEF TerminatedStage
  <2>8. \A d \in Clients : pc'[d] = "clear" => ~isRunningFlag'
    <3>1. \A d \in Clients \ {c} : pc[d] = "clear" => isTerminatedFlag /\ ~isRunningFlag
      BY DEF CallStage, TerminatedStage
    <3> QED BY <1>1, <2>3, <3>1, FlagSteps
  <2> QED BY <1>1, <2>1, <2>2, <2>6, <2>7, <2>8 DEF TerminatedStage
<1> QED BY <1>2, <1>3

PauseLocked == {"pausing", "pauseSignal", "idling", "idleWait"}

(* The steps that a client in pause or resume may take. *)
LEMMA PauseStepsLock ==
  ASSUME NEW c \in Clients, Calls(c) \/ CallStep(c)
  PROVE  pc[c] \in PauseSteps => CallStep(c) /\ (pc[c] \in PauseLocked \/ PauseLock(c))
BY DEF PauseSteps, PauseLocked, Calls, CallStart, CallStop, CallTerminate, CallPause, CallResume,
   CallIgnored, CallAdd, Call, CallStep, StartLock, SetTerminated, CheckRunning, SetRunning, CreateWorker, RestartWorker,
   StopLock, Drain, DrainEnds, StopWorker, StopResume, StopSignal, StopRelease, Join, Clear,
   PauseWorker, PauseSignal, Idle, IdleEnds, ResumeLock, ResumeWorker, Broadcast

(* A client at one of these steps of resume takes that step or none.       *)
LEMMA ResumeStepsLock ==
  ASSUME NEW c \in Clients, Calls(c) \/ CallStep(c)
  PROVE  /\ pc[c] = "resume" => ResumeLock(c)
         /\ pc[c] = "resuming" => CallStep(c) /\ ResumeWorker(c)
<1> USE DEF Calls, CallStart, CallStop, CallTerminate, CallPause, CallResume, CallIgnored, CallAdd,
      Call, CallStep, StartLock, SetTerminated, CheckRunning, SetRunning, CreateWorker, RestartWorker, StopLock, Drain, DrainEnds,
      StopWorker, StopResume, StopSignal, StopRelease, Join, Clear, PauseWorker, PauseSignal, Idle,
      IdleEnds, PauseLock, Broadcast
<1>1. pc[c] = "resume" => ResumeLock(c)
  BY DEF ResumeWorker
<1>2. pc[c] = "resuming" => CallStep(c) /\ ResumeWorker(c)
  BY DEF ResumeLock
<1> QED BY <1>1, <1>2

(* What a step does to the pauses of its client and their count. *)
LEMMA PauseEffect ==
  ASSUME TypeOK, CallStage, LockOrder, NEW c \in Clients, Calls(c) \/ CallStep(c)
  PROVE  /\ \/ /\ hold'[c] = hold[c] /\ nestedPauseCounter' = nestedPauseCounter
               /\ isPausedFlag' <=> isPausedFlag
               /\ pc'[c] = "resuming" <=> pc[c] = "resuming"
            \/ /\ call[c] \in Pauses /\ hold'[c] = call[c] /\ pc'[c] = "idle"
               /\ isPausedFlag' /\ nestedPauseCounter' = nestedPauseCounter + 1
            \/ ResumeLock(c)
            \/ ResumeWorker(c)
            \/ /\ call[c] \in LifeCycle
               /\ hold'[c] = hold[c] /\ nestedPauseCounter' = nestedPauseCounter
               /\ ~isPausedFlag' /\ pc[c] # "resuming" /\ pc'[c] # "resuming"
            \/ CallIgnored(c)
         /\ pc'[c] \in PauseLocked => \/ pc[c] \in PauseLocked /\ (isPausedFlag' <=> isPausedFlag)
                                      \/ PauseLock(c) /\ ~isPausedFlag'
<1>0. /\ pc \in [Clients -> Steps] /\ call \in [Clients -> Methods \cup {"none"}]
      /\ hold \in [Clients -> Pauses \cup {"no"}] /\ isPausedFlag \in BOOLEAN
  BY ProcessorAssumption, WorkerAssumption DEF TypeOK
<1> USE <1>0 DEF flagVars, clientVars, Pauses, LifeCycle, CallStage, PauseLocked,
      StartSteps, StopSteps, StopLocked, PauseSteps
<1>1. CASE CallStart(c)
  BY <1>1 DEF CallStart, Call, Counted, Goto
<1>2. CASE CallStop(c)
  BY <1>2 DEF CallStop, Call, Counted, Goto, Pending
<1>3. CASE CallTerminate(c)
  BY <1>3 DEF CallTerminate, Call, Counted, Goto, Pending
<1>4. CASE \E method \in Pauses : CallPause(c, method)
  BY <1>4 DEF CallPause, Call, Counted, Goto
<1>5. CASE CallResume(c)
  BY <1>5 DEF CallResume, Call, Goto
<1>6. CASE CallIgnored(c)
  BY <1>6 DEF CallIgnored
<1>7. CASE CallAdd(c)
  BY <1>7 DEF CallAdd, Call, Goto
<1>8. CASE StartLock(c)
  BY <1>8 DEF StartLock, startLockFree, Returns, Goto
<1>9. CASE SetRunning(c)
  BY <1>9 DEF SetRunning, Goto
<1>10. CASE CreateWorker(c)
  BY <1>10 DEF CreateWorker, mayUseWorkers, FinalTurn, Turn, LastTurn, Returns, Goto
<1>11. CASE RestartWorker(c)
  BY <1>11 DEF RestartWorker, mayUseWorkers, FinalTurn, Turn, LastTurn, Returns, Goto
<1>12. CASE StopLock(c)
  BY <1>12 DEF StopLock, startLockFree, StopReturns, Returns, Goto
<1>13. CASE Drain(c)
  BY <1>13 DEF Drain, mayUseWorkers, Goto
<1>14. CASE DrainEnds(c)
  BY <1>14 DEF DrainEnds, Turn, LastTurn, Goto
<1>15. CASE StopWorker(c)
  BY <1>15 DEF StopWorker, Goto
<1>16. CASE StopResume(c)
  BY <1>16 DEF StopResume, Goto
<1>17. CASE StopSignal(c)
  BY <1>17 DEF StopSignal, Goto
<1>18. CASE StopRelease(c)
  BY <1>18 DEF StopRelease, Turn, LastTurn, Goto
<1>19. CASE Join(c)
  BY <1>19 DEF Join, Turn, LastTurn, StopReturns, Returns, Goto
<1>20. CASE Clear(c)
  BY <1>20 DEF Clear, Returns, Goto
<1>21. CASE PauseLock(c)
  BY <1>21 DEF PauseLock, startLockFree, PauseReturns, Returns, Goto
<1>22. CASE PauseWorker(c)
  BY <1>22 DEF PauseWorker, mayUseWorkers, PauseTurn, PauseReturns, Turn, LastTurn, Returns, Goto
<1>23. CASE PauseSignal(c)
  BY <1>23 DEF PauseSignal, PauseTurn, PauseReturns, Turn, LastTurn, Returns, Goto
<1>24. CASE Idle(c)
  BY <1>24 DEF Idle, PauseTurn, PauseReturns, Turn, LastTurn, Returns, Goto
<1>25. CASE IdleEnds(c)
  BY <1>25 DEF IdleEnds, PauseTurn, PauseReturns, Turn, LastTurn, Returns, Goto
<1>26. CASE ResumeLock(c)
  BY <1>26 DEF ResumeLock, startLockFree, LastResume, Returns, Goto
<1>27. CASE ResumeWorker(c)
  BY <1>27 DEF ResumeWorker, mayUseWorkers, FinalTurn, Turn, LastTurn, Returns, Goto
<1>28. CASE Broadcast(c)
  BY <1>28 DEF Broadcast, mayUseWorkers, FinalTurn, Turn, LastTurn, Returns, Goto
<1>29. CASE SetTerminated(c)
  BY <1>29 DEF SetTerminated, Goto
<1>30. CASE CheckRunning(c)
  BY <1>30 DEF CheckRunning, Goto
<1> QED BY <1>29, <1>30, <1>1, <1>2, <1>3, <1>4, <1>5, <1>6, <1>7, <1>8, <1>9, <1>10, <1>11, <1>12, <1>13,
     <1>14, <1>15, <1>16, <1>17, <1>18, <1>19, <1>20, <1>21, <1>22, <1>23, <1>24, <1>25, <1>26,
     <1>27, <1>28 DEF Calls, CallStep

(* The counter counts the clients that have a pause to undo. *)
LEMMA PauseCountNext ==
  ASSUME Careful, TypeOK, CallStage, LockOrder, PausesApart, TerminatedStage, PauseCount,
         NEW c \in Clients, Calls(c) \/ CallStep(c)
  PROVE  PauseCount'
<1>0. /\ pc \in [Clients -> Steps] /\ call \in [Clients -> Methods \cup {"none"}]
      /\ hold \in [Clients -> Pauses \cup {"no"}] /\ nestedPauseCounter \in Nat
      /\ isPausedFlag \in BOOLEAN /\ isTerminatedFlag \in BOOLEAN /\ isRunningFlag \in BOOLEAN
  BY DEF TypeOK
<1>1. \A d \in Clients \ {c} : pc'[d] = pc[d] /\ call'[d] = call[d] /\ hold'[d] = hold[d]
  BY OtherClients
<1>2. /\ call'[c] = "resume" => hold'[c] # "no"
      /\ call'[c] \in Pauses => hold'[c] = "no"
  <2>1. CASE Calls(c)
    BY <2>1, CallCalls DEF PauseCount, CallIgnored, CallStage, Pauses, LifeCycle
  <2>2. CASE CallStep(c)
    BY <2>2, StepReturns DEF PauseCount, Pauses
  <2> QED BY <2>1, <2>2
<1>3. ASSUME call[c] \in LifeCycle
      PROVE  /\ \A d \in Clients : hold[d] = "no"
             /\ Holders = {} /\ nestedPauseCounter = 0 /\ ~isPausedFlag
             /\ \A d \in Clients : pc[d] \notin {"resuming"} \cup PauseLocked
  <2>1. \A d \in Clients : ~InPause(d)
    BY <1>3 DEF PausesApart
  <2>2. \A d \in Clients : hold[d] = "no" /\ pc[d] \notin {"resuming"} \cup PauseLocked
    BY <2>1 DEF InPause, CallStage, PauseSteps, PauseLocked
  <2>3. Holders = {}
    BY <2>2 DEF Holders
  <2> QED BY <2>2, <2>3, FS_EmptySet DEF PauseCount
<1>4. CASE SetTerminated(c)
  <2>1. /\ isTerminatedFlag' /\ nestedPauseCounter' = nestedPauseCounter
        /\ isPausedFlag' = isPausedFlag /\ hold' = hold
        /\ pc'[c] \notin {"resuming"} \cup PauseLocked
    BY <1>0, <1>4 DEF SetTerminated, Goto, clientVars, PauseLocked
  <2>3. call[c] \in LifeCycle
    BY <1>4 DEF SetTerminated, CallStage, LifeCycle
  <2>2. \A d \in Clients : pc'[d] \notin {"resuming"} \cup PauseLocked
    BY <1>1, <1>3, <1>4, <2>1, <2>3
  <2> QED BY <1>1, <1>2, <1>3, <1>4, <2>1, <2>2, <2>3 DEF PauseCount, PauseLocked
<1>5. CASE ~SetTerminated(c) /\ isTerminatedFlag
  <2>1. isTerminatedFlag'
    BY <1>5, FlagSteps
  <2>2. call[c] \notin {"resume"} \cup Pauses
    BY <1>5 DEF TerminatedStage
  <2>3. pc[c] \notin {"resume", "resuming"} \cup PauseSteps
    BY <2>2 DEF CallStage
  <2>4. \A d \in Clients : pc[d] \notin {"resuming"} \cup PauseLocked
    BY <1>5 DEF TerminatedStage, CallStage, PauseSteps, PauseLocked
  <2>5. nestedPauseCounter = 0 /\ ~isPausedFlag
    BY <1>5 DEF PauseCount
  <2>6. /\ nestedPauseCounter' = 0 /\ ~isPausedFlag'
        /\ pc'[c] \notin {"resuming"} \cup PauseLocked
    <3>1. CASE CallIgnored(c)
      BY <2>4, <2>5, <3>1 DEF CallIgnored, flagVars
    <3>2. CASE ~CallIgnored(c)
      <4>1. ~ResumeLock(c) /\ ~ResumeWorker(c) /\ ~PauseLock(c)
        BY <2>3 DEF ResumeLock, ResumeWorker, PauseLock, PauseSteps
      <4> QED BY <2>2, <2>4, <2>5, <3>2, <4>1, PauseEffect
    <3> QED BY <3>1, <3>2
  <2>7. \A d \in Clients : pc'[d] \notin {"resuming"} \cup PauseLocked
    BY <1>1, <2>4, <2>6
  <2> QED BY <1>1, <1>2, <2>1, <2>6, <2>7 DEF PauseCount, PauseLocked
<1>6. CASE ~SetTerminated(c) /\ ~isTerminatedFlag
  <2>0. ~isTerminatedFlag'
    BY <1>6, FlagSteps
  <2>1. /\ nestedPauseCounter = Cardinality(Holders) /\ IsFiniteSet(Holders)
        /\ isPausedFlag <=> \E d \in Clients : hold[d] # "no"
    BY <1>6 DEF PauseCount
  <2>2. ASSUME nestedPauseCounter' = Cardinality(Holders'), IsFiniteSet(Holders'),
               isPausedFlag' <=> \E d \in Clients : hold'[d] # "no",
               \A d \in Clients : pc'[d] = "resuming" => nestedPauseCounter' = 0,
               \A d \in Clients : pc'[d] \in PauseLocked => ~isPausedFlag'
        PROVE  PauseCount'
    BY <1>1, <1>2, <2>0, <2>2 DEF PauseCount, PauseLocked
  <2>3. CASE /\ hold'[c] = hold[c] /\ nestedPauseCounter' = nestedPauseCounter
             /\ isPausedFlag' <=> isPausedFlag
             /\ pc'[c] = "resuming" <=> pc[c] = "resuming"
    <3>1. Holders' = Holders
      BY <1>1, <2>3 DEF Holders
    <3>2. \A d \in Clients : hold'[d] = hold[d]
      BY <1>1, <2>3
    <3>3. \A d \in Clients : pc'[d] = "resuming" => nestedPauseCounter' = 0
      BY <1>1, <2>3 DEF PauseCount
    <3>4. pc'[c] \in PauseLocked => ~isPausedFlag'
      BY <2>3, PauseEffect DEF PauseCount, PauseLocked
    <3>5. \A d \in Clients : pc'[d] \in PauseLocked => ~isPausedFlag'
      BY <1>1, <2>3, <3>4 DEF PauseCount, PauseLocked
    <3> QED BY <2>1, <2>2, <2>3, <3>1, <3>2, <3>3, <3>5
  <2>4. CASE /\ call[c] \in Pauses /\ hold'[c] = call[c] /\ pc'[c] = "idle"
             /\ isPausedFlag' /\ nestedPauseCounter' = nestedPauseCounter + 1
    <3>1. hold[c] = "no" /\ hold'[c] # "no" /\ pc[c] \in PauseSteps
      BY <2>4 DEF PauseCount, CallStage, Pauses
    <3>2. c \notin Holders /\ Holders' = Holders \cup {c}
      BY <1>1, <2>4, <3>1 DEF Holders
    <3>3. IsFiniteSet(Holders') /\ Cardinality(Holders') = Cardinality(Holders) + 1
      BY <2>1, <3>2, FS_AddElement
    <3>4. \A d \in Clients \ {c} : pc[d] \notin StartLocked
      <4>1. pc[c] \in StartLocked \/ PauseLock(c)
        <5>1. ~Calls(c)
          BY <2>4 DEF Calls, CallStart, CallStop, CallTerminate, CallPause, CallResume,
               CallIgnored,
             CallAdd, Call, CallStage, Pauses
        <5> QED BY <3>1, <5>1 DEF PauseSteps, StartLocked, CallStep, StartLock, SetTerminated, CheckRunning, SetRunning,
          CreateWorker, RestartWorker, StopLock, Drain, DrainEnds, StopWorker, StopResume,
          StopSignal, StopRelease, Join, Clear, PauseWorker, PauseSignal, Idle, IdleEnds,
          ResumeLock, ResumeWorker, Broadcast
      <4> QED BY <4>1 DEF LockOrder, PauseLock, startLockFree
    <3>5. \A d \in Clients : pc'[d] \notin {"resuming"} \cup PauseLocked
      BY <1>1, <2>4, <3>4 DEF StartLocked, PauseLocked
    <3> QED BY <2>1, <2>2, <2>4, <3>1, <3>3, <3>5
  <2>5. CASE ResumeLock(c)
    <3>1. /\ pc[c] = "resume" /\ call[c] = "resume" /\ hold[c] # "no" /\ isPausedFlag
      BY <2>1, <2>5 DEF ResumeLock, CallStage, PauseCount
    <3>2. /\ nestedPauseCounter' = nestedPauseCounter - 1
          /\ isPausedFlag' = isPausedFlag
          /\ \/ nestedPauseCounter = 1 /\ pc'[c] = "resuming" /\ hold'[c] = hold[c]
             \/ nestedPauseCounter # 1 /\ pc'[c] = "idle" /\ hold'[c] = "no"
      BY <1>0, <2>5, <3>1 DEF ResumeLock, LastResume, Returns, Goto, clientVars, Pauses
    <3>3. c \in Holders /\ Holders' = Holders \ {c}
      BY <1>1, <3>1, <3>2 DEF Holders
    <3>4. IsFiniteSet(Holders') /\ Cardinality(Holders') = Cardinality(Holders) - 1
      BY <2>1, <3>3, FS_RemoveElement
    <3>5. \A d \in Clients : pc[d] \notin StartLocked
      BY <2>5 DEF ResumeLock, startLockFree
    <3>6. /\ \A d \in Clients : pc'[d] = "resuming" => d = c
          /\ \A d \in Clients : pc'[d] \notin PauseLocked
      BY <1>1, <3>2, <3>5 DEF StartLocked, PauseLocked
    <3>7. \E d \in Clients : hold'[d] # "no"
      <4>1. CASE nestedPauseCounter = 1
        BY <3>1, <3>2, <4>1
      <4>2. CASE nestedPauseCounter # 1
        <5>1. Holders' # {}
          BY <1>0, <2>1, <3>2, <3>4, <4>2, FS_EmptySet
        <5> QED BY <5>1 DEF Holders
      <4> QED BY <4>1, <4>2
    <3>8. nestedPauseCounter' = Cardinality(Holders')
      BY <2>1, <3>2, <3>4
    <3>9. \A d \in Clients : pc'[d] = "resuming" => nestedPauseCounter' = 0
      BY <3>2, <3>6
    <3> QED BY <2>2, <3>1, <3>2, <3>4, <3>6, <3>7, <3>8, <3>9
  <2>6. CASE ResumeWorker(c)
    <3>1. pc[c] = "resuming" /\ call[c] = "resume" /\ hold[c] # "no" /\ nestedPauseCounter = 0
      BY <2>6 DEF ResumeWorker, CallStage, PauseCount
    <3>2. Holders = {}
      BY <2>1, <3>1, FS_EmptySet
    <3>3. \A d \in Clients \ {c} : hold[d] = "no" /\ pc[d] \notin StartLocked
      BY <3>1, <3>2 DEF Holders, LockOrder, StartLocked
    <3>4. /\ nestedPauseCounter' = 0
          /\ \/ isPausedFlag' /\ pc'[c] = "resuming" /\ hold'[c] = hold[c]
             \/ ~isPausedFlag' /\ pc'[c] = "idle" /\ hold'[c] = "no"
      BY <1>0, <2>6, <3>1 DEF ResumeWorker, FinalTurn, Turn, LastTurn, Returns, Goto, clientVars,
           Pauses
    <3>5. Holders' = {}
      BY <1>1, <3>3, <3>4 DEF Holders
    <3>6. isPausedFlag' <=> \E d \in Clients : hold'[d] # "no"
      BY <1>1, <3>1, <3>3, <3>4
    <3>7. \A d \in Clients : pc'[d] \notin PauseLocked
      BY <1>1, <3>3, <3>4 DEF StartLocked, PauseLocked
    <3> QED BY <2>2, <3>4, <3>5, <3>6, <3>7, FS_EmptySet
  <2>7. CASE /\ call[c] \in LifeCycle
             /\ hold'[c] = hold[c] /\ nestedPauseCounter' = nestedPauseCounter
             /\ ~isPausedFlag' /\ pc[c] # "resuming" /\ pc'[c] # "resuming"
    <3>1. \A d \in Clients : hold'[d] = "no"
      BY <1>1, <1>3, <2>7
    <3>2. Holders' = {}
      BY <3>1 DEF Holders
    <3> QED BY <1>3, <2>2, <2>7, <3>1, <3>2, FS_EmptySet
  <2>8. ~CallIgnored(c)
    BY <1>6 DEF CallIgnored
  <2> QED BY <2>3, <2>4, <2>5, <2>6, <2>7, <2>8, PauseEffect
<1> QED BY <1>4, <1>5, <1>6

(* Which steps of clients tell a worker to pause, or to go on. *)
LEMMA FlagMoves ==
  ASSUME TypeOK, CallStage, LockOrder, LifeStage, ThreadsLive, NEW c \in Clients, Calls(c) \/
         CallStep(c)
  PROVE  \A v \in Workers :
           /\ "idle" \in worker'[v] => "idle" \in worker[v]
           /\ "paused" \in worker'[v] => \/ "paused" \in worker[v]
                                         \/ v = cursor /\ PauseWorker(c) /\ pc'[c] = "pauseSignal"
           /\ "paused" \in worker[v] => \/ "paused" \in worker'[v]
                                        \/ v = cursor /\ ResumeWorker(c)
                                        \/ call[c] \in LifeCycle
<1>0. /\ WorkerType /\ cursor \in Workers /\ pc \in [Clients -> Steps]
      /\ call \in [Clients -> Methods \cup {"none"}]
  BY ProcessorAssumption, WorkerAssumption DEF TypeOK, WorkerType
<1> USE <1>0 DEF workerVars, WorkerType, CallStage, LifeCycle, StartSteps, StopSteps,
      StopLocked
<1>1. CASE CallStart(c)
  BY <1>1 DEF CallStart, Call, Counted, Goto
<1>2. CASE CallStop(c)
  BY <1>2 DEF CallStop, Call, Counted, Goto, Pending
<1>3. CASE CallTerminate(c)
  BY <1>3 DEF CallTerminate, Call, Counted, Goto, Pending
<1>4. CASE \E method \in Pauses : CallPause(c, method)
  BY <1>4 DEF CallPause, Call, Counted, Goto
<1>5. CASE CallResume(c)
  BY <1>5 DEF CallResume, Call, Goto
<1>6. CASE CallIgnored(c)
  BY <1>6 DEF CallIgnored
<1>7. CASE CallAdd(c)
  BY <1>7 DEF CallAdd, Call, Goto, Enqueue
<1>8. CASE StartLock(c)
  BY <1>8 DEF StartLock, startLockFree, Returns, Goto
<1>9. CASE SetRunning(c)
  BY <1>9 DEF SetRunning, Goto
<1>10. CASE CreateWorker(c)
  BY <1>10 DEF CreateWorker, mayUseWorkers, FinalTurn, Turn, LastTurn, Returns, Goto, start, Run,
       NewWorker
<1>11. CASE RestartWorker(c)
  BY <1>11 DEF RestartWorker, mayUseWorkers, FinalTurn, Turn, LastTurn, Returns, Goto, start, Run
<1>12. CASE StopLock(c)
  BY <1>12 DEF StopLock, startLockFree, StopReturns, Returns, Goto
<1>13. CASE Drain(c)
  BY <1>13 DEF Drain, mayUseWorkers, Goto, signal, Woken, Set, Run
<1>14. CASE DrainEnds(c)
  BY <1>14 DEF DrainEnds, Turn, LastTurn, Goto
<1>15. CASE StopWorker(c)
  BY <1>15 DEF StopWorker, Goto, Set
<1>16. CASE StopResume(c)
  BY <1>16 DEF StopResume, Goto, resume, Woken, Unset, Run
<1>17. CASE StopSignal(c)
  BY <1>17 DEF StopSignal, Goto, signal, Woken, Set, Run
<1>18. CASE StopRelease(c)
  BY <1>18 DEF StopRelease, Turn, LastTurn, Goto, ReleasePausers, Unset
<1>19. CASE Join(c)
  BY <1>19 DEF Join, Turn, LastTurn, StopReturns, Returns, Goto, joined, NewWorker
<1>20. CASE Clear(c)
  BY <1>20 DEF Clear, Returns, Goto
<1>21. CASE PauseLock(c)
  BY <1>21 DEF PauseLock, startLockFree, PauseReturns, Returns, Goto
<1>22. CASE PauseWorker(c)
  BY <1>22 DEF PauseWorker, mayUseWorkers, PauseTurn, PauseReturns, Turn, LastTurn, Returns,
       Goto, SetPaused, Set
<1>23. CASE PauseSignal(c)
  BY <1>23 DEF PauseSignal, PauseTurn, PauseReturns, Turn, LastTurn, Returns, Goto, SignalPaused,
       Woken, Unset, Run
<1>24. CASE Idle(c)
  BY <1>24 DEF Idle, PauseTurn, PauseReturns, Turn, LastTurn, Returns, Goto, AwaitIdle, Set
<1>25. CASE IdleEnds(c)
  BY <1>25 DEF IdleEnds, PauseTurn, PauseReturns, Turn, LastTurn, Returns, Goto
<1>26. CASE ResumeLock(c)
  BY <1>26 DEF ResumeLock, startLockFree, LastResume, Returns, Goto
<1>27. CASE ResumeWorker(c)
  BY <1>27 DEF ResumeWorker, mayUseWorkers, FinalTurn, Turn, LastTurn, Returns, Goto, resume,
       Woken, Unset, Run
<1>28. CASE Broadcast(c)
  BY <1>28 DEF Broadcast, mayUseWorkers, FinalTurn, Turn, LastTurn, Returns, Goto, signal, Woken,
       Set, Run
<1>29. CASE SetTerminated(c)
  BY <1>29 DEF SetTerminated, Goto
<1>30. CASE CheckRunning(c)
  BY <1>30 DEF CheckRunning, Goto
<1> QED BY <1>29, <1>30, <1>1, <1>2, <1>3, <1>4, <1>5, <1>6, <1>7, <1>8, <1>9, <1>10, <1>11, <1>12, <1>13,
     <1>14, <1>15, <1>16, <1>17, <1>18, <1>19, <1>20, <1>21, <1>22, <1>23, <1>24, <1>25, <1>26,
     <1>27, <1>28 DEF Calls, CallStep

(* The steps of pause. *)
LEMMA PauseProgress ==
  ASSUME TypeOK, CallStage, LockOrder, NEW c \in Clients, CallStep(c), pc[c] \in PauseLocked
  PROVE  /\ workerLock \in {None, c} /\ At(c) = cursor
         /\ \/ /\ pc[c] = "pausing" /\ pc'[c] = "pauseSignal" /\ cursor' = cursor
               /\ "paused" \in worker'[cursor]
            \/ /\ pc[c] \in {"pausing", "pauseSignal"} /\ pc'[c] = "pausing"
               /\ cursor # N /\ cursor' = cursor + 1 /\ workerLock' = c
               /\ pc[c] = "pausing" => "terminated" \in worker[cursor]
            \/ /\ pc[c] \in {"pausing", "pauseSignal"} /\ pc'[c] = "idling"
               /\ cursor = N /\ cursor' = 1
               /\ pc[c] = "pausing" => "terminated" \in worker[cursor]
            \/ /\ pc[c] \in {"pausing", "pauseSignal"} /\ pc'[c] = "idle"
               /\ cursor = N /\ hold'[c] = "pause" /\ isPausedFlag'
            \/ /\ pc[c] = "idling" /\ pc'[c] = "idleWait" /\ cursor' = cursor
               /\ "idle" \in worker[cursor] \/ "started" \notin worker[cursor]
                  \/ "idleWaiter" \in worker'[cursor]
            \/ /\ pc[c] \in {"idling", "idleWait"} /\ pc'[c] = "idling"
               /\ cursor # N /\ cursor' = cursor + 1
               /\ pc[c] = "idling" => "terminated" \in worker[cursor]
               /\ pc[c] = "idleWait" => "idleWaiter" \notin worker[cursor]
            \/ /\ pc[c] \in {"idling", "idleWait"} /\ pc'[c] = "idle"
               /\ cursor = N /\ hold'[c] = "pauseBlock" /\ isPausedFlag'
               /\ pc[c] = "idling" => "terminated" \in worker[cursor]
               /\ pc[c] = "idleWait" => "idleWaiter" \notin worker[cursor]
<1>0. /\ WorkerType /\ cursor \in Workers /\ pc \in [Clients -> Steps]
      /\ call \in [Clients -> Methods \cup {"none"}] /\ hold \in [Clients -> Pauses \cup {"no"}]
      /\ workerLock = None => cursor = 1
      /\ None \notin Clients
  BY ProcessorAssumption DEF TypeOK, WorkerType
<1>1. call[c] \in Pauses /\ (pc[c] \in {"idling", "idleWait"} => call[c] = "pauseBlock")
  BY DEF CallStage, PauseLocked, PauseSteps
<1>2. workerLock \in {None, c} /\ At(c) = cursor
  <2>1. PauseWorker(c) \/ workerLock = c
    BY DEF CallStep, PauseLocked, LockOrder, InLoop, StartLock, SetTerminated, CheckRunning, SetRunning, CreateWorker,
       RestartWorker, StopLock, Drain, DrainEnds, StopWorker, StopResume, StopSignal, StopRelease,
       Join, Clear, PauseLock, PauseSignal, Idle, IdleEnds, ResumeLock, ResumeWorker, Broadcast
  <2> QED BY <1>0, <2>1 DEF At, PauseWorker, mayUseWorkers
<1>3. CASE PauseWorker(c)
  BY <1>0, <1>1, <1>2, <1>3 DEF PauseWorker, PauseTurn, PauseReturns, Turn, LastTurn, Returns,
       Goto,
     SetPaused, Set, WorkerType, Pauses
<1>4. CASE PauseSignal(c)
  BY <1>0, <1>1, <1>2, <1>4 DEF PauseSignal, PauseTurn, PauseReturns, Turn, LastTurn, Returns,
       Goto,
     Pauses
<1>5. CASE Idle(c)
  BY <1>0, <1>1, <1>2, <1>5 DEF Idle, PauseTurn, PauseReturns, Turn, LastTurn, Returns, Goto,
     AwaitIdle, Set, WorkerType, loopVars, Pauses
<1>6. CASE IdleEnds(c)
  BY <1>0, <1>1, <1>2, <1>6 DEF IdleEnds, PauseTurn, PauseReturns, Turn, LastTurn, Returns, Goto,
       Pauses
<1> QED BY <1>3, <1>4, <1>5, <1>6 DEF CallStep, PauseLocked, StartLock, SetTerminated, CheckRunning, SetRunning, CreateWorker,
     RestartWorker, StopLock, Drain, DrainEnds, StopWorker, StopResume, StopSignal, StopRelease,
     Join, Clear, PauseLock, ResumeLock, ResumeWorker, Broadcast

(* Nobody is told to pause while somebody starts or stops the processor. *)
LEMMA NonePaused ==
  ASSUME CallStage, PausesApart, PauseCount, ToldToPause, NEW c \in Clients, call[c] \in LifeCycle
  PROVE  \A w \in Workers : "paused" \notin worker[w]
<1>1. \A d \in Clients : ~InPause(d)
  BY DEF PausesApart
<1>2. ~isPausedFlag
  BY <1>1 DEF InPause, PauseCount
<1>3. \A d \in Clients : pc[d] \notin {"pausing", "pauseSignal", "idling", "idleWait"}
  BY <1>1 DEF InPause, CallStage, PauseSteps
<1> QED BY <1>2, <1>3 DEF ToldToPause

(* A client who is not in a call, or broadcasts, has nothing to do with pauses. *)
LEMMA OtherSteps ==
  ASSUME TypeOK, CallStage, LockOrder, NEW c \in Clients, Calls(c) \/ CallStep(c),
         call[c] \notin LifeCycle \cup Pauses \cup {"resume"}
  PROVE  /\ pc[c] \notin StartLocked /\ pc'[c] \notin PauseLocked \cup {"resuming"}
         /\ isPausedFlag' <=> isPausedFlag
         /\ ~PauseWorker(c) /\ ~ResumeWorker(c) /\ ~PauseLock(c)
<1>0. call \in [Clients -> Methods \cup {"none"}] /\ pc \in [Clients -> Steps]
  BY DEF TypeOK
<1>1. pc[c] \in {"idle", "broadcast"}
  BY <1>0 DEF CallStage, Methods, LifeCycle, Pauses
<1>2. ~ResumeLock(c) /\ ~PauseWorker(c) /\ ~ResumeWorker(c) /\ ~PauseLock(c)
  BY <1>1 DEF ResumeLock, PauseWorker, ResumeWorker, PauseLock
<1>3. CASE CallIgnored(c)
  BY <1>1, <1>2, <1>3 DEF CallIgnored, StartLocked, PauseLocked, flagVars
<1>4. CASE ~CallIgnored(c)
  BY <1>1, <1>2, <1>4, PauseEffect DEF StartLocked, PauseLocked
<1> QED BY <1>3, <1>4

(* Only workers that a pause is told about are told to pause. *)
LEMMA ToldToPauseNext ==
  ASSUME Careful, TypeOK, CallStage, LockOrder, LifeStage, ThreadsLive, PausesApart, PauseCount,
         ToldToPause, NEW c \in Clients, Calls(c) \/ CallStep(c)
  PROVE  ToldToPause'
<1>0. /\ WorkerType /\ cursor \in Workers /\ pc \in [Clients -> Steps] /\ N \in Nat \ {0}
      /\ call \in [Clients -> Methods \cup {"none"}] /\ isRunningFlag \in BOOLEAN
      /\ None \notin Clients /\ (workerLock = None => cursor = 1)
  BY WorkerAssumption, ProcessorAssumption DEF TypeOK, WorkerType
<1>1. \A d \in Clients \ {c} :
        /\ pc'[d] = pc[d] /\ At(d)' = At(d)
        /\ pc[d] \in InLoop => cursor' = cursor
  BY OtherClients
<1> SUFFICES ASSUME NEW w \in Workers, "paused" \in worker'[w]
    PROVE  \/ isPausedFlag' /\ \A d \in Clients : pc'[d] = "resuming" => w >= At(d)'
           \/ \E d \in Clients : \/ pc'[d] = "pausing" /\ w < At(d)'
                                 \/ pc'[d] = "pauseSignal" /\ w <= cursor'
                                 \/ pc'[d] \in {"idling", "idleWait"}
  BY DEF ToldToPause
<1>2. \/ "paused" \in worker[w]
      \/ w = cursor /\ PauseWorker(c) /\ pc'[c] = "pauseSignal"
  BY FlagMoves
<1>3. CASE call[c] \in LifeCycle
  <2>1. ~PauseWorker(c)
    BY <1>3 DEF PauseWorker, CallStage, PauseSteps, Pauses, LifeCycle
  <2> QED BY <1>2, <1>3, <2>1, NonePaused
<1>4. CASE pc[c] \in PauseLocked
  <2>1. CallStep(c)
    BY <1>4 DEF Calls, CallStart, CallStop, CallTerminate, CallPause, CallResume, CallIgnored,
       CallAdd, Call, PauseLocked
  <2>2. ~isPausedFlag /\ \A d \in Clients \ {c} : pc[d] \notin StartLocked
    BY <1>4 DEF PauseCount, LockOrder, PauseLocked, StartLocked
  <2>3. "paused" \in worker[w] => \/ pc[c] = "pausing" /\ w < At(c)
                                  \/ pc[c] = "pauseSignal" /\ w <= cursor
                                  \/ pc[c] \in {"idling", "idleWait"}
    BY <2>2 DEF ToldToPause, StartLocked
  <2>4. At(c) = cursor /\ (workerLock' = c => At(c)' = cursor')
    BY <1>4, <2>1, PauseProgress DEF At
  <2>5. CASE pc'[c] = "pauseSignal" /\ pc[c] = "pausing" /\ cursor' = cursor
    BY <1>0, <1>2, <2>3, <2>4, <2>5 DEF Workers
  <2>6. CASE /\ pc[c] \in {"pausing", "pauseSignal"} /\ pc'[c] = "pausing"
             /\ cursor' = cursor + 1 /\ workerLock' = c
    BY <1>0, <1>2, <2>3, <2>4, <2>6 DEF Workers
  <2>7. CASE pc'[c] \in {"idling", "idleWait"}
    BY <2>7
  <2>8. CASE pc'[c] = "idle" /\ isPausedFlag'
    BY <1>1, <2>2, <2>8 DEF StartLocked
  <2> QED BY <1>4, <2>1, <2>5, <2>6, <2>7, <2>8, PauseProgress
<1>5. CASE PauseLock(c)
  <2>1. \A d \in Clients : pc[d] \notin StartLocked
    BY <1>5 DEF PauseLock, startLockFree
  <2>2. "paused" \in worker[w] /\ isPausedFlag
    BY <1>2, <1>5, <2>1 DEF ToldToPause, StartLocked, PauseLock, PauseWorker
  <2>3. isPausedFlag' /\ pc'[c] = "idle"
    BY <1>0, <1>5, <2>2 DEF PauseLock, PauseReturns, Returns, Goto
  <2> QED BY <1>1, <2>1, <2>3 DEF StartLocked
<1>6. CASE ResumeLock(c)
  <2>1. \A d \in Clients : pc[d] \notin StartLocked
    BY <1>6 DEF ResumeLock, startLockFree
  <2>2. "paused" \in worker[w] /\ isPausedFlag
    BY <1>2, <1>6, <2>1 DEF ToldToPause, StartLocked, ResumeLock, PauseWorker
  <2>3. isPausedFlag' /\ At(c)' = 1
    BY <1>6, <2>2 DEF ResumeLock, loopVars, At, LockOrder, AtLoop, InLoop
  <2>4. w >= 1
    BY DEF Workers
  <2> QED BY <1>1, <2>1, <2>3, <2>4 DEF StartLocked
<1>7. CASE ResumeWorker(c)
  <2>1. pc[c] = "resuming" /\ \A d \in Clients \ {c} : pc[d] \notin StartLocked
    BY <1>7 DEF ResumeWorker, LockOrder, StartLocked
  <2>2. "paused" \in worker[w]
    BY <1>2, <2>1 DEF PauseWorker
  <2>3. w >= At(c) /\ At(c) = cursor
    BY <1>0, <1>7, <2>1, <2>2 DEF ToldToPause, StartLocked, ResumeWorker, mayUseWorkers, At
  <2>4. isRunningFlag
    <3>1. ~isRunningFlag => processing = {}
      BY <2>1 DEF LifeStage, StartLocked
    <3> QED BY <1>0, <2>2, <3>1 DEF ThreadsLive, NewWorker
  <2>5. "paused" \notin worker'[cursor]
    BY <1>0, <1>7, <2>4 DEF ResumeWorker, resume, Unset, WorkerType, workerVars
  <2>6. w > cursor /\ cursor # N
    BY <1>0, <2>3, <2>5 DEF Workers
  <2>7. isPausedFlag' /\ cursor' = cursor + 1 /\ workerLock' = c /\ pc'[c] = "resuming"
    BY <1>0, <1>7, <2>4, <2>6 DEF ResumeWorker, FinalTurn, Turn, LastTurn, Goto
  <2>8. w >= At(c)'
    BY <1>0, <2>6, <2>7 DEF At, Workers
  <2> QED BY <1>1, <2>1, <2>7, <2>8 DEF StartLocked
<1>8. CASE call[c] \notin LifeCycle \cup Pauses \cup {"resume"}
  <2>1. /\ pc[c] \notin StartLocked /\ pc'[c] \notin PauseLocked \cup {"resuming"}
        /\ isPausedFlag' <=> isPausedFlag
        /\ "paused" \in worker[w]
    BY <1>2, <1>8, OtherSteps
  <2>2. \A d \in Clients : d = c \/ d \in Clients \ {c}
    OBVIOUS
  <2>3. CASE isPausedFlag /\ \A d \in Clients : pc[d] = "resuming" => w >= At(d)
    BY <1>1, <2>1, <2>2, <2>3
  <2>4. CASE \E d \in Clients : \/ pc[d] = "pausing" /\ w < At(d)
                                \/ pc[d] = "pauseSignal" /\ w <= cursor
                                \/ pc[d] \in {"idling", "idleWait"}
    BY <1>1, <2>1, <2>2, <2>4 DEF StartLocked, InLoop
  <2> QED BY <2>1, <2>3, <2>4 DEF ToldToPause
<1> QED BY <1>3, <1>4, <1>5, <1>6, <1>7, <1>8, PauseStepsLock, ResumeStepsLock DEF CallStage

(* Clients make no worker idle. *)
LEMMA ClientIdle ==
  ASSUME TypeOK, CallStage, LockOrder, LifeStage, ThreadsLive, IdleOnlyPaused,
         NEW c \in Clients, Calls(c) \/ CallStep(c)
  PROVE  IdleOnlyPaused'
<1>0. WorkerType /\ cursor \in Workers
  BY DEF TypeOK, WorkerType
<1>1. \A w \in Workers : "idle" \in worker'[w] => "idle" \in worker[w]
  BY FlagMoves
<1>2. CASE CreateWorker(c)
  BY <1>0, <1>2, CreateEffect DEF IdleOnlyPaused, WorkerType
<1>3. CASE Join(c) \/ StopWorker(c)
  BY <1>1, <1>3, JoinEffect, StopEffect DEF IdleOnlyPaused
<1>4. CASE Nudged(cursor, Flags \ Marks)
  BY <1>0, <1>1, <1>4 DEF IdleOnlyPaused, Nudged
<1> QED BY <1>2, <1>3, <1>4, ClientNudges DEF Drastic

(* A worker that is told to pause stays so while nobody resumes, starts or *)
(* stops the processor, and one that does not work does not begin to.      *)
LEMMA ClientKeepsQuiet ==
  ASSUME TypeOK, CallStage, LockOrder, LifeStage, ThreadsLive,
         NEW c \in Clients, Calls(c) \/ CallStep(c),
         call[c] \notin LifeCycle, ~ResumeWorker(c)
  PROVE  \A w \in Workers : (Told(w) => Told(w)') /\ (Quiet(w) => Quiet(w)')
<1>0. WorkerType /\ cursor \in Workers
  BY DEF TypeOK, WorkerType
<1>1. \A w \in Workers : "paused" \in worker[w] => "paused" \in worker'[w]
  BY FlagMoves
<1>2. ~Drastic(c)
  BY DEF Drastic, CreateWorker, Join, StopWorker, CallStage, StartSteps, StopSteps, StopLocked,
     LifeCycle
<1>3. Nudged(cursor, Flags \ Marks)
  BY <1>2, ClientNudges
<1>4. \A w \in Workers : /\ thread[w] \in Dying => thread'[w] \in Dying
                         /\ thread[w] \notin Working => thread'[w] \notin Working
  BY <1>0, <1>3 DEF Nudged, Dying, Working
<1> QED BY <1>1, <1>4 DEF Told, Quiet

(* A worker that is terminated during a pause has failed. *)
LEMMA TerminatedIsDying ==
  ASSUME LockOrder, Terminations, NEW c \in Clients, pc[c] \in PauseLocked,
         NEW w \in Workers, "terminated" \in worker[w]
  PROVE  thread[w] \in Dying
BY DEF LockOrder, Terminations, PauseLocked, StartLocked

(* How far a pause has got, in the steps of clients. *)
LEMMA ClientPause ==
  ASSUME Careful, IInv, CInv, NEW c \in Clients, Calls(c) \/ CallStep(c)
  PROVE  PauseStage'
<1> USE DEF IInv, CInv
<1>0. /\ WorkerType /\ cursor \in Workers /\ N \in Nat \ {0} /\ None \notin Clients
      /\ isPausedFlag \in BOOLEAN /\ isRunningFlag \in BOOLEAN /\ isTerminatedFlag \in BOOLEAN
      /\ pc \in [Clients -> Steps] /\ call \in [Clients -> Methods \cup {"none"}]
      /\ hold \in [Clients -> Pauses \cup {"no"}]
  BY WorkerAssumption, ProcessorAssumption DEF TypeOK, WorkerType
<1> DEFINE Stage(d) ==
      /\ pc[d] = "pausing" => \A w \in Workers : w < At(d) => Told(w)
      /\ pc[d] = "pauseSignal" => \A w \in Workers : w <= cursor => Told(w)
      /\ pc[d] \in {"idling", "idleWait"} =>
           /\ \A w \in Workers : Told(w)
           /\ \A w \in Workers : w < cursor => Quiet(w)
      /\ pc[d] = "idleWait" => "idleWaiter" \in worker[cursor] \/ Quiet(cursor)
      /\ hold[d] = "pauseBlock" /\ pc[d] # "resuming" => \A w \in Workers : Quiet(w)
<1>1. \A d \in Clients : Stage(d)
  BY DEF PauseStage
<1>2. ASSUME NEW d \in Clients, hold[d] = "pauseBlock", pc[d] # "resuming",
             ~CallIgnored(c)
      PROVE  \A w \in Workers : Quiet(w)'
  <2>1. call[c] \notin LifeCycle
    BY <1>2 DEF PausesApart, InPause
  <2>2. ~ResumeWorker(c)
    <3>1. d \in Holders
      BY <1>2 DEF Holders
    <3>2. ASSUME ResumeWorker(c) PROVE FALSE
      <4>1. pc[c] = "resuming" /\ call[c] = "resume"
        BY <3>2 DEF ResumeWorker, CallStage
      <4>2. ~isTerminatedFlag /\ nestedPauseCounter = 0
        BY <4>1 DEF TerminatedStage, PauseCount
      <4>3. IsFiniteSet(Holders) /\ Cardinality(Holders) = 0
        BY <4>2 DEF PauseCount
      <4> QED BY <3>1, <4>3, FS_EmptySet
    <3> QED BY <3>2
  <2>3. \A w \in Workers : Quiet(w)
    BY <1>1, <1>2
  <2> QED BY <2>1, <2>2, <2>3, ClientKeepsQuiet
<1>3. ASSUME CallIgnored(c) PROVE \A w \in Workers : Quiet(w)'
  <2>1. UNCHANGED <<worker, thread>>
    BY <1>3 DEF CallIgnored, workerVars
  <2>2. cleared
    BY <1>3 DEF CallIgnored, MayCall, LifeCycle, Pauses, TerminatedStage
  <2>3. processing = {}
    BY <2>2 DEF TerminatedStage, LifeStage, StopLocked
  <2>4. \A w \in Workers : thread[w] = "off"
    BY <2>3 DEF ThreadsLive
  <2> QED BY <2>1, <2>4 DEF Quiet, Told, Dying, Working
<1>4. ASSUME NEW d \in Clients \ {c} PROVE Stage(d)'
  <2>1. /\ pc'[d] = pc[d] /\ hold'[d] = hold[d] /\ At(d)' = At(d)
        /\ pc[d] \in InLoop => workerLock = d
        /\ workerLock = d => cursor' = cursor /\ UNCHANGED <<worker, thread>>
    BY OtherClients DEF workerVars
  <2>2. CASE workerLock = d
    <3>1. \A w \in Workers : (Told(w)' <=> Told(w)) /\ (Quiet(w)' <=> Quiet(w))
      BY <2>1, <2>2 DEF Told, Quiet
    <3> QED BY <1>0, <1>1, <2>1, <2>2, <3>1 DEF Quiet, Told
  <2>3. CASE workerLock # d
    <3>1. At(d) = 1 /\ pc[d] \notin {"pauseSignal", "idling", "idleWait"}
      BY <2>1, <2>3 DEF At, InLoop
    <3>2. \A w \in Workers : ~(w < 1)
      BY DEF Workers
    <3>3. hold[d] = "pauseBlock" /\ pc[d] # "resuming" => \A w \in Workers : Quiet(w)'
      BY <1>2, <1>3
    <3> QED BY <2>1, <3>1, <3>2, <3>3
  <2> QED BY <2>2, <2>3
<1>5. Stage(c)'
  <2>1. CASE pc[c] \in PauseLocked
    <3>1. CallStep(c)
      BY <2>1 DEF Calls, CallStart, CallStop, CallTerminate, CallPause, CallResume, CallIgnored,
         CallAdd, Call, PauseLocked
    <3>2. call[c] \in Pauses /\ call[c] \notin LifeCycle /\ ~ResumeWorker(c) /\ hold[c] = "no"
      BY <2>1 DEF PauseLocked, CallStage, PauseSteps, Pauses, LifeCycle, ResumeWorker, PauseCount
    <3>3. \A w \in Workers : (Told(w) => Told(w)') /\ (Quiet(w) => Quiet(w)')
      BY <3>2, ClientKeepsQuiet
    <3>4. "terminated" \in worker[cursor] => Quiet(cursor)
      BY <1>0, <2>1, TerminatedIsDying DEF Quiet, Told, Dying, Working
    <3>5. processing = Workers
      BY <2>1 DEF LifeStage, LockOrder, PauseLocked, StartLocked, StopLocked
    <3>6. Stage(c) /\ At(c) = cursor /\ (workerLock' = c => At(c)' = cursor')
      BY <1>1, <2>1, <3>1, PauseProgress DEF At
    <3>7. CASE /\ pc[c] = "pausing" /\ pc'[c] = "pauseSignal" /\ cursor' = cursor
               /\ "paused" \in worker'[cursor]
      <4>1. \A w \in Workers : w <= cursor => Told(w)'
        BY <1>0, <3>3, <3>6, <3>7 DEF Told, Workers
      <4>2. hold'[c] = "no"
        BY <3>1, <3>2, <3>7, StepReturns
      <4> QED BY <3>7, <4>1, <4>2
    <3>8. CASE /\ pc[c] \in {"pausing", "pauseSignal"} /\ pc'[c] = "pausing"
               /\ cursor # N /\ cursor' = cursor + 1 /\ workerLock' = c
               /\ pc[c] = "pausing" => "terminated" \in worker[cursor]
      <4>1. \A w \in Workers : w <= cursor => Told(w)
        BY <1>0, <3>4, <3>6, <3>8 DEF Quiet, Workers
      <4>2. \A w \in Workers : w < At(c)' => Told(w)'
        BY <1>0, <3>3, <3>6, <3>8, <4>1 DEF Workers
      <4>3. hold'[c] = "no"
        BY <3>1, <3>2, <3>8, StepReturns
      <4> QED BY <3>8, <4>2, <4>3
    <3>9. CASE /\ pc[c] \in {"pausing", "pauseSignal"} /\ pc'[c] = "idling"
               /\ cursor = N /\ cursor' = 1
               /\ pc[c] = "pausing" => "terminated" \in worker[cursor]
      <4>1. \A w \in Workers : Told(w)
        BY <1>0, <3>4, <3>6, <3>9 DEF Quiet, Workers
      <4>2. \A w \in Workers : Told(w)' /\ ~(w < 1)
        BY <3>3, <4>1 DEF Workers
      <4>3. hold'[c] = "no"
        BY <3>1, <3>2, <3>9, StepReturns
      <4> QED BY <3>9, <4>2, <4>3
    <3>10. CASE pc'[c] = "idle" /\ hold'[c] = "pause"
      BY <3>10
    <3>11. CASE /\ pc[c] = "idling" /\ pc'[c] = "idleWait" /\ cursor' = cursor
                /\ "idle" \in worker[cursor] \/ "started" \notin worker[cursor]
                   \/ "idleWaiter" \in worker'[cursor]
      <4>1. "started" \in worker[cursor]
        BY <1>0, <3>5 DEF ThreadsLive
      <4>2. "idle" \in worker[cursor] => Quiet(cursor)
        BY <1>0, <3>6, <3>11 DEF IdleOnlyPaused, Quiet, Working
      <4>3. hold'[c] = "no"
        BY <3>1, <3>2, <3>11, StepReturns
      <4>4. "idleWaiter" \in worker'[cursor'] \/ Quiet(cursor)'
        BY <1>0, <3>3, <3>11, <4>1, <4>2
      <4>5. (\A w \in Workers : Told(w)') /\ \A w \in Workers : w < cursor' => Quiet(w)'
        BY <3>3, <3>6, <3>11
      <4> QED BY <3>11, <4>3, <4>4, <4>5 DEF Quiet, Told
    <3>12. ASSUME pc[c] \in {"idling", "idleWait"},
                  pc[c] = "idling" => "terminated" \in worker[cursor],
                  pc[c] = "idleWait" => "idleWaiter" \notin worker[cursor]
           PROVE  (\A w \in Workers : Told(w)') /\ \A w \in Workers : w <= cursor => Quiet(w)'
      BY <1>0, <3>3, <3>4, <3>6, <3>12 DEF Workers
    <3>13. CASE /\ pc[c] \in {"idling", "idleWait"} /\ pc'[c] = "idling"
                /\ cursor # N /\ cursor' = cursor + 1
                /\ pc[c] = "idling" => "terminated" \in worker[cursor]
                /\ pc[c] = "idleWait" => "idleWaiter" \notin worker[cursor]
      <4>1. \A w \in Workers : w < cursor' => Quiet(w)'
        BY <1>0, <3>12, <3>13 DEF Workers
      <4>2. hold'[c] = "no"
        BY <3>1, <3>2, <3>13, StepReturns
      <4> QED BY <3>12, <3>13, <4>1, <4>2
    <3>14. CASE /\ pc[c] \in {"idling", "idleWait"} /\ pc'[c] = "idle"
                /\ cursor = N /\ hold'[c] = "pauseBlock"
                /\ pc[c] = "idling" => "terminated" \in worker[cursor]
                /\ pc[c] = "idleWait" => "idleWaiter" \notin worker[cursor]
      <4>1. \A w \in Workers : Quiet(w)'
        BY <1>0, <3>12, <3>14 DEF Workers
      <4> QED BY <3>14, <4>1
    <3> QED BY <2>1, <3>1, <3>7, <3>8, <3>9, <3>10, <3>11, <3>13, <3>14, PauseProgress
  <2>2. CASE PauseLock(c)
    <3>1. /\ call[c] \in Pauses /\ call[c] \notin LifeCycle /\ ~ResumeWorker(c) /\ hold[c] = "no"
          /\ \A d \in Clients : pc[d] \notin StartLocked
          /\ UNCHANGED <<worker, thread>>
      BY <2>2 DEF PauseLock, startLockFree, CallStage, PauseSteps, Pauses, LifeCycle,
           ResumeWorker,
         PauseCount, workerVars
    <3>2. CASE isPausedFlag \/ ~isRunningFlag
      <4>1. pc'[c] = "idle" /\ hold'[c] = call[c]
        BY <1>0, <2>2, <3>1, <3>2 DEF PauseLock, PauseReturns, Returns, Goto
      <4>2. ASSUME call[c] = "pauseBlock" PROVE \A w \in Workers : Quiet(w)
        <5>1. CASE isPausedFlag
          <6>1. PICK d \in Clients : hold[d] # "no"
            BY <5>1 DEF PauseCount
          <6>2. hold[d] = "pauseBlock" /\ pc[d] # "resuming"
            BY <1>0, <3>1, <4>2, <6>1 DEF BlockingApart, Pauses, StartLocked
          <6> QED BY <1>1, <6>2
        <5>2. CASE ~isRunningFlag
          <6>1. processing = {}
            BY <3>1, <5>2 DEF LifeStage, StartLocked
          <6>2. \A w \in Workers : thread[w] = "off"
            BY <6>1 DEF ThreadsLive
          <6> QED BY <6>2 DEF Quiet, Told, Dying, Working
        <5> QED BY <3>2, <5>1, <5>2
      <4> QED BY <3>1, <4>1, <4>2 DEF Quiet, Told
    <3>3. CASE ~(isPausedFlag \/ ~isRunningFlag)
      <4>1. pc'[c] = "pausing" /\ hold'[c] = "no" /\ UNCHANGED workerLock
        BY <1>0, <2>2, <3>1, <3>3 DEF PauseLock, Goto, clientVars, loopVars
      <4>2. At(c)' = 1
        BY <2>2, <4>1 DEF At, LockOrder, AtLoop, InLoop, PauseLock
      <4> QED BY <4>1, <4>2 DEF Workers
    <3> QED BY <3>2, <3>3
  <2>3. CASE pc[c] \notin PauseLocked /\ ~PauseLock(c) /\ ~CallIgnored(c)
    <3>1. pc'[c] \notin PauseLocked
      BY <2>3, PauseEffect
    <3>2. hold'[c] = "pauseBlock" => hold[c] = "pauseBlock"
      BY <2>3, CallCalls, StepReturns, PauseStepsLock DEF CallStage, PauseLocked, PauseSteps,
           Pauses
    <3>3. hold'[c] = "pauseBlock" /\ pc'[c] # "resuming" => pc[c] # "resuming"
      <4>1. ASSUME pc[c] = "resuming", pc'[c] # "resuming" PROVE hold'[c] = "no"
        <5>1. call[c] = "resume" /\ CallStep(c) /\ ResumeWorker(c)
          BY <4>1, ResumeStepsLock DEF CallStage
        <5> QED BY <1>0, <4>1, <5>1 DEF ResumeWorker, FinalTurn, Turn, Returns, Goto, Pauses
      <4> QED BY <4>1
    <3>4. hold'[c] = "pauseBlock" /\ pc'[c] # "resuming" => \A w \in Workers : Quiet(w)'
      BY <1>2, <2>3, <3>2, <3>3
    <3> QED BY <3>1, <3>4 DEF PauseLocked
  <2>4. CASE CallIgnored(c)
    <3>1. pc[c] = "idle" /\ pc'[c] = "idle"
      BY <2>4 DEF CallIgnored
    <3> QED BY <1>3, <2>4, <3>1
  <2> QED BY <2>1, <2>2, <2>3, <2>4
<1> QED BY <1>4, <1>5 DEF PauseStage

(* A worker that is told to pause, and does not work, does not begin to. *)
LEMMA ThreadKeepsQuiet ==
  ASSUME TypeOK, IdleOnlyPaused, NEW w \in Workers, Moves(w)
  PROVE  /\ "idle" \in worker'[w] => thread'[w] \in {"paused", "pauseWoken"}
         /\ "paused" \in worker'[w] <=> "paused" \in worker[w]
         /\ Told(w) => Told(w)'
         /\ Quiet(w) => Quiet(w)'
         /\ Told(w) /\ "idleWaiter" \in worker[w] => "idleWaiter" \in worker'[w] \/ Quiet(w)'
<1>0. WorkerType
  BY  DEF TypeOK, WorkerType
<1> USE <1>0 DEF IdleOnlyPaused, Told, Quiet, Dying, Working, WorkerType
<1>1. CASE Enter(w)
  BY <1>1 DEF Enter, Run, Branch
<1>2. CASE Loop(w)
  BY <1>2 DEF Loop, Run, Branch
<1>3. CASE BecomeIdle(w)
  BY <1>3 DEF BecomeIdle, Run
<1>4. CASE EndPause(w)
  BY <1>4 DEF EndPause, Unset, Run
<1>5. CASE Remove(w)
  BY <1>5 DEF Remove, isWork, Run
<1>6. CASE Handle(w)
  BY <1>6 DEF Handle, HandleEnds, Run
<1>7. CASE Throw(w)
  BY <1>7 DEF Throw, HandleEnds, Set, Run
<1>8. CASE WaitForWork(w)
  BY <1>8 DEF WaitForWork, mayWait, isWork, ToldJoiners, Run
<1>9. CASE EndWait(w)
  BY <1>9 DEF EndWait, Unset, Run
<1>10. CASE FailPause(w)
  BY <1>10 DEF FailPause, Unset, Run
<1>11. CASE FailWait(w)
  BY <1>11 DEF FailWait, Unset, ToldJoiners, Run
<1>12. CASE Finalize(w)
  BY <1>12 DEF Finalize, Set, Run
<1>13. CASE SpuriousWakeup(w)
  BY <1>13 DEF SpuriousWakeup, Run
<1>14. CASE SignalDead(w)
  BY <1>14 DEF SignalDead, Set, Run
<1> QED BY <1>14, <1>1, <1>2, <1>3, <1>4, <1>5, <1>6, <1>7, <1>8, <1>9, <1>10, <1>11, <1>12, <1>13
      DEF Moves, RunStep

(* What careful clients add to the invariant, in the steps of threads. *)
LEMMA ThreadCInv ==
  ASSUME IInv, CInv, NEW w \in Workers, Moves(w), UNCHANGED
         processorVars
  PROVE  CInv'
<1> USE DEF IInv, CInv
<1>1. UNCHANGED <<pc, call, hold, cursor, workerLock, isTerminatedFlag, isRunningFlag, isPausedFlag,
                  nestedPauseCounter, cleared, processing>>
  BY DEF processorVars, flagVars, objectVars, loopVars, clientVars
<1>2. \A v \in Workers \ {w} : worker'[v] = worker[v] /\ thread'[v] = thread[v]
  BY ThreadEntries
<1>3. PausesApart' /\ BlockingApart'
  BY <1>1 DEF PausesApart, BlockingApart, InPause
<1>4. TerminatedStage'
  BY <1>1 DEF TerminatedStage
<1>5. PauseCount'
  BY <1>1 DEF PauseCount, Holders
<1>6. ToldToPause'
  <2>1. \A v \in Workers : "paused" \in worker'[v] => "paused" \in worker[v]
    BY <1>2, ThreadKeepsQuiet
  <2> QED BY <1>1, <2>1 DEF ToldToPause, At
<1>7. IdleOnlyPaused'
  BY <1>2, ThreadKeepsQuiet DEF IdleOnlyPaused
<1>8. PauseStage'
  <2>1. \A v \in Workers :
          /\ Told(v) => Told(v)'
          /\ Quiet(v) => Quiet(v)'
          /\ Told(v) /\ "idleWaiter" \in worker[v] => "idleWaiter" \in worker'[v] \/ Quiet(v)'
    BY <1>2, ThreadKeepsQuiet DEF Told, Quiet
  <2>2. cursor \in Workers
    BY DEF TypeOK
  <2>3. ASSUME NEW c \in Clients, pc[c] = "idleWait"
        PROVE  "idleWaiter" \in worker'[cursor] \/ Quiet(cursor)'
    <3>1. Told(cursor) /\ ("idleWaiter" \in worker[cursor] \/ Quiet(cursor))
      BY <2>2, <2>3 DEF PauseStage
    <3> QED BY <1>1, <2>1, <2>2, <3>1 DEF Quiet, Told
  <2> QED BY <1>1, <2>1, <2>3 DEF PauseStage, At, Quiet, Told
<1> QED BY <1>3, <1>4, <1>5, <1>6, <1>7, <1>8

(* Nobody pauses in the beginning.                                         *)
LEMMA InitCInv == Init => CInv
<1> SUFFICES ASSUME Init PROVE CInv
  OBVIOUS
<1> USE DEF Init, WorkerInit, NewWorker
<1>1. PausesApart /\ TerminatedStage /\ BlockingApart
  BY DEF PausesApart, TerminatedStage, BlockingApart, LifeCycle
<1>2. PauseCount
  <2>1. Holders = {}
    BY DEF Holders
  <2> QED BY <2>1, FS_EmptySet DEF PauseCount, Pauses
<1>3. ToldToPause /\ IdleOnlyPaused
  BY DEF ToldToPause, IdleOnlyPaused
<1>4. PauseStage
  BY DEF PauseStage
<1> QED BY <1>1, <1>2, <1>3, <1>4 DEF CInv

(* One of the lemmas above for every action.                               *)
LEMMA NextCInv == Careful /\ IInv /\ CInv /\ [Next]_vars => CInv'
<1> SUFFICES ASSUME Careful, IInv, CInv, [Next]_vars PROVE CInv'
  OBVIOUS
<1>0. /\ TypeOK /\ CallStage /\ LockOrder /\ LifeStage /\ ThreadsLive
      /\ PausesApart /\ TerminatedStage /\ PauseCount /\ BlockingApart
      /\ ToldToPause /\ IdleOnlyPaused
  BY DEF IInv, CInv
<1>1. ASSUME NEW c \in Clients, Calls(c) \/ CallStep(c) PROVE CInv'
  <2>1. PausesApart' /\ BlockingApart' /\ TerminatedStage'
    BY <1>0, <1>1, PausesApartNext, BlockingApartNext, TerminatedNext
  <2>2. PauseCount' /\ ToldToPause'
    BY <1>0, <1>1, PauseCountNext, ToldToPauseNext
  <2>3. IdleOnlyPaused' /\ PauseStage'
    BY <1>0, <1>1, ClientIdle, ClientPause
  <2> QED BY <2>1, <2>2, <2>3 DEF CInv
<1>2. ASSUME NEW w \in Workers, Moves(w), UNCHANGED processorVars
      PROVE  CInv'
  BY <1>2, ThreadCInv
<1>3. CASE UNCHANGED vars \/ \E w \in Workers : Exit(w) /\ UNCHANGED processorVars
  <2>0. UNCHANGED <<workerVars, processorVars>>
    BY <1>3 DEF vars, Exit, processorVars
  <2> USE <1>0, <2>0 DEF processorVars, workerVars, flagVars, objectVars, loopVars, clientVars
  <2>1. PausesApart' /\ BlockingApart' /\ TerminatedStage'
    BY DEF PausesApart, BlockingApart, TerminatedStage, InPause
  <2>2. PauseCount'
    BY DEF PauseCount, Holders
  <2>3. ToldToPause' /\ IdleOnlyPaused'
    BY DEF ToldToPause, IdleOnlyPaused, At
  <2>4. PauseStage'
    BY DEF CInv, PauseStage, At, Quiet, Told
  <2> QED BY <2>1, <2>2, <2>3, <2>4 DEF CInv
<1> QED BY <1>1, <1>2, <1>3 DEF Next, WorkersAct, ThreadStep, Moves

(* With careful clients both parts of the invariant hold in every          *)
(* reachable state.                                                        *)
THEOREM CarefulInvariance == Careful => (Spec => [](IInv /\ CInv))
<1>1. Init => IInv /\ CInv
  BY InitIInv, InitCInv
<1>2. Careful => (IInv /\ CInv /\ [Next]_vars => IInv' /\ CInv')
  BY NextIInv, NextCInv
<1> SUFFICES ASSUME Careful PROVE Spec => [](IInv /\ CInv)
  OBVIOUS
<1>3. IInv /\ CInv /\ [Next]_vars => (IInv /\ CInv)'
  BY <1>2
<1> QED BY <1>1, <1>3, PTL DEF Spec

(* A worker object is deleted or replaced only when its thread has set     *)
(* isDeadFlag and will use neither the queue nor the consumer again, and   *)
(* after terminate no worker is left.                                      *)
THEOREM ThreadsGone == Careful => (Spec => []NoThreadLeft)
<1>1. IInv /\ CInv => NoThreadLeft
  BY DEF IInv, CInv, NoThreadLeft, ThreadsLive, TerminatedStage, LifeStage, StopLocked
<1> QED BY <1>1, CarefulInvariance, PTL

(* Once every pause has been undone the counter is 0 and no worker is told *)
(* to pause.                                                               *)
THEOREM PausesBalance == Careful => (Spec => []PausesUndone)
<1>1. ASSUME IInv, CInv, \A c \in Clients : ~InPause(c) /\ call[c] \notin LifeCycle
      PROVE  nestedPauseCounter = 0 /\ ~isPausedFlag /\ \A w \in processing : "paused" \notin worker[w]
  <2>1. \A c \in Clients : hold[c] = "no" /\ pc[c] \notin PauseLocked
    BY <1>1 DEF InPause, IInv, CallStage, PauseSteps, PauseLocked
  <2>2. Holders = {}
    BY <2>1 DEF Holders
  <2>3. nestedPauseCounter = 0 /\ ~isPausedFlag
    BY <1>1, <2>1, <2>2, FS_EmptySet DEF CInv, PauseCount
  <2>4. \A w \in Workers : "paused" \notin worker[w]
    BY <1>1, <2>1, <2>3 DEF CInv, ToldToPause, PauseLocked
  <2> QED BY <1>1, <2>3, <2>4 DEF IInv, TypeOK
<1>2. IInv /\ CInv => PausesUndone
  BY <1>1 DEF PausesUndone
<1> QED BY <1>2, CarefulInvariance, PTL

(* From the return of pause(true) to the call of the matching resume no    *)
(* worker takes or uses an entry, nor leaves the queue in finalize unless  *)
(* a consumer threw: otherwise only a stop terminates a worker, and a      *)
(* pause excludes it.                                                      *)
THEOREM PauseIsKept == Careful => (Spec => []PausedIsIdle)
<1>1. IInv /\ CInv => PausedIsIdle
  <2> SUFFICES ASSUME IInv, CInv, NEW c \in Clients, hold[c] = "pauseBlock", call[c] = "none",
                      NEW w \in Workers
               PROVE  /\ thread[w] \notin Working
                      /\ thread[w] = "finalize" => ~NoneLost
    BY DEF PausedIsIdle, NoneLost
  <2>1. thread[w] \notin Working
    BY DEF IInv, CInv, CallStage, PauseStage, Quiet
  <2>2. \A d \in Clients : call[d] \notin LifeCycle
    BY DEF CInv, PausesApart, InPause
  <2>3. ~(thread[w] = "finalize" /\ NoneLost)
    BY <2>2 DEF IInv, Terminations, CallStage, LifeCycle, Dying, StopSteps, StopLocked
  <2> QED BY <2>1, <2>3
<1> QED BY <1>1, CarefulInvariance, PTL

=============================================================================
