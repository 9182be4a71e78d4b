---------------------- MODULE ResizeControls_proofs ----------------------
(***************************************************************************)
(* Proofs about ResizeControls, for any number of producers and workers    *)
(* and any sizes, provided that the processor is not started during a      *)
(* resize.                                                                 *)
(***************************************************************************)
EXTENDS ResizeControls, FiniteSetTheorems, TLAPS

CountedAdders == {a \in Adders : pc[a] \in Counted}

(* addingCount is the number of producers between waitForResize (or        *)
(* resumeAdders) and checkFull.                                            *)
CountExact == addingCount = Cardinality(CountedAdders)

(* The lock is held by whoever is between checkFull and                    *)
(* checkFullForResize, and then no resize is in progress.                  *)
LockHolder ==
  \A a \in Adders : /\ pc[a] \in Locked <=> lock = a
                    /\ pc[a] \in Locked => ~resizing

(* There is at most one resizing producer, and resizing is set for it. *)
OneResizer ==
  /\ \A a \in Adders : pc[a] \in Pausing \cup Growing => resizing
  /\ \A a, b \in Adders :
       pc[a] \in Pausing \cup Growing /\ pc[b] \in Pausing \cup Growing => a = b

(* Once pauseAdders has returned nobody is counted. *)
AddersPaused ==
  \A a \in Adders :
    pc[a] \in {"pause", "waitIdle"} \cup Growing => CountedAdders = {}

(* Workers that run have been told to pause, and then have done so. *)
WorkersPaused ==
  \A a \in Adders :
    /\ pc[a] \in {"waitIdle", "resize"} =>
         pauseFlag \/ \A w \in Workers : worker[w] = "off"
    /\ pc[a] = "resize" => \A w \in Workers : worker[w] \in {"off", "paused"}

IInv ==
  TypeOK /\ CountExact /\ LockHolder /\ OneResizer /\ AddersPaused /\ WorkersPaused

(* A finite set of producers has a cardinality that is a natural number,   *)
(* and gaining or losing one member changes it by one.                     *)
LEMMA CountedCardinality ==
  /\ IsFiniteSet(CountedAdders)
  /\ Cardinality(CountedAdders) \in Nat
  /\ \A a \in Adders : a \notin CountedAdders =>
       Cardinality(CountedAdders \cup {a}) = Cardinality(CountedAdders) + 1
  /\ \A a \in CountedAdders :
       Cardinality(CountedAdders \ {a}) = Cardinality(CountedAdders) - 1
  /\ Cardinality(CountedAdders) = 0 <=> CountedAdders = {}
<1>1. IsFiniteSet(CountedAdders)
  <2>1. CountedAdders \subseteq Adders
    BY DEF CountedAdders
  <2> QED BY <2>1, ResizeAssumption, FS_Subset DEF ResizeAssumption
<1>2. Cardinality(CountedAdders) \in Nat
  BY <1>1, FS_CardinalityType
<1>3. ASSUME NEW a \in Adders, a \notin CountedAdders
      PROVE  Cardinality(CountedAdders \cup {a}) = Cardinality(CountedAdders) + 1
  BY <1>1, <1>3, FS_AddElement
<1>4. ASSUME NEW a \in CountedAdders
      PROVE  Cardinality(CountedAdders \ {a}) = Cardinality(CountedAdders) - 1
  BY <1>1, FS_RemoveElement
<1>5. Cardinality(CountedAdders) = 0 <=> CountedAdders = {}
  BY <1>1, FS_EmptySet
<1> QED BY <1>1, <1>2, <1>3, <1>4, <1>5

(* The initial state satisfies the inductive invariant. *)
LEMMA InitIInv == Init => IInv
<1> SUFFICES ASSUME Init PROVE IInv
  OBVIOUS
<1>1. TypeOK
  <2>1. pc \in [Adders -> Steps] /\ index \in [Adders -> Results]
    BY DEF Init, Steps, Results
  <2>2. compatible \in [Adders -> BOOLEAN] /\ calls \in [Adders -> 0 .. MaxCalls]
    BY ResizeAssumption DEF ResizeAssumption, Init
  <2>3. pauseFlag \in BOOLEAN /\ worker \in [Workers -> WorkerSteps]
    BY DEF Init, WorkerSteps
  <2>4. size \in Nat \ {0} /\ count \in Nat /\ addingCount \in Nat
    BY ResizeAssumption DEF ResizeAssumption, Init
  <2>5. lock \in Adders \cup {None} /\ resizing \in BOOLEAN
    BY DEF Init
  <2> QED BY <2>1, <2>2, <2>3, <2>4, <2>5 DEF TypeOK
<1>2. CountedAdders = {}
  BY DEF Init, CountedAdders, Counted
<1>3. CountExact
  BY <1>2, FS_EmptySet DEF Init, CountExact
<1>4. LockHolder
  BY ResizeAssumption DEF ResizeAssumption, Init, LockHolder, Locked
<1> QED BY <1>1, <1>2, <1>3, <1>4
       DEF Init, IInv, OneResizer, AddersPaused, WorkersPaused, Pausing, Growing

(* Every step preserves the inductive invariant: one step per action, in   *)
(* each what happens to the counted producers (<2>1, <2>2), the types, the *)
(* lock and the resizing producer, and who is paused.                      *)
LEMMA NextIInv ==
  ASSUME ~StartWhileResizing, IInv, [Next]_vars
  PROVE  IInv'
<1> USE DEF IInv
<1>1. ASSUME NEW a \in Adders, CallAdd(a) PROVE IInv'
  <2>1. CountedAdders' = CountedAdders
    BY <1>1 DEF CallAdd, Goto, CountedAdders, Counted, TypeOK
  <2>2. CountExact'
    BY <1>1, <2>1 DEF CallAdd, Goto, CountExact, controls
  <2>3. TypeOK'
    BY <1>1, ResizeAssumption DEF ResizeAssumption, CallAdd, Goto, TypeOK, Steps, Results, WorkerSteps,
         Counted, Locked, Pausing, Growing, queue, controls, adderVars, workerVars
  <2>4. LockHolder' /\ OneResizer'
    BY <1>1, ResizeAssumption DEF ResizeAssumption, CallAdd, Goto, TypeOK, LockHolder, OneResizer,
         Counted, Locked, Pausing, Growing, queue, controls, adderVars, workerVars
  <2>5. AddersPaused' /\ WorkersPaused'
    BY <1>1, <2>1 DEF CallAdd, Goto, TypeOK, LockHolder, OneResizer, AddersPaused, WorkersPaused,
         CountedAdders, Counted, Locked, Pausing, Growing, queue, controls, adderVars, workerVars
  <2> QED BY <2>2, <2>3, <2>4, <2>5
<1>2. ASSUME NEW a \in Adders, WaitForResize(a) PROVE IInv'
  <2>1. IF resizing THEN CountedAdders' = CountedAdders
        ELSE a \notin CountedAdders /\ CountedAdders' = CountedAdders \cup {a}
    BY <1>2 DEF WaitForResize, Goto, CountedAdders, Counted, TypeOK
  <2>2. CountExact'
    BY <1>2, <2>1, CountedCardinality DEF WaitForResize, CountExact
  <2>3. TypeOK'
    BY <1>2, ResizeAssumption DEF ResizeAssumption, WaitForResize, Goto, TypeOK, Steps, Results, WorkerSteps,
         Counted, Locked, Pausing, Growing, queue, controls, adderVars, workerVars
  <2>4. LockHolder' /\ OneResizer'
    BY <1>2, ResizeAssumption DEF ResizeAssumption, WaitForResize, Goto, TypeOK, LockHolder, OneResizer,
         Counted, Locked, Pausing, Growing, queue, controls, adderVars, workerVars
  <2>5. AddersPaused' /\ WorkersPaused'
    BY <1>2, <2>1 DEF WaitForResize, Goto, TypeOK, LockHolder, OneResizer, AddersPaused, WorkersPaused,
         CountedAdders, Counted, Locked, Pausing, Growing, queue, controls, adderVars, workerVars
  <2> QED BY <2>2, <2>3, <2>4, <2>5
<1>3. ASSUME NEW a \in Adders, Add(a) PROVE IInv'
  <2>1. CountedAdders' = CountedAdders
    BY <1>3 DEF Add, TryAdd, Goto, CountedAdders, Counted, TypeOK
  <2>2. CountExact'
    BY <1>3, <2>1 DEF Add, TryAdd, Goto, CountExact, controls
  <2>3. TypeOK'
    BY <1>3, ResizeAssumption DEF ResizeAssumption, Add, TryAdd, Goto, TypeOK, Steps, Results, WorkerSteps,
         Counted, Locked, Pausing, Growing, queue, controls, adderVars, workerVars
  <2>4. LockHolder' /\ OneResizer'
    BY <1>3, ResizeAssumption DEF ResizeAssumption, Add, TryAdd, Goto, TypeOK, LockHolder, OneResizer,
         Counted, Locked, Pausing, Growing, queue, controls, adderVars, workerVars
  <2>5. AddersPaused' /\ WorkersPaused'
    BY <1>3, <2>1 DEF Add, TryAdd, Goto, TypeOK, LockHolder, OneResizer, AddersPaused, WorkersPaused,
         CountedAdders, Counted, Locked, Pausing, Growing, queue, controls, adderVars, workerVars
  <2> QED BY <2>2, <2>3, <2>4, <2>5
<1>4. ASSUME NEW a \in Adders, CheckResizable(a) PROVE IInv'
  <2>1. CountedAdders' = CountedAdders
    BY <1>4 DEF CheckResizable, Goto, CountedAdders, Counted, TypeOK
  <2>2. CountExact'
    BY <1>4, <2>1 DEF CheckResizable, Goto, CountExact, controls
  <2>3. TypeOK'
    BY <1>4, ResizeAssumption DEF ResizeAssumption, CheckResizable, Goto, TypeOK, Steps, Results, WorkerSteps,
         Counted, Locked, Pausing, Growing, queue, controls, adderVars, workerVars
  <2>4. LockHolder' /\ OneResizer'
    BY <1>4, ResizeAssumption DEF ResizeAssumption, CheckResizable, Goto, TypeOK, LockHolder, OneResizer,
         Counted, Locked, Pausing, Growing, queue, controls, adderVars, workerVars
  <2>5. AddersPaused' /\ WorkersPaused'
    BY <1>4, <2>1 DEF CheckResizable, Goto, TypeOK, LockHolder, OneResizer, AddersPaused, WorkersPaused,
         CountedAdders, Counted, Locked, Pausing, Growing, queue, controls, adderVars, workerVars
  <2> QED BY <2>2, <2>3, <2>4, <2>5
<1>5. ASSUME NEW a \in Adders, Spin(a) PROVE IInv'
  <2>1. CountedAdders' = CountedAdders
    BY <1>5 DEF Spin, TryAdd, Goto, CountedAdders, Counted, TypeOK
  <2>2. CountExact'
    BY <1>5, <2>1 DEF Spin, TryAdd, Goto, CountExact, controls
  <2>3. TypeOK'
    BY <1>5, ResizeAssumption DEF ResizeAssumption, Spin, TryAdd, Goto, TypeOK, Steps, Results, WorkerSteps,
         Counted, Locked, Pausing, Growing, queue, controls, adderVars, workerVars
  <2>4. LockHolder' /\ OneResizer'
    BY <1>5, ResizeAssumption DEF ResizeAssumption, Spin, TryAdd, Goto, TypeOK, LockHolder, OneResizer,
         Counted, Locked, Pausing, Growing, queue, controls, adderVars, workerVars
  <2>5. AddersPaused' /\ WorkersPaused'
    BY <1>5, <2>1 DEF Spin, TryAdd, Goto, TypeOK, LockHolder, OneResizer, AddersPaused, WorkersPaused,
         CountedAdders, Counted, Locked, Pausing, Growing, queue, controls, adderVars, workerVars
  <2> QED BY <2>2, <2>3, <2>4, <2>5
<1>6. ASSUME NEW a \in Adders, CheckFull(a) PROVE IInv'
  <2>1. a \in CountedAdders /\ CountedAdders' = CountedAdders \ {a}
    BY <1>6 DEF CheckFull, Goto, CountedAdders, Counted, TypeOK
  <2>2. CountExact'
    BY <1>6, <2>1, CountedCardinality DEF CheckFull, CountExact
  <2>6. addingCount' \in Nat
    <3>1. addingCount # 0
      BY <2>1, CountedCardinality DEF CountExact
    <3> QED BY <1>6, <3>1 DEF CheckFull, TypeOK
  <2>3. TypeOK'
    BY <1>6, <2>6, ResizeAssumption DEF ResizeAssumption, CheckFull, Goto, TypeOK, Steps, Results, WorkerSteps,
         Counted, Locked, Pausing, Growing, queue, controls, adderVars, workerVars
  <2>4. LockHolder' /\ OneResizer'
    BY <1>6, ResizeAssumption DEF ResizeAssumption, CheckFull, Goto, TypeOK, LockHolder, OneResizer,
         Counted, Locked, Pausing, Growing, queue, controls, adderVars, workerVars
  <2>5. AddersPaused' /\ WorkersPaused'
    BY <1>6, <2>1 DEF CheckFull, Goto, TypeOK, LockHolder, OneResizer, AddersPaused, WorkersPaused,
         CountedAdders, Counted, Locked, Pausing, Growing, queue, controls, adderVars, workerVars
  <2> QED BY <2>2, <2>3, <2>4, <2>5
<1>7. ASSUME NEW a \in Adders, Recheck(a) PROVE IInv'
  <2>1. CountedAdders' = CountedAdders
    BY <1>7 DEF Recheck, Goto, CountedAdders, Counted, TypeOK
  <2>2. CountExact'
    BY <1>7, <2>1 DEF Recheck, Goto, CountExact, controls
  <2>3. TypeOK'
    BY <1>7, ResizeAssumption DEF ResizeAssumption, Recheck, Goto, TypeOK, Steps, Results, WorkerSteps,
         Counted, Locked, Pausing, Growing, queue, controls, adderVars, workerVars
  <2>4. LockHolder' /\ OneResizer'
    BY <1>7, ResizeAssumption DEF ResizeAssumption, Recheck, Goto, TypeOK, LockHolder, OneResizer,
         Counted, Locked, Pausing, Growing, queue, controls, adderVars, workerVars
  <2>5. AddersPaused' /\ WorkersPaused'
    BY <1>7, <2>1 DEF Recheck, Goto, TypeOK, LockHolder, OneResizer, AddersPaused, WorkersPaused,
         CountedAdders, Counted, Locked, Pausing, Growing, queue, controls, adderVars, workerVars
  <2> QED BY <2>2, <2>3, <2>4, <2>5
<1>8. ASSUME NEW a \in Adders, AddLocked(a) PROVE IInv'
  <2>1. CountedAdders' = CountedAdders
    BY <1>8 DEF AddLocked, TryAdd, Goto, CountedAdders, Counted, TypeOK
  <2>2. CountExact'
    BY <1>8, <2>1 DEF AddLocked, TryAdd, Goto, CountExact, controls
  <2>3. TypeOK'
    BY <1>8, ResizeAssumption DEF ResizeAssumption, AddLocked, TryAdd, Goto, TypeOK, Steps, Results, WorkerSteps,
         Counted, Locked, Pausing, Growing, queue, controls, adderVars, workerVars
  <2>4. LockHolder' /\ OneResizer'
    BY <1>8, ResizeAssumption DEF ResizeAssumption, AddLocked, TryAdd, Goto, TypeOK, LockHolder, OneResizer,
         Counted, Locked, Pausing, Growing, queue, controls, adderVars, workerVars
  <2>5. AddersPaused' /\ WorkersPaused'
    BY <1>8, <2>1 DEF AddLocked, TryAdd, Goto, TypeOK, LockHolder, OneResizer, AddersPaused, WorkersPaused,
         CountedAdders, Counted, Locked, Pausing, Growing, queue, controls, adderVars, workerVars
  <2> QED BY <2>2, <2>3, <2>4, <2>5
<1>9. ASSUME NEW a \in Adders, CheckFullForResize(a) PROVE IInv'
  <2>1. CountedAdders' = CountedAdders
    BY <1>9 DEF CheckFullForResize, Goto, CountedAdders, Counted, TypeOK
  <2>2. CountExact'
    BY <1>9, <2>1 DEF CheckFullForResize, Goto, CountExact, controls
  <2>3. TypeOK'
    BY <1>9, ResizeAssumption DEF ResizeAssumption, CheckFullForResize, Goto, TypeOK, Steps, Results, WorkerSteps,
         Counted, Locked, Pausing, Growing, queue, controls, adderVars, workerVars
  <2>4. LockHolder' /\ OneResizer'
    BY <1>9, ResizeAssumption DEF ResizeAssumption, CheckFullForResize, Goto, TypeOK, LockHolder, OneResizer,
         Counted, Locked, Pausing, Growing, queue, controls, adderVars, workerVars
  <2>5. AddersPaused' /\ WorkersPaused'
    BY <1>9, <2>1 DEF CheckFullForResize, Goto, TypeOK, LockHolder, OneResizer, AddersPaused, WorkersPaused,
         CountedAdders, Counted, Locked, Pausing, Growing, queue, controls, adderVars, workerVars
  <2> QED BY <2>2, <2>3, <2>4, <2>5
<1>10. ASSUME NEW a \in Adders, SpuriousWakeup(a) PROVE IInv'
  <2>1. CountedAdders' = CountedAdders
    BY <1>10 DEF SpuriousWakeup, Woken, Goto, CountedAdders, Counted, TypeOK
  <2>2. CountExact'
    BY <1>10, <2>1 DEF SpuriousWakeup, Woken, Goto, CountExact, controls
  <2>3. TypeOK'
    BY <1>10, ResizeAssumption DEF ResizeAssumption, SpuriousWakeup, Woken, Goto, TypeOK, Steps, Results, WorkerSteps,
         Counted, Locked, Pausing, Growing, queue, controls, adderVars, workerVars
  <2>4. LockHolder' /\ OneResizer'
    BY <1>10, ResizeAssumption DEF ResizeAssumption, SpuriousWakeup, Woken, Goto, TypeOK, LockHolder, OneResizer,
         Counted, Locked, Pausing, Growing, queue, controls, adderVars, workerVars
  <2>5. AddersPaused' /\ WorkersPaused'
    BY <1>10, <2>1 DEF SpuriousWakeup, Woken, Goto, TypeOK, LockHolder, OneResizer, AddersPaused, WorkersPaused,
         CountedAdders, Counted, Locked, Pausing, Growing, queue, controls, adderVars, workerVars
  <2> QED BY <2>2, <2>3, <2>4, <2>5
<1>11. ASSUME NEW a \in Adders, PauseAdders(a) PROVE IInv'
  <2>1. CountedAdders' = CountedAdders /\ CountedAdders = {}
    <3>1. CountedAdders = {}
      BY <1>11, CountedCardinality DEF PauseAdders, CountExact
    <3> QED BY <1>11, <3>1 DEF PauseAdders, Goto, CountedAdders, Counted, TypeOK
  <2>2. CountExact'
    BY <1>11, <2>1 DEF PauseAdders, CountExact, controls
  <2>3. TypeOK'
    BY <1>11, ResizeAssumption DEF ResizeAssumption, PauseAdders, Goto, TypeOK, Steps, Results, WorkerSteps,
         Counted, Locked, Pausing, Growing, queue, controls, adderVars, workerVars
  <2>4. LockHolder' /\ OneResizer'
    BY <1>11, ResizeAssumption DEF ResizeAssumption, PauseAdders, Goto, TypeOK, LockHolder, OneResizer,
         Counted, Locked, Pausing, Growing, queue, controls, adderVars, workerVars
  <2>5. AddersPaused' /\ WorkersPaused'
    BY <1>11, <2>1 DEF PauseAdders, Goto, TypeOK, LockHolder, OneResizer, AddersPaused, WorkersPaused,
         CountedAdders, Counted, Locked, Pausing, Growing, queue, controls, adderVars, workerVars
  <2> QED BY <2>2, <2>3, <2>4, <2>5
<1>12. ASSUME NEW a \in Adders, Pause(a) PROVE IInv'
  <2>1. CountedAdders' = CountedAdders
    BY <1>12 DEF Pause, Goto, CountedAdders, Counted, TypeOK
  <2>2. CountExact'
    BY <1>12, <2>1 DEF Pause, Goto, CountExact, controls
  <2>3. TypeOK'
    BY <1>12, ResizeAssumption DEF ResizeAssumption, Pause, Goto, TypeOK, Steps, Results, WorkerSteps,
         Counted, Locked, Pausing, Growing, queue, controls, adderVars, workerVars
  <2>4. LockHolder' /\ OneResizer'
    BY <1>12, ResizeAssumption DEF ResizeAssumption, Pause, Goto, TypeOK, LockHolder, OneResizer,
         Counted, Locked, Pausing, Growing, queue, controls, adderVars, workerVars
  <2>5. AddersPaused' /\ WorkersPaused'
    BY <1>12, <2>1 DEF Pause, Goto, TypeOK, LockHolder, OneResizer, AddersPaused, WorkersPaused,
         CountedAdders, Counted, Locked, Pausing, Growing, queue, controls, adderVars, workerVars
  <2> QED BY <2>2, <2>3, <2>4, <2>5
<1>13. ASSUME NEW a \in Adders, WaitIdle(a) PROVE IInv'
  <2>1. CountedAdders' = CountedAdders
    BY <1>13 DEF WaitIdle, Goto, CountedAdders, Counted, TypeOK
  <2>2. CountExact'
    BY <1>13, <2>1 DEF WaitIdle, Goto, CountExact, controls
  <2>3. TypeOK'
    BY <1>13, ResizeAssumption DEF ResizeAssumption, WaitIdle, Goto, TypeOK, Steps, Results, WorkerSteps,
         Counted, Locked, Pausing, Growing, queue, controls, adderVars, workerVars
  <2>4. LockHolder' /\ OneResizer'
    BY <1>13, ResizeAssumption DEF ResizeAssumption, WaitIdle, Goto, TypeOK, LockHolder, OneResizer,
         Counted, Locked, Pausing, Growing, queue, controls, adderVars, workerVars
  <2>5. AddersPaused' /\ WorkersPaused'
    BY <1>13, <2>1 DEF WaitIdle, Goto, TypeOK, LockHolder, OneResizer, AddersPaused, WorkersPaused,
         CountedAdders, Counted, Locked, Pausing, Growing, queue, controls, adderVars, workerVars
  <2> QED BY <2>2, <2>3, <2>4, <2>5
<1>14. ASSUME NEW a \in Adders, Resize(a) PROVE IInv'
  <2>1. CountedAdders' = CountedAdders
    BY <1>14 DEF Resize, Goto, getNewQueueSize, CountedAdders, Counted, TypeOK
  <2>2. CountExact'
    BY <1>14, <2>1 DEF Resize, Goto, getNewQueueSize, CountExact, controls
  <2>3. TypeOK'
    BY <1>14, ResizeAssumption DEF ResizeAssumption, Resize, Goto, getNewQueueSize, TypeOK, Steps, Results, WorkerSteps,
         Counted, Locked, Pausing, Growing, queue, controls, adderVars, workerVars
  <2>4. LockHolder' /\ OneResizer'
    BY <1>14, ResizeAssumption DEF ResizeAssumption, Resize, Goto, getNewQueueSize, TypeOK, LockHolder, OneResizer,
         Counted, Locked, Pausing, Growing, queue, controls, adderVars, workerVars
  <2>5. AddersPaused' /\ WorkersPaused'
    BY <1>14, <2>1 DEF Resize, Goto, getNewQueueSize, TypeOK, LockHolder, OneResizer, AddersPaused, WorkersPaused,
         CountedAdders, Counted, Locked, Pausing, Growing, queue, controls, adderVars, workerVars
  <2> QED BY <2>2, <2>3, <2>4, <2>5
<1>15. ASSUME NEW a \in Adders, Resume(a) PROVE IInv'
  <2>1. CountedAdders' = CountedAdders
    BY <1>15 DEF Resume, Goto, CountedAdders, Counted, TypeOK
  <2>2. CountExact'
    BY <1>15, <2>1 DEF Resume, Goto, CountExact, controls
  <2>3. TypeOK'
    BY <1>15, ResizeAssumption DEF ResizeAssumption, Resume, Goto, TypeOK, Steps, Results, WorkerSteps,
         Counted, Locked, Pausing, Growing, queue, controls, adderVars, workerVars
  <2>4. LockHolder' /\ OneResizer'
    BY <1>15, ResizeAssumption DEF ResizeAssumption, Resume, Goto, TypeOK, LockHolder, OneResizer,
         Counted, Locked, Pausing, Growing, queue, controls, adderVars, workerVars
  <2>5. AddersPaused' /\ WorkersPaused'
    BY <1>15, <2>1 DEF Resume, Goto, TypeOK, LockHolder, OneResizer, AddersPaused, WorkersPaused,
         CountedAdders, Counted, Locked, Pausing, Growing, queue, controls, adderVars, workerVars
  <2> QED BY <2>2, <2>3, <2>4, <2>5
<1>16. ASSUME NEW a \in Adders, ResumeAdders(a) PROVE IInv'
  <2>1. a \notin CountedAdders /\ CountedAdders' = CountedAdders \cup {a}
    BY <1>16 DEF ResumeAdders, Woken, CountedAdders, Counted, TypeOK
  <2>2. CountExact'
    BY <1>16, <2>1, CountedCardinality DEF ResumeAdders, Woken, CountExact
  <2>6. pc' \in [Adders -> Steps]
    <3>1. \A b \in Adders : Woken(pc[b]) \in Steps
      BY DEF TypeOK, Woken, Steps
    <3>2. "add" \in Steps
      BY DEF Steps, Counted
    <3> QED BY <1>16, <3>1, <3>2 DEF ResumeAdders
  <2>7. addingCount' \in Nat
    BY <1>16 DEF ResumeAdders, TypeOK
  <2>8. resizing' \in BOOLEAN
    BY <1>16 DEF ResumeAdders
  <2>3. TypeOK'
    BY <1>16, <2>6, <2>7, <2>8 DEF ResumeAdders, TypeOK, queue, workerVars
  <2>4. LockHolder' /\ OneResizer'
    BY <1>16, ResizeAssumption DEF ResizeAssumption, ResumeAdders, Woken, TypeOK, LockHolder, OneResizer,
         Counted, Locked, Pausing, Growing, queue, controls, adderVars, workerVars
  <2>5. AddersPaused' /\ WorkersPaused'
    BY <1>16, <2>1 DEF ResumeAdders, Woken, TypeOK, LockHolder, OneResizer, AddersPaused, WorkersPaused,
         CountedAdders, Counted, Locked, Pausing, Growing, queue, controls, adderVars, workerVars
  <2> QED BY <2>2, <2>3, <2>4, <2>5
<1>17. ASSUME NEW a \in Adders, AddReturns(a) PROVE IInv'
  <2>1. CountedAdders' = CountedAdders
    BY <1>17 DEF AddReturns, Goto, CountedAdders, Counted, TypeOK
  <2>2. CountExact'
    BY <1>17, <2>1 DEF AddReturns, Goto, CountExact, controls
  <2>3. TypeOK'
    BY <1>17, ResizeAssumption DEF ResizeAssumption, AddReturns, Goto, TypeOK, Steps, Results, WorkerSteps,
         Counted, Locked, Pausing, Growing, queue, controls, adderVars, workerVars
  <2>4. LockHolder' /\ OneResizer'
    BY <1>17, ResizeAssumption DEF ResizeAssumption, AddReturns, Goto, TypeOK, LockHolder, OneResizer,
         Counted, Locked, Pausing, Growing, queue, controls, adderVars, workerVars
  <2>5. AddersPaused' /\ WorkersPaused'
    BY <1>17, <2>1 DEF AddReturns, Goto, TypeOK, LockHolder, OneResizer, AddersPaused, WorkersPaused,
         CountedAdders, Counted, Locked, Pausing, Growing, queue, controls, adderVars, workerVars
  <2> QED BY <2>2, <2>3, <2>4, <2>5
<1>18. ASSUME Start PROVE IInv'
  <2>1. CountedAdders' = CountedAdders
    BY <1>18 DEF Start, CountedAdders, adderVars
  <2>2. CountExact'
    BY <1>18, <2>1 DEF Start, CountExact, controls
  <2>3. TypeOK'
    BY <1>18, ResizeAssumption DEF ResizeAssumption, Start, TypeOK, Steps, Results, WorkerSteps,
         Counted, Locked, Pausing, Growing, queue, controls, adderVars, workerVars
  <2>4. LockHolder' /\ OneResizer'
    BY <1>18, ResizeAssumption DEF ResizeAssumption, Start, TypeOK, LockHolder, OneResizer,
         Counted, Locked, Pausing, Growing, queue, controls, adderVars, workerVars
  <2>5. AddersPaused' /\ WorkersPaused'
    BY <1>18, <2>1 DEF Start, TypeOK, LockHolder, OneResizer, AddersPaused, WorkersPaused,
         CountedAdders, Counted, Locked, Pausing, Growing, queue, controls, adderVars, workerVars
  <2> QED BY <2>2, <2>3, <2>4, <2>5
<1>19. ASSUME NEW w \in Workers, Look(w) PROVE IInv'
  <2>1. CountedAdders' = CountedAdders
    BY <1>19 DEF Look, CountedAdders, adderVars
  <2>2. CountExact'
    BY <1>19, <2>1 DEF Look, CountExact, controls
  <2>3. TypeOK'
    BY <1>19, ResizeAssumption DEF ResizeAssumption, Look, TypeOK, Steps, Results, WorkerSteps,
         Counted, Locked, Pausing, Growing, queue, controls, adderVars, workerVars
  <2>4. LockHolder' /\ OneResizer'
    BY <1>19, ResizeAssumption DEF ResizeAssumption, Look, TypeOK, LockHolder, OneResizer,
         Counted, Locked, Pausing, Growing, queue, controls, adderVars, workerVars
  <2>5. AddersPaused' /\ WorkersPaused'
    BY <1>19, <2>1 DEF Look, TypeOK, LockHolder, OneResizer, AddersPaused, WorkersPaused,
         CountedAdders, Counted, Locked, Pausing, Growing, queue, controls, adderVars, workerVars
  <2> QED BY <2>2, <2>3, <2>4, <2>5
<1>20. ASSUME NEW w \in Workers, DoWork(w) PROVE IInv'
  <2>1. CountedAdders' = CountedAdders
    BY <1>20 DEF DoWork, CountedAdders, adderVars
  <2>2. CountExact'
    BY <1>20, <2>1 DEF DoWork, CountExact, controls
  <2>3. TypeOK'
    BY <1>20, ResizeAssumption DEF ResizeAssumption, DoWork, TypeOK, Steps, Results, WorkerSteps,
         Counted, Locked, Pausing, Growing, queue, controls, adderVars, workerVars
  <2>4. LockHolder' /\ OneResizer'
    BY <1>20, ResizeAssumption DEF ResizeAssumption, DoWork, TypeOK, LockHolder, OneResizer,
         Counted, Locked, Pausing, Growing, queue, controls, adderVars, workerVars
  <2>5. AddersPaused' /\ WorkersPaused'
    BY <1>20, <2>1 DEF DoWork, TypeOK, LockHolder, OneResizer, AddersPaused, WorkersPaused,
         CountedAdders, Counted, Locked, Pausing, Growing, queue, controls, adderVars, workerVars
  <2> QED BY <2>2, <2>3, <2>4, <2>5
<1>21. CASE UNCHANGED vars
  BY <1>21 DEF vars, queue, controls, adderVars, workerVars, TypeOK, CountExact, CountedAdders, LockHolder, OneResizer,
       AddersPaused, WorkersPaused
<1> QED
  BY <1>1, <1>2, <1>3, <1>4, <1>5, <1>6, <1>7, <1>8, <1>9, <1>10, <1>11, <1>12, <1>13, <1>14, <1>15, <1>16, <1>17, <1>18, <1>19, <1>20, <1>21 DEF Next, AddStep, WorkStep

(* The inductive invariant holds in every reachable state. *)
THEOREM Invariance ==
  ASSUME ~StartWhileResizing
  PROVE  Spec => []IInv
<1>1. IInv /\ [Next]_vars => IInv'
  BY NextIInv
<1> QED BY InitIInv, <1>1, PTL DEF Spec

(* Every field keeps its type, addingCount never becomes negative. *)
THEOREM TypeCorrect ==
  ASSUME ~StartWhileResizing
  PROVE  Spec => []TypeOK
<1>1. IInv => TypeOK
  BY DEF IInv
<1> QED BY Invariance, <1>1, PTL

(* While the queue is being resized no other thread accesses it, for any   *)
(* number of producers and workers: the precondition of                    *)
(* ReaderWriterQueue::resize and SyncQueue::resize.                        *)
THEOREM ResizeIsExclusive ==
  ASSUME ~StartWhileResizing
  PROVE  Spec => []ResizeExclusive
<1>1. IInv => ResizeExclusive
  <2> SUFFICES ASSUME IInv, NEW a \in Adders, pc[a] = "resize"
               PROVE  /\ \A b \in Adders \ {a} : pc[b] \notin Accessing \cup Pausing \cup Growing
                      /\ \A w \in Workers : worker[w] # "working"
    BY DEF ResizeExclusive
  <2>1. CountedAdders = {}
    BY DEF IInv, AddersPaused, Growing
  <2>2. \A b \in Adders : pc[b] \notin Counted
    BY <2>1 DEF CountedAdders
  <2>3. \A b \in Adders : pc[b] \notin Locked
    BY DEF IInv, LockHolder, OneResizer, Growing
  <2>4. \A b \in Adders \ {a} : pc[b] \notin Pausing \cup Growing
    BY DEF IInv, OneResizer, Growing
  <2>5. \A w \in Workers : worker[w] # "working"
    BY DEF IInv, WorkersPaused
  <2> QED BY <2>2, <2>3, <2>4, <2>5 DEF Accessing, Counted, Locked
<1> QED BY Invariance, <1>1, PTL

(* A producer that found the queue full under the lock is the next to      *)
(* resize it: nobody else changes the size from then on.                   *)
THEOREM NoResizeIntervenes ==
  ASSUME ~StartWhileResizing
  PROVE  Spec => NoInterveningResize
<1>1. ASSUME IInv, [Next]_vars
      PROVE  [\A a \in Adders :
                pc[a] \in {"checkFullForResize"} \cup Pausing => size' = size]_vars
  <2>1. ASSUME NEW b \in Adders, Resize(b), NEW a \in Adders
        PROVE  pc[a] \notin {"checkFullForResize"} \cup Pausing
    BY <1>1, <2>1 DEF IInv, LockHolder, OneResizer, Resize, Locked, Pausing, Growing
  <2>2. CASE \E b \in Adders : Resize(b)
    BY <2>1, <2>2
  <2>3. CASE ~\E b \in Adders : Resize(b)
    <3>1. size' = size
      BY <1>1, <2>3 DEF Next, AddStep, WorkStep, vars, queue, CallAdd, WaitForResize, Add, TryAdd,
           CheckResizable, Spin, CheckFull, Recheck, AddLocked, CheckFullForResize, SpuriousWakeup,
           PauseAdders, Pause, WaitIdle, Resume, ResumeAdders, AddReturns, Start, Look, DoWork
    <3> QED BY <3>1
  <2> QED BY <2>2, <2>3
<1> QED BY Invariance, <1>1, PTL DEF Spec, NoInterveningResize
=============================================================================
