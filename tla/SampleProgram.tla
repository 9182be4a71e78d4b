--------------------------- MODULE SampleProgram ---------------------------
(***************************************************************************)
(* The sample program: adder threads that fill the queue of a processor,   *)
(* start it and wait for results; its workers with their removed counters  *)
(* and consumers; and the main thread, which counts what was consumed and  *)
(* terminates the processor.                                               *)
(*                                                                         *)
(* The processor is what the other modules establish: a FIFO queue that    *)
(* hands every entry to one worker, and workers that run from start() to   *)
(* the end of terminate(), which drains the queue.  What an entry holds    *)
(* besides the link to a receiver is left out.                             *)
(***************************************************************************)
EXTENDS ResultReceiver, Sequences, FiniteSetsExt

CONSTANTS
  Main,         \* the main thread
  N,            \* numWorkerThreads
  K,            \* the number of consumers
  count1, count2, count3, \* loops of testPopulate
  UIntMax

ASSUME SampleAssumption ==
  /\ N \in Nat \ {0} /\ K \in Nat \ {0}
  /\ {count1, count2, count3} \subseteq Nat \ {0}
  /\ UIntMax \in Nat
  /\ IsFiniteSet(Owners) /\ Main \notin Owners
  /\ None \notin Owners \cup {Main} \cup Nat

VARIABLES
  pc,      \* per adder and for main: the next step
  i,       \* per adder: the loop variable
  queue,   \* the entries: their links and what their result will be
  isRunning, stopping,
  wpc,     \* per worker: the next step of doWork
  hand,    \* per worker: the entry it handles
  loaded,  \* per worker: the value an increment has read
  removedCount,  \* per worker: entries removed since the last update
  statsRemoved,  \* QueueStats::removedCount
  reporter, cursor, swapped,  \* writeQueueStats: its caller, worker and the value taken
  count,   \* per consumer: entries handled since they were last counted
  totalExpected, rounds       \* main: entries not yet counted, and turns

addVars == <<pc, i>>
workVars == <<wpc, hand, loaded>>
statsVars == <<removedCount, statsRemoved, reporter, cursor, swapped>>
countVars == <<count, totalExpected, rounds>>
vars == <<receiver, addVars, queue, isRunning, stopping, workVars, statsVars, countVars>>

Workers == 1 .. N
Consumers == 1 .. K
PerAdder == count1 + 2 * count2 + count3
Total == Cardinality(Owners) * PerAdder

(* The entries, of two types that differ in data only: both have a holder, *)
(* which the second is never linked by.  What a worker holds otherwise is  *)
(* like an entry that is not linked.                                       *)
SampleQueueEntry1(linkedStatus, result) == [link |-> linkedStatus, result |-> result]
SampleQueueEntry2 == [link |-> None, result |-> None]
NoEntry == [link |-> None, result |-> None]

isLinked(entry) == entry.link # None

(* The constructor of QueueAccess: nothing removed yet. *)
NothingRemoved == [w \in Workers |-> 0]

(* The constructor of QueueProcessor: the last consumer is shared by the   *)
(* remaining workers.                                                      *)
consumerOf(w) == IF w < K THEN w ELSE K

Init ==
  /\ ReceiverInit
  /\ pc = [t \in Owners \cup {Main} |-> IF t = Main THEN "join" ELSE "fill"]
  /\ i = [o \in Owners |-> 1]
  /\ queue = <<>>
  /\ isRunning = FALSE /\ stopping = FALSE
  /\ wpc = [w \in Workers |-> "remove"]
  /\ hand = [w \in Workers |-> NoEntry]
  /\ loaded = [w \in Workers |-> 0]
  /\ removedCount = NothingRemoved
  /\ statsRemoved = 0
  /\ reporter = None /\ cursor = 1 /\ swapped = None
  /\ count = [k \in Consumers |-> 0]
  /\ totalExpected = Total
  /\ rounds = 0

Goto(t, step) == pc' = [pc EXCEPT ![t] = step]
Work(w, step) == wpc' = [wpc EXCEPT ![w] = step]

(* Mutant of Loop: a turn too many. *)
LoopOnceMore(o, n, step, after) ==
  IF i[o] <= n
  THEN Goto(o, step) /\ i' = [i EXCEPT ![o] = @ + 1]
  ELSE Goto(o, after) /\ i' = [i EXCEPT ![o] = 1]

(* A turn of a loop of testPopulate that runs while i <= n. *)
Loop(o, n, step, after) ==
  IF i[o] < n
  THEN Goto(o, step) /\ i' = [i EXCEPT ![o] = @ + 1]
  ELSE Goto(o, after) /\ i' = [i EXCEPT ![o] = 1]

-----------------------------------------------------------------------------
(* testPopulate                                                            *)

(* More than the queue can hold at first, before the processor is started. *)
Fill(o) ==
  /\ pc[o] = "fill"
  /\ queue' = Append(queue, SampleQueueEntry1(None, None))
  /\ Loop(o, count1, "fill", "report1")
  /\ UNCHANGED <<receiver, isRunning, stopping, workVars, statsVars, countVars>>

Start(o) ==
  /\ pc[o] = "start"
  /\ isRunning' = TRUE
  /\ Goto(o, "quick")
  /\ UNCHANGED <<receiver, i, queue, stopping, workVars, statsVars, countVars>>

(* Two entries a turn, without results. *)
Quick(o) ==
  /\ \/ /\ pc[o] = "quick"
        /\ queue' = Append(queue, SampleQueueEntry1(None, None))
        /\ Goto(o, "quick2")
        /\ UNCHANGED i
     \/ /\ pc[o] = "quick2"
        /\ queue' = Append(queue, SampleQueueEntry2)
        /\ Loop(o, count2, "quick", "add")
  /\ UNCHANGED <<receiver, isRunning, stopping, workVars, statsVars, countVars>>

(* Each turn has a receiver of its own, a local variable.  The result of   *)
(* an entry is told apart by the turn it belongs to.                       *)
AddLinked(o) ==
  /\ pc[o] = "add"
  /\ Construct(o)
  /\ queue' = Append(queue, SampleQueueEntry1(o, i[o]))
  /\ Goto(o, "getValue")
  /\ UNCHANGED <<i, isRunning, stopping, workVars, statsVars, countVars>>

GetValue(o) ==
  /\ pc[o] = "getValue"
  /\ Goto(o, IF isPopulated(o) THEN "return" ELSE "await")
  /\ UNCHANGED <<receiver, i, queue, isRunning, stopping, workVars, statsVars, countVars>>

AwaitValue(o) ==
  /\ pc[o] = "await"
  /\ Await(o)
  /\ Goto(o, "awaiting")
  /\ UNCHANGED <<i, queue, isRunning, stopping, workVars, statsVars, countVars>>

AwaitEnds(o) ==
  /\ pc[o] = "awaiting"
  /\ Awaited(o)
  /\ Goto(o, "return")
  /\ UNCHANGED <<receiver, i, queue, isRunning, stopping, workVars, statsVars, countVars>>

(* The value is copied, and the receiver destroyed at the end of the turn, *)
(* whether or not setPopulated has returned.                               *)
GetValueReturns(o) ==
  /\ pc[o] = "return"
  /\ Destroy(o)
  /\ Loop(o, count3, "add", "report2")
  /\ UNCHANGED <<queue, isRunning, stopping, workVars, statsVars, countVars>>

-----------------------------------------------------------------------------
(* writeQueueStats, by an adder or by main: under workerLock every         *)
(* worker's counter is taken by a swap, set to 0 once more by the release  *)
(* of a lock it is not, and added to the statistics.                       *)

(* Mutant of incrementRemovedCount: a store instead of an addition. *)
storeRemovedCount(increment) == statsRemoved' = increment

(* An atomic addition. *)
incrementRemovedCount(increment) == statsRemoved' = statsRemoved + increment

AfterReport(t) ==
  CASE pc[t] = "report1" -> "start"
    [] pc[t] = "report2" -> "done"
    [] pc[t] = "report" -> "terminate"

ReportSwap(t) ==
  /\ pc[t] \in {"report1", "report2", "report"}
  /\ reporter \in {None, t} /\ swapped = None
  /\ reporter' = t
  /\ swapped' = removedCount[cursor]
  /\ removedCount' = [removedCount EXCEPT ![cursor] = 0]
  /\ UNCHANGED <<receiver, addVars, queue, isRunning, stopping, workVars, statsRemoved, cursor, countVars>>

ReportAdd(t) ==
  /\ reporter = t /\ swapped # None
  /\ removedCount' = [removedCount EXCEPT ![cursor] = 0]
  /\ incrementRemovedCount(swapped)
  /\ swapped' = None
  /\ IF cursor = N
     THEN cursor' = 1 /\ reporter' = None /\ Goto(t, AfterReport(t))
     ELSE cursor' = cursor + 1 /\ UNCHANGED <<reporter, pc>>
  /\ UNCHANGED <<receiver, i, queue, isRunning, stopping, workVars, countVars>>

-----------------------------------------------------------------------------
(* QueueConsumerWorker::doWork                                             *)

(* remove, and the read half of removedCount++. *)
Remove(w) ==
  /\ wpc[w] = "remove"
  /\ isRunning /\ queue # <<>>
  /\ hand' = [hand EXCEPT ![w] = Head(queue)]
  /\ queue' = Tail(queue)
  /\ loaded' = [loaded EXCEPT ![w] = removedCount[w]]
  /\ Work(w, "storeRemoved")
  /\ UNCHANGED <<receiver, addVars, isRunning, stopping, statsVars, countVars>>

(* handle: the status of an entry that is not linked goes nowhere. *)
StoreRemoved(w) ==
  /\ wpc[w] = "storeRemoved"
  /\ removedCount' = [removedCount EXCEPT ![w] = loaded[w] + 1]
  /\ loaded' = [loaded EXCEPT ![w] = 0]
  /\ Work(w, IF isLinked(hand[w]) THEN "setValue" ELSE "loadCount")
  /\ UNCHANGED <<receiver, addVars, queue, isRunning, stopping, hand, statsRemoved,
                 reporter, cursor, swapped, countVars>>

(* setStatus, setValue of the holder: the value, setPopulated, and the     *)
(* holder is not linked any more.                                          *)
SetStatus(w) ==
  /\ isLinked(hand[w])
  /\ \/ wpc[w] = "setValue" /\ setValue(hand[w].link, hand[w].result) /\ Work(w, "setFlag")
        /\ UNCHANGED hand
     \/ wpc[w] = "setFlag" /\ SetFlag(hand[w].link) /\ Work(w, "signal") /\ UNCHANGED hand
     \/ /\ wpc[w] = "signal"
        /\ SignalPopulated(hand[w].link)
        /\ hand' = [hand EXCEPT ![w] = NoEntry]
        /\ Work(w, "loadCount")
  /\ UNCHANGED <<addVars, queue, isRunning, stopping, loaded, statsVars, countVars>>

LoadCount(w) ==
  /\ wpc[w] = "loadCount"
  /\ loaded' = [loaded EXCEPT ![w] = count[consumerOf(w)]]
  /\ Work(w, "storeCount")
  /\ UNCHANGED <<receiver, addVars, queue, isRunning, stopping, hand, statsVars, countVars>>

StoreCount(w) ==
  /\ wpc[w] = "storeCount"
  /\ count' = [count EXCEPT ![consumerOf(w)] = loaded[w] + 1]
  /\ loaded' = [loaded EXCEPT ![w] = 0]
  /\ Work(w, "remove")
  /\ UNCHANGED <<receiver, addVars, queue, isRunning, stopping, hand, statsVars, totalExpected, rounds>>

(* finalize: the last update of the statistics. *)
Finalize(w) ==
  /\ wpc[w] = "remove"
  /\ stopping /\ queue = <<>>
  /\ removedCount' = [removedCount EXCEPT ![w] = 0]
  /\ incrementRemovedCount(removedCount[w])
  /\ Work(w, "dead")
  /\ UNCHANGED <<receiver, addVars, queue, isRunning, stopping, hand, loaded, reporter, cursor,
                 swapped, countVars>>

-----------------------------------------------------------------------------
(* main                                                                    *)

JoinAdders ==
  /\ pc[Main] = "join"
  /\ \A o \in Owners : pc[o] = "done"
  /\ Goto(Main, "sleep")
  /\ UNCHANGED <<receiver, i, queue, isRunning, stopping, workVars, statsVars, countVars>>

(* Sleep a second and count, while entries are missing, three times. *)
Sleep ==
  /\ pc[Main] = "sleep"
  /\ rounds' = IF totalExpected > 0 THEN rounds + 1 ELSE rounds
  /\ Goto(Main, IF totalExpected > 0 /\ rounds < 3 THEN "count" ELSE "report")
  /\ cursor' = IF totalExpected > 0 /\ rounds < 3 THEN K ELSE 1
  /\ UNCHANGED <<receiver, i, queue, isRunning, stopping, workVars, removedCount, statsRemoved,
                 reporter, swapped, count, totalExpected>>

(* Mutant of TakeCount: what was counted is not taken. *)
TakeCountNot(k) == UNCHANGED count

(* An atomic swap. *)
TakeCount(k) == count' = [count EXCEPT ![k] = 0]

(* From the last consumer to the first; an unsigned subtraction. *)
CountConsumed ==
  /\ pc[Main] = "count"
  /\ TakeCount(cursor)
  /\ totalExpected' = (totalExpected + UIntMax + 1 - count[cursor]) % (UIntMax + 1)
  /\ cursor' = IF cursor = 1 THEN 1 ELSE cursor - 1
  /\ Goto(Main, IF cursor = 1 THEN "sleep" ELSE "count")
  /\ UNCHANGED <<receiver, i, queue, isRunning, stopping, workVars, removedCount, statsRemoved,
                 reporter, swapped, rounds>>

Terminate ==
  /\ pc[Main] = "terminate"
  /\ stopping' = TRUE
  /\ Goto(Main, "joinWorkers")
  /\ UNCHANGED <<receiver, i, queue, isRunning, workVars, statsVars, countVars>>

JoinWorkers ==
  /\ pc[Main] = "joinWorkers"
  /\ \A w \in Workers : wpc[w] = "dead"
  /\ Goto(Main, "done")
  /\ UNCHANGED <<receiver, i, queue, isRunning, stopping, workVars, statsVars, countVars>>

(* The program has returned from main. *)
Ended == pc[Main] = "done" /\ UNCHANGED vars

-----------------------------------------------------------------------------
Report(t) == ReportSwap(t) \/ ReportAdd(t)

AdderStep(o) ==
  \/ Fill(o) \/ Start(o) \/ Quick(o) \/ AddLinked(o) \/ GetValue(o) \/ AwaitValue(o)
  \/ AwaitEnds(o) \/ GetValueReturns(o) \/ Report(o)

WorkerStep(w) ==
  \/ Remove(w) \/ StoreRemoved(w) \/ SetStatus(w) \/ LoadCount(w) \/ StoreCount(w) \/ Finalize(w)

MainStep ==
  \/ JoinAdders \/ Sleep \/ CountConsumed \/ Report(Main) \/ Terminate \/ JoinWorkers

Next ==
  \/ \E o \in Owners : AdderStep(o)
  \/ \E w \in Workers : WorkerStep(w)
  \/ MainStep
  \/ Ended

Spec == Init /\ [][Next]_vars

(* Every thread runs.  Main and the adders wait only for what others do,   *)
(* and a worker at "remove" only for an entry or the end.                  *)
FairSpec ==
  /\ Spec
  /\ \A o \in Owners : WF_vars(AdderStep(o))
  /\ \A w \in Workers : WF_vars(WorkerStep(w))
  /\ WF_vars(MainStep)

-----------------------------------------------------------------------------
(* Properties                                                              *)

Busy(steps) == Cardinality({w \in Workers : wpc[w] \in steps})

(* A worker holds an entry that its consumer has not counted. *)
InHand == {"storeRemoved", "setValue", "setFlag", "signal", "loadCount", "storeCount"}

(* Types.  A value that is handed over belongs to a turn, and the loops of *)
(* main and of writeQueueStats stay within their bounds.                   *)
TypeOK ==
  /\ receiver \in [Owners -> [alive : BOOLEAN, populated : BOOLEAN,
                             value : (1 .. count3) \cup {None},
                             waiting : BOOLEAN, lock : BOOLEAN]]
  /\ removedCount \in [Workers -> Nat]
  /\ statsRemoved \in Nat
  /\ count \in [Consumers -> Nat]
  /\ totalExpected \in Nat
  /\ rounds \in 0 .. 4 /\ cursor \in 1 .. (IF N < K THEN K ELSE N)
  /\ reporter \in Owners \cup {Main, None}

(* What an adder has still to add. *)
ToAdd(o) ==
  CASE pc[o] = "fill" -> PerAdder - (i[o] - 1)
    [] pc[o] \in {"report1", "start"} -> PerAdder - count1
    [] pc[o] = "quick" -> 2 * (count2 - i[o] + 1) + count3
    [] pc[o] = "quick2" -> 2 * (count2 - i[o]) + 1 + count3
    [] pc[o] = "add" -> count3 - i[o] + 1
    [] pc[o] \in {"getValue", "await", "awaiting", "return"} -> count3 - i[o]
    [] OTHER -> 0

StillToAdd == SumFunction([o \in Owners |-> ToAdd(o)])

(* getValue looks at isPopulatedFlag first without the lock, then with it, *)
(* and waits once: while it waits, the entry of this very turn is queued   *)
(* or with a worker, which is still going to signal, whatever late signals *)
(* and early returns there were in earlier turns.                          *)
NoLostWakeup ==
  \A o \in Owners : receiver[o].waiting =>
     \/ \E n \in 1 .. Len(queue) : queue[n] = SampleQueueEntry1(o, i[o])
     \/ \E w \in Workers : hand[w] = SampleQueueEntry1(o, i[o])

(* However results, signals and counts race, the program ends: no adder    *)
(* waits for ever in getValue or for workerLock, and terminate() joins     *)
(* workers that have emptied the queue.                                    *)
ProgramEnds == <>(pc[Main] = "done")

-----------------------------------------------------------------------------
(* Three comments of the repository promise what the code does not keep;   *)
(* each time the promise is kept as long as one race does not happen.      *)

(* "This function will wait for the returned value to be populated by      *)
(* consumers before returning": getValue returns the result of the entry   *)
(* of this turn, never the initial STATUS_UNKNOWN and never that of        *)
(* another turn.                                                           *)
ResultDelivered ==
  \A o \in Owners : pc[o] = "return" => receiver[o].populated /\ receiver[o].value = i[o]

(* No receiver is destroyed between the flag of setPopulated, which lets   *)
(* the owner return, and its signal.                                       *)
SignalsInTime ==
  \A w \in Workers : wpc[w] = "signal" =>
     receiver[hand[w].link].alive /\ i[hand[w].link] = hand[w].result

(* A late signal, which ends the unlooped wait of a later turn, is all     *)
(* that can make getValue return something else than its result.           *)
ResultsUnlessLate == []SignalsInTime => []ResultDelivered

(* "we do an atomic swap so that calls to incrementRemovedCount require no *)
(* synchronization": reporting clients, and workers when they die, neither *)
(* lose nor repeat an entry in the statistics.  Removed are the entries    *)
(* that are no longer to be added nor queued.                              *)
StatsExact ==
  /\ statsRemoved + SumFunction(removedCount) + (IF swapped = None THEN 0 ELSE swapped)
     = Total - StillToAdd - Len(queue) - Busy({"storeRemoved"})
  /\ pc[Main] = "done" => statsRemoved = Total

(* No increment of a removed counter is under way between the swap of this *)
(* counter and its second reset.                                           *)
Untorn == swapped # None => wpc[cursor] # "storeRemoved"

(* An increment that meets a swap is all that can make the statistics      *)
(* wrong, whether or not consumers are shared.                             *)
StatsUnlessTorn == []Untorn => []StatsExact

(* "we are using one of these consumers per worker, so no need for         *)
(* thread-safety": main is right about what is missing, while workers and  *)
(* adders run on.  It is counted by a consumer since the last turn, with a *)
(* worker, queued or still to be added.                                    *)
CountsExact == totalExpected = SumFunction(count) + Busy(InHand) + Len(queue) + StillToAdd

(* No two workers increment the counter of the same consumer at a time,    *)
(* and none does while main takes it.                                      *)
Unshared ==
  /\ \A v, w \in Workers :
       wpc[v] = "storeCount" /\ wpc[w] = "storeCount" /\ consumerOf(v) = consumerOf(w) => v = w
  /\ pc[Main] = "count" => \A w \in Workers : consumerOf(w) = cursor => wpc[w] # "storeCount"

(* Increments that meet are all that can make main miscount; its unsigned  *)
(* subtraction does not wrap around then.                                  *)
CountsUnlessShared == []Unshared => []CountsExact

(* In every run of the program at least one of the three promises is kept. *)
SomePromiseKept == []ResultDelivered \/ []StatsExact \/ []CountsExact
=============================================================================
