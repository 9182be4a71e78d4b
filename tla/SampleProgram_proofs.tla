------------------------ MODULE SampleProgram_proofs ------------------------
(***************************************************************************)
(* Proofs about SampleProgram.                                             *)
(*                                                                         *)
(* Base says where the threads are, and Wakeups that who waits is going to *)
(* be signalled, whatever races there are.  HandOver follows a result from *)
(* the entry to the adder that waits for it, in behaviours in which        *)
(* signals are in time.  StatsInv and CountInv are the bookkeeping of the  *)
(* statistics and of main, in behaviours without the race that disturbs    *)
(* each.  The sums over workers, consumers and adders are SumFunction of   *)
(* the module Functions; what is needed of it is proved first, by          *)
(* induction over the subsets of a finite set.                             *)
(***************************************************************************)
EXTENDS SampleProgram, FiniteSetTheorems, TLAPS

-----------------------------------------------------------------------------
(* Sums over a finite set.                                                 *)

(* A set of natural numbers has a least element.                           *)
LEMMA LeastNatural ==
  ASSUME NEW S \in SUBSET Nat, S # {}
  PROVE  \E m \in S : \A n \in S : m <= n
<1>1. \E m \in S : \A n \in S : ~(<<n, m>> \in OpToRel(<, Nat))
  BY NatLessThanWellFounded, WFMin, Zenon
<1>2. \A m, n \in Nat : n < m => <<n, m>> \in OpToRel(<, Nat)
  BY DEF OpToRel
<1>3. \A m, n \in Nat : ~(n < m) => m <= n
  OBVIOUS
<1> QED BY <1>1, <1>2, <1>3, Zenon

(* The element by which Folds makes a set smaller.                         *)
Some(s) == CHOOSE x \in s : TRUE

(* Induction over the subsets of a finite set, from a subset without one   *)
(* of its elements.                                                        *)
LEMMA SubsetInduction ==
  ASSUME NEW S, IsFiniteSet(S), NEW T, {} \in T,
         \A s \in SUBSET S : s # {} /\ s \ {Some(s)} \in T => s \in T
  PROVE  \A s \in SUBSET S : s \in T
<1> DEFINE Bad == {n \in Nat : \E s \in SUBSET S : s \notin T /\ Cardinality(s) = n}
<1>1. \A s \in SUBSET S : IsFiniteSet(s) /\ Cardinality(s) \in Nat
  BY FS_Subset, FS_CardinalityType
<1>2. SUFFICES ASSUME Bad # {} PROVE FALSE
  BY <1>1
<1>3. PICK m \in Bad : \A n \in Bad : m <= n
  BY <1>2, LeastNatural
<1>4. PICK s \in SUBSET S : s \notin T /\ Cardinality(s) = m
  OBVIOUS
<1>5. s # {} /\ Some(s) \in s
  BY <1>4 DEF Some
<1>6. s \ {Some(s)} \in SUBSET S /\ Cardinality(s \ {Some(s)}) = m - 1 /\ m - 1 \in Nat
  <2>1. IsFiniteSet(s) /\ Cardinality(s) \in Nat
    BY <1>1
  <2>2. Cardinality(s \ {Some(s)}) = Cardinality(s) - 1
    BY <1>5, <2>1, FS_RemoveElement
  <2>3. Cardinality(s) # 0
    BY <1>5, <2>1, FS_EmptySet
  <2> QED BY <1>4, <2>1, <2>2, <2>3
<1>7. s \ {Some(s)} \notin T
  BY <1>4, <1>5
<1>8. m - 1 \in Bad
  BY <1>6, <1>7
<1> QED BY <1>3, <1>8

(* The recursive function that Folds defines, of the sum of f over subsets *)
(* of S, and the subsets with at most n elements.                          *)
Body(f, g, s) == IF s = {} THEN 0 ELSE f[Some(s)] + g[s \ {Some(s)}]
Small(S, n) == {s \in SUBSET S : Cardinality(s) <= n}
IsIter(f, S, g) == g = [s \in SUBSET S |-> Body(f, g, s)]

(* The recursive function that Folds defines over the subsets of a finite  *)
(* set exists: there is one for the subsets of every size.                 *)
LEMMA IterExists ==
  ASSUME NEW S, IsFiniteSet(S), NEW f
  PROVE  \E g : IsIter(f, S, g)
<1> DEFINE Bad == {n \in Nat : ~ \E g : g = [s \in Small(S, n) |-> Body(f, g, s)]}
<1>0. \A s \in SUBSET S : IsFiniteSet(s) /\ Cardinality(s) \in Nat
  BY FS_Subset, FS_CardinalityType
<1>1. ASSUME NEW n \in Nat, NEW g, g = [s \in Small(S, n) |-> Body(f, g, s)]
      PROVE  \E h : h = [s \in Small(S, n + 1) |-> Body(f, h, s)]
  <2> DEFINE h == [s \in Small(S, n + 1) |-> IF s \in Small(S, n) THEN g[s] ELSE Body(f, g, s)]
  <2>1. ASSUME NEW s \in Small(S, n + 1) PROVE h[s] = Body(f, h, s)
    <3>1. CASE s = {}
      <4>1. s \in Small(S, n)
        BY <3>1, FS_EmptySet DEF Small
      <4> QED BY <1>1, <3>1, <4>1 DEF Body
    <3>2. CASE s # {}
      <4>1. Some(s) \in s
        BY <3>2 DEF Some
      <4>2. /\ s \ {Some(s)} \in Small(S, n) /\ s \ {Some(s)} \in Small(S, n + 1)
        <5>1. Cardinality(s \ {Some(s)}) = Cardinality(s) - 1
          BY <1>0, <4>1, FS_RemoveElement DEF Small
        <5> QED BY <1>0, <5>1 DEF Small
      <4>3. h[s \ {Some(s)}] = g[s \ {Some(s)}]
        BY <4>2
      <4>4. Body(f, h, s) = Body(f, g, s)
        BY <4>3 DEF Body
      <4>5. h[s] = Body(f, g, s)
        BY <1>1
      <4> QED BY <4>4, <4>5
    <3> QED BY <3>1, <3>2
  <2>2. h = [s \in Small(S, n + 1) |-> Body(f, h, s)]
    BY <2>1
  <2> QED BY <2>2
<1>2. 0 \notin Bad
  <2>1. \A s \in Small(S, 0) : s = {}
    BY <1>0, FS_EmptySet DEF Small
  <2> DEFINE g == [s \in Small(S, 0) |-> 0]
  <2>2. g = [s \in Small(S, 0) |-> Body(f, g, s)]
    BY <2>1 DEF Body
  <2> QED BY <2>2
<1>3. Bad = {}
  <2>1. SUFFICES ASSUME Bad # {} PROVE FALSE
    OBVIOUS
  <2>2. PICK m \in Bad : \A n \in Bad : m <= n
    BY <2>1, LeastNatural
  <2>3. m \in Nat /\ m # 0
    BY <1>2
  <2>4. m - 1 \in Nat /\ m - 1 \notin Bad /\ m - 1 + 1 = m
    BY <2>2, <2>3
  <2>5. \E g : g = [s \in Small(S, m - 1) |-> Body(f, g, s)]
    BY <2>4
  <2>6. \E h : h = [s \in Small(S, m - 1 + 1) |-> Body(f, h, s)]
    BY <1>1, <2>4, <2>5
  <2>7. m \notin Bad
    BY <2>4, <2>6
  <2> QED BY <2>7
<1>4. Cardinality(S) \in Nat /\ Small(S, Cardinality(S)) = SUBSET S
  <2>1. \A s \in SUBSET S : Cardinality(s) <= Cardinality(S)
    BY FS_Subset
  <2> QED BY <2>1, FS_CardinalityType DEF Small
<1>5. \E g : g = [s \in Small(S, Cardinality(S)) |-> Body(f, g, s)]
  BY <1>3, <1>4
<1> HIDE DEF Bad
<1> QED BY <1>4, <1>5, Zenon DEF IsIter

(* The function itself.                                                    *)
Iter(f, S) == CHOOSE g : IsIter(f, S, g)

(* SumFunction is the last value of that function.                         *)
LEMMA SumIsIter ==
  ASSUME NEW f
  PROVE  SumFunction(f) = Iter(f, DOMAIN f)[DOMAIN f]
BY Zenon DEF SumFunction, SumFunctionOnSet, FoldFunctionOnSet, MapThenFoldSet, Iter, IsIter, Body,
             Some

(* The sum of f over a subset of its domain.                               *)
Part(f, s) == Iter(f, DOMAIN f)[s]

(* The sum over a subset, one element at a time.                           *)
LEMMA PartIs ==
  ASSUME NEW S, IsFiniteSet(S), NEW f \in [S -> Nat]
  PROVE  /\ Part(f, {}) = 0
         /\ \A s \in SUBSET S : s # {} => Part(f, s) = f[Some(s)] + Part(f, s \ {Some(s)})
<1>1. DOMAIN f = S
  OBVIOUS
<1>2. Iter(f, S) = [s \in SUBSET S |-> Body(f, Iter(f, S), s)]
  <2>1. \E g : IsIter(f, S, g)
    BY IterExists
  <2>2. IsIter(f, S, Iter(f, S))
    BY <2>1, Zenon DEF Iter
  <2> QED BY <2>2, Zenon DEF IsIter
<1> DEFINE g == Iter(f, S)
<1> HIDE DEF g
<1>3. \A s \in SUBSET S : g[s] = Body(f, g, s)
  BY <1>2, Zenon DEF g
<1> QED BY <1>1, <1>3 DEF Body, g, Part

(* A sum of natural numbers is one.                                        *)
LEMMA SumType ==
  ASSUME NEW S, IsFiniteSet(S), NEW f \in [S -> Nat]
  PROVE  SumFunction(f) \in Nat
<1> DEFINE T == {s \in SUBSET S : Part(f, s) \in Nat}
<1>1. {} \in T
  BY PartIs
<1>2. ASSUME NEW s \in SUBSET S, s # {} /\ s \ {Some(s)} \in T PROVE s \in T
  <2>1. Some(s) \in s
    BY <1>2 DEF Some
  <2> QED BY <1>2, <2>1, PartIs
<1> HIDE DEF T
<1>3. \A s \in SUBSET S : s \in T
  BY <1>1, <1>2, SubsetInduction
<1>4. S \in T
  BY <1>3
<1> QED BY <1>4, SumIsIter DEF T, Part

(* Two functions that differ at one point have sums that differ as much.   *)
LEMMA SumPoint ==
  ASSUME NEW S, IsFiniteSet(S), NEW f \in [S -> Nat], NEW g \in [S -> Nat], NEW x \in S,
         \A y \in S : y # x => g[y] = f[y]
  PROVE  SumFunction(g) + f[x] = SumFunction(f) + g[x]
<1> DEFINE T == {s \in SUBSET S : /\ Part(f, s) \in Nat /\ Part(g, s) \in Nat
                                  /\ x \in s => Part(g, s) + f[x] = Part(f, s) + g[x]
                                  /\ x \notin s => Part(g, s) = Part(f, s)}
<1>1. {} \in T
  BY PartIs
<1>2. ASSUME NEW s \in SUBSET S, s # {} /\ s \ {Some(s)} \in T PROVE s \in T
  <2>1. Some(s) \in s
    BY <1>2 DEF Some
  <2>2. /\ Part(f, s) = f[Some(s)] + Part(f, s \ {Some(s)})
        /\ Part(g, s) = g[Some(s)] + Part(g, s \ {Some(s)})
    BY <1>2, PartIs
  <2> QED BY <1>2, <2>1, <2>2
<1> HIDE DEF T
<1>3. \A s \in SUBSET S : s \in T
  BY <1>1, <1>2, SubsetInduction
<1>4. S \in T
  BY <1>3
<1> QED BY <1>4, SumIsIter DEF T, Part

(* The sum of a constant function.                                         *)
LEMMA SumConstant ==
  ASSUME NEW S, IsFiniteSet(S), NEW f \in [S -> Nat], NEW c \in Nat, \A x \in S : f[x] = c
  PROVE  SumFunction(f) = Cardinality(S) * c
<1> DEFINE T == {s \in SUBSET S : Part(f, s) = Cardinality(s) * c}
<1>1. {} \in T
  BY PartIs, FS_EmptySet
<1>2. ASSUME NEW s \in SUBSET S, s # {} /\ s \ {Some(s)} \in T PROVE s \in T
  <2>1. Some(s) \in s
    BY <1>2 DEF Some
  <2>2. Part(f, s) = c + Part(f, s \ {Some(s)})
    BY <1>2, <2>1, PartIs
  <2>3. IsFiniteSet(s) /\ Cardinality(s) \in Nat
    BY FS_Subset, FS_CardinalityType
  <2>4. Cardinality(s \ {Some(s)}) = Cardinality(s) - 1
    BY <2>1, <2>3, FS_RemoveElement
  <2>5. Part(f, s) = c + (Cardinality(s) - 1) * c
    BY <1>2, <2>2, <2>4
  <2>6. c + (Cardinality(s) - 1) * c = Cardinality(s) * c
    BY <2>3
  <2> QED BY <2>5, <2>6
<1> HIDE DEF T
<1>3. \A s \in SUBSET S : s \in T
  BY <1>1, <1>2, SubsetInduction
<1>4. S \in T
  BY <1>3
<1> QED BY <1>4, SumIsIter DEF T, Part
-----------------------------------------------------------------------------
(* The steps of the threads, and which of them belong together.            *)

Turn == {"getValue", "await", "awaiting", "return"}
AdderSteps == {"fill", "report1", "start", "quick", "quick2", "add", "report2", "done"} \cup Turn
MainSteps == {"join", "sleep", "count", "report", "terminate", "joinWorkers", "done"}
WorkerSteps == InHand \cup {"remove", "dead"}

Entries == [link : Owners \cup {None}, result : (1 .. count3) \cup {None}]
Receivers == [alive : BOOLEAN, populated : BOOLEAN, value : (1 .. count3) \cup {None},
              waiting : BOOLEAN, lock : BOOLEAN]

-----------------------------------------------------------------------------
(* What holds of the threads whatever races there are.                     *)

AdderTypes ==
  /\ pc \in [Owners \cup {Main} -> AdderSteps \cup MainSteps]
  /\ i \in [Owners -> Nat]

EntryTypes ==
  /\ queue \in Seq(Entries)
  /\ hand \in [Workers -> Entries]

WorkerTypes ==
  /\ wpc \in [Workers -> WorkerSteps]
  /\ loaded \in [Workers -> Nat]

StatsTypes ==
  /\ removedCount \in [Workers -> Nat]
  /\ statsRemoved \in Nat
  /\ swapped \in Nat \cup {None}

CountTypes ==
  /\ count \in [Consumers -> Nat]
  /\ totalExpected \in Nat

ControlTypes ==
  /\ isRunning \in BOOLEAN /\ stopping \in BOOLEAN
  /\ reporter \in Owners \cup {Main, None}
  /\ cursor \in Nat
  /\ rounds \in 0 .. 4

Types ==
  /\ receiver \in [Owners -> Receivers]
  /\ AdderTypes /\ EntryTypes /\ WorkerTypes /\ StatsTypes /\ CountTypes /\ ControlTypes

(* Where the loops of an adder are, and main.                              *)
Turns ==
  /\ pc[Main] \in MainSteps
  /\ pc[Main] \in {"join", "sleep", "count"} => rounds <= 3
  /\ \A o \in Owners :
       /\ pc[o] \in AdderSteps
       /\ i[o] >= 1
       /\ pc[o] = "fill" => i[o] <= count1
       /\ pc[o] \in {"report1", "start"} => i[o] = 1
       /\ pc[o] \in {"quick", "quick2"} => i[o] <= count2
       /\ pc[o] \in {"add"} \cup Turn => i[o] <= count3
       /\ pc[Main] # "join" => pc[o] = "done"

(* One client at a time is in writeQueueStats; main's loop over the        *)
(* consumers uses the same cursor, at a time when nobody is.               *)
Reports ==
  /\ reporter # None => pc[reporter] \in {"report1", "report2", "report"} /\ cursor \in Workers
  /\ reporter = None => swapped = None
  /\ reporter = None /\ pc[Main] # "count" => cursor = 1
  /\ pc[Main] = "count" => cursor \in Consumers

Base == Types /\ Turns /\ Reports

-----------------------------------------------------------------------------
(* The entry of an owner's turn is queued, or with a worker in one of some *)
(* steps.                                                                  *)
Coming(o, steps) ==
  \/ \E n \in 1 .. Len(queue) : queue[n] = SampleQueueEntry1(o, i[o])
  \/ \E w \in Workers : hand[w] = SampleQueueEntry1(o, i[o]) /\ wpc[w] \in steps

(* Until it is populated the receiver of a turn has its entry to come, and *)
(* while the owner waits the signal.                                       *)
Wakeups ==
  \A o \in Owners :
    /\ receiver[o].waiting => pc[o] = "awaiting"
    /\ pc[o] \in {"getValue", "await"} /\ ~receiver[o].populated =>
         Coming(o, {"storeRemoved", "setValue", "setFlag"})
    /\ receiver[o].waiting => Coming(o, {"storeRemoved", "setValue", "setFlag", "signal"})

-----------------------------------------------------------------------------
(* The hand-over of results, with signals in time.                         *)

Queued(o) == \E n \in 1 .. Len(queue) : queue[n].link = o
Held(o) == \E w \in Workers : hand[w].link = o

(* A receiver has at most one entry that is linked to it.                  *)
LinkedOnce ==
  /\ \A m, n \in 1 .. Len(queue) : isLinked(queue[m]) /\ queue[m].link = queue[n].link => m = n
  /\ \A n \in 1 .. Len(queue), w \in Workers : isLinked(hand[w]) => queue[n].link # hand[w].link
  /\ \A v, w \in Workers : isLinked(hand[v]) /\ hand[v].link = hand[w].link => v = w

(* The receiver of an entry that is queued, or removed and not yet handled.*)
Expecting(e) ==
  /\ pc[e.link] \in Turn /\ e.result = i[e.link]
  /\ receiver[e.link].alive
  /\ ~receiver[e.link].populated /\ ~receiver[e.link].lock

(* While setPopulated runs, after the flag is set.                         *)
Signalling(e) ==
  /\ pc[e.link] \in Turn /\ e.result = i[e.link]
  /\ receiver[e.link].alive /\ receiver[e.link].value = e.result
  /\ receiver[e.link].populated /\ receiver[e.link].lock

QueuedStage == \A n \in 1 .. Len(queue) : isLinked(queue[n]) => Expecting(queue[n])

HandStage ==
  \A w \in Workers :
    /\ isLinked(hand[w]) => wpc[w] \in {"storeRemoved", "setValue", "setFlag", "signal"}
    /\ wpc[w] \in {"setValue", "setFlag", "signal"} => isLinked(hand[w])
    /\ isLinked(hand[w]) /\ wpc[w] # "signal" => Expecting(hand[w])
    /\ wpc[w] = "setFlag" => receiver[hand[w].link].value = hand[w].result
    /\ wpc[w] = "signal" => Signalling(hand[w])

(* The owner, and its receiver once no entry is linked to it.              *)
OwnerStage ==
  \A o \in Owners :
    /\ pc[o] \notin Turn => receiver[o] = NoReceiver
    /\ pc[o] \in Turn => receiver[o].alive
    /\ pc[o] \in Turn /\ ~Queued(o) /\ ~Held(o) =>
         /\ receiver[o].populated /\ receiver[o].value = i[o]
         /\ ~receiver[o].lock /\ ~receiver[o].waiting
    /\ receiver[o].waiting => pc[o] = "awaiting"
    /\ pc[o] = "awaiting" /\ ~receiver[o].waiting => receiver[o].populated
    /\ pc[o] = "return" => receiver[o].populated

HandOver == LinkedOnce /\ QueuedStage /\ HandStage /\ OwnerStage

-----------------------------------------------------------------------------
(* The counters.                                                           *)

EndStage ==
  /\ stopping => pc[Main] \in {"joinWorkers", "done"}
  /\ \A w \in Workers : wpc[w] = "dead" => stopping /\ queue = <<>> /\ removedCount[w] = 0
  /\ pc[Main] = "done" => \A w \in Workers : wpc[w] = "dead"

(* The first part of StatsExact.                                           *)
StatsSum ==
  statsRemoved + SumFunction(removedCount) + (IF swapped = None THEN 0 ELSE swapped)
     = Total - StillToAdd - Len(queue) - Busy({"storeRemoved"})

(* What an increment has read is still there when it stores, and between   *)
(* the swap and the addition of writeQueueStats the counter is 0.          *)
StatsInv ==
  /\ \A w \in Workers : wpc[w] = "storeRemoved" => loaded[w] = removedCount[w]
  /\ swapped # None => removedCount[cursor] = 0
  /\ StatsSum

(* The same for the consumers.                                             *)
CountInv ==
  /\ \A w \in Workers : wpc[w] = "storeCount" => loaded[w] = count[consumerOf(w)]
  /\ totalExpected <= Total
  /\ CountsExact

-----------------------------------------------------------------------------
(* Base is kept by every action.                                           *)

(* A turn of a loop.                                                       *)
LEMMA LoopEffect ==
  ASSUME AdderTypes, NEW o \in Owners, NEW n \in Nat, NEW step \in AdderSteps,
         NEW after \in AdderSteps, Loop(o, n, step, after)
  PROVE  /\ AdderTypes'
         /\ \A p \in Owners \cup {Main} : p # o => pc'[p] = pc[p]
         /\ \A p \in Owners : p # o => i'[p] = i[p]
         /\ \/ i[o] < n /\ pc'[o] = step /\ i'[o] = i[o] + 1
            \/ i[o] >= n /\ pc'[o] = after /\ i'[o] = 1
BY SampleAssumption DEF AdderTypes, Loop, Goto

(* An adder fills the queue.                                               *)
LEMMA FillBase ==
  ASSUME Base, NEW o \in Owners, Fill(o)
  PROVE  Base'
<1> USE SampleAssumption DEF Base, Types
<1>1. AdderTypes'
  BY LoopEffect DEF Fill, AdderSteps
<1>2. EntryTypes'
  <2>1. SampleQueueEntry1(None, None) \in Entries
    BY DEF Entries, SampleQueueEntry1
  <2> QED BY <2>1 DEF Fill, EntryTypes, workVars
<1>3. Turns'
  <2>1. /\ pc[o] = "fill" /\ rounds' = rounds
        /\ Loop(o, count1, "fill", "report1")
    BY DEF Fill, countVars
  <2>2. /\ \A p \in Owners \cup {Main} : p # o => pc'[p] = pc[p]
        /\ \A p \in Owners : p # o => i'[p] = i[p]
        /\ \/ i[o] < count1 /\ pc'[o] = "fill" /\ i'[o] = i[o] + 1
           \/ i[o] >= count1 /\ pc'[o] = "report1" /\ i'[o] = 1
    BY <2>1, LoopEffect DEF AdderSteps
  <2> QED BY <2>1, <2>2 DEF Turns, AdderTypes, AdderSteps, Turn
<1>4. Reports'
  BY DEF Fill, Loop, Goto, SampleQueueEntry1, statsVars, Reports, AdderTypes, ControlTypes,
     StatsTypes, Turns, Workers, Consumers, AdderSteps, MainSteps, Turn
<1>5. receiver' \in [Owners -> Receivers] /\ WorkerTypes' /\ StatsTypes' /\ CountTypes'
      /\ ControlTypes'
  BY DEF Fill, countVars, statsVars, workVars, WorkerTypes, StatsTypes, CountTypes, ControlTypes
<1> QED BY <1>1, <1>2, <1>3, <1>4, <1>5

(* An adder starts the processor.                                          *)
LEMMA StartBase ==
  ASSUME Base, NEW o \in Owners, Start(o)
  PROVE  Base'
<1> USE SampleAssumption DEF Base, Types
<1>1. AdderTypes'
  BY DEF Start, Goto, addVars, AdderTypes, AdderSteps, MainSteps, Turn
<1>2. ControlTypes'
  BY DEF Start, Goto, countVars, statsVars, ControlTypes, Reports, AdderTypes, Turns, Workers,
     Consumers
<1>3. Turns'
  BY DEF Start, Goto, addVars, countVars, Turns, AdderTypes, ControlTypes, Reports, AdderSteps,
     MainSteps, Turn
<1>4. Reports'
  BY DEF Start, Goto, statsVars, Reports, AdderTypes, ControlTypes, StatsTypes, Turns, Workers,
     Consumers, AdderSteps, MainSteps, Turn
<1>5. receiver' \in [Owners -> Receivers] /\ EntryTypes' /\ WorkerTypes' /\ StatsTypes'
      /\ CountTypes'
  BY DEF Start, countVars, statsVars, workVars, EntryTypes, WorkerTypes, StatsTypes, CountTypes
<1> QED BY <1>1, <1>2, <1>3, <1>4, <1>5

(* An adder adds two entries without results, one at a time.               *)
LEMMA QuickBase ==
  ASSUME Base, NEW o \in Owners, Quick(o)
  PROVE  Base'
<1> USE SampleAssumption DEF Base, Types
<1>1. AdderTypes'
  BY LoopEffect DEF Quick, Goto, AdderTypes, AdderSteps
<1>2. EntryTypes'
  <2>1. SampleQueueEntry1(None, None) \in Entries /\ SampleQueueEntry2 \in Entries
    BY DEF Entries, SampleQueueEntry1, SampleQueueEntry2
  <2>2. \E e \in Entries : queue' = Append(queue, e)
    BY <2>1 DEF Quick
  <2> QED BY <2>2 DEF Quick, EntryTypes, workVars
<1>3. Turns'
  <2>1. rounds' = rounds
    BY DEF Quick, countVars
  <2>2. CASE pc[o] = "quick" /\ Goto(o, "quick2") /\ UNCHANGED i
    BY <2>1, <2>2 DEF Goto, Turns, AdderTypes, AdderSteps, Turn
  <2>3. CASE pc[o] = "quick2" /\ Loop(o, count2, "quick", "add")
    <3>1. /\ \A p \in Owners \cup {Main} : p # o => pc'[p] = pc[p]
          /\ \A p \in Owners : p # o => i'[p] = i[p]
          /\ \/ i[o] < count2 /\ pc'[o] = "quick" /\ i'[o] = i[o] + 1
             \/ i[o] >= count2 /\ pc'[o] = "add" /\ i'[o] = 1
      BY <2>3, LoopEffect DEF AdderSteps
    <3> QED BY <2>1, <2>3, <3>1 DEF Turns, AdderTypes, AdderSteps, Turn
  <2> QED BY <2>2, <2>3 DEF Quick
<1>4. Reports'
  BY DEF Quick, Loop, Goto, SampleQueueEntry1, SampleQueueEntry2, statsVars, Reports,
     AdderTypes, ControlTypes, StatsTypes, Turns, Workers, Consumers, AdderSteps, MainSteps,
     Turn
<1>5. receiver' \in [Owners -> Receivers] /\ WorkerTypes' /\ StatsTypes' /\ CountTypes'
      /\ ControlTypes'
  BY DEF Quick, countVars, statsVars, workVars, WorkerTypes, StatsTypes, CountTypes,
     ControlTypes
<1> QED BY <1>1, <1>2, <1>3, <1>4, <1>5

(* An adder adds an entry that is linked to a new receiver.                *)
LEMMA AddLinkedBase ==
  ASSUME Base, NEW o \in Owners, AddLinked(o)
  PROVE  Base'
<1> USE SampleAssumption DEF Base, Types
<1>1. receiver' \in [Owners -> Receivers]
  BY DEF AddLinked, Goto, SampleQueueEntry1, Construct, NewReceiver, Receivers
<1>2. AdderTypes'
  BY DEF AddLinked, Goto, SampleQueueEntry1, Construct, NewReceiver, addVars, AdderTypes,
     AdderSteps, MainSteps, Turn
<1>3. EntryTypes'
  BY DEF AddLinked, Goto, SampleQueueEntry1, Construct, NewReceiver, workVars, EntryTypes,
     Entries, AdderTypes, Turns
<1>4. Turns'
  BY DEF AddLinked, Goto, SampleQueueEntry1, Construct, NewReceiver, addVars, countVars, Turns,
     AdderTypes, ControlTypes, Reports, AdderSteps, MainSteps, Turn
<1>5. Reports'
  BY DEF AddLinked, Goto, SampleQueueEntry1, Construct, NewReceiver, statsVars, Reports,
     AdderTypes, ControlTypes, StatsTypes, Turns, Workers, Consumers, AdderSteps, MainSteps,
     Turn
<1>6. WorkerTypes' /\ StatsTypes' /\ CountTypes' /\ ControlTypes'
  BY DEF AddLinked, countVars, statsVars, workVars, WorkerTypes, StatsTypes, CountTypes,
     ControlTypes
<1> QED BY <1>1, <1>2, <1>3, <1>4, <1>5, <1>6

(* The methods of a receiver keep its type.                                *)
LEMMA ReceiverTypes ==
  ASSUME receiver \in [Owners -> Receivers], NEW o \in Owners,
         \/ Await(o) \/ SetFlag(o) \/ SignalPopulated(o)
         \/ \E value \in (1 .. count3) \cup {None} : setValue(o, value)
  PROVE  receiver' \in [Owners -> Receivers]
<1>1. CASE Await(o)
  <2>1. receiver[o] \in Receivers
    OBVIOUS
  <2>2. [receiver[o] EXCEPT !.waiting = ~receiver[o].populated] \in Receivers
    BY <2>1 DEF Receivers
  <2>3. receiver' = [receiver EXCEPT ![o] = [receiver[o] EXCEPT !.waiting = ~receiver[o].populated]]
    BY <1>1 DEF Await
  <2> QED BY <2>2, <2>3
<1>2. CASE SetFlag(o)
  BY <1>2 DEF SetFlag, Receivers
<1>3. CASE SignalPopulated(o)
  BY <1>3 DEF SignalPopulated, Receivers
<1>4. CASE \E value \in (1 .. count3) \cup {None} : setValue(o, value)
  BY <1>4 DEF setValue, Receivers
<1> QED BY <1>1, <1>2, <1>3, <1>4

(* The first look of getValue.                                             *)
LEMMA GetValueBase ==
  ASSUME Base, NEW o \in Owners, GetValue(o)
  PROVE  Base'
<1> USE SampleAssumption DEF Base, Types
<1>1. AdderTypes'
  BY DEF GetValue, Goto, isPopulated, addVars, AdderTypes, AdderSteps, MainSteps, Turn
<1>2. Turns'
  BY DEF GetValue, Goto, isPopulated, addVars, countVars, Turns, AdderTypes, ControlTypes,
     Reports, AdderSteps, MainSteps, Turn
<1>3. Reports'
  BY DEF GetValue, Goto, isPopulated, statsVars, Reports, AdderTypes, ControlTypes, StatsTypes,
     Turns, Workers, Consumers, AdderSteps, MainSteps, Turn
<1>4. receiver' \in [Owners -> Receivers] /\ EntryTypes' /\ WorkerTypes' /\ StatsTypes'
      /\ CountTypes' /\ ControlTypes'
  BY DEF GetValue, countVars, statsVars, workVars, EntryTypes, WorkerTypes, StatsTypes,
     CountTypes, ControlTypes
<1> QED BY <1>1, <1>2, <1>3, <1>4

(* The second look of getValue.                                            *)
LEMMA AwaitValueBase ==
  ASSUME Base, NEW o \in Owners, AwaitValue(o)
  PROVE  Base'
<1> USE SampleAssumption DEF Base, Types
<1>1. receiver' \in [Owners -> Receivers]
  BY ReceiverTypes DEF AwaitValue
<1>2. AdderTypes'
  BY DEF AwaitValue, Goto, Await, addVars, AdderTypes, AdderSteps, MainSteps, Turn
<1>3. Turns'
  BY DEF AwaitValue, Goto, Await, addVars, countVars, Turns, AdderTypes, ControlTypes, Reports,
     AdderSteps, MainSteps, Turn
<1>4. Reports'
  BY DEF AwaitValue, Goto, Await, statsVars, Reports, AdderTypes, ControlTypes, StatsTypes,
     Turns, Workers, Consumers, AdderSteps, MainSteps, Turn
<1>5. EntryTypes' /\ WorkerTypes' /\ StatsTypes' /\ CountTypes' /\ ControlTypes'
  BY DEF AwaitValue, countVars, statsVars, workVars, EntryTypes, WorkerTypes, StatsTypes,
     CountTypes, ControlTypes
<1> QED BY <1>1, <1>2, <1>3, <1>4, <1>5

(* The wait of getValue ends.                                              *)
LEMMA AwaitEndsBase ==
  ASSUME Base, NEW o \in Owners, AwaitEnds(o)
  PROVE  Base'
<1> USE SampleAssumption DEF Base, Types
<1>1. AdderTypes'
  BY DEF AwaitEnds, Goto, Awaited, addVars, AdderTypes, AdderSteps, MainSteps, Turn
<1>2. Turns'
  BY DEF AwaitEnds, Goto, Awaited, addVars, countVars, Turns, AdderTypes, ControlTypes, Reports,
     AdderSteps, MainSteps, Turn
<1>3. Reports'
  BY DEF AwaitEnds, Goto, Awaited, statsVars, Reports, AdderTypes, ControlTypes, StatsTypes,
     Turns, Workers, Consumers, AdderSteps, MainSteps, Turn
<1>4. receiver' \in [Owners -> Receivers] /\ EntryTypes' /\ WorkerTypes' /\ StatsTypes'
      /\ CountTypes' /\ ControlTypes'
  BY DEF AwaitEnds, countVars, statsVars, workVars, EntryTypes, WorkerTypes, StatsTypes,
     CountTypes, ControlTypes
<1> QED BY <1>1, <1>2, <1>3, <1>4

(* A turn of an adder ends, and its receiver.                              *)
LEMMA GetValueReturnsBase ==
  ASSUME Base, NEW o \in Owners, GetValueReturns(o)
  PROVE  Base'
<1> USE SampleAssumption DEF Base, Types
<1>1. receiver' \in [Owners -> Receivers]
  BY DEF GetValueReturns, Loop, Goto, Destroy, NoReceiver, NewReceiver, Receivers
<1>2. AdderTypes'
  BY LoopEffect DEF GetValueReturns, AdderSteps
<1>3. Turns'
  <2>1. /\ pc[o] = "return" /\ rounds' = rounds
        /\ Loop(o, count3, "add", "report2")
    BY DEF GetValueReturns, countVars
  <2>2. {"add", "report2"} \subseteq AdderSteps
    BY DEF AdderSteps
  <2>3. /\ \A p \in Owners \cup {Main} : p # o => pc'[p] = pc[p]
        /\ \A p \in Owners : p # o => i'[p] = i[p]
        /\ i[o] \in Nat
        /\ \/ i[o] < count3 /\ pc'[o] = "add" /\ i'[o] = i[o] + 1
           \/ i[o] >= count3 /\ pc'[o] = "report2" /\ i'[o] = 1
    BY <2>1, <2>2, LoopEffect DEF AdderTypes
  <2>4. pc'[Main] = pc[Main]
    BY <2>3
  <2> HIDE DEF Types
  <2> QED BY <2>1, <2>2, <2>3, <2>4 DEF Turns, Turn
<1>4. Reports'
  BY DEF GetValueReturns, Loop, Goto, Destroy, NoReceiver, NewReceiver, statsVars, Reports,
     AdderTypes, ControlTypes, StatsTypes, Turns, Workers, Consumers, AdderSteps, MainSteps,
     Turn
<1>5. EntryTypes' /\ WorkerTypes' /\ StatsTypes' /\ CountTypes' /\ ControlTypes'
  BY DEF GetValueReturns, countVars, statsVars, workVars, EntryTypes, WorkerTypes, StatsTypes,
     CountTypes, ControlTypes
<1> QED BY <1>1, <1>2, <1>3, <1>4, <1>5

(* A reporting client takes a counter.                                     *)
LEMMA ReportSwapBase ==
  ASSUME Base, NEW t \in Owners \cup {Main}, ReportSwap(t)
  PROVE  Base'
<1> USE SampleAssumption DEF Base, Types
<1>1. StatsTypes'
  <2>1. cursor \in Workers
    BY DEF ReportSwap, Reports, Turns, MainSteps, AdderSteps, Turn, Workers
  <2> QED BY <2>1 DEF ReportSwap, StatsTypes
<1>2. ControlTypes'
  BY DEF ReportSwap, countVars, statsVars, ControlTypes, Reports, AdderTypes, Turns, Workers,
     Consumers
<1>3. Reports'
  BY DEF ReportSwap, addVars, statsVars, Reports, AdderTypes, ControlTypes, StatsTypes, Turns,
     Workers, Consumers, AdderSteps, MainSteps, Turn
<1>4. receiver' \in [Owners -> Receivers] /\ AdderTypes' /\ EntryTypes' /\ WorkerTypes'
      /\ CountTypes' /\ Turns'
  BY DEF ReportSwap, addVars, countVars, workVars, AdderTypes, EntryTypes, WorkerTypes,
     CountTypes, Turns
<1> QED BY <1>1, <1>2, <1>3, <1>4

(* It adds what it has taken, and goes to the next worker.                 *)
LEMMA ReportAddBase ==
  ASSUME Base, NEW t \in Owners \cup {Main}, ReportAdd(t)
  PROVE  Base'
<1> USE SampleAssumption DEF Base, Types
<1>1. AdderTypes'
  <2>1. pc[t] \in {"report1", "report2", "report"}
    BY DEF ReportAdd, Reports
  <2>2. AfterReport(t) \in AdderSteps \cup MainSteps
    BY <2>1 DEF AfterReport, AdderSteps, MainSteps
  <2> QED BY <2>2 DEF ReportAdd, Goto, AdderTypes
<1>2. StatsTypes'
  <2>1. swapped \in Nat /\ swapped' = None
    BY DEF ReportAdd, StatsTypes
  <2>2. statsRemoved' = statsRemoved + swapped /\ removedCount' = [removedCount EXCEPT ![cursor] = 0]
    BY DEF ReportAdd, incrementRemovedCount
  <2>3. removedCount' \in [Workers -> Nat]
    BY <2>2 DEF StatsTypes
  <2>4. statsRemoved' \in Nat
    BY <2>1, <2>2 DEF StatsTypes
  <2> QED BY <2>1, <2>3, <2>4 DEF StatsTypes
<1>3. ControlTypes'
  BY DEF ReportAdd, incrementRemovedCount, Goto, AfterReport, countVars, ControlTypes, Reports,
     AdderTypes, Turns, Workers, Consumers
<1>4. Turns'
  BY DEF ReportAdd, incrementRemovedCount, Goto, AfterReport, addVars, countVars, Turns,
     AdderTypes, ControlTypes, Reports, AdderSteps, MainSteps, Turn
<1>5. Reports'
  <2>1. reporter = t /\ t # None /\ cursor \in Workers /\ pc[t] \in {"report1", "report2", "report"}
    BY DEF ReportAdd, Reports
  <2>2. pc[Main] # "count"
    BY <2>1 DEF Turns
  <2>3. CASE cursor = N
    <3>1. cursor' = 1 /\ reporter' = None /\ swapped' = None
      BY <2>3 DEF ReportAdd
    <3>2. pc'[Main] # "count"
      BY <2>1, <2>2, <2>3 DEF ReportAdd, Goto, AfterReport, AdderTypes
    <3> QED BY <3>1, <3>2 DEF Reports
  <2>4. CASE cursor # N
    <3>1. cursor' = cursor + 1 /\ reporter' = reporter /\ pc' = pc
      BY <2>4 DEF ReportAdd
    <3> QED BY <2>1, <2>2, <2>4, <3>1 DEF Reports, Workers
  <2> QED BY <2>3, <2>4
<1>6. receiver' \in [Owners -> Receivers] /\ EntryTypes' /\ WorkerTypes' /\ CountTypes'
  BY DEF ReportAdd, countVars, workVars, EntryTypes, WorkerTypes, CountTypes
<1> QED BY <1>1, <1>2, <1>3, <1>4, <1>5, <1>6

(* A worker removes an entry.                                              *)
LEMMA RemoveBase ==
  ASSUME Base, NEW w \in Workers, Remove(w)
  PROVE  Base'
<1> USE SampleAssumption DEF Base, Types
<1>1. EntryTypes'
  <2>1. Head(queue) \in Entries /\ Tail(queue) \in Seq(Entries)
    BY DEF Remove, EntryTypes
  <2> QED BY <2>1 DEF Remove, EntryTypes
<1>2. WorkerTypes'
  BY DEF Remove, Work, WorkerTypes, StatsTypes, CountTypes, WorkerSteps, InHand, Workers,
     Consumers
<1>3. receiver' \in [Owners -> Receivers] /\ AdderTypes' /\ StatsTypes' /\ CountTypes'
      /\ ControlTypes' /\ Turns' /\ Reports'
  BY DEF Remove, addVars, countVars, statsVars, AdderTypes, StatsTypes, CountTypes,
     ControlTypes, Turns, Reports
<1> QED BY <1>1, <1>2, <1>3

(* It stores its removed counter.                                          *)
LEMMA StoreRemovedBase ==
  ASSUME Base, NEW w \in Workers, StoreRemoved(w)
  PROVE  Base'
<1> USE SampleAssumption DEF Base, Types
<1>1. WorkerTypes'
  BY DEF StoreRemoved, Work, WorkerTypes, StatsTypes, CountTypes, WorkerSteps, InHand, Workers,
     Consumers
<1>2. StatsTypes'
  <2>1. loaded[w] + 1 \in Nat
    BY DEF WorkerTypes
  <2> QED BY <2>1 DEF StoreRemoved, StatsTypes
<1>3. receiver' \in [Owners -> Receivers] /\ AdderTypes' /\ EntryTypes' /\ CountTypes'
      /\ ControlTypes' /\ Turns' /\ Reports'
  BY DEF StoreRemoved, addVars, countVars, statsVars, workVars, AdderTypes, EntryTypes,
     CountTypes, ControlTypes, Turns, Reports
<1> QED BY <1>1, <1>2, <1>3

(* It hands the result over.                                               *)
LEMMA SetStatusBase ==
  ASSUME Base, NEW w \in Workers, SetStatus(w)
  PROVE  Base'
<1> USE SampleAssumption DEF Base, Types
<1>1. receiver' \in [Owners -> Receivers]
  <2>1. /\ hand[w].link \in Owners
        /\ hand[w].result \in (1 .. count3) \cup {None}
    BY DEF SetStatus, isLinked, EntryTypes, Entries
  <2> QED BY <2>1, ReceiverTypes DEF SetStatus
<1>2. EntryTypes'
  BY DEF SetStatus, Work, setValue, SetFlag, SignalPopulated, isLinked, NoEntry, EntryTypes,
     Entries, AdderTypes, Turns
<1>3. WorkerTypes'
  BY DEF SetStatus, Work, setValue, SetFlag, SignalPopulated, isLinked, NoEntry, workVars,
     WorkerTypes, StatsTypes, CountTypes, WorkerSteps, InHand, Workers, Consumers
<1>4. AdderTypes' /\ StatsTypes' /\ CountTypes' /\ ControlTypes' /\ Turns' /\ Reports'
  BY DEF SetStatus, addVars, countVars, statsVars, AdderTypes, StatsTypes, CountTypes,
     ControlTypes, Turns, Reports
<1> QED BY <1>1, <1>2, <1>3, <1>4

(* It reads the counter of its consumer.                                   *)
LEMMA LoadCountBase ==
  ASSUME Base, NEW w \in Workers, LoadCount(w)
  PROVE  Base'
<1> USE SampleAssumption DEF Base, Types
<1>1. WorkerTypes'
  <2>1. count[consumerOf(w)] \in Nat
    BY DEF CountTypes, consumerOf, Consumers, Workers
  <2> QED BY <2>1 DEF LoadCount, Work, WorkerTypes, WorkerSteps, InHand
<1>2. receiver' \in [Owners -> Receivers] /\ AdderTypes' /\ EntryTypes' /\ StatsTypes'
      /\ CountTypes' /\ ControlTypes' /\ Turns' /\ Reports'
  BY DEF LoadCount, addVars, countVars, statsVars, workVars, AdderTypes, EntryTypes, StatsTypes,
     CountTypes, ControlTypes, Turns, Reports
<1> QED BY <1>1, <1>2

(* It stores the counter of its consumer.                                  *)
LEMMA StoreCountBase ==
  ASSUME Base, NEW w \in Workers, StoreCount(w)
  PROVE  Base'
<1> USE SampleAssumption DEF Base, Types
<1>1. WorkerTypes'
  BY DEF StoreCount, Work, consumerOf, WorkerTypes, StatsTypes, CountTypes, WorkerSteps, InHand,
     Workers, Consumers
<1>2. CountTypes'
  <2>1. loaded[w] + 1 \in Nat
    BY DEF WorkerTypes
  <2> QED BY <2>1 DEF StoreCount, CountTypes, consumerOf, Consumers, Workers
<1>3. receiver' \in [Owners -> Receivers] /\ AdderTypes' /\ EntryTypes' /\ StatsTypes'
      /\ ControlTypes' /\ Turns' /\ Reports'
  BY DEF StoreCount, addVars, countVars, statsVars, workVars, AdderTypes, EntryTypes,
     StatsTypes, ControlTypes, Turns, Reports
<1> QED BY <1>1, <1>2, <1>3

(* A worker dies.                                                          *)
LEMMA FinalizeBase ==
  ASSUME Base, NEW w \in Workers, Finalize(w)
  PROVE  Base'
<1> USE SampleAssumption DEF Base, Types
<1>1. WorkerTypes'
  BY DEF Finalize, Work, incrementRemovedCount, workVars, WorkerTypes, StatsTypes, CountTypes,
     WorkerSteps, InHand, Workers, Consumers
<1>2. StatsTypes'
  <2>1. removedCount[w] \in Nat
    BY DEF StatsTypes
  <2> QED BY <2>1 DEF Finalize, StatsTypes, incrementRemovedCount
<1>3. receiver' \in [Owners -> Receivers] /\ AdderTypes' /\ EntryTypes' /\ CountTypes'
      /\ ControlTypes' /\ Turns' /\ Reports'
  BY DEF Finalize, addVars, countVars, statsVars, workVars, AdderTypes, EntryTypes, CountTypes,
     ControlTypes, Turns, Reports
<1> QED BY <1>1, <1>2, <1>3

(* Main has joined the adders.                                             *)
LEMMA JoinAddersBase ==
  ASSUME Base, JoinAdders
  PROVE  Base'
<1> USE SampleAssumption DEF Base, Types
<1>1. AdderTypes'
  BY DEF JoinAdders, Goto, addVars, AdderTypes, AdderSteps, MainSteps, Turn
<1>2. Turns'
  BY DEF JoinAdders, Goto, addVars, countVars, Turns, AdderTypes, ControlTypes, Reports,
     AdderSteps, MainSteps, Turn
<1>3. Reports'
  BY DEF JoinAdders, Goto, statsVars, Reports, AdderTypes, ControlTypes, StatsTypes, Turns,
     Workers, Consumers, AdderSteps, MainSteps, Turn
<1>4. receiver' \in [Owners -> Receivers] /\ EntryTypes' /\ WorkerTypes' /\ StatsTypes'
      /\ CountTypes' /\ ControlTypes'
  BY DEF JoinAdders, countVars, statsVars, workVars, EntryTypes, WorkerTypes, StatsTypes,
     CountTypes, ControlTypes
<1> QED BY <1>1, <1>2, <1>3, <1>4

(* Main sleeps and looks at what is missing.                               *)
LEMMA SleepBase ==
  ASSUME Base, Sleep
  PROVE  Base'
<1> USE SampleAssumption DEF Base, Types
<1>1. AdderTypes'
  BY DEF Sleep, Goto, addVars, AdderTypes, AdderSteps, MainSteps, Turn
<1>2. ControlTypes'
  BY DEF Sleep, Goto, statsVars, ControlTypes, Reports, AdderTypes, Turns, Workers, Consumers
<1>3. Turns'
  BY DEF Sleep, Goto, addVars, Turns, AdderTypes, ControlTypes, Reports, AdderSteps, MainSteps,
     Turn
<1>4. Reports'
  BY DEF Sleep, Goto, statsVars, Reports, AdderTypes, ControlTypes, StatsTypes, Turns, Workers,
     Consumers, AdderSteps, MainSteps, Turn
<1>5. receiver' \in [Owners -> Receivers] /\ EntryTypes' /\ WorkerTypes' /\ StatsTypes'
      /\ CountTypes'
  BY DEF Sleep, countVars, statsVars, workVars, EntryTypes, WorkerTypes, StatsTypes, CountTypes
<1> QED BY <1>1, <1>2, <1>3, <1>4, <1>5

(* Main takes the counter of a consumer.                                   *)
LEMMA CountConsumedBase ==
  ASSUME Base, CountConsumed
  PROVE  Base'
<1> USE SampleAssumption DEF Base, Types
<1>1. AdderTypes'
  BY DEF CountConsumed, TakeCount, Goto, addVars, AdderTypes, AdderSteps, MainSteps, Turn
<1>2. CountTypes'
  <2>1. cursor \in Consumers
    BY DEF CountConsumed, Reports
  <2>2. totalExpected' \in Nat
    <3>1. totalExpected + UIntMax + 1 - count[cursor] \in Int
      BY <2>1 DEF CountTypes
    <3>2. \A n \in Int : n % (UIntMax + 1) \in Nat
      OBVIOUS
    <3> QED BY <3>1, <3>2 DEF CountConsumed
  <2> QED BY <2>1, <2>2 DEF CountConsumed, TakeCount, CountTypes
<1>3. ControlTypes'
  BY DEF CountConsumed, TakeCount, Goto, countVars, statsVars, ControlTypes, Reports,
     AdderTypes, Turns, Workers, Consumers
<1>4. Turns'
  BY DEF CountConsumed, TakeCount, Goto, addVars, countVars, Turns, AdderTypes, ControlTypes,
     Reports, AdderSteps, MainSteps, Turn
<1>5. Reports'
  <2>1. pc[Main] = "count" /\ cursor \in Consumers
    BY DEF CountConsumed, Reports
  <2>2. reporter = None
    BY <2>1 DEF Reports, Turns, ControlTypes
  <2>3. cursor' = (IF cursor = 1 THEN 1 ELSE cursor - 1)
    BY DEF CountConsumed
  <2>4. pc'[Main] = (IF cursor = 1 THEN "sleep" ELSE "count")
    BY DEF CountConsumed, Goto, AdderTypes
  <2>5. reporter' = reporter /\ swapped' = swapped
    BY DEF CountConsumed
  <2>6. cursor' \in Consumers
    BY <2>1, <2>3 DEF Consumers
  <2> QED BY <2>2, <2>3, <2>4, <2>5, <2>6 DEF Reports
<1>6. receiver' \in [Owners -> Receivers] /\ EntryTypes' /\ WorkerTypes' /\ StatsTypes'
  BY DEF CountConsumed, statsVars, workVars, EntryTypes, WorkerTypes, StatsTypes
<1> QED BY <1>1, <1>2, <1>3, <1>4, <1>5, <1>6

(* Main terminates the processor.                                          *)
LEMMA TerminateBase ==
  ASSUME Base, Terminate
  PROVE  Base'
<1> USE SampleAssumption DEF Base, Types
<1>1. AdderTypes'
  BY DEF Terminate, Goto, addVars, AdderTypes, AdderSteps, MainSteps, Turn
<1>2. ControlTypes'
  BY DEF Terminate, Goto, countVars, statsVars, ControlTypes, Reports, AdderTypes, Turns,
     Workers, Consumers
<1>3. Turns'
  BY DEF Terminate, Goto, addVars, countVars, Turns, AdderTypes, ControlTypes, Reports,
     AdderSteps, MainSteps, Turn
<1>4. Reports'
  BY DEF Terminate, Goto, statsVars, Reports, AdderTypes, ControlTypes, StatsTypes, Turns,
     Workers, Consumers, AdderSteps, MainSteps, Turn
<1>5. receiver' \in [Owners -> Receivers] /\ EntryTypes' /\ WorkerTypes' /\ StatsTypes'
      /\ CountTypes'
  BY DEF Terminate, countVars, statsVars, workVars, EntryTypes, WorkerTypes, StatsTypes,
     CountTypes
<1> QED BY <1>1, <1>2, <1>3, <1>4, <1>5

(* Main has joined the workers.                                            *)
LEMMA JoinWorkersBase ==
  ASSUME Base, JoinWorkers
  PROVE  Base'
<1> USE SampleAssumption DEF Base, Types
<1>1. AdderTypes'
  BY DEF JoinWorkers, Goto, addVars, AdderTypes, AdderSteps, MainSteps, Turn
<1>2. Turns'
  BY DEF JoinWorkers, Goto, addVars, countVars, Turns, AdderTypes, ControlTypes, Reports,
     AdderSteps, MainSteps, Turn
<1>3. Reports'
  BY DEF JoinWorkers, Goto, statsVars, Reports, AdderTypes, ControlTypes, StatsTypes, Turns,
     Workers, Consumers, AdderSteps, MainSteps, Turn
<1>4. receiver' \in [Owners -> Receivers] /\ EntryTypes' /\ WorkerTypes' /\ StatsTypes'
      /\ CountTypes' /\ ControlTypes'
  BY DEF JoinWorkers, countVars, statsVars, workVars, EntryTypes, WorkerTypes, StatsTypes,
     CountTypes, ControlTypes
<1> QED BY <1>1, <1>2, <1>3, <1>4

-----------------------------------------------------------------------------
(* HandOver is kept by every action.                                       *)

(* An entry that is linked is linked to a receiver of an owner.            *)
LEMMA LinkTypes ==
  ASSUME Base
  PROVE  /\ \A n \in 1 .. Len(queue) : queue[n] \in Entries
         /\ \A n \in 1 .. Len(queue) : isLinked(queue[n]) => queue[n].link \in Owners
         /\ \A w \in Workers : isLinked(hand[w]) => hand[w].link \in Owners
         /\ \A o \in Owners : o # None
<1>1. \A n \in 1 .. Len(queue) : queue[n] \in Entries
  BY DEF Base, Types, EntryTypes
<1>2. \A w \in Workers : hand[w] \in Entries
  BY DEF Base, Types, EntryTypes
<1>3. \A e \in Entries : isLinked(e) => e.link \in Owners
  BY DEF Entries, isLinked
<1> QED BY <1>1, <1>2, <1>3, SampleAssumption

(* A step that changes no receiver and no link, and neither a turn of an   *)
(* adder nor a worker that holds a link.                                   *)
LEMMA QuietStep ==
  ASSUME Base, HandOver, UNCHANGED <<receiver, hand>>,
         \/ UNCHANGED queue
         \/ \E e \in Entries : ~isLinked(e) /\ queue' = Append(queue, e),
         \A w \in Workers :
            \/ wpc'[w] = wpc[w]
            \/ {wpc[w], wpc'[w]} \cap {"storeRemoved", "setValue", "setFlag", "signal"} = {},
         \A o \in Owners :
            \/ pc'[o] = pc[o] /\ i'[o] = i[o]
            \/ pc[o] \notin Turn /\ pc'[o] \notin Turn
  PROVE  HandOver'
<1>1. /\ Len(queue) \in Nat
      /\ Len(queue') \in Nat /\ Len(queue) <= Len(queue')
      /\ \A n \in 1 .. Len(queue) : queue'[n] = queue[n]
      /\ \A n \in 1 .. Len(queue') : n \in 1 .. Len(queue) \/ ~isLinked(queue'[n])
  BY DEF Base, Types, EntryTypes
<1>2. /\ receiver' = receiver /\ hand' = hand
  OBVIOUS
<1>3. \A o \in Owners : o # None /\ (Queued(o)' <=> Queued(o)) /\ (Held(o)' <=> Held(o))
  BY <1>1, <1>2, LinkTypes DEF Queued, Held, isLinked
<1>4. LinkedOnce'
  BY <1>1, <1>2 DEF HandOver, LinkedOnce, isLinked
<1>5. QueuedStage'
  <2>1. SUFFICES ASSUME NEW n \in 1 .. Len(queue), isLinked(queue[n]) PROVE Expecting(queue[n])'
    BY <1>1 DEF QueuedStage, Expecting, isLinked
  <2>2. Expecting(queue[n]) /\ queue[n].link \in Owners
    BY <2>1, LinkTypes DEF HandOver, QueuedStage
  <2> QED BY <1>1, <1>2, <2>2 DEF Expecting
<1>6. HandStage'
  <2>1. SUFFICES ASSUME NEW w \in Workers
                 PROVE  HandStage!(w)'
    BY DEF HandStage
  <2>2. isLinked(hand[w]) => hand[w].link \in Owners
    BY LinkTypes
  <2>3. CASE ~isLinked(hand[w])
    BY <1>2, <2>3 DEF HandOver, HandStage, isLinked
  <2>4. CASE isLinked(hand[w])
    <3>1. wpc'[w] = wpc[w] /\ hand[w].link \in Owners
      BY <2>2, <2>4 DEF HandOver, HandStage
    <3>2. Expecting(hand[w]) => Expecting(hand[w])'
      BY <1>2, <3>1 DEF Expecting
    <3>3. Signalling(hand[w]) => Signalling(hand[w])'
      BY <1>2, <3>1 DEF Signalling
    <3> QED BY <1>2, <2>4, <3>1, <3>2, <3>3 DEF HandOver, HandStage, isLinked
  <2> QED BY <2>3, <2>4
<1>7. OwnerStage'
  BY <1>2, <1>3 DEF HandOver, OwnerStage, Turn
<1> QED BY <1>4, <1>5, <1>6, <1>7 DEF HandOver

(* A new turn: its receiver is new, and its entry the only one that is     *)
(* linked to it.                                                           *)
LEMMA AddLinkedHandOver ==
  ASSUME Base, HandOver, NEW o \in Owners, AddLinked(o)
  PROVE  HandOver'
<1> DEFINE e == SampleQueueEntry1(o, i[o])
<1>0. /\ pc[o] = "add" /\ pc'[o] = "getValue" /\ i' = i
      /\ \A p \in Owners : p # o => pc'[p] = pc[p] /\ receiver'[p] = receiver[p]
      /\ receiver'[o] = NewReceiver
      /\ hand' = hand /\ wpc' = wpc
  BY DEF AddLinked, Goto, Construct, workVars, Base, Types, AdderTypes
<1>1. /\ Len(queue) \in Nat
      /\ Len(queue') = Len(queue) + 1
      /\ \A n \in 1 .. Len(queue) : queue'[n] = queue[n]
      /\ queue'[Len(queue) + 1] = e
  BY DEF AddLinked, Base, Types, EntryTypes
<1>2. e.link = o /\ e.result = i[o] /\ isLinked(e)
  BY LinkTypes DEF SampleQueueEntry1, isLinked
<1> HIDE DEF e
<1>3. ~Queued(o) /\ ~Held(o)
  BY <1>0, LinkTypes DEF Queued, Held, HandOver, QueuedStage, HandStage, Expecting, Signalling,
        isLinked, Turn
<1>4. \A p \in Owners : p # o => (Queued(p)' <=> Queued(p)) /\ (Held(p)' <=> Held(p))
  BY <1>0, <1>1, <1>2 DEF Queued, Held
<1>5. Queued(o)'
  BY <1>1, <1>2 DEF Queued
<1>6. LinkedOnce'
  BY <1>0, <1>1, <1>2, <1>3 DEF HandOver, LinkedOnce, isLinked, Queued, Held
<1>7. QueuedStage'
  <2>1. SUFFICES ASSUME NEW n \in 1 .. Len(queue'), isLinked(queue'[n]) PROVE Expecting(queue[n])'
    BY DEF QueuedStage, isLinked
  <2>2. CASE n \in 1 .. Len(queue)
    <3>1. queue[n].link \in Owners /\ queue[n].link # o /\ Expecting(queue[n])
      BY <1>1, <1>3, <2>1, <2>2, LinkTypes DEF Queued, HandOver, QueuedStage
    <3> QED BY <1>0, <1>1, <2>2, <3>1 DEF Expecting
  <2>3. CASE n = Len(queue) + 1
    BY <1>0, <1>1, <1>2, <2>3 DEF Expecting, NewReceiver, Turn
  <2> QED BY <1>1, <2>2, <2>3
<1>8. HandStage'
  <2>1. SUFFICES ASSUME NEW w \in Workers
                 PROVE  HandStage!(w)'
    BY DEF HandStage
  <2>2. isLinked(hand[w]) => hand[w].link \in Owners /\ hand[w].link # o
    BY <1>3, LinkTypes DEF Held
  <2> QED BY <1>0, <2>2 DEF HandOver, HandStage, Expecting, Signalling, isLinked
<1>9. OwnerStage'
  BY <1>0, <1>4, <1>5 DEF HandOver, OwnerStage, Turn, NewReceiver
<1> QED BY <1>6, <1>7, <1>8, <1>9 DEF HandOver

(* A step of an adder within its turn that changes at most who waits.      *)
LEMMA TurnStep ==
  ASSUME Base, HandOver, NEW o \in Owners, pc[o] \in Turn, pc'[o] \in Turn,
         UNCHANGED <<i, queue, hand, wpc>>,
         \A p \in Owners : p # o => pc'[p] = pc[p] /\ receiver'[p] = receiver[p],
         receiver'[o] = [receiver[o] EXCEPT !.waiting = receiver'[o].waiting],
         receiver'[o].waiting => pc'[o] = "awaiting" /\ ~receiver[o].populated,
         pc'[o] = "awaiting" /\ ~receiver'[o].waiting => receiver[o].populated,
         pc'[o] = "return" => receiver[o].populated
  PROVE  HandOver'
<1>1. /\ \A p \in Owners :
           /\ receiver'[p].alive <=> receiver[p].alive
           /\ receiver'[p].populated <=> receiver[p].populated
           /\ receiver'[p].lock <=> receiver[p].lock
           /\ receiver'[p].value = receiver[p].value
      /\ \A p \in Owners : p # o => (receiver'[p].waiting <=> receiver[p].waiting)
  BY DEF Base, Types, Receivers
<1>2. \A p \in Owners : (pc'[p] \in Turn <=> pc[p] \in Turn)
  OBVIOUS
<1>3. \A p \in Owners : (Queued(p)' <=> Queued(p)) /\ (Held(p)' <=> Held(p))
  BY DEF Queued, Held
<1>4. LinkedOnce'
  BY DEF HandOver, LinkedOnce, isLinked
<1>5. QueuedStage'
  BY <1>1, <1>2, LinkTypes DEF HandOver, QueuedStage, Expecting, isLinked
<1>6. HandStage'
  BY <1>1, <1>2, LinkTypes DEF HandOver, HandStage, Expecting, Signalling, isLinked
<1>7. OwnerStage'
  BY <1>1, <1>2, <1>3 DEF HandOver, OwnerStage, Turn
<1> QED BY <1>4, <1>5, <1>6, <1>7 DEF HandOver


(* A turn ends when nothing is linked to its receiver any more.            *)
LEMMA GetValueReturnsHandOver ==
  ASSUME Base, HandOver, SignalsInTime', NEW o \in Owners, GetValueReturns(o)
  PROVE  HandOver'
<1>0. /\ pc[o] = "return" /\ pc'[o] \notin Turn
      /\ \A p \in Owners : p # o => pc'[p] = pc[p] /\ i'[p] = i[p] /\ receiver'[p] = receiver[p]
      /\ receiver'[o] = NoReceiver
      /\ hand' = hand /\ wpc' = wpc /\ queue' = queue
  <2>1. pc[o] = "return" /\ hand' = hand /\ wpc' = wpc /\ queue' = queue
    BY DEF GetValueReturns, workVars
  <2>2. receiver'[o] = NoReceiver /\ \A p \in Owners : p # o => receiver'[p] = receiver[p]
    BY DEF GetValueReturns, Destroy, Base, Types
  <2>3. pc'[o] \notin Turn /\ \A p \in Owners : p # o => pc'[p] = pc[p] /\ i'[p] = i[p]
    BY DEF GetValueReturns, Loop, Goto, Turn, Base, Types, AdderTypes
  <2> QED BY <2>1, <2>2, <2>3
<1>1. receiver[o].populated
  BY <1>0 DEF HandOver, OwnerStage
<1>2. ~Queued(o) /\ ~Held(o)
  <2>1. ~Queued(o)
    BY <1>1, LinkTypes DEF Queued, HandOver, QueuedStage, Expecting, isLinked
  <2>2. \A w \in Workers : hand[w].link = o => wpc[w] = "signal"
    BY <1>1, LinkTypes DEF HandOver, HandStage, Expecting, isLinked
  <2>3. \A w \in Workers : wpc[w] = "signal" => receiver'[hand[w].link].alive
    BY <1>0 DEF SignalsInTime
  <2>4. ~receiver'[o].alive
    BY <1>0 DEF NoReceiver, NewReceiver
  <2>5. ~Held(o)
    BY <2>2, <2>3, <2>4 DEF Held
  <2> QED BY <2>1, <2>5
<1>3. \A p \in Owners : (Queued(p)' <=> Queued(p)) /\ (Held(p)' <=> Held(p))
  BY <1>0 DEF Queued, Held
<1>4. LinkedOnce'
  BY <1>0 DEF HandOver, LinkedOnce, isLinked
<1>5. QueuedStage'
  <2>1. SUFFICES ASSUME NEW n \in 1 .. Len(queue), isLinked(queue[n]) PROVE Expecting(queue[n])'
    BY <1>0 DEF QueuedStage, isLinked
  <2>2. queue[n].link \in Owners /\ queue[n].link # o /\ Expecting(queue[n])
    BY <1>2, <2>1, LinkTypes DEF Queued, HandOver, QueuedStage
  <2> QED BY <1>0, <2>2 DEF Expecting
<1>6. HandStage'
  <2>1. SUFFICES ASSUME NEW w \in Workers
                 PROVE  HandStage!(w)'
    BY DEF HandStage
  <2>2. isLinked(hand[w]) => hand[w].link \in Owners /\ hand[w].link # o
    BY <1>2, LinkTypes DEF Held
  <2> QED BY <1>0, <2>2 DEF HandOver, HandStage, Expecting, Signalling, isLinked
<1>7. OwnerStage'
  <2>1. SUFFICES ASSUME NEW p \in Owners PROVE OwnerStage!(p)'
    BY DEF OwnerStage
  <2>2. CASE p = o
    BY <1>0, <2>2 DEF Turn, NoReceiver, NewReceiver
  <2>3. CASE p # o
    BY <1>0, <1>3, <2>3 DEF HandOver, OwnerStage
  <2> QED BY <2>2, <2>3
<1> QED BY <1>4, <1>5, <1>6, <1>7 DEF HandOver

(* The link goes from the queue to the worker.                             *)
LEMMA RemoveHandOver ==
  ASSUME Base, HandOver, NEW w \in Workers, Remove(w)
  PROVE  HandOver'
<1>0. /\ wpc[w] = "remove" /\ wpc'[w] = "storeRemoved"
      /\ hand'[w] = queue[1]
      /\ \A v \in Workers : v # w => wpc'[v] = wpc[v] /\ hand'[v] = hand[v]
      /\ pc' = pc /\ i' = i /\ receiver' = receiver
  BY DEF Remove, Work, addVars, Base, Types, EntryTypes, WorkerTypes
<1>1. /\ Len(queue) \in Nat /\ Len(queue) > 0
      /\ Len(queue') = Len(queue) - 1
      /\ \A n \in 1 .. Len(queue') : queue'[n] = queue[n + 1]
  BY DEF Remove, Base, Types, EntryTypes
<1>2. ~isLinked(hand[w])
  BY <1>0 DEF HandOver, HandStage
<1>3. \A o \in Owners : Queued(o) \/ Held(o) => Queued(o)' \/ Held(o)'
  <2>1. SUFFICES ASSUME NEW o \in Owners, Queued(o) \/ Held(o) PROVE Queued(o)' \/ Held(o)'
    OBVIOUS
  <2>2. CASE Queued(o)
    <3>1. PICK n \in 1 .. Len(queue) : queue[n].link = o
      BY <2>2 DEF Queued
    <3>2. CASE n = 1
      BY <1>0, <3>1, <3>2 DEF Held
    <3>3. CASE n # 1
      <4>1. n - 1 \in 1 .. Len(queue') /\ n - 1 + 1 = n
        BY <1>1, <3>3
      <4> QED BY <1>1, <3>1, <4>1 DEF Queued
    <3> QED BY <3>2, <3>3
  <2>3. CASE Held(o)
    BY <1>0, <1>2, <2>3, LinkTypes DEF Held, isLinked
  <2> QED BY <2>1, <2>2, <2>3
<1>4. LinkedOnce'
  <2>1. \A n \in 1 .. Len(queue') : n + 1 \in 1 .. Len(queue) /\ 1 \in 1 .. Len(queue) /\ n + 1 # 1
    BY <1>1
  <2>2. \A m, n \in 1 .. Len(queue') : isLinked(queue'[m]) /\ queue'[m].link = queue'[n].link => m = n
    <3>1. SUFFICES ASSUME NEW m \in 1 .. Len(queue'), NEW n \in 1 .. Len(queue'),
                          isLinked(queue'[m]), queue'[m].link = queue'[n].link
                   PROVE  m = n
      OBVIOUS
    <3>2. m + 1 = n + 1
      BY <1>1, <2>1, <3>1 DEF HandOver, LinkedOnce
    <3> QED BY <1>1, <3>2
  <2>3. \A n \in 1 .. Len(queue'), v \in Workers : isLinked(hand'[v]) => queue'[n].link # hand'[v].link
    <3>1. SUFFICES ASSUME NEW n \in 1 .. Len(queue'), NEW v \in Workers, isLinked(hand'[v])
                   PROVE  queue'[n].link # hand'[v].link
      OBVIOUS
    <3>2. CASE v = w
      BY <1>0, <1>1, <2>1, <3>1, <3>2 DEF HandOver, LinkedOnce
    <3>3. CASE v # w
      BY <1>0, <1>1, <2>1, <3>1, <3>3 DEF HandOver, LinkedOnce
    <3> QED BY <3>2, <3>3
  <2>4. \A u, v \in Workers : isLinked(hand'[v]) /\ hand'[v].link = hand'[u].link => v = u
    BY <1>0, <1>1 DEF HandOver, LinkedOnce, isLinked
  <2> QED BY <2>2, <2>3, <2>4 DEF LinkedOnce, isLinked
<1>5. QueuedStage'
  BY <1>0, <1>1 DEF HandOver, QueuedStage, Expecting, isLinked
<1>6. HandStage'
  <2>1. SUFFICES ASSUME NEW v \in Workers
                 PROVE  HandStage!(v)'
    BY DEF HandStage
  <2>2. CASE v = w
    BY <1>0, <1>1, <2>2 DEF HandOver, QueuedStage, HandStage, Expecting, isLinked
  <2>3. CASE v # w
    BY <1>0, <2>3 DEF HandOver, HandStage, Expecting, Signalling, isLinked
  <2> QED BY <2>2, <2>3
<1>7. OwnerStage'
  BY <1>0, <1>3 DEF HandOver, OwnerStage
<1> QED BY <1>4, <1>5, <1>6, <1>7 DEF HandOver

(* A worker goes on with an entry that is linked or not.                   *)
LEMMA StoreRemovedHandOver ==
  ASSUME Base, HandOver, NEW w \in Workers, StoreRemoved(w)
  PROVE  HandOver'
<1>0. /\ wpc[w] = "storeRemoved"
      /\ wpc'[w] = IF isLinked(hand[w]) THEN "setValue" ELSE "loadCount"
      /\ \A v \in Workers : v # w => wpc'[v] = wpc[v]
      /\ pc' = pc /\ i' = i /\ receiver' = receiver /\ hand' = hand /\ queue' = queue
  BY DEF StoreRemoved, Work, addVars, Base, Types, WorkerTypes
<1>1. LinkedOnce' /\ QueuedStage' /\ OwnerStage'
  BY <1>0 DEF HandOver, LinkedOnce, QueuedStage, OwnerStage, Expecting, Queued, Held, isLinked
<1>2. HandStage'
  BY <1>0 DEF HandOver, HandStage, Expecting, Signalling, isLinked
<1> QED BY <1>1, <1>2 DEF HandOver

(* The three steps of a worker that hands a result over.                   *)
LEMMA SetStatusHandOver ==
  ASSUME Base, HandOver, NEW w \in Workers, SetStatus(w)
  PROVE  HandOver'
<1> DEFINE o == hand[w].link
<1>0. /\ pc' = pc /\ i' = i /\ queue' = queue
      /\ isLinked(hand[w])
  BY DEF SetStatus, addVars
<1>1. o \in Owners /\ o # None
  BY <1>0, LinkTypes
<1>2. /\ \A n \in 1 .. Len(queue) : isLinked(queue[n]) => queue[n].link \in Owners \ {o}
      /\ \A v \in Workers : v # w /\ isLinked(hand[v]) => hand[v].link \in Owners \ {o}
  BY <1>0, LinkTypes DEF HandOver, LinkedOnce
<1>3. ~Queued(o) /\ Held(o)
  BY <1>1, <1>2 DEF Queued, Held, isLinked
<1>4. pc[o] \in Turn /\ hand[w].result = i[o] /\ receiver[o].alive
  BY <1>0, <1>1 DEF HandOver, HandStage, Expecting, Signalling
<1>r. receiver \in [Owners -> Receivers] /\ receiver[o] \in Receivers
  BY <1>1 DEF Base, Types
<1>5. CASE wpc[w] = "setValue" /\ setValue(o, hand[w].result) /\ Work(w, "setFlag") /\ UNCHANGED hand
  <2>1. /\ \A p \in Owners : p # o => receiver'[p] = receiver[p]
        /\ receiver'[o].value = hand[w].result
        /\ (receiver'[o].alive <=> receiver[o].alive)
        /\ (receiver'[o].populated <=> receiver[o].populated)
        /\ (receiver'[o].lock <=> receiver[o].lock)
        /\ (receiver'[o].waiting <=> receiver[o].waiting)
    BY <1>1, <1>5, <1>r DEF setValue, Receivers
  <2>2. wpc'[w] = "setFlag" /\ \A v \in Workers : v # w => wpc'[v] = wpc[v]
    BY <1>5 DEF Work, Base, Types, WorkerTypes
  <2>3. LinkedOnce'
    BY <1>0, <1>5 DEF HandOver, LinkedOnce, isLinked
  <2>4. QueuedStage'
    BY <1>0, <1>2, <2>1 DEF HandOver, QueuedStage, Expecting, isLinked
  <2>5. HandStage'
    <3>1. SUFFICES ASSUME NEW v \in Workers PROVE HandStage!(v)'
      BY DEF HandStage
    <3>2. CASE v = w
      BY <1>0, <1>5, <2>1, <2>2, <3>2 DEF HandOver, HandStage, Expecting, isLinked
    <3>3. CASE v # w
      BY <1>0, <1>2, <1>5, <2>1, <2>2, <3>3 DEF HandOver, HandStage, Expecting, Signalling, isLinked
    <3> QED BY <3>2, <3>3
  <2>6. \A p \in Owners : (Queued(p)' <=> Queued(p)) /\ (Held(p)' <=> Held(p))
    BY <1>0, <1>5 DEF Queued, Held
  <2>7. OwnerStage'
    <3>1. SUFFICES ASSUME NEW p \in Owners PROVE OwnerStage!(p)'
      BY DEF OwnerStage
    <3>2. CASE p = o
      BY <1>0, <1>3, <1>4, <2>1, <2>6, <3>2 DEF HandOver, OwnerStage
    <3>3. CASE p # o
      BY <1>0, <2>1, <2>6, <3>3 DEF HandOver, OwnerStage
    <3> QED BY <3>2, <3>3
  <2> QED BY <2>3, <2>4, <2>5, <2>7 DEF HandOver
<1>6. CASE wpc[w] = "setFlag" /\ SetFlag(o) /\ Work(w, "signal") /\ UNCHANGED hand
  <2>1. /\ \A p \in Owners : p # o => receiver'[p] = receiver[p]
        /\ receiver'[o].value = receiver[o].value
        /\ (receiver'[o].alive <=> receiver[o].alive)
        /\ receiver'[o].populated /\ receiver'[o].lock
        /\ (receiver'[o].waiting <=> receiver[o].waiting)
    BY <1>1, <1>6, <1>r DEF SetFlag, Receivers
  <2>2. wpc'[w] = "signal" /\ \A v \in Workers : v # w => wpc'[v] = wpc[v]
    BY <1>6 DEF Work, Base, Types, WorkerTypes
  <2>3. LinkedOnce'
    BY <1>0, <1>6 DEF HandOver, LinkedOnce, isLinked
  <2>4. QueuedStage'
    BY <1>0, <1>2, <2>1 DEF HandOver, QueuedStage, Expecting, isLinked
  <2>5. HandStage'
    <3>1. SUFFICES ASSUME NEW v \in Workers PROVE HandStage!(v)'
      BY DEF HandStage
    <3>2. CASE v = w
      BY <1>0, <1>4, <1>6, <2>1, <2>2, <3>2 DEF HandOver, HandStage, Signalling, isLinked
    <3>3. CASE v # w
      BY <1>0, <1>2, <1>6, <2>1, <2>2, <3>3 DEF HandOver, HandStage, Expecting, Signalling, isLinked
    <3> QED BY <3>2, <3>3
  <2>6. \A p \in Owners : (Queued(p)' <=> Queued(p)) /\ (Held(p)' <=> Held(p))
    BY <1>0, <1>6 DEF Queued, Held
  <2>7. OwnerStage'
    <3>1. SUFFICES ASSUME NEW p \in Owners PROVE OwnerStage!(p)'
      BY DEF OwnerStage
    <3>2. CASE p = o
      BY <1>0, <1>3, <1>4, <2>1, <2>6, <3>2 DEF HandOver, OwnerStage
    <3>3. CASE p # o
      BY <1>0, <2>1, <2>6, <3>3 DEF HandOver, OwnerStage
    <3> QED BY <3>2, <3>3
  <2> QED BY <2>3, <2>4, <2>5, <2>7 DEF HandOver
<1>7. CASE /\ wpc[w] = "signal" /\ SignalPopulated(o)
           /\ hand' = [hand EXCEPT ![w] = NoEntry] /\ Work(w, "loadCount")
  <2>1. /\ \A p \in Owners : p # o => receiver'[p] = receiver[p]
        /\ receiver'[o].value = receiver[o].value
        /\ (receiver'[o].alive <=> receiver[o].alive)
        /\ (receiver'[o].populated <=> receiver[o].populated)
        /\ ~receiver'[o].lock /\ ~receiver'[o].waiting
    BY <1>1, <1>7, <1>r DEF SignalPopulated, Receivers
  <2>2. /\ wpc'[w] = "loadCount" /\ hand'[w].link = None
        /\ \A v \in Workers : v # w => wpc'[v] = wpc[v] /\ hand'[v] = hand[v]
    BY <1>7 DEF Work, NoEntry, Base, Types, WorkerTypes, EntryTypes
  <2>3. LinkedOnce'
    BY <1>0, <2>2 DEF HandOver, LinkedOnce, isLinked
  <2>4. QueuedStage'
    BY <1>0, <1>2, <2>1 DEF HandOver, QueuedStage, Expecting, isLinked
  <2>5. HandStage'
    <3>1. SUFFICES ASSUME NEW v \in Workers PROVE HandStage!(v)'
      BY DEF HandStage
    <3>2. CASE v = w
      BY <2>2, <3>2 DEF isLinked
    <3>3. CASE v # w
      BY <1>0, <1>2, <2>1, <2>2, <3>3 DEF HandOver, HandStage, Expecting, Signalling, isLinked
    <3> QED BY <3>2, <3>3
  <2>6. \A p \in Owners : p # o => (Queued(p)' <=> Queued(p)) /\ (Held(p)' <=> Held(p))
    BY <1>0, <2>2, LinkTypes DEF Queued, Held
  <2>7. OwnerStage'
    <3>1. SUFFICES ASSUME NEW p \in Owners PROVE OwnerStage!(p)'
      BY DEF OwnerStage
    <3>2. CASE p = o
      <4>1. receiver[o].populated /\ receiver[o].value = i[o]
        BY <1>4, <1>7 DEF HandOver, HandStage, Signalling
      <4> QED BY <1>0, <1>4, <2>1, <3>2, <4>1
    <3>3. CASE p # o
      BY <1>0, <2>1, <2>6, <3>3 DEF HandOver, OwnerStage
    <3> QED BY <3>2, <3>3
  <2> QED BY <2>3, <2>4, <2>5, <2>7 DEF HandOver
<1> QED BY <1>5, <1>6, <1>7 DEF SetStatus

(* Nothing is handed over yet in the beginning.                            *)
LEMMA InitHandOver == Init => HandOver
<1> SUFFICES ASSUME Init PROVE HandOver
  OBVIOUS
<1>1. /\ Len(queue) = 0 /\ \A w \in Workers : hand[w].link = None /\ wpc[w] = "remove"
      /\ \A o \in Owners : pc[o] = "fill" /\ receiver[o] = NoReceiver
  BY SampleAssumption DEF Init, ReceiverInit, NoEntry
<1>2. LinkedOnce /\ QueuedStage
  BY <1>1 DEF LinkedOnce, QueuedStage, isLinked
<1>3. HandStage
  BY <1>1 DEF HandStage, isLinked
<1>4. OwnerStage
  BY <1>1 DEF OwnerStage, Turn, NoReceiver, NewReceiver
<1> QED BY <1>2, <1>3, <1>4 DEF HandOver

(* One of the lemmas above for every action.                               *)
LEMMA NextHandOver ==
  ASSUME SignalsInTime', Base, HandOver, [Next]_vars
  PROVE  HandOver'
<1> USE DEF Turn
<1>t. AdderTypes /\ WorkerTypes /\ EntryTypes /\ Turns
  BY DEF Base, Types
<1>q. /\ SampleQueueEntry1(None, None) \in Entries /\ ~isLinked(SampleQueueEntry1(None, None))
      /\ SampleQueueEntry2 \in Entries /\ ~isLinked(SampleQueueEntry2)
  BY DEF Entries, SampleQueueEntry1, SampleQueueEntry2, isLinked
<1>1. ASSUME NEW o \in Owners, Fill(o) PROVE HandOver'
  <2>1. \A p \in Owners : \/ pc'[p] = pc[p] /\ i'[p] = i[p]
                          \/ pc[p] \notin Turn /\ pc'[p] \notin Turn
    BY <1>1, <1>t DEF Fill, Loop, Goto, AdderTypes
  <2> QED BY <1>1, <1>q, <2>1, QuietStep DEF Fill, workVars
<1>2. ASSUME NEW o \in Owners, Start(o) PROVE HandOver'
  <2>1. \A p \in Owners : \/ pc'[p] = pc[p] /\ i'[p] = i[p]
                          \/ pc[p] \notin Turn /\ pc'[p] \notin Turn
    BY <1>2, <1>t DEF Start, Goto, AdderTypes
  <2> QED BY <1>2, <2>1, QuietStep DEF Start, workVars
<1>3. ASSUME NEW o \in Owners, Quick(o) PROVE HandOver'
  <2>1. \A p \in Owners : \/ pc'[p] = pc[p] /\ i'[p] = i[p]
                          \/ pc[p] \notin Turn /\ pc'[p] \notin Turn
    BY <1>3, <1>t DEF Quick, Loop, Goto, AdderTypes
  <2>2. \E e \in Entries : ~isLinked(e) /\ queue' = Append(queue, e)
    BY <1>3, <1>q DEF Quick
  <2>3. UNCHANGED <<receiver, hand, wpc>>
    BY <1>3 DEF Quick, workVars
  <2> QED BY <2>1, <2>2, <2>3, QuietStep
<1>4. ASSUME NEW o \in Owners, GetValue(o) PROVE HandOver'
  <2>1. /\ pc[o] = "getValue" /\ pc'[o] = IF receiver[o].populated THEN "return" ELSE "await"
        /\ \A p \in Owners : p # o => pc'[p] = pc[p]
        /\ UNCHANGED <<receiver, i, queue, hand, wpc>>
    BY <1>4, <1>t DEF GetValue, isPopulated, Goto, AdderTypes, workVars
  <2>2. /\ receiver[o] = [receiver[o] EXCEPT !.waiting = receiver[o].waiting]
        /\ ~receiver[o].waiting
    BY <2>1 DEF Base, Types, Receivers, HandOver, OwnerStage
  <2> QED BY <2>1, <2>2, TurnStep
<1>5. ASSUME NEW o \in Owners, AwaitValue(o) PROVE HandOver'
  <2>1. /\ pc[o] = "await" /\ pc'[o] = "awaiting"
        /\ \A p \in Owners : p # o => pc'[p] = pc[p]
        /\ UNCHANGED <<i, queue, hand, wpc>>
    BY <1>5, <1>t DEF AwaitValue, Goto, AdderTypes, workVars
  <2>2. /\ receiver'[o] = [receiver[o] EXCEPT !.waiting = receiver'[o].waiting]
        /\ (receiver'[o].waiting <=> ~receiver[o].populated)
        /\ \A p \in Owners : p # o => receiver'[p] = receiver[p]
    BY <1>5 DEF AwaitValue, Await, Base, Types, Receivers
  <2> QED BY <2>1, <2>2, TurnStep
<1>6. ASSUME NEW o \in Owners, AwaitEnds(o) PROVE HandOver'
  <2>1. /\ pc[o] = "awaiting" /\ pc'[o] = "return" /\ ~receiver[o].waiting
        /\ \A p \in Owners : p # o => pc'[p] = pc[p]
        /\ UNCHANGED <<receiver, i, queue, hand, wpc>>
    BY <1>6, <1>t DEF AwaitEnds, Awaited, Goto, AdderTypes, workVars
  <2>2. /\ receiver[o] = [receiver[o] EXCEPT !.waiting = receiver[o].waiting]
        /\ receiver[o].populated
    BY <2>1 DEF Base, Types, Receivers, HandOver, OwnerStage
  <2> QED BY <2>1, <2>2, TurnStep
<1>7. ASSUME NEW t \in Owners \cup {Main}, ReportSwap(t) PROVE HandOver'
  BY <1>7, QuietStep DEF ReportSwap, addVars, workVars
<1>8. ASSUME NEW t \in Owners \cup {Main}, ReportAdd(t) PROVE HandOver'
  <2>1. pc[t] \in {"report1", "report2", "report"}
    BY <1>8, SampleAssumption DEF ReportAdd, Base, Reports
  <2>2. \A p \in Owners : \/ pc'[p] = pc[p] /\ i'[p] = i[p]
                          \/ pc[p] \notin Turn /\ pc'[p] \notin Turn
    BY <1>8, <1>t, <2>1 DEF ReportAdd, Goto, AfterReport, AdderTypes
  <2> QED BY <1>8, <2>2, QuietStep DEF ReportAdd, workVars
<1>9. ASSUME NEW w \in Workers, LoadCount(w) \/ StoreCount(w) \/ Finalize(w) PROVE HandOver'
  <2>1. \A v \in Workers :
            \/ wpc'[v] = wpc[v]
            \/ {wpc[v], wpc'[v]} \cap {"storeRemoved", "setValue", "setFlag", "signal"} = {}
    BY <1>9, <1>t DEF LoadCount, StoreCount, Finalize, Work, WorkerTypes
  <2>2. UNCHANGED <<receiver, hand, queue, pc, i>>
    BY <1>9 DEF LoadCount, StoreCount, Finalize, addVars
  <2> QED BY <2>1, <2>2, QuietStep
<1>10. ASSUME JoinAdders \/ Sleep \/ CountConsumed \/ Terminate \/ JoinWorkers PROVE HandOver'
  <2>1. \A p \in Owners : pc'[p] = pc[p] /\ i'[p] = i[p]
    BY <1>10, <1>t, SampleAssumption
       DEF JoinAdders, Sleep, CountConsumed, Terminate, JoinWorkers, Goto, AdderTypes
  <2>2. UNCHANGED <<receiver, hand, queue, wpc>>
    BY <1>10 DEF JoinAdders, Sleep, CountConsumed, Terminate, JoinWorkers, workVars
  <2> QED BY <2>1, <2>2, QuietStep
<1>11. ASSUME UNCHANGED vars PROVE HandOver'
  BY <1>11, QuietStep DEF vars, addVars, workVars
<1> QED
  BY <1>1, <1>2, <1>3, <1>4, <1>5, <1>6, <1>7, <1>8, <1>9, <1>10, <1>11, AddLinkedHandOver,
     GetValueReturnsHandOver, RemoveHandOver, StoreRemovedHandOver, SetStatusHandOver
     DEF Next, AdderStep, WorkerStep, MainStep, Report, Ended

-----------------------------------------------------------------------------
(* The terms of the two sums, and how a step changes them.                 *)

Adds == [o \in Owners |-> ToAdd(o)]

(* There are finitely many threads and entries.                            *)
LEMMA Finite ==
  /\ IsFiniteSet(Workers) /\ IsFiniteSet(Consumers) /\ IsFiniteSet(Owners)
  /\ PerAdder \in Nat /\ Total \in Nat
<1>1. IsFiniteSet(Workers) /\ IsFiniteSet(Consumers) /\ IsFiniteSet(Owners)
  <2>1. N \in Int /\ K \in Int /\ 1 \in Int
    BY SampleAssumption
  <2> QED BY <2>1, FS_Interval, SampleAssumption DEF Workers, Consumers
<1>2. PerAdder \in Nat
  BY SampleAssumption DEF PerAdder
<1>3. Cardinality(Owners) \in Nat
  BY <1>1, FS_CardinalityType
<1> QED BY <1>1, <1>2, <1>3 DEF Total

(* An adder has a natural number of entries to add.                        *)
LEMMA ToAddType ==
  ASSUME Base, NEW o \in Owners
  PROVE  ToAdd(o) \in Nat
<1>1. /\ i[o] \in Nat /\ i[o] >= 1
      /\ pc[o] \in AdderSteps
      /\ pc[o] = "fill" => i[o] <= count1
      /\ pc[o] \in {"quick", "quick2"} => i[o] <= count2
      /\ pc[o] \in {"add"} \cup Turn => i[o] <= count3
  BY DEF Base, Types, AdderTypes, Turns
<1> QED BY <1>1, SampleAssumption DEF ToAdd, PerAdder, AdderSteps, Turn

(* What is to be added, as a function.                                     *)
LEMMA AddsType == Base => Adds \in [Owners -> Nat]
BY ToAddType DEF Adds

(* All terms of the sums are natural numbers.                              *)
LEMMA SumTypes ==
  Base => /\ SumFunction(count) \in Nat /\ SumFunction(removedCount) \in Nat
          /\ SumFunction(Adds) \in Nat /\ Len(queue) \in Nat
BY Finite, AddsType, SumType DEF Base, Types, CountTypes, StatsTypes, EntryTypes

(* How the step of one worker changes the number of those in some steps.   *)
LEMMA BusyChange ==
  ASSUME NEW w \in Workers, NEW S, \A v \in Workers : v # w => wpc'[v] = wpc[v]
  PROVE  /\ Busy(S) \in Nat
         /\ wpc[w] \in S /\ wpc'[w] \notin S => Busy(S) = Busy(S)' + 1
         /\ wpc[w] \notin S /\ wpc'[w] \in S => Busy(S)' = Busy(S) + 1
         /\ (wpc[w] \in S <=> wpc'[w] \in S) => Busy(S)' = Busy(S)
<1> DEFINE old == {v \in Workers : wpc[v] \in S}
           new == {v \in Workers : wpc'[v] \in S}
<1>1. IsFiniteSet(old) /\ IsFiniteSet(new)
  BY Finite, FS_Subset
<1>2. Cardinality(old) \in Nat /\ Cardinality(new) \in Nat
  BY <1>1, FS_CardinalityType
<1>3. Busy(S) = Cardinality(old) /\ Busy(S)' = Cardinality(new)
  BY DEF Busy
<1>4. ASSUME wpc[w] \in S, wpc'[w] \notin S PROVE Cardinality(old) = Cardinality(new) + 1
  <2>1. old = new \cup {w} /\ w \notin new
    BY <1>4
  <2> QED BY <1>1, <2>1, FS_AddElement
<1>5. ASSUME wpc[w] \notin S, wpc'[w] \in S PROVE Cardinality(new) = Cardinality(old) + 1
  <2>1. new = old \cup {w} /\ w \notin old
    BY <1>5
  <2> QED BY <1>1, <2>1, FS_AddElement
<1>6. ASSUME wpc[w] \in S <=> wpc'[w] \in S PROVE new = old
  BY <1>6
<1> QED BY <1>2, <1>3, <1>4, <1>5, <1>6

(* The numbers of workers that hold an entry, and that have not yet stored *)
(* their counter.                                                          *)
LEMMA BusyTypes == Busy(InHand) \in Nat /\ Busy({"storeRemoved"}) \in Nat
<1>1. 1 \in Workers
  BY SampleAssumption DEF Workers
<1>2. \A S : IsFiniteSet({v \in Workers : wpc[v] \in S})
  BY Finite, FS_Subset
<1> QED BY <1>2, FS_CardinalityType DEF Busy

(* An adder that changes nobody's count but its own.                       *)
LEMMA AddsChange ==
  ASSUME Base, Base', NEW o \in Owners, NEW k \in Nat, ToAdd(o) = ToAdd(o)' + k,
         \A p \in Owners : p # o => pc'[p] = pc[p] /\ i'[p] = i[p]
  PROVE  SumFunction(Adds) = SumFunction(Adds)' + k
<1>1. Adds \in [Owners -> Nat] /\ Adds' \in [Owners -> Nat]
  <2>1. Adds \in [Owners -> Nat]
    BY AddsType
  <2>2. Base' => (Adds \in [Owners -> Nat])'
    BY AddsType, PTL
  <2> QED BY <2>1, <2>2
<1>2. \A p \in Owners : p # o => ToAdd(p)' = ToAdd(p)
  BY DEF ToAdd
<1>3. \A p \in Owners : p # o => Adds'[p] = Adds[p]
  BY <1>2 DEF Adds
<1>4. Adds[o] = ToAdd(o) /\ Adds'[o] = ToAdd(o)'
  BY DEF Adds
<1>5. SumFunction(Adds') + Adds[o] = SumFunction(Adds) + Adds'[o]
  BY <1>1, <1>3, Finite, SumPoint
<1>6. SumFunction(Adds)' \in Nat /\ SumFunction(Adds) \in Nat
  BY <1>1, Finite, SumType
<1>7. ToAdd(o) \in Nat /\ ToAdd(o)' \in Nat
  BY <1>1, <1>4
<1> QED BY <1>4, <1>5, <1>6, <1>7

(* Adders that go on without adding.                                       *)
LEMMA AddsKept ==
  ASSUME \A o \in Owners : pc'[o] = pc[o] /\ i'[o] = i[o]
  PROVE  SumFunction(Adds)' = SumFunction(Adds)
<1>1. \A p \in Owners : ToAdd(p)' = ToAdd(p)
  BY DEF ToAdd
<1>2. Adds' = Adds
  BY <1>1 DEF Adds
<1> QED BY <1>2

(* An entry added is one less to add.                                      *)
LEMMA AddedOne ==
  ASSUME Base, Base', NEW o \in Owners, Fill(o) \/ Quick(o) \/ AddLinked(o)
  PROVE  /\ SumFunction(Adds) = SumFunction(Adds)' + 1
         /\ Len(queue') = Len(queue) + 1
<1>0. AdderTypes /\ Turns /\ EntryTypes
  BY DEF Base, Types
<1>1. \A p \in Owners : p # o => pc'[p] = pc[p] /\ i'[p] = i[p]
  BY <1>0 DEF Fill, Quick, AddLinked, Loop, Goto, AdderTypes
<1>2. i[o] \in Nat /\ i[o] >= 1
  BY <1>0 DEF AdderTypes, Turns
<1>3. CASE Fill(o)
  <2>1. pc[o] = "fill" /\ i[o] <= count1
    BY <1>0, <1>3 DEF Fill, Turns
  <2>2. \/ i[o] < count1 /\ pc'[o] = "fill" /\ i'[o] = i[o] + 1
        \/ i[o] >= count1 /\ pc'[o] = "report1" /\ i'[o] = 1
    BY <1>0, <1>2, <1>3, SampleAssumption DEF Fill, Loop, Goto, AdderTypes
  <2>3. ToAdd(o) = ToAdd(o)' + 1
    BY <1>2, <2>1, <2>2, SampleAssumption DEF ToAdd, PerAdder
  <2>4. Len(queue') = Len(queue) + 1
    BY <1>0, <1>3 DEF Fill, EntryTypes
  <2> QED BY <1>1, <2>3, <2>4, AddsChange
<1>4. CASE Quick(o)
  <2>1. \/ pc[o] = "quick" /\ i[o] <= count2 /\ pc'[o] = "quick2" /\ i'[o] = i[o]
        \/ pc[o] = "quick2" /\ i[o] < count2 /\ pc'[o] = "quick" /\ i'[o] = i[o] + 1
        \/ pc[o] = "quick2" /\ i[o] = count2 /\ pc'[o] = "add" /\ i'[o] = 1
    BY <1>0, <1>2, <1>4, SampleAssumption DEF Quick, Loop, Goto, AdderTypes, Turns
  <2>2. ToAdd(o) = ToAdd(o)' + 1
    BY <1>2, <2>1, SampleAssumption DEF ToAdd
  <2>3. Len(queue') = Len(queue) + 1
    BY <1>0, <1>4 DEF Quick, EntryTypes
  <2> QED BY <1>1, <2>2, <2>3, AddsChange
<1>5. CASE AddLinked(o)
  <2>1. pc[o] = "add" /\ i[o] <= count3 /\ pc'[o] = "getValue" /\ i'[o] = i[o]
    BY <1>0, <1>5 DEF AddLinked, Goto, AdderTypes, Turns
  <2>2. ToAdd(o) = ToAdd(o)' + 1
    BY <1>2, <2>1, SampleAssumption DEF ToAdd
  <2>3. Len(queue') = Len(queue) + 1
    BY <1>0, <1>5 DEF AddLinked, EntryTypes
  <2> QED BY <1>1, <2>2, <2>3, AddsChange
<1> QED BY <1>3, <1>4, <1>5

(* The other steps of an adder leave what it has to add as it is.          *)
LEMMA AddedNone ==
  ASSUME Base, Base', NEW t \in Owners \cup {Main},
         \/ Start(t) \/ GetValue(t) \/ AwaitValue(t) \/ AwaitEnds(t) \/ GetValueReturns(t)
         \/ ReportSwap(t) \/ ReportAdd(t),
         t = Main => Report(t)
  PROVE  SumFunction(Adds)' = SumFunction(Adds)
<1>0. AdderTypes /\ Turns /\ Reports
  BY DEF Base, Types
<1>1. \A p \in Owners : p # t => pc'[p] = pc[p] /\ i'[p] = i[p]
  BY <1>0 DEF Start, GetValue, AwaitValue, AwaitEnds, GetValueReturns, ReportSwap, ReportAdd, Loop,
              Goto, AdderTypes, addVars
<1>2. CASE t = Main
  BY <1>1, <1>2, SampleAssumption, AddsKept
<1>3. CASE t \in Owners
  <2>1. i[t] \in Nat /\ i[t] >= 1
    BY <1>0, <1>3 DEF AdderTypes, Turns
  <2>2. ASSUME Start(t) PROVE ToAdd(t)' = ToAdd(t)
    <3>1. pc[t] = "start" /\ i[t] = 1 /\ pc'[t] = "quick" /\ i'[t] = 1
      BY <1>0, <1>3, <2>2 DEF Start, Goto, AdderTypes, Turns
    <3> QED BY <3>1, SampleAssumption DEF ToAdd, PerAdder
  <2>3. ASSUME GetValue(t) \/ AwaitValue(t) \/ AwaitEnds(t) PROVE ToAdd(t)' = ToAdd(t)
    <3>1. pc[t] \in Turn /\ pc'[t] \in Turn /\ i'[t] = i[t]
      BY <1>0, <1>3, <2>3 DEF GetValue, AwaitValue, AwaitEnds, Goto, AdderTypes, Turn
    <3> QED BY <3>1 DEF ToAdd, Turn
  <2>4. ASSUME GetValueReturns(t) PROVE ToAdd(t)' = ToAdd(t)
    <3>1. /\ pc[t] = "return" /\ i[t] <= count3
          /\ \/ i[t] < count3 /\ pc'[t] = "add" /\ i'[t] = i[t] + 1
             \/ i[t] = count3 /\ pc'[t] = "report2" /\ i'[t] = 1
      BY <1>0, <1>3, <2>1, <2>4, SampleAssumption
         DEF GetValueReturns, Loop, Goto, AdderTypes, Turns, Turn
    <3> QED BY <2>1, <3>1, SampleAssumption DEF ToAdd
  <2>5. ASSUME ReportSwap(t) PROVE ToAdd(t)' = ToAdd(t)
    BY <2>5 DEF ReportSwap, addVars, ToAdd
  <2>6. ASSUME ReportAdd(t) PROVE ToAdd(t)' = ToAdd(t)
    <3>1. pc[t] \in {"report1", "report2"}
      BY <1>0, <1>3, <2>6, SampleAssumption DEF ReportAdd, Reports, Turns, AdderSteps, Turn
    <3>2. \/ pc'[t] = pc[t]
          \/ pc[t] = "report1" /\ pc'[t] = "start"
          \/ pc[t] = "report2" /\ pc'[t] = "done"
      BY <1>0, <1>3, <2>6, <3>1 DEF ReportAdd, Goto, AfterReport, AdderTypes
    <3>3. i' = i
      BY <2>6 DEF ReportAdd
    <3> QED BY <3>1, <3>2, <3>3 DEF ToAdd
  <2>7. ToAdd(t)' = ToAdd(t)
    BY <1>3, <2>2, <2>3, <2>4, <2>5, <2>6
  <2>8. ToAdd(t) = ToAdd(t)' + 0
    BY <1>3, <2>7, ToAddType
  <2>9. SumFunction(Adds) = SumFunction(Adds)' + 0
    BY <1>1, <1>3, <2>8, AddsChange
  <2>10. Base' => (SumFunction(Adds) \in Nat)'
    BY SumTypes, PTL
  <2> QED BY <2>9, <2>10
<1> QED BY <1>2, <1>3

-----------------------------------------------------------------------------
(* The steps keep the sums.                                                *)

Taken == IF swapped = None THEN 0 ELSE swapped
Reported == statsRemoved + SumFunction(removedCount) + Taken
Unremoved == SumFunction(Adds) + Len(queue) + Busy({"storeRemoved"})
Uncounted == SumFunction(Adds) + Len(queue) + Busy(InHand)

(* The two sums in these terms.                                            *)
LEMMA SumsAre ==
  ASSUME Base
  PROVE  /\ Reported \in Nat /\ Unremoved \in Nat /\ Uncounted \in Nat /\ Taken \in Nat
         /\ CountsExact <=> totalExpected = SumFunction(count) + Uncounted
         /\ StatsSum <=> Reported + Unremoved = Total
<1>1. /\ SumFunction(count) \in Nat /\ SumFunction(removedCount) \in Nat
      /\ SumFunction(Adds) \in Nat /\ Len(queue) \in Nat
  BY SumTypes
<1>2. Busy(InHand) \in Nat /\ Busy({"storeRemoved"}) \in Nat /\ Total \in Nat
  BY BusyTypes, Finite
<1>3. statsRemoved \in Nat /\ Taken \in Nat
  BY DEF Base, Types, StatsTypes, Taken
<1>4. StillToAdd = SumFunction(Adds)
  BY DEF StillToAdd, Adds
<1>5. Reported \in Nat /\ Unremoved \in Nat /\ Uncounted \in Nat
  BY <1>1, <1>2, <1>3 DEF Reported, Unremoved, Uncounted
<1>6. CountsExact <=> totalExpected = SumFunction(count) + Busy(InHand) + Len(queue) + SumFunction(Adds)
  BY <1>4 DEF CountsExact
<1>7. CountsExact <=> totalExpected = SumFunction(count) + Uncounted
  BY <1>1, <1>2, <1>6 DEF Uncounted
<1>8. StatsSum <=> Reported = Total - SumFunction(Adds) - Len(queue) - Busy({"storeRemoved"})
  BY <1>4 DEF StatsSum, Reported, Taken
<1>9. StatsSum <=> Reported + Unremoved = Total
  <2>1. Unremoved = SumFunction(Adds) + Len(queue) + Busy({"storeRemoved"})
    BY DEF Unremoved
  <2>2. Reported = Total - SumFunction(Adds) - Len(queue) - Busy({"storeRemoved"})
          <=> Reported + (SumFunction(Adds) + Len(queue) + Busy({"storeRemoved"})) = Total
    <3> DEFINE R == Reported  T == Total  A == SumFunction(Adds)  L == Len(queue)
               B == Busy({"storeRemoved"})
    <3>1. R \in Nat /\ T \in Nat /\ A \in Nat /\ L \in Nat /\ B \in Nat
      BY <1>1, <1>2, <1>5
    <3> HIDE DEF R, T, A, L, B
    <3>2. R = T - A - L - B <=> R + (A + L + B) = T
      BY <3>1
    <3> QED BY <3>2 DEF R, T, A, L, B
  <2> QED BY <1>8, <2>1, <2>2, Zenon
<1> QED BY <1>3, <1>5, <1>7, <1>9

SumTerms ==
  /\ Reported \in Nat /\ Unremoved \in Nat /\ Uncounted \in Nat /\ Taken \in Nat
  /\ CountsExact <=> totalExpected = SumFunction(count) + Uncounted
  /\ StatsSum <=> Reported + Unremoved = Total

(* SumsAre, as an implication.                                             *)
LEMMA SumTermsHold == Base => SumTerms
BY SumsAre DEF SumTerms

(* The two sums after a step.                                              *)
LEMMA SumsAreNext ==
  ASSUME Base'
  PROVE  /\ Reported' \in Nat /\ Unremoved' \in Nat /\ Uncounted' \in Nat /\ Taken' \in Nat
         /\ CountsExact' <=> totalExpected' = SumFunction(count)' + Uncounted'
         /\ StatsSum' <=> Reported' + Unremoved' = Total
<1>1. Base' => SumTerms'
  BY SumTermsHold, PTL
<1> QED BY <1>1 DEF SumTerms

(* What is taken from a counter is missing in the sum of all.              *)
LEMMA RemovedChange ==
  ASSUME Base, Base', NEW w \in Workers, \A v \in Workers : v # w => removedCount'[v] = removedCount[v]
  PROVE  /\ SumFunction(removedCount') + removedCount[w] = SumFunction(removedCount) + removedCount'[w]
         /\ SumFunction(removedCount') \in Nat /\ SumFunction(removedCount) \in Nat
         /\ removedCount[w] \in Nat /\ removedCount'[w] \in Nat
<1>1. removedCount \in [Workers -> Nat] /\ removedCount' \in [Workers -> Nat]
  BY DEF Base, Types, StatsTypes
<1> QED BY <1>1, SumPoint, SumType, Finite

(* The same for the counters of the consumers.                             *)
LEMMA CountChange ==
  ASSUME Base, Base', NEW c \in Consumers, \A k \in Consumers : k # c => count'[k] = count[k]
  PROVE  /\ SumFunction(count') + count[c] = SumFunction(count) + count'[c]
         /\ SumFunction(count') \in Nat /\ SumFunction(count) \in Nat
         /\ count[c] \in Nat /\ count'[c] \in Nat
<1>1. count \in [Consumers -> Nat] /\ count' \in [Consumers -> Nat]
  BY DEF Base, Types, CountTypes
<1> QED BY <1>1, SumPoint, SumType, Finite

(* Steps of the adders and of main leave what is not yet removed, and what *)
(* is not yet counted, as it is: an entry that is queued is one less to    *)
(* add.                                                                    *)
LEMMA ClientTerms ==
  ASSUME Base, Base',
         \/ \E o \in Owners : AdderStep(o)
         \/ MainStep
         \/ UNCHANGED vars
  PROVE  UNCHANGED <<wpc, loaded, Unremoved, Uncounted>>
<1>0. AdderTypes
  BY DEF Base, Types
<1>1. UNCHANGED <<wpc, loaded>>
  BY DEF AdderStep, MainStep, Report, Fill, Start, Quick, AddLinked, GetValue, AwaitValue, AwaitEnds,
         GetValueReturns, ReportSwap, ReportAdd, JoinAdders, Sleep, CountConsumed, Terminate,
         JoinWorkers, workVars, vars
<1>2. \/ UNCHANGED queue /\ SumFunction(Adds)' = SumFunction(Adds)
      \/ Len(queue') = Len(queue) + 1 /\ SumFunction(Adds) = SumFunction(Adds)' + 1
  <2>1. ASSUME NEW o \in Owners, Fill(o) \/ Quick(o) \/ AddLinked(o) PROVE <1>2
    BY <2>1, AddedOne
  <2>2. ASSUME NEW o \in Owners,
               Start(o) \/ GetValue(o) \/ AwaitValue(o) \/ AwaitEnds(o) \/ GetValueReturns(o)
        PROVE  <1>2
    <3>1. SumFunction(Adds)' = SumFunction(Adds)
      BY <2>2, AddedNone, SampleAssumption
    <3>2. UNCHANGED queue
      BY <2>2 DEF Start, GetValue, AwaitValue, AwaitEnds, GetValueReturns
    <3> QED BY <3>1, <3>2
  <2>3. ASSUME NEW t \in Owners \cup {Main}, Report(t) PROVE <1>2
    <3>1. SumFunction(Adds)' = SumFunction(Adds)
      BY <2>3, AddedNone DEF Report
    <3>2. UNCHANGED queue
      BY <2>3 DEF Report, ReportSwap, ReportAdd
    <3> QED BY <3>1, <3>2
  <2>4. ASSUME JoinAdders \/ Sleep \/ CountConsumed \/ Terminate \/ JoinWorkers \/ UNCHANGED vars
        PROVE  <1>2
    <3>1. \A p \in Owners : pc'[p] = pc[p] /\ i'[p] = i[p]
      BY <1>0, <2>4, SampleAssumption
         DEF JoinAdders, Sleep, CountConsumed, Terminate, JoinWorkers, Goto, AdderTypes, vars, addVars
    <3>2. UNCHANGED queue
      BY <2>4 DEF JoinAdders, Sleep, CountConsumed, Terminate, JoinWorkers, vars
    <3> QED BY <3>1, <3>2, AddsKept
  <2> QED BY <2>1, <2>2, <2>3, <2>4 DEF AdderStep, MainStep
<1>3. Busy(InHand)' = Busy(InHand) /\ Busy({"storeRemoved"})' = Busy({"storeRemoved"})
  BY <1>1 DEF Busy
<1>4. /\ SumFunction(Adds) \in Nat /\ Len(queue) \in Nat
      /\ Busy(InHand) \in Nat /\ Busy({"storeRemoved"}) \in Nat
  BY SumTypes, BusyTypes
<1>5. SumFunction(Adds)' \in Nat
  <2>1. Base' => (SumFunction(Adds) \in Nat)'
    BY SumTypes, PTL
  <2> QED BY <2>1
<1>6. SumFunction(Adds)' + Len(queue)' = SumFunction(Adds) + Len(queue)
  BY <1>2, <1>4, <1>5
<1> QED BY <1>1, <1>3, <1>6 DEF Unremoved, Uncounted

(* Steps of a worker: what is removed is taken from the queue, but not     *)
(* from the sums; one increment ends what is not removed, the other what   *)
(* is not counted.                                                         *)
LEMMA WorkerTerms ==
  ASSUME Base, Base', NEW w \in Workers, WorkerStep(w)
  PROVE  /\ Remove(w) \/ SetStatus(w) \/ LoadCount(w) \/ Finalize(w) =>
              UNCHANGED <<Unremoved, Uncounted>>
         /\ StoreRemoved(w) => Unremoved = Unremoved' + 1 /\ Uncounted' = Uncounted
         /\ StoreCount(w) => Unremoved' = Unremoved /\ Uncounted = Uncounted' + 1
<1>0. WorkerTypes /\ EntryTypes
  BY DEF Base, Types
<1>1. /\ \A v \in Workers : v # w => wpc'[v] = wpc[v]
      /\ UNCHANGED <<pc, i>>
  BY <1>0 DEF WorkerStep, Remove, StoreRemoved, SetStatus, LoadCount, StoreCount, Finalize, Work,
              WorkerTypes, addVars
<1>2. SumFunction(Adds)' = SumFunction(Adds)
  BY <1>1, AddsKept
<1>3. /\ SumFunction(Adds) \in Nat /\ Len(queue) \in Nat
      /\ Busy(InHand) \in Nat /\ Busy({"storeRemoved"}) \in Nat
  BY SumTypes, BusyTypes
<1>p. Busy(InHand)' \in Nat /\ Busy({"storeRemoved"})' \in Nat
  <2>1. (Busy(InHand) \in Nat)' /\ (Busy({"storeRemoved"}) \in Nat)'
    BY BusyTypes, PTL
  <2> QED BY <2>1
<1>4. ASSUME Remove(w) PROVE UNCHANGED <<Unremoved, Uncounted>>
  <2>1. wpc[w] = "remove" /\ wpc'[w] = "storeRemoved"
    BY <1>0, <1>4 DEF Remove, Work, WorkerTypes
  <2>2. Len(queue) = Len(queue') + 1 /\ Len(queue') \in Nat
    BY <1>0, <1>4 DEF Remove, EntryTypes
  <2>3. /\ Busy(InHand)' = Busy(InHand) + 1
        /\ Busy({"storeRemoved"})' = Busy({"storeRemoved"}) + 1
    BY <1>1, <2>1, BusyChange DEF InHand
  <2>4. Unremoved' = Unremoved
    BY ONLY <1>2, <1>3, <2>2, <2>3 DEF Unremoved
  <2>5. Uncounted' = Uncounted
    BY ONLY <1>2, <1>3, <2>2, <2>3 DEF Uncounted
  <2> QED BY <2>4, <2>5
<1>5. ASSUME SetStatus(w) \/ LoadCount(w) \/ Finalize(w) PROVE UNCHANGED <<Unremoved, Uncounted>>
  <2>1. /\ wpc[w] \in InHand <=> wpc'[w] \in InHand
        /\ wpc[w] # "storeRemoved" /\ wpc'[w] # "storeRemoved"
    BY <1>0, <1>5 DEF SetStatus, LoadCount, Finalize, Work, WorkerTypes, InHand
  <2>2. UNCHANGED queue
    BY <1>5 DEF SetStatus, LoadCount, Finalize
  <2>3. Busy(InHand)' = Busy(InHand) /\ Busy({"storeRemoved"})' = Busy({"storeRemoved"})
    BY <1>1, <2>1, BusyChange
  <2> QED BY <1>2, <2>2, <2>3 DEF Unremoved, Uncounted
<1>6. ASSUME StoreRemoved(w) PROVE Unremoved = Unremoved' + 1 /\ Uncounted' = Uncounted
  <2>1. wpc[w] = "storeRemoved" /\ wpc'[w] \in {"setValue", "loadCount"} /\ UNCHANGED queue
    BY <1>0, <1>6 DEF StoreRemoved, Work, WorkerTypes
  <2>2. Busy(InHand)' = Busy(InHand) /\ Busy({"storeRemoved"}) = Busy({"storeRemoved"})' + 1
    BY <1>1, <2>1, BusyChange DEF InHand
  <2> QED BY <1>2, <1>3, <1>p, <2>1, <2>2 DEF Unremoved, Uncounted
<1>7. ASSUME StoreCount(w) PROVE Unremoved' = Unremoved /\ Uncounted = Uncounted' + 1
  <2>1. wpc[w] = "storeCount" /\ wpc'[w] = "remove" /\ UNCHANGED queue
    BY <1>0, <1>7 DEF StoreCount, Work, WorkerTypes
  <2>2. Busy(InHand) = Busy(InHand)' + 1 /\ Busy({"storeRemoved"})' = Busy({"storeRemoved"})
    BY <1>1, <2>1, BusyChange DEF InHand
  <2> QED BY <1>2, <1>3, <1>p, <2>1, <2>2 DEF Unremoved, Uncounted
<1> QED BY <1>4, <1>5, <1>6, <1>7

-----------------------------------------------------------------------------
(* The statistics.                                                         *)

(* What a reporting client takes is with it; an increment that is under    *)
(* way is of another worker, by Untorn.                                    *)
LEMMA ReportSwapStats ==
  ASSUME Base, Base', StatsInv, Untorn', NEW t \in Owners \cup {Main}, ReportSwap(t),
         UNCHANGED <<wpc, loaded, Unremoved>>
  PROVE  StatsInv'
<1>0. StatsTypes /\ Reports /\ Turns
  BY DEF Base, Types
<1>1. /\ UNCHANGED <<statsRemoved, cursor>>
      /\ swapped = None /\ swapped' = removedCount[cursor]
  BY DEF ReportSwap
<1>2. cursor \in Workers
  BY <1>0, SampleAssumption DEF ReportSwap, Reports, Turns, MainSteps, AdderSteps, Turn, Workers
<1>3. removedCount'[cursor] = 0 /\ \A v \in Workers : v # cursor => removedCount'[v] = removedCount[v]
  BY <1>0, <1>2 DEF ReportSwap, StatsTypes
<1>4. swapped' \in Nat /\ swapped' # None
  BY <1>0, <1>1, <1>2, SampleAssumption DEF StatsTypes
<1>5. wpc[cursor] # "storeRemoved"
  BY <1>1, <1>4 DEF Untorn
<1>6. Reported' = Reported
  <2>1. SumFunction(removedCount) = SumFunction(removedCount') + swapped' /\ SumFunction(removedCount') \in Nat
    BY <1>1, <1>2, <1>3, RemovedChange
  <2>2. Taken = 0 /\ Taken' = swapped'
    BY <1>1, <1>4 DEF Taken
  <2> QED BY <1>0, <1>1, <1>4, <2>1, <2>2 DEF Reported, StatsTypes
<1>7. StatsSum'
  BY <1>6, SumsAre, SumsAreNext DEF StatsInv
<1> QED BY <1>1, <1>2, <1>3, <1>5, <1>7 DEF StatsInv

(* What was taken is added, and the second reset of the counter loses      *)
(* nothing.                                                                *)
LEMMA ReportAddStats ==
  ASSUME Base, Base', StatsInv, NEW t \in Owners \cup {Main}, ReportAdd(t),
         UNCHANGED <<wpc, loaded, Unremoved>>
  PROVE  StatsInv'
<1>0. StatsTypes /\ Reports
  BY DEF Base, Types
<1>1. /\ reporter = t /\ swapped # None /\ swapped' = None
      /\ statsRemoved' = statsRemoved + swapped
  BY DEF ReportAdd, incrementRemovedCount
<1>2. cursor \in Workers /\ removedCount[cursor] = 0
  BY <1>0, <1>1, SampleAssumption DEF Reports, StatsInv
<1>3. removedCount' = removedCount
  BY <1>0, <1>2 DEF ReportAdd, StatsTypes
<1>4. Reported' = Reported
  <2>1. Taken = swapped /\ Taken' = 0 /\ swapped \in Nat
    BY <1>0, <1>1 DEF Taken, StatsTypes
  <2> QED BY <1>0, <1>1, <1>3, <2>1, SumTypes DEF Reported, StatsTypes
<1>5. StatsSum'
  BY <1>4, SumsAre, SumsAreNext DEF StatsInv
<1> QED BY <1>1, <1>3, <1>5 DEF StatsInv

(* Steps that move no removed counter.                                     *)
LEMMA OtherStats ==
  ASSUME Base, Base', StatsInv, UNCHANGED <<removedCount, statsRemoved, swapped, Unremoved>>,
         swapped # None => UNCHANGED cursor,
         \A w \in Workers : wpc'[w] = "storeRemoved" =>
            \/ wpc[w] = "storeRemoved" /\ loaded'[w] = loaded[w]
            \/ loaded'[w] = removedCount[w]
  PROVE  StatsInv'
<1>1. Reported' = Reported
  BY DEF Reported, Taken
<1>2. StatsSum'
  BY <1>1, SumsAre, SumsAreNext DEF StatsInv
<1> QED BY <1>2 DEF StatsInv

(* The increment of a removed counter adds one, since nobody took the      *)
(* counter in between.                                                     *)
LEMMA StoreRemovedStats ==
  ASSUME Base, Base', StatsInv, Untorn, NEW w \in Workers, StoreRemoved(w),
         Unremoved = Unremoved' + 1
  PROVE  StatsInv'
<1>0. WorkerTypes /\ StatsTypes /\ Reports
  BY DEF Base, Types
<1>1. UNCHANGED <<statsRemoved, swapped, cursor>> /\ wpc[w] = "storeRemoved"
  BY DEF StoreRemoved
<1>2. /\ wpc'[w] # "storeRemoved"
      /\ \A v \in Workers : v # w => wpc'[v] = wpc[v] /\ loaded'[v] = loaded[v]
  BY <1>0 DEF StoreRemoved, Work, WorkerTypes
<1>3. /\ removedCount'[w] = removedCount[w] + 1
      /\ \A v \in Workers : v # w => removedCount'[v] = removedCount[v]
  BY <1>0, <1>1 DEF StoreRemoved, StatsTypes, StatsInv
<1>4. Reported' = Reported + 1
  <2>1. SumFunction(removedCount') = SumFunction(removedCount) + 1 /\ SumFunction(removedCount) \in Nat
    BY <1>3, RemovedChange
  <2>2. Taken' = Taken /\ Taken \in Nat
    BY <1>1, SumsAre DEF Taken
  <2> QED BY <1>0, <1>1, <2>1, <2>2 DEF Reported, StatsTypes
<1>5. StatsSum'
  <2>1. Reported + Unremoved = Total
    BY SumsAre DEF StatsInv
  <2>2. Reported \in Nat /\ Unremoved' \in Nat
    BY SumsAre, SumsAreNext
  <2>3. Reported' + Unremoved' = Total
    BY <1>4, <2>1, <2>2
  <2> QED BY <2>3, SumsAreNext
<1>6. swapped # None => cursor \in Workers /\ cursor # w
  BY <1>0, <1>1 DEF Untorn, Reports
<1> QED BY <1>1, <1>2, <1>3, <1>5, <1>6 DEF StatsInv

(* A worker that dies leaves its counter in the statistics.                *)
LEMMA FinalizeStats ==
  ASSUME Base, Base', StatsInv, NEW w \in Workers, Finalize(w), UNCHANGED Unremoved
  PROVE  StatsInv'
<1>0. WorkerTypes /\ StatsTypes /\ Reports
  BY DEF Base, Types
<1>1. UNCHANGED <<loaded, swapped, cursor>> /\ statsRemoved' = statsRemoved + removedCount[w]
  BY DEF Finalize, incrementRemovedCount
<1>2. wpc'[w] = "dead" /\ \A v \in Workers : v # w => wpc'[v] = wpc[v]
  BY <1>0 DEF Finalize, Work, WorkerTypes
<1>3. removedCount'[w] = 0 /\ \A v \in Workers : v # w => removedCount'[v] = removedCount[v]
  BY <1>0 DEF Finalize, StatsTypes
<1>4. Reported' = Reported
  <2>1. /\ SumFunction(removedCount) = SumFunction(removedCount') + removedCount[w]
        /\ SumFunction(removedCount') \in Nat /\ removedCount[w] \in Nat
    BY <1>3, RemovedChange
  <2>2. Taken' = Taken /\ Taken \in Nat
    BY <1>1, SumsAre DEF Taken
  <2> QED BY <1>0, <1>1, <2>1, <2>2 DEF Reported, StatsTypes
<1>5. StatsSum'
  BY <1>4, SumsAre, SumsAreNext DEF StatsInv
<1>6. swapped # None => cursor \in Workers
  BY <1>0 DEF Reports
<1> QED BY <1>1, <1>2, <1>3, <1>5, <1>6 DEF StatsInv

(* One of the lemmas above for every action.                               *)
LEMMA NextStats ==
  Base /\ Base' /\ StatsInv /\ Untorn /\ Untorn' /\ [Next]_vars => StatsInv'
<1> SUFFICES ASSUME Base, Base', StatsInv, Untorn, Untorn', [Next]_vars PROVE StatsInv'
  OBVIOUS
<1>1. ASSUME NEW t \in Owners \cup {Main}, Report(t), UNCHANGED <<wpc, loaded, Unremoved>> PROVE StatsInv'
  BY <1>1, ReportSwapStats, ReportAddStats DEF Report
<1>2. ASSUME NEW o \in Owners, AdderStep(o) PROVE StatsInv'
  <2>1. UNCHANGED <<wpc, loaded, Unremoved>>
    BY <1>2, ClientTerms
  <2>2. CASE Report(o)
    BY <1>1, <2>1, <2>2
  <2>3. CASE ~Report(o)
    <3>1. UNCHANGED <<removedCount, statsRemoved, swapped, cursor>>
      BY <1>2, <2>3 DEF AdderStep, Fill, Start, Quick, AddLinked, GetValue, AwaitValue, AwaitEnds,
                        GetValueReturns, statsVars
    <3> QED BY <2>1, <3>1, OtherStats
  <2> QED BY <2>2, <2>3
<1>3. ASSUME MainStep PROVE StatsInv'
  <2>1. UNCHANGED <<wpc, loaded, Unremoved>>
    BY <1>3, ClientTerms
  <2>2. CASE Report(Main)
    BY <1>1, <2>1, <2>2
  <2>3. CASE ~Report(Main)
    <3>1. UNCHANGED <<removedCount, statsRemoved, swapped>>
      BY <1>3, <2>3 DEF MainStep, JoinAdders, Sleep, CountConsumed, Terminate, JoinWorkers, statsVars
    <3>2. swapped # None => UNCHANGED cursor
      <4>1. CASE Sleep \/ CountConsumed
        BY <4>1 DEF Sleep, CountConsumed, Base, Types, ControlTypes, Reports, Turns
      <4>2. CASE JoinAdders \/ Terminate \/ JoinWorkers
        BY <4>2 DEF JoinAdders, Terminate, JoinWorkers, statsVars
      <4> QED BY <1>3, <2>3, <4>1, <4>2 DEF MainStep
    <3> QED BY <2>1, <3>1, <3>2, OtherStats
  <2> QED BY <2>2, <2>3
<1>4. ASSUME NEW w \in Workers, Remove(w) \/ SetStatus(w) \/ LoadCount(w) \/ StoreCount(w) PROVE StatsInv'
  <2>1. UNCHANGED <<removedCount, statsRemoved, swapped, cursor>>
    BY <1>4 DEF Remove, SetStatus, LoadCount, StoreCount, statsVars
  <2>2. UNCHANGED Unremoved
    BY <1>4, WorkerTerms DEF WorkerStep
  <2>3. \A v \in Workers : wpc'[v] = "storeRemoved" =>
            \/ wpc[v] = "storeRemoved" /\ loaded'[v] = loaded[v]
            \/ loaded'[v] = removedCount[v]
    BY <1>4 DEF Remove, SetStatus, LoadCount, StoreCount, Work, Base, Types, WorkerTypes
  <2> QED BY <2>1, <2>2, <2>3, OtherStats
<1>5. ASSUME NEW w \in Workers, StoreRemoved(w) \/ Finalize(w) PROVE StatsInv'
  BY <1>5, WorkerTerms, StoreRemovedStats, FinalizeStats DEF WorkerStep
<1>6. CASE UNCHANGED vars
  <2>1. UNCHANGED <<wpc, loaded, Unremoved, removedCount, statsRemoved, swapped, cursor>>
    BY <1>6, ClientTerms DEF vars, statsVars
  <2> QED BY <2>1, OtherStats
<1> QED BY <1>2, <1>3, <1>4, <1>5, <1>6 DEF Next, WorkerStep, Ended

-----------------------------------------------------------------------------
(* What main counts.                                                       *)

(* The subtraction of main does not wrap around.                           *)
LEMMA NoWrap ==
  ASSUME NEW m \in Nat, NEW x \in Nat, NEW y \in Nat, y <= x, x <= m
  PROVE  (x + m + 1 - y) % (m + 1) = x - y
OBVIOUS

(* Steps that move no counter of a consumer.                               *)
LEMMA OtherCounts ==
  ASSUME Base, Base', CountInv, UNCHANGED <<count, totalExpected, Uncounted>>,
         \A w \in Workers : wpc'[w] = "storeCount" =>
            \/ wpc[w] = "storeCount" /\ loaded'[w] = loaded[w]
            \/ loaded'[w] = count[consumerOf(w)]
  PROVE  CountInv'
<1>1. CountsExact'
  BY SumsAre, SumsAreNext DEF CountInv
<1> QED BY <1>1 DEF CountInv, consumerOf

(* The increment of a consumer's counter adds one, since nobody else       *)
(* increments it, by Unshared.                                             *)
LEMMA StoreCountCounts ==
  ASSUME Base, Base', CountInv, Unshared, NEW w \in Workers, StoreCount(w),
         Uncounted = Uncounted' + 1
  PROVE  CountInv'
<1>0. WorkerTypes /\ CountTypes
  BY DEF Base, Types
<1>1. UNCHANGED totalExpected /\ wpc[w] = "storeCount"
  BY DEF StoreCount
<1>2. /\ wpc'[w] = "remove"
      /\ \A v \in Workers : v # w => wpc'[v] = wpc[v] /\ loaded'[v] = loaded[v]
  BY <1>0 DEF StoreCount, Work, WorkerTypes
<1> DEFINE c == consumerOf(w)
<1>c. \A v \in Workers : consumerOf(v) \in Consumers
  BY SampleAssumption DEF consumerOf, Workers, Consumers
<1>3. /\ count'[c] = count[c] + 1
      /\ \A k \in Consumers : k # c => count'[k] = count[k]
  BY <1>0, <1>1, <1>c DEF StoreCount, CountTypes, CountInv
<1>4. \A v \in Workers : v # w /\ wpc[v] = "storeCount" => consumerOf(v) # c
  BY <1>1 DEF Unshared
<1>5. SumFunction(count)' = SumFunction(count) + 1 /\ SumFunction(count) \in Nat
  BY <1>3, <1>c, CountChange
<1>6. CountsExact'
  <2>1. totalExpected = SumFunction(count) + Uncounted
    BY SumsAre DEF CountInv
  <2>2. totalExpected = SumFunction(count)' + Uncounted'
    BY <1>5, <2>1, SumsAreNext
  <2> QED BY <1>1, <2>2, SumsAreNext
<1>7. \A v \in Workers : wpc'[v] = "storeCount" => loaded'[v] = count'[consumerOf(v)]
  BY <1>2, <1>3, <1>4, <1>c DEF CountInv
<1> QED BY <1>1, <1>6, <1>7 DEF CountInv, consumerOf

(* What main takes from a consumer it subtracts from what is missing.      *)
LEMMA CountConsumedCounts ==
  ASSUME Total <= UIntMax, Base, Base', CountInv, Unshared, CountConsumed,
         UNCHANGED <<wpc, loaded, Uncounted>>
  PROVE  CountInv'
<1>0. CountTypes /\ Reports
  BY DEF Base, Types
<1>1. /\ pc[Main] = "count" /\ cursor \in Consumers
      /\ \A w \in Workers : consumerOf(w) = cursor => wpc[w] # "storeCount"
  BY <1>0 DEF CountConsumed, Reports, Unshared
<1>2. count'[cursor] = 0 /\ \A k \in Consumers : k # cursor => count'[k] = count[k]
  BY <1>0, <1>1 DEF CountConsumed, TakeCount, CountTypes
<1>3. /\ SumFunction(count) = SumFunction(count)' + count[cursor]
      /\ SumFunction(count)' \in Nat /\ count[cursor] \in Nat
  BY <1>1, <1>2, CountChange
<1>4. totalExpected = SumFunction(count) + Uncounted /\ Uncounted \in Nat
  BY SumsAre DEF CountInv
<1>5. totalExpected' = totalExpected - count[cursor] /\ count[cursor] <= totalExpected
  <2>1. count[cursor] <= totalExpected /\ totalExpected \in Nat
    BY <1>0, <1>3, <1>4 DEF CountTypes
  <2>2. totalExpected <= UIntMax /\ UIntMax \in Nat
    BY <2>1, SampleAssumption, Finite DEF CountInv
  <2> QED BY <1>3, <2>1, <2>2, NoWrap DEF CountConsumed
<1>6. CountsExact'
  BY <1>3, <1>4, <1>5, SumsAreNext
<1>7. totalExpected' <= Total
  BY <1>0, <1>3, <1>5, Finite DEF CountInv, CountTypes
<1>c. \A v \in Workers : consumerOf(v) \in Consumers
  BY SampleAssumption DEF consumerOf, Workers, Consumers
<1>8. \A v \in Workers : wpc'[v] = "storeCount" => loaded'[v] = count'[consumerOf(v)]
  BY <1>1, <1>2, <1>c DEF CountInv
<1> QED BY <1>6, <1>7, <1>8 DEF CountInv, consumerOf

(* One of the lemmas above for every action.                               *)
LEMMA NextCounts ==
  ASSUME Total <= UIntMax
  PROVE  Base /\ Base' /\ CountInv /\ Unshared /\ [Next]_vars => CountInv'
<1> SUFFICES ASSUME Base, Base', CountInv, Unshared, [Next]_vars PROVE CountInv'
  OBVIOUS
<1>1. ASSUME NEW o \in Owners, AdderStep(o) PROVE CountInv'
  <2>1. UNCHANGED <<wpc, loaded, Uncounted>>
    BY <1>1, ClientTerms
  <2>2. UNCHANGED <<count, totalExpected>>
    BY <1>1 DEF AdderStep, Report, Fill, Start, Quick, AddLinked, GetValue, AwaitValue, AwaitEnds,
                GetValueReturns, ReportSwap, ReportAdd, countVars
  <2> QED BY <2>1, <2>2, OtherCounts
<1>2. ASSUME MainStep PROVE CountInv'
  <2>1. UNCHANGED <<wpc, loaded, Uncounted>>
    BY <1>2, ClientTerms
  <2>2. CASE CountConsumed
    BY <2>1, <2>2, CountConsumedCounts
  <2>3. CASE ~CountConsumed
    <3>1. UNCHANGED <<count, totalExpected>>
      BY <1>2, <2>3 DEF MainStep, Report, ReportSwap, ReportAdd, JoinAdders, Sleep, Terminate,
                        JoinWorkers, countVars
    <3> QED BY <2>1, <3>1, OtherCounts
  <2> QED BY <2>2, <2>3
<1>3. ASSUME NEW w \in Workers,
             Remove(w) \/ StoreRemoved(w) \/ SetStatus(w) \/ LoadCount(w) \/ Finalize(w)
      PROVE  CountInv'
  <2>1. UNCHANGED <<count, totalExpected>>
    BY <1>3 DEF Remove, StoreRemoved, SetStatus, LoadCount, Finalize, countVars
  <2>2. UNCHANGED Uncounted
    BY <1>3, WorkerTerms DEF WorkerStep
  <2>3. \A v \in Workers : wpc'[v] = "storeCount" =>
            \/ wpc[v] = "storeCount" /\ loaded'[v] = loaded[v]
            \/ loaded'[v] = count[consumerOf(v)]
    BY <1>3 DEF Remove, StoreRemoved, SetStatus, LoadCount, Finalize, Work, Base, Types, WorkerTypes
  <2> QED BY <2>1, <2>2, <2>3, OtherCounts
<1>4. ASSUME NEW w \in Workers, StoreCount(w) PROVE CountInv'
  BY <1>4, WorkerTerms, StoreCountCounts DEF WorkerStep
<1>5. CASE UNCHANGED vars
  <2>1. UNCHANGED <<wpc, loaded, Uncounted, count, totalExpected>>
    BY <1>5, ClientTerms DEF vars, countVars
  <2> QED BY <2>1, OtherCounts
<1> QED BY <1>1, <1>2, <1>3, <1>4, <1>5 DEF Next, WorkerStep, Ended

-----------------------------------------------------------------------------
(* The end of the program, and the wake-ups.                               *)

(* Workers die only when main has found all adders done, and what they     *)
(* leave is 0.                                                             *)
LEMMA NextEnd == Base /\ EndStage /\ [Next]_vars => EndStage'
<1> SUFFICES ASSUME Base, EndStage, [Next]_vars PROVE EndStage'
  OBVIOUS
<1>0. AdderTypes /\ WorkerTypes /\ StatsTypes /\ Turns /\ Reports
  BY DEF Base, Types
<1>1. ASSUME NEW o \in Owners,
             \/ Fill(o) \/ Quick(o) \/ AddLinked(o)
             \/ Start(o) \/ GetValue(o) \/ AwaitValue(o) \/ AwaitEnds(o) \/ GetValueReturns(o)
      PROVE  EndStage'
  <2>1. UNCHANGED <<wpc, removedCount, stopping>>
    BY <1>1 DEF Fill, Quick, AddLinked, Start, GetValue, AwaitValue, AwaitEnds, GetValueReturns,
                workVars, statsVars
  <2>2. pc'[Main] = pc[Main] /\ pc[o] # "done"
    BY <1>0, <1>1, SampleAssumption
       DEF Fill, Quick, AddLinked, Start, GetValue, AwaitValue, AwaitEnds, GetValueReturns, Loop, Goto,
           AdderTypes
  <2>3. pc[Main] = "join"
    BY <1>0, <2>2 DEF Turns
  <2>4. ~stopping /\ \A w \in Workers : wpc[w] # "dead"
    BY <2>3 DEF EndStage
  <2> QED BY <2>1, <2>2, <2>3, <2>4 DEF EndStage
<1>2. ASSUME NEW t \in Owners \cup {Main}, Report(t) PROVE EndStage'
  <2>1. UNCHANGED <<wpc, queue, stopping>>
    BY <1>2 DEF Report, ReportSwap, ReportAdd, workVars
  <2>2. \A w \in Workers : removedCount[w] = 0 => removedCount'[w] = 0
    BY <1>0, <1>2 DEF Report, ReportSwap, ReportAdd, StatsTypes
  <2>3. pc[t] \in {"report1", "report2", "report"}
    BY <1>0, <1>2, SampleAssumption DEF Report, ReportSwap, ReportAdd, Reports
  <2>4. \/ pc'[Main] = pc[Main]
        \/ pc[Main] \notin {"joinWorkers", "done"} /\ pc'[Main] # "done"
    BY <1>0, <1>2, <2>3, SampleAssumption
       DEF Report, ReportSwap, ReportAdd, Goto, AfterReport, AdderTypes, Turns, MainSteps, addVars
  <2> QED BY <2>1, <2>2, <2>4 DEF EndStage
<1>3. ASSUME JoinAdders \/ Sleep \/ CountConsumed \/ Terminate \/ JoinWorkers PROVE EndStage'
  <2>1. UNCHANGED <<wpc, queue, removedCount>>
    BY <1>3 DEF JoinAdders, Sleep, CountConsumed, Terminate, JoinWorkers, workVars, statsVars
  <2>2. CASE JoinAdders \/ Sleep \/ CountConsumed
    <3>1. ~stopping /\ ~stopping' /\ pc'[Main] # "done"
      BY <1>0, <2>2 DEF JoinAdders, Sleep, CountConsumed, Goto, AdderTypes, EndStage
    <3> QED BY <2>1, <3>1 DEF EndStage
  <2>3. CASE Terminate
    <3>1. stopping' /\ pc'[Main] = "joinWorkers"
      BY <1>0, <2>3 DEF Terminate, Goto, AdderTypes
    <3> QED BY <2>1, <3>1 DEF EndStage
  <2>4. CASE JoinWorkers
    <3>1. stopping' = stopping /\ pc'[Main] = "done" /\ \A w \in Workers : wpc[w] = "dead"
      BY <1>0, <2>4 DEF JoinWorkers, Goto, AdderTypes
    <3> QED BY <2>1, <3>1 DEF EndStage
  <2> QED BY <1>3, <2>2, <2>3, <2>4
<1>4. ASSUME NEW w \in Workers, WorkerStep(w) PROVE EndStage'
  <2>1. UNCHANGED <<pc, stopping>> /\ wpc[w] # "dead"
    BY <1>4 DEF WorkerStep, Remove, StoreRemoved, SetStatus, LoadCount, StoreCount, Finalize, addVars
  <2>2. \A v \in Workers : v # w => wpc'[v] = wpc[v] /\ removedCount'[v] = removedCount[v]
    BY <1>0, <1>4 DEF WorkerStep, Remove, StoreRemoved, SetStatus, LoadCount, StoreCount, Finalize,
                      Work, WorkerTypes, StatsTypes, statsVars
  <2>3. CASE Remove(w)
    <3>1. \A v \in Workers : wpc[v] # "dead" /\ wpc'[v] # "dead"
      BY <1>0, <2>2, <2>3 DEF EndStage, Remove, Work, WorkerTypes
    <3> QED BY <2>1, <3>1 DEF EndStage
  <2>4. CASE Finalize(w)
    <3>1. /\ queue = <<>> /\ queue' = queue /\ stopping
          /\ removedCount'[w] = 0 /\ wpc'[w] = "dead"
      BY <1>0, <2>4 DEF Finalize, Work, WorkerTypes, StatsTypes
    <3> QED BY <2>1, <2>2, <3>1 DEF EndStage
  <2>5. CASE StoreRemoved(w) \/ SetStatus(w) \/ LoadCount(w) \/ StoreCount(w)
    <3>1. queue' = queue /\ wpc'[w] # "dead"
      BY <1>0, <2>5 DEF StoreRemoved, SetStatus, LoadCount, StoreCount, Work, WorkerTypes
    <3> QED BY <2>1, <2>2, <3>1 DEF EndStage
  <2> QED BY <1>4, <2>3, <2>4, <2>5 DEF WorkerStep
<1>5. CASE UNCHANGED vars
  BY <1>5 DEF EndStage, vars, addVars, workVars, statsVars
<1> QED BY <1>1, <1>2, <1>3, <1>4, <1>5 DEF Next, AdderStep, MainStep, Report, Ended

(* A step after which an owner's entry is still to come.                   *)
LEMMA StillComing ==
  ASSUME NEW o \in Owners, NEW S, Coming(o, S), i'[o] = i[o], Base,
         \/ UNCHANGED queue
         \/ \E e \in Entries : queue' = Append(queue, e),
         \A w \in Workers : hand[w] = SampleQueueEntry1(o, i[o]) /\ wpc[w] \in S =>
            hand'[w] = hand[w] /\ wpc'[w] \in S
  PROVE  Coming(o, S)'
<1>1. /\ Len(queue) \in Nat /\ Len(queue') \in Nat /\ Len(queue) <= Len(queue')
      /\ \A n \in 1 .. Len(queue) : queue'[n] = queue[n]
  BY DEF Base, Types, EntryTypes
<1>2. CASE \E n \in 1 .. Len(queue) : queue[n] = SampleQueueEntry1(o, i[o])
  BY <1>1, <1>2 DEF Coming, SampleQueueEntry1
<1>3. CASE \E w \in Workers : hand[w] = SampleQueueEntry1(o, i[o]) /\ wpc[w] \in S
  BY <1>3 DEF Coming, SampleQueueEntry1
<1> QED BY <1>2, <1>3 DEF Coming

(* The steps of a worker before the signal, and with it.                   *)
Before == {"storeRemoved", "setValue", "setFlag"}
Until == {"storeRemoved", "setValue", "setFlag", "signal"}

(* Wakeups, of one owner.                                                  *)
WakeupOf(o) ==
  /\ receiver[o].waiting => pc[o] = "awaiting"
  /\ pc[o] \in {"getValue", "await"} /\ ~receiver[o].populated => Coming(o, Before)
  /\ receiver[o].waiting => Coming(o, Until)

(* The two forms are the same.                                             *)
LEMMA WakeupsAre == Wakeups <=> \A o \in Owners : WakeupOf(o)
BY DEF Wakeups, WakeupOf, Before, Until

(* Steps of the adders and of main.                                        *)
LEMMA ClientWakeups ==
  ASSUME Base, \A p \in Owners : WakeupOf(p),
         (\E o \in Owners : AdderStep(o)) \/ MainStep \/ UNCHANGED vars,
         NEW p \in Owners
  PROVE  WakeupOf(p)'
<1>0. AdderTypes /\ Turns /\ Reports /\ receiver \in [Owners -> Receivers]
  BY DEF Base, Types
<1>w. WakeupOf(p)
  OBVIOUS
<1>1. UNCHANGED <<hand, wpc>>
  BY DEF AdderStep, MainStep, Report, Fill, Start, Quick, AddLinked, GetValue, AwaitValue, AwaitEnds,
         GetValueReturns, ReportSwap, ReportAdd, JoinAdders, Sleep, CountConsumed, Terminate,
         JoinWorkers, workVars, vars
<1>2. UNCHANGED queue \/ \E e \in Entries : queue' = Append(queue, e)
  <2>1. SampleQueueEntry1(None, None) \in Entries /\ SampleQueueEntry2 \in Entries
    BY DEF Entries, SampleQueueEntry1, SampleQueueEntry2
  <2>2. ASSUME NEW o \in Owners, AddLinked(o) PROVE SampleQueueEntry1(o, i[o]) \in Entries
    BY <1>0, <2>2, SampleAssumption DEF AddLinked, Entries, SampleQueueEntry1, AdderTypes, Turns
  <2>3. ASSUME NEW o \in Owners, AddLinked(o) PROVE <1>2
    BY <2>2, <2>3 DEF AddLinked
  <2>4. ASSUME NEW o \in Owners, Fill(o) \/ Quick(o) PROVE <1>2
    BY <2>1, <2>4 DEF Fill, Quick
  <2>5. ASSUME NEW o \in Owners,
               \/ Start(o) \/ GetValue(o) \/ AwaitValue(o) \/ AwaitEnds(o) \/ GetValueReturns(o)
               \/ Report(o)
        PROVE  UNCHANGED queue
    BY <2>5 DEF Report, Start, GetValue, AwaitValue, AwaitEnds, GetValueReturns, ReportSwap, ReportAdd
  <2>6. ASSUME MainStep \/ UNCHANGED vars PROVE UNCHANGED queue
    BY <2>6 DEF MainStep, Report, ReportSwap, ReportAdd, JoinAdders, Sleep, CountConsumed, Terminate,
                JoinWorkers, vars
  <2> QED BY <2>3, <2>4, <2>5, <2>6 DEF AdderStep
<1>3. ASSUME i'[p] = i[p]
      PROVE  (Coming(p, Before) => Coming(p, Before)') /\ (Coming(p, Until) => Coming(p, Until)')
  BY <1>1, <1>2, <1>3, StillComing
<1>4. ASSUME receiver'[p] = receiver[p], pc'[p] = pc[p], i'[p] = i[p] PROVE WakeupOf(p)'
  BY <1>3, <1>4, <1>w DEF WakeupOf
<1>5. ASSUME receiver'[p] = receiver[p], pc[p] # "awaiting", pc'[p] \notin {"getValue", "await"}
      PROVE  WakeupOf(p)'
  BY <1>5, <1>w DEF WakeupOf
<1>6. ASSUME NEW o \in Owners, Fill(o) \/ Start(o) \/ Quick(o) PROVE WakeupOf(p)'
  <2>1. receiver' = receiver /\ pc[o] \in {"fill", "start", "quick", "quick2"}
    BY <1>6 DEF Fill, Start, Quick
  <2>2. /\ pc'[o] \in {"fill", "report1", "quick", "quick2", "add"}
        /\ \A q \in Owners : q # o => pc'[q] = pc[q] /\ i'[q] = i[q]
    BY <1>0, <1>6 DEF Fill, Start, Quick, Loop, Goto, AdderTypes
  <2> QED BY <1>4, <1>5, <2>1, <2>2
<1>7. ASSUME NEW o \in Owners, AddLinked(o) PROVE WakeupOf(p)'
  <2>1. /\ pc'[o] = "getValue" /\ receiver'[o] = NewReceiver /\ i' = i
        /\ \A q \in Owners : q # o => pc'[q] = pc[q] /\ receiver'[q] = receiver[q]
    BY <1>0, <1>7 DEF AddLinked, Goto, Construct, AdderTypes
  <2>2. Len(queue) + 1 \in 1 .. Len(queue') /\ queue'[Len(queue) + 1] = SampleQueueEntry1(o, i[o])
    BY <1>7 DEF AddLinked, Base, Types, EntryTypes
  <2>3. Coming(o, Before)'
    BY <2>1, <2>2 DEF Coming
  <2>4. CASE p = o
    BY <2>1, <2>3, <2>4 DEF WakeupOf, NewReceiver
  <2>5. CASE p # o
    BY <1>4, <2>1, <2>5
  <2> QED BY <2>4, <2>5
<1>8. ASSUME NEW o \in Owners, GetValue(o) PROVE WakeupOf(p)'
  <2>1. /\ pc[o] = "getValue" /\ pc'[o] \in {"return", "await"} /\ i' = i /\ receiver' = receiver
        /\ \A q \in Owners : q # o => pc'[q] = pc[q]
    BY <1>0, <1>8 DEF GetValue, Goto, AdderTypes
  <2>2. CASE p = o
    BY <1>3, <1>w, <2>1, <2>2 DEF WakeupOf
  <2>3. CASE p # o
    BY <1>4, <2>1, <2>3
  <2> QED BY <2>2, <2>3
<1>9. ASSUME NEW o \in Owners, AwaitValue(o) PROVE WakeupOf(p)'
  <2>1. /\ pc[o] = "await" /\ pc'[o] = "awaiting" /\ i' = i
        /\ \A q \in Owners : q # o => pc'[q] = pc[q]
    BY <1>0, <1>9 DEF AwaitValue, Goto, AdderTypes
  <2>2. /\ receiver'[o].waiting => ~receiver[o].populated
        /\ \A q \in Owners : q # o => receiver'[q] = receiver[q]
    BY <1>0, <1>9 DEF AwaitValue, Await, Receivers
  <2>3. Coming(p, Before) => Coming(p, Until)
    BY DEF Coming, Before, Until
  <2>4. CASE p = o
    BY <1>3, <1>w, <2>1, <2>2, <2>3, <2>4 DEF WakeupOf
  <2>5. CASE p # o
    BY <1>4, <2>1, <2>2, <2>5
  <2> QED BY <2>4, <2>5
<1>10. ASSUME NEW o \in Owners, AwaitEnds(o) PROVE WakeupOf(p)'
  <2>1. /\ ~receiver[o].waiting /\ pc'[o] = "return" /\ i' = i /\ receiver' = receiver
        /\ \A q \in Owners : q # o => pc'[q] = pc[q]
    BY <1>0, <1>10 DEF AwaitEnds, Awaited, Goto, AdderTypes
  <2>2. CASE p = o
    BY <2>1, <2>2 DEF WakeupOf
  <2>3. CASE p # o
    BY <1>4, <2>1, <2>3
  <2> QED BY <2>2, <2>3
<1>11. ASSUME NEW o \in Owners, GetValueReturns(o) PROVE WakeupOf(p)'
  <2>1. /\ pc'[o] \in {"add", "report2"}
        /\ \A q \in Owners : q # o => pc'[q] = pc[q] /\ i'[q] = i[q]
    BY <1>0, <1>11 DEF GetValueReturns, Loop, Goto, AdderTypes
  <2>2. receiver'[o] = NoReceiver /\ \A q \in Owners : q # o => receiver'[q] = receiver[q]
    BY <1>0, <1>11 DEF GetValueReturns, Destroy
  <2>3. CASE p = o
    BY <2>1, <2>2, <2>3 DEF WakeupOf, NoReceiver, NewReceiver
  <2>4. CASE p # o
    BY <1>4, <2>1, <2>2, <2>4
  <2> QED BY <2>3, <2>4
<1>12. ASSUME NEW t \in Owners \cup {Main}, Report(t) PROVE WakeupOf(p)'
  <2>1. receiver' = receiver /\ i' = i
    BY <1>12 DEF Report, ReportSwap, ReportAdd, addVars
  <2>2. pc[t] \in {"report1", "report2", "report"}
    BY <1>0, <1>12, SampleAssumption DEF Report, ReportSwap, ReportAdd, Reports
  <2>3. \A q \in Owners : pc'[q] = pc[q] \/ (q = t /\ pc'[q] \in {"start", "done", "terminate"})
    BY <1>0, <1>12, <2>2 DEF Report, ReportSwap, ReportAdd, Goto, AfterReport, AdderTypes, addVars
  <2> QED BY <1>4, <1>5, <2>1, <2>2, <2>3
<1>13. ASSUME JoinAdders \/ Sleep \/ CountConsumed \/ Terminate \/ JoinWorkers \/ UNCHANGED vars
       PROVE  WakeupOf(p)'
  <2>1. receiver' = receiver /\ pc'[p] = pc[p] /\ i' = i
    BY <1>0, <1>13, SampleAssumption
       DEF JoinAdders, Sleep, CountConsumed, Terminate, JoinWorkers, Goto, AdderTypes, vars, addVars
  <2> QED BY <1>4, <2>1
<1> QED BY <1>6, <1>7, <1>8, <1>9, <1>10, <1>11, <1>12, <1>13 DEF AdderStep, MainStep

(* Steps of the workers: the entry that a worker signals for is its own    *)
(* only.                                                                   *)
LEMMA WorkerWakeups ==
  ASSUME Base, NEW o \in Owners, WakeupOf(o), NEW w \in Workers, WorkerStep(w)
  PROVE  WakeupOf(o)'
<1>0. WorkerTypes /\ EntryTypes /\ receiver \in [Owners -> Receivers]
  BY DEF Base, Types
<1>1. UNCHANGED <<pc, i>> /\ \A v \in Workers : v # w => wpc'[v] = wpc[v] /\ hand'[v] = hand[v]
  BY <1>0 DEF WorkerStep, Remove, StoreRemoved, SetStatus, LoadCount, StoreCount, Finalize, Work,
              WorkerTypes, EntryTypes, addVars
<1> DEFINE e == SampleQueueEntry1(o, i[o])
<1>e. e.link = o /\ isLinked(e) /\ o # None
  BY SampleAssumption DEF SampleQueueEntry1, isLinked
<1>f. SampleQueueEntry1(o, i[o])' = e
  BY <1>1 DEF SampleQueueEntry1
<1> HIDE DEF e
<1>2. CASE Remove(w)
  <2>1. /\ wpc[w] = "remove" /\ wpc'[w] = "storeRemoved" /\ hand'[w] = queue[1] /\ receiver' = receiver
    BY <1>0, <1>2 DEF Remove, Work, WorkerTypes, EntryTypes
  <2>2. /\ Len(queue) \in Nat /\ Len(queue') = Len(queue) - 1
        /\ \A n \in 1 .. Len(queue') : queue'[n] = queue[n + 1]
    BY <1>0, <1>2 DEF Remove, EntryTypes
  <2>3. ASSUME NEW S, "storeRemoved" \in S, "remove" \notin S, Coming(o, S) PROVE Coming(o, S)'
    <3>1. CASE \E n \in 1 .. Len(queue) : queue[n] = e
      <4>1. PICK n \in 1 .. Len(queue) : queue[n] = e
        BY <3>1
      <4>2. CASE n = 1
        BY <1>f, <2>1, <2>3, <4>1, <4>2 DEF Coming
      <4>3. CASE n # 1
        <5>1. n - 1 \in 1 .. Len(queue') /\ n - 1 + 1 = n
          BY <2>2, <4>3
        <5> QED BY <1>f, <2>2, <4>1, <5>1 DEF Coming
      <4> QED BY <4>2, <4>3
    <3>2. CASE \E v \in Workers : hand[v] = e /\ wpc[v] \in S
      <4>1. PICK v \in Workers : hand[v] = e /\ wpc[v] \in S
        BY <3>2
      <4>2. v # w
        BY <2>1, <2>3, <4>1
      <4> QED BY <1>1, <1>f, <4>1, <4>2 DEF Coming
    <3> QED BY <2>3, <3>1, <3>2 DEF Coming, e
  <2> QED BY <1>1, <2>1, <2>3 DEF WakeupOf, Before, Until
<1>3. ASSUME UNCHANGED queue, NEW S, Coming(o, S),
             hand[w] = e /\ wpc[w] \in S => hand'[w] = e /\ wpc'[w] \in S
      PROVE  Coming(o, S)'
  <2>1. CASE \E n \in 1 .. Len(queue) : queue[n] = e
    BY <1>3, <1>f, <2>1 DEF Coming
  <2>2. CASE \E v \in Workers : hand[v] = e /\ wpc[v] \in S
    BY <1>1, <1>3, <1>f, <2>2 DEF Coming
  <2> QED BY <1>3, <2>1, <2>2 DEF Coming, e
<1>4. CASE StoreRemoved(w)
  <2>1. /\ wpc[w] = "storeRemoved" /\ UNCHANGED <<queue, hand, receiver>>
        /\ hand[w] = e => wpc'[w] = "setValue"
    BY <1>0, <1>4, <1>e DEF StoreRemoved, Work, WorkerTypes
  <2> QED BY <1>1, <1>3, <2>1 DEF WakeupOf, Before, Until
<1>5. CASE LoadCount(w) \/ StoreCount(w) \/ Finalize(w)
  <2>1. wpc[w] \notin Until /\ UNCHANGED <<queue, receiver>>
    BY <1>5 DEF LoadCount, StoreCount, Finalize, Until
  <2> QED BY <1>1, <1>3, <2>1 DEF WakeupOf, Before, Until
<1>6. CASE SetStatus(w)
  <2> DEFINE p == hand[w].link
  <2>1. UNCHANGED queue /\ isLinked(hand[w]) /\ p \in Owners
    BY <1>6, LinkTypes DEF SetStatus
  <2>2. CASE wpc[w] = "setValue" /\ setValue(p, hand[w].result) /\ Work(w, "setFlag") /\ UNCHANGED hand
    <3>1. wpc'[w] = "setFlag"
      BY <1>0, <2>2 DEF Work, WorkerTypes
    <3>2. /\ receiver'[o].waiting <=> receiver[o].waiting
          /\ receiver'[o].populated <=> receiver[o].populated
      BY <1>0, <2>1, <2>2 DEF setValue, Receivers
    <3> QED BY <1>1, <1>3, <2>1, <2>2, <3>1, <3>2 DEF WakeupOf, Before, Until
  <2>3. CASE wpc[w] = "setFlag" /\ SetFlag(p) /\ Work(w, "signal") /\ UNCHANGED hand
    <3>1. wpc'[w] = "signal"
      BY <1>0, <2>3 DEF Work, WorkerTypes
    <3>2. /\ receiver'[o].waiting <=> receiver[o].waiting
          /\ receiver'[o].populated <=> (receiver[o].populated \/ p = o)
      BY <1>0, <2>1, <2>3 DEF SetFlag, Receivers
    <3>3. hand[w] = e => p = o
      BY <1>e
    <3>4. Coming(o, Until) => Coming(o, Until)'
      BY <1>3, <2>1, <2>3, <3>1 DEF Until
    <3>5. p # o /\ Coming(o, Before) => Coming(o, Before)'
      BY <1>3, <2>1, <3>3
    <3> QED BY <1>1, <3>2, <3>4, <3>5 DEF WakeupOf
  <2>4. CASE /\ wpc[w] = "signal" /\ SignalPopulated(p)
             /\ hand' = [hand EXCEPT ![w] = NoEntry] /\ Work(w, "loadCount")
    <3>1. /\ receiver'[o].waiting <=> (receiver[o].waiting /\ p # o)
          /\ receiver'[o].populated <=> receiver[o].populated
      BY <1>0, <2>1, <2>4 DEF SignalPopulated, Receivers
    <3>2. hand[w] = e => p = o
      BY <1>e
    <3>3. Coming(o, Before) => Coming(o, Before)'
      BY <1>3, <2>1, <2>4 DEF Before
    <3>4. p # o /\ Coming(o, Until) => Coming(o, Until)'
      BY <1>3, <2>1, <3>2
    <3> QED BY <1>1, <3>1, <3>3, <3>4 DEF WakeupOf
  <2> QED BY <1>6, <2>2, <2>3, <2>4 DEF SetStatus
<1> QED BY <1>2, <1>4, <1>5, <1>6 DEF WorkerStep

-----------------------------------------------------------------------------
(* The invariants.                                                         *)

(* What the threads are in the beginning.                                  *)
LEMMA InitBase == Init => Base
<1> SUFFICES ASSUME Init PROVE Base
  OBVIOUS
<1> USE SampleAssumption DEF Init
<1>1. receiver \in [Owners -> Receivers]
  BY DEF ReceiverInit, NoReceiver, NewReceiver, Receivers
<1>2. AdderTypes
  BY DEF AdderTypes, AdderSteps, MainSteps
<1>3. EntryTypes
  BY DEF EntryTypes, Entries, NoEntry
<1>4. WorkerTypes /\ StatsTypes /\ ControlTypes
  <2>1. WorkerTypes
    BY DEF WorkerTypes, WorkerSteps
  <2>2. StatsTypes
    BY DEF StatsTypes, NothingRemoved
  <2>3. ControlTypes
    <3>1. isRunning \in BOOLEAN /\ stopping \in BOOLEAN
      BY Zenon
    <3>2. reporter \in Owners \cup {Main, None} /\ cursor \in Nat /\ rounds \in 0 .. 4
      OBVIOUS
    <3> QED BY <3>1, <3>2 DEF ControlTypes
  <2> QED BY <2>1, <2>2, <2>3
<1>5. CountTypes
  BY Finite DEF CountTypes
<1>6. Turns
  BY DEF Turns, MainSteps, AdderSteps
<1>7. Reports
  BY DEF Reports
<1> QED BY <1>1, <1>2, <1>3, <1>4, <1>5, <1>6, <1>7 DEF Base, Types

(* One of the lemmas above for every action.                               *)
LEMMA NextBase == Base /\ [Next]_vars => Base'
<1> SUFFICES ASSUME Base, [Next]_vars PROVE Base'
  OBVIOUS
<1>1. ASSUME NEW o \in Owners, AdderStep(o) PROVE Base'
  BY <1>1, FillBase, StartBase, QuickBase, AddLinkedBase, GetValueBase, AwaitValueBase,
     AwaitEndsBase, GetValueReturnsBase, ReportSwapBase, ReportAddBase DEF AdderStep, Report
<1>2. ASSUME NEW w \in Workers, WorkerStep(w) PROVE Base'
  BY <1>2, RemoveBase, StoreRemovedBase, SetStatusBase, LoadCountBase, StoreCountBase,
     FinalizeBase DEF WorkerStep
<1>3. CASE MainStep
  BY <1>3, JoinAddersBase, SleepBase, CountConsumedBase, ReportSwapBase, ReportAddBase,
     TerminateBase, JoinWorkersBase DEF MainStep, Report
<1>4. CASE UNCHANGED vars
  BY <1>4 DEF vars, addVars, workVars, statsVars, countVars, Base, Types, AdderTypes, EntryTypes,
              WorkerTypes, StatsTypes, CountTypes, ControlTypes, Turns, Reports
<1> QED BY <1>1, <1>2, <1>3, <1>4 DEF Next, Ended
(* Nothing is removed or counted, and every adder has all to add.          *)
LEMMA InitSums == Init => StatsInv /\ CountInv
<1> SUFFICES ASSUME Init PROVE StatsInv /\ CountInv
  OBVIOUS
<1>1. Base
  BY InitBase
<1>2. SumFunction(count) = 0 /\ SumFunction(removedCount) = 0
  <2>1. /\ count \in [Consumers -> Nat] /\ \A k \in Consumers : count[k] = 0
        /\ removedCount \in [Workers -> Nat] /\ \A w \in Workers : removedCount[w] = 0
    BY DEF Init, NothingRemoved
  <2>2. /\ SumFunction(count) = Cardinality(Consumers) * 0
        /\ SumFunction(removedCount) = Cardinality(Workers) * 0
    BY <2>1, Finite, SumConstant
  <2>3. Cardinality(Consumers) \in Nat /\ Cardinality(Workers) \in Nat
    BY Finite, FS_CardinalityType
  <2> QED BY <2>2, <2>3
<1>3. SumFunction(Adds) = Total
  <2>1. \A o \in Owners : pc[o] = "fill" /\ i[o] = 1
    BY SampleAssumption DEF Init
  <2>2. \A o \in Owners : ToAdd(o) = PerAdder
    <3>1. PerAdder - (1 - 1) = PerAdder
      BY Finite
    <3> QED BY <2>1, <3>1 DEF ToAdd
  <2>3. Adds \in [Owners -> Nat] /\ \A o \in Owners : Adds[o] = PerAdder
    BY <2>2, Finite DEF Adds
  <2> QED BY <2>3, Finite, SumConstant DEF Total
<1>4. Busy(InHand) = 0 /\ Busy({"storeRemoved"}) = 0
  <2>1. {w \in Workers : wpc[w] \in InHand} = {} /\ {w \in Workers : wpc[w] \in {"storeRemoved"}} = {}
    BY DEF Init, InHand
  <2> QED BY <2>1, FS_EmptySet DEF Busy
<1>5. Len(queue) = 0 /\ totalExpected = Total /\ statsRemoved = 0 /\ swapped = None
  BY DEF Init
<1>6. Reported = 0 /\ Unremoved = Total /\ Uncounted = Total
  BY <1>2, <1>3, <1>4, <1>5, Finite DEF Reported, Unremoved, Uncounted, Taken
<1>7. CountsExact /\ StatsSum
  BY <1>1, <1>2, <1>5, <1>6, SumsAre, Finite
<1>8. \A w \in Workers : wpc[w] = "remove"
  BY DEF Init
<1> QED BY <1>5, <1>7, <1>8, Finite DEF StatsInv, CountInv

(* The program has not ended, and nobody waits.                            *)
LEMMA InitRest == Init => EndStage /\ Wakeups
<1> SUFFICES ASSUME Init PROVE EndStage /\ Wakeups
  OBVIOUS
<1>1. EndStage
  BY SampleAssumption DEF Init, EndStage
<1>2. Wakeups
  BY SampleAssumption DEF Init, ReceiverInit, NoReceiver, NewReceiver, Wakeups
<1> QED BY <1>1, <1>2

(* Whatever races there are, the threads are where Base says, and the end  *)
(* of the program is orderly.                                              *)
THEOREM BaseInvariance == Spec => [](Base /\ EndStage)
BY InitBase, NextBase, InitRest, NextEnd, PTL DEF Spec

(* Values that are handed over belong to turns, and the loops of main and  *)
(* of writeQueueStats stay within their bounds, whatever races there are.  *)
THEOREM TypeCorrect == Spec => []TypeOK
<1>1. Base => TypeOK
  <2>1. SUFFICES ASSUME Base PROVE TypeOK
    OBVIOUS
  <2>2. cursor \in 1 .. (IF N < K THEN K ELSE N)
    <3>1. cursor \in Workers \/ cursor \in Consumers \/ cursor = 1
      BY <2>1 DEF Base, Reports
    <3> QED BY <3>1, SampleAssumption DEF Workers, Consumers
  <2> QED BY <2>1, <2>2
          DEF TypeOK, Receivers, Base, Types, StatsTypes, CountTypes, ControlTypes
<1> QED BY <1>1, BaseInvariance, PTL

(* An owner that waits in getValue is going to be signalled for its own    *)
(* turn: the second look at the flag under the lock suffices, also when    *)
(* signals of earlier turns are late.                                      *)
THEOREM WakeupsKept == Spec => []NoLostWakeup
<1>1. Base /\ Wakeups /\ [Next]_vars => Wakeups'
  <2>1. SUFFICES ASSUME Base, Wakeups, [Next]_vars PROVE Wakeups'
    OBVIOUS
  <2>2. \A o \in Owners : WakeupOf(o)
    BY <2>1, WakeupsAre
  <2>3. \A o \in Owners : WakeupOf(o)'
    BY <2>1, <2>2, ClientWakeups, WorkerWakeups DEF Next, Ended
  <2>4. (Wakeups <=> \A o \in Owners : WakeupOf(o))'
    BY WakeupsAre, PTL
  <2> QED BY <2>3, <2>4
<1>2. Wakeups => NoLostWakeup
  BY DEF Wakeups, NoLostWakeup, Coming
<1> QED BY <1>1, <1>2, InitRest, BaseInvariance, PTL DEF Spec

(* In a behaviour in which no receiver is destroyed between the flag and   *)
(* the signal of setPopulated, every receiver is in the stage of its entry,*)
(* and getValue(true) returns the result of its own entry.                 *)
THEOREM ResultsCorrect == Spec => ResultsUnlessLate
<1>1. Base /\ HandOver => ResultDelivered
  <2>1. SUFFICES ASSUME Base, HandOver, NEW o \in Owners, pc[o] = "return"
                 PROVE  receiver[o].populated /\ receiver[o].value = i[o]
    BY DEF ResultDelivered
  <2>2. receiver[o].populated
    BY <2>1 DEF HandOver, OwnerStage
  <2>3. CASE Queued(o)
    BY <2>1, <2>2, <2>3, LinkTypes DEF Queued, HandOver, QueuedStage, Expecting, isLinked
  <2>4. CASE Held(o)
    BY <2>1, <2>2, <2>4, LinkTypes DEF Held, HandOver, HandStage, Expecting, Signalling, isLinked
  <2>5. CASE ~Queued(o) /\ ~Held(o)
    BY <2>1, <2>5 DEF HandOver, OwnerStage, Turn
  <2> QED BY <2>2, <2>3, <2>4, <2>5
<1>2. Base /\ HandOver /\ SignalsInTime' /\ [Next]_vars => HandOver'
  BY NextHandOver
<1>3. Spec /\ []SignalsInTime => []ResultDelivered
  BY <1>1, <1>2, InitHandOver, BaseInvariance, PTL DEF Spec
<1> QED BY <1>3, PTL DEF ResultsUnlessLate

(* In a behaviour in which no increment of a removed counter meets the     *)
(* swap or the second reset, no removed entry is lost or repeated by the   *)
(* statistics, and in the end they hold every entry.                       *)
THEOREM StatsAreRight == Spec => StatsUnlessTorn
<1>1. Base /\ EndStage /\ StatsInv => StatsExact
  <2>1. SUFFICES ASSUME Base, EndStage, StatsInv PROVE StatsExact
    OBVIOUS
  <2>2. SUFFICES ASSUME pc[Main] = "done" PROVE statsRemoved = Total
    BY <2>1 DEF StatsInv, StatsSum, StatsExact
  <2>3. /\ \A w \in Workers : wpc[w] = "dead" /\ removedCount[w] = 0
        /\ \A o \in Owners : pc[o] = "done"
    BY <2>1, <2>2 DEF EndStage, Base, Turns
  <2>4. swapped = None
    BY <2>1, <2>2, <2>3 DEF Base, Reports, Types, ControlTypes
  <2>5. Len(queue) = 0
    <3>1. 1 \in Workers
      BY SampleAssumption DEF Workers
    <3> QED BY <2>1, <2>3, <3>1 DEF EndStage
  <2>6. Busy({"storeRemoved"}) = 0
    <3>1. {w \in Workers : wpc[w] \in {"storeRemoved"}} = {}
      BY <2>3
    <3> QED BY <3>1, FS_EmptySet DEF Busy
  <2>7. SumFunction(removedCount) = 0 /\ SumFunction(Adds) = 0
    <3>1. removedCount \in [Workers -> Nat] /\ Adds \in [Owners -> Nat]
      BY <2>1, AddsType DEF Base, Types, StatsTypes
    <3>2. \A o \in Owners : Adds[o] = 0
      BY <2>3 DEF Adds, ToAdd
    <3>3. /\ SumFunction(removedCount) = Cardinality(Workers) * 0
          /\ SumFunction(Adds) = Cardinality(Owners) * 0
      BY <2>3, <3>1, <3>2, Finite, SumConstant
    <3>4. Cardinality(Workers) \in Nat /\ Cardinality(Owners) \in Nat
      BY Finite, FS_CardinalityType
    <3> QED BY <3>3, <3>4
  <2>8. Reported + Unremoved = Total /\ statsRemoved \in Nat
    BY <2>1, SumsAre DEF StatsInv, Base, Types, StatsTypes
  <2> QED BY <2>4, <2>5, <2>6, <2>7, <2>8 DEF Reported, Unremoved, Taken
<1>2. Init => StatsInv
  BY InitSums
<1>3. Spec /\ []Untorn => []StatsExact
  BY <1>1, <1>2, NextStats, BaseInvariance, PTL DEF Spec
<1> QED BY <1>3, PTL DEF StatsUnlessTorn

(* In a behaviour in which no two increments of a consumer's counter meet, *)
(* nor one of them main, main is right about what is missing, whatever the *)
(* number of consumers, as long as the total fits the counter.             *)
THEOREM MainIsRight == Total <= UIntMax => (Spec => CountsUnlessShared)
<1> SUFFICES ASSUME Total <= UIntMax PROVE Spec => CountsUnlessShared
  OBVIOUS
<1>1. CountInv => CountsExact
  BY DEF CountInv
<1>2. Init => CountInv
  BY InitSums
<1>3. Base /\ Base' /\ CountInv /\ Unshared /\ [Next]_vars => CountInv'
  BY NextCounts
<1>4. Spec /\ []Unshared => []CountsExact
  BY <1>1, <1>2, <1>3, BaseInvariance, PTL DEF Spec
<1> QED BY <1>4, PTL DEF CountsUnlessShared
=============================================================================
