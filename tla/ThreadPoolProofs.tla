-------------------------- MODULE ThreadPoolProofs --------------------------
(* Proofs about ThreadPool, for any number of pools, workers, jobs and       *)
(* clients.                                                                 *)
EXTENDS ThreadPool, FiniteSetTheorems, TLAPS

\* A pool that has not been created has no thread.
UnbornPools ==
  \A p \in Pools : pool[p] = "none" => \A w \in WorkersOf(p) : pc[w] = "unborn"

\* A worker that runs a job holds one.
RunnersHaveJobs == \A w \in Workers : pc[w] = "run" => job[w] \in Jobs

Shape == UnbornPools /\ RunnersHaveJobs

\* TypeOK is not inductive: that num_threads_working-- stays a natural number
\* rests on the counter being exact.
IInv == TypeOK /\ CountersExact /\ Shape

-----------------------------------------------------------------------------
(* The sets the counters measure.                                           *)

LEMMA WorkersOfFinite ==
  ASSUME NEW p \in Pools
  PROVE  IsFiniteSet(WorkersOf(p)) /\ WorkersOf(p) \subseteq Workers
BY WorkersFinite, FS_Subset DEF WorkersOf

LEMMA CountedFinite ==
  ASSUME NEW p \in Pools
  PROVE  /\ IsFiniteSet(Living(p)) /\ Cardinality(Living(p)) \in Nat
         /\ IsFiniteSet(Busy(p)) /\ Cardinality(Busy(p)) \in Nat
<1>1. Living(p) \subseteq Workers /\ Busy(p) \subseteq Workers
  BY DEF Living, Busy, WorkersOf
<1>2. QED
  BY <1>1, WorkersFinite, FS_Subset, FS_CardinalityType

\* The counter of one pool goes up by one when one worker enters the section.
LEMMA AddOne ==
  ASSUME NEW S, IsFiniteSet(S), NEW x, x \notin S
  PROVE  Cardinality(S \cup {x}) = Cardinality(S) + 1
BY FS_AddElement

LEMMA RemoveOne ==
  ASSUME NEW S, IsFiniteSet(S), NEW x, x \in S
  PROVE  Cardinality(S \ {x}) = Cardinality(S) - 1 /\ Cardinality(S) >= 1
<1>1. Cardinality(S \ {x}) = Cardinality(S) - 1
  BY FS_RemoveElement
<1>2. Cardinality(S) \in Nat /\ Cardinality(S) # 0
  BY FS_CardinalityType, FS_EmptySet
<1>3. QED
  BY <1>1, <1>2

-----------------------------------------------------------------------------
LEMMA InitIInv == Init => IInv
<1>1. SUFFICES ASSUME Init PROVE IInv
  OBVIOUS
<1>2. TypeOK
  <2>1. FlagsTypeOK
    BY <1>1, Zenon DEF Init, FlagsTypeOK
  <2>2. PoolTypeOK
    BY <1>1 DEF Init, PoolTypeOK, PoolStates, WorkerSteps, WaiterSteps
  <2>3. QED
    BY <2>1, <2>2 DEF TypeOK
<1>3. CountersExact
  <2>1. SUFFICES ASSUME NEW p \in Pools
                 PROVE  alive[p] = Cardinality(Living(p)) /\ working[p] = Cardinality(Busy(p))
    BY DEF CountersExact
  <2>2. Living(p) = {} /\ Busy(p) = {}
    BY <1>1 DEF Init, Living, Busy, WorkersOf
  <2>3. alive[p] = 0 /\ working[p] = 0
    BY <1>1 DEF Init
  <2>4. QED
    BY <2>2, <2>3, FS_EmptySet
<1>4. Shape
  BY <1>1 DEF Init, Shape, UnbornPools, RunnersHaveJobs, WorkersOf
<1>5. QED
  BY <1>2, <1>3, <1>4 DEF IInv

\* A step that moves no worker into or out of a counted section and leaves the
\* counters alone keeps them exact.
LEMMA CountersKept ==
  ASSUME CountersExact, UNCHANGED counters,
         \A p \in Pools : Living(p)' = Living(p) /\ Busy(p)' = Busy(p)
  PROVE  CountersExact'
BY DEF CountersExact, counters

\* The steps of thread_do counted in each counter.
Counted(s)  == s \notin {"unborn", "created", "unlock", "gone"}
Occupied(s) == s \in {"pull", "run", "discount"}

LEMMA SectionsKept ==
  ASSUME \A w \in Workers : /\ Counted(pc'[w]) <=> Counted(pc[w])
                            /\ Occupied(pc'[w]) <=> Occupied(pc[w])
  PROVE  \A p \in Pools : Living(p)' = Living(p) /\ Busy(p)' = Busy(p)
BY DEF Living, Busy, WorkersOf, Counted, Occupied

\* Worker x, and no other, changes sections.
LEMMA OneEnters ==
  ASSUME NEW x \in Workers,
         \A w \in Workers \ {x} : pc'[w] = pc[w]
  PROVE  /\ Counted(pc'[x]) /\ ~Counted(pc[x]) =>
              \A p \in Pools : Living(p)' = IF p = PoolOf[x] THEN Living(p) \cup {x} ELSE Living(p)
         /\ ~Counted(pc'[x]) /\ Counted(pc[x]) =>
              \A p \in Pools : Living(p)' = IF p = PoolOf[x] THEN Living(p) \ {x} ELSE Living(p)
         /\ (Counted(pc'[x]) <=> Counted(pc[x])) =>
              \A p \in Pools : Living(p)' = Living(p)
         /\ Occupied(pc'[x]) /\ ~Occupied(pc[x]) =>
              \A p \in Pools : Busy(p)' = IF p = PoolOf[x] THEN Busy(p) \cup {x} ELSE Busy(p)
         /\ ~Occupied(pc'[x]) /\ Occupied(pc[x]) =>
              \A p \in Pools : Busy(p)' = IF p = PoolOf[x] THEN Busy(p) \ {x} ELSE Busy(p)
         /\ (Occupied(pc'[x]) <=> Occupied(pc[x])) =>
              \A p \in Pools : Busy(p)' = Busy(p)
BY DEF Living, Busy, WorkersOf, Counted, Occupied

LEMMA FlagsStep ==
  ASSUME FlagsTypeOK, [Next]_vars
  PROVE  FlagsTypeOK'
<1> USE DEF FlagsTypeOK
<1>1. CASE UNCHANGED vars
  BY <1>1, Zenon DEF vars, globals, signals, history
<1>2. ASSUME NEW p \in Pools, InitPool(p) \/ InitReturns(p) \/ DestroyBegins(p) \/ DestroyPolls(p) \/ DestroyEnds(p)
      PROVE  FlagsTypeOK'
  BY <1>2, Zenon DEF InitPool, InitReturns, DestroyBegins, DestroyPolls, DestroyEnds, globals, signals, history
<1>3. ASSUME NEW p \in Pools, Pause(p) \/ Resume(p)
      PROVE  FlagsTypeOK'
  <2>1. CASE Pause(p)
    BY <2>1, Zenon DEF Pause, globals
  <2>2. CASE Resume(p)
    BY <2>2, Zenon DEF Resume, signals
  <2>3. QED
    BY <1>3, <2>1, <2>2
<1>4. ASSUME NEW p \in Pools, NEW j \in Jobs, AddWork(p, j)
      PROVE  FlagsTypeOK'
  BY <1>4, Zenon DEF AddWork, globals, signals
<1>5. ASSUME NEW t \in Waiters, WaitTest(t) \/ SpuriousWakeup(t) \/ \E p \in Pools : WaitCall(t, p)
      PROVE  FlagsTypeOK'
  BY <1>5, Zenon DEF WaitTest, SpuriousWakeup, WaitCall, globals, signals, history
<1>6. ASSUME NEW w \in Workers, WorkerStep(w)
      PROVE  FlagsTypeOK'
  BY <1>6, Zenon DEF WorkerStep, Born, LoopTest, BsemWait, GotTest, Count, PullNothing, Pull, RunJob,
                     Discount, Bye, Unlock, globals, signals, history
<1>7. ASSUME NEW w \in Workers, HoldBegins(w) \/ HoldEnds(w)
      PROVE  FlagsTypeOK'
  BY <1>7, Zenon DEF HoldBegins, HoldEnds, globals, history
<1>8. QED
  BY <1>1, <1>2, <1>3, <1>4, <1>5, <1>6, <1>7 DEF Next

\* What the step of an action must show: types, exact counters, unborn pools.
Preserved == PoolTypeOK' /\ CountersExact' /\ Shape'

LEMMA OwnerStep ==
  ASSUME PoolTypeOK, CountersExact, Shape, NEW p \in Pools,
         InitPool(p) \/ InitReturns(p) \/ DestroyBegins(p) \/ DestroyPolls(p) \/ DestroyEnds(p)
  PROVE  Preserved
<1> USE DEF Preserved
<1>1. CASE InitPool(p)
  <2>1. PoolTypeOK'
    BY <1>1 DEF InitPool, StartThreads, counters, clients, history, PoolTypeOK, PoolStates, WorkerSteps
  <2>2. \A w \in Workers : (Counted(pc'[w]) <=> Counted(pc[w])) /\ (Occupied(pc'[w]) <=> Occupied(pc[w]))
    BY <1>1 DEF InitPool, StartThreads, Shape, UnbornPools, RunnersHaveJobs, WorkersOf, Counted, Occupied, PoolTypeOK
  <2>3. CountersExact'
    BY <1>1, <2>2, SectionsKept, CountersKept DEF InitPool
  <2>4. Shape'
    BY <1>1 DEF InitPool, StartThreads, Shape, UnbornPools, RunnersHaveJobs, WorkersOf, PoolTypeOK
  <2>5. QED
    BY <2>1, <2>3, <2>4
<1>2. CASE InitReturns(p)
  <2>1. PoolTypeOK'
    BY <1>2 DEF InitReturns, counters, clients, history, PoolTypeOK, PoolStates
  <2>2. CountersExact'
    BY <1>2, SectionsKept, CountersKept DEF InitReturns
  <2>3. Shape'
    BY <1>2 DEF InitReturns, Shape, UnbornPools, RunnersHaveJobs, WorkersOf, PoolTypeOK
  <2>4. QED
    BY <2>1, <2>2, <2>3
<1>3. CASE DestroyBegins(p)
  <2>1. PoolTypeOK'
    BY <1>3 DEF DestroyBegins, counters, clients, history, PoolTypeOK, PoolStates
  <2>2. CountersExact'
    BY <1>3, SectionsKept, CountersKept DEF DestroyBegins
  <2>3. Shape'
    BY <1>3 DEF DestroyBegins, Shape, UnbornPools, RunnersHaveJobs, WorkersOf, PoolTypeOK
  <2>4. QED
    BY <2>1, <2>2, <2>3
<1>4. CASE DestroyPolls(p)
  <2>1. PoolTypeOK'
    BY <1>4 DEF DestroyPolls, WakeUp, counters, clients, history, PoolTypeOK, PoolStates, WorkerSteps
  <2>2. \A w \in Workers : (Counted(pc'[w]) <=> Counted(pc[w])) /\ (Occupied(pc'[w]) <=> Occupied(pc[w]))
    BY <1>4 DEF DestroyPolls, WakeUp, Sleepers, Counted, Occupied
  <2>3. CountersExact'
    BY <1>4, <2>2, SectionsKept, CountersKept DEF DestroyPolls
  <2>4. Shape'
    BY <1>4 DEF DestroyPolls, WakeUp, Sleepers, Shape, UnbornPools, RunnersHaveJobs, WorkersOf
  <2>5. QED
    BY <2>1, <2>3, <2>4
<1>5. CASE DestroyEnds(p)
  <2>1. PoolTypeOK'
    BY <1>5 DEF DestroyEnds, Clear, counters, clients, history, PoolTypeOK, PoolStates
  <2>2. CountersExact'
    BY <1>5, SectionsKept, CountersKept DEF DestroyEnds
  <2>3. Shape'
    BY <1>5 DEF DestroyEnds, Shape, UnbornPools, RunnersHaveJobs, WorkersOf, PoolTypeOK
  <2>4. QED
    BY <2>1, <2>2, <2>3
<1>6. QED
  BY <1>1, <1>2, <1>3, <1>4, <1>5

LEMMA ClientStep ==
  ASSUME PoolTypeOK, CountersExact, Shape, NEW p \in Pools,
         \/ Pause(p) \/ Resume(p)
         \/ \E j \in Jobs : AddWork(p, j)
  PROVE  Preserved
<1> USE DEF Preserved
<1>1. CASE Pause(p) \/ Resume(p)
  <2>1. PoolTypeOK'
    BY <1>1, MaxPausesType DEF Pause, Resume, counters, clients, history, PoolTypeOK
  <2>2. CountersExact'
    BY <1>1, SectionsKept, CountersKept DEF Pause, Resume
  <2>3. Shape'
    BY <1>1 DEF Pause, Resume, Shape, UnbornPools, RunnersHaveJobs, WorkersOf
  <2>4. QED
    BY <2>1, <2>2, <2>3
<1>2. ASSUME NEW j \in Jobs, AddWork(p, j)
      PROVE  Preserved
  <2>1. PICK S \in Signalled(p) : pc' = WakeUp(S)
    BY <1>2 DEF AddWork, Push
  <2>2. PoolTypeOK'
    BY <1>2, <2>1 DEF AddWork, Push, WakeUp, counters, clients, PoolTypeOK, WorkerSteps
  <2>3. \A w \in Workers : (Counted(pc'[w]) <=> Counted(pc[w])) /\ (Occupied(pc'[w]) <=> Occupied(pc[w]))
    BY <2>1 DEF WakeUp, Signalled, Sleepers, Counted, Occupied
  <2>4. CountersExact'
    BY <1>2, <2>3, SectionsKept, CountersKept DEF AddWork
  <2>5. Shape'
    BY <1>2, <2>1 DEF AddWork, WakeUp, Signalled, Sleepers, Shape, UnbornPools, RunnersHaveJobs, WorkersOf
  <2>6. QED
    BY <2>2, <2>4, <2>5
<1>3. QED
  BY <1>1, <1>2

LEMMA WaiterStep ==
  ASSUME PoolTypeOK, CountersExact, Shape, NEW t \in Waiters,
         (\E p \in Pools : WaitCall(t, p)) \/ WaitTest(t) \/ SpuriousWakeup(t)
  PROVE  Preserved
<1> USE DEF Preserved
<1>1. PoolTypeOK'
  <2>1. /\ UNCHANGED <<pool, counters, queue, hasJobs, pc, job, added, finished, pauses>>
        /\ waiter' \in [Waiters -> WaiterSteps]
        /\ waitPool' \in [Waiters -> Pools \cup {NoPool}]
    <3>1. CASE \E p \in Pools : WaitCall(t, p)
      BY <3>1 DEF WaitCall, history, PoolTypeOK, WaiterSteps
    <3>2. CASE WaitTest(t)
      BY <3>2 DEF WaitTest, history, PoolTypeOK, WaiterSteps
    <3>3. CASE SpuriousWakeup(t)
      BY <3>3 DEF SpuriousWakeup, history, PoolTypeOK, WaiterSteps
    <3>4. QED
      BY <3>1, <3>2, <3>3
  <2>2. QED
    BY <2>1 DEF counters, PoolTypeOK
<1>2. CountersExact'
  BY SectionsKept, CountersKept DEF WaitCall, WaitTest, SpuriousWakeup
<1>3. Shape'
  BY DEF WaitCall, WaitTest, SpuriousWakeup, Shape, UnbornPools, RunnersHaveJobs, WorkersOf
<1>4. QED
  BY <1>1, <1>2, <1>3

LEMMA WorkerPreserves ==
  ASSUME PoolTypeOK, CountersExact, Shape, NEW w \in Workers, WorkerStep(w)
  PROVE  Preserved
<1> USE DEF Preserved
<1>1. CASE Born(w)
  <2>1. /\ pc[w] = "created" /\ pc'[w] = "loop" /\ \A v \in Workers \ {w} : pc'[v] = pc[v]
        /\ alive' = [alive EXCEPT ![PoolOf[w]] = @ + 1]
        /\ working' = working
    BY <1>1 DEF Born, Steps, PoolTypeOK
  <2>2. w \notin Living(PoolOf[w])
    BY <2>1, PoolOfType DEF Living, WorkersOf
  <2>3. /\ \A q \in Pools : Living(q)' = IF q = PoolOf[w] THEN Living(q) \cup {w} ELSE Living(q)
        /\ \A q \in Pools : Busy(q)' = Busy(q)
    BY <2>1, OneEnters DEF Counted, Occupied
  <2>4. /\ IsFiniteSet(Living(PoolOf[w])) /\ Cardinality(Living(PoolOf[w])) \in Nat
        /\ alive[PoolOf[w]] = Cardinality(Living(PoolOf[w]))
    BY PoolOfType, CountedFinite DEF CountersExact
  <2>5. /\ Cardinality(Living(PoolOf[w]) \cup {w}) = Cardinality(Living(PoolOf[w])) + 1
        /\ alive[PoolOf[w]] + 1 \in Nat
    BY <2>2, <2>4, AddOne
  <2>6. CountersExact'
    BY <2>1, <2>3, <2>4, <2>5 DEF CountersExact, PoolTypeOK
  <2>7. PoolTypeOK'
    <3>1. alive' \in [Pools -> Nat]
      BY <2>1, <2>5, PoolOfType DEF PoolTypeOK
    <3>2. QED
      BY <1>1, <2>1, <3>1 DEF Born, Steps, WaitersSignalled, WaitersAsleep, clients, history, PoolTypeOK, WorkerSteps, WaiterSteps
  <2>8. Shape'
    BY <1>1, <2>1 DEF Born, Shape, UnbornPools, RunnersHaveJobs, WorkersOf
  <2>9. QED
    BY <2>6, <2>7, <2>8
<1>2. CASE LoopTest(w)
  <2>1. PoolTypeOK'
    BY <1>2, PoolOfType DEF LoopTest, Steps, counters, clients, history, PoolTypeOK, WorkerSteps
  <2>2. \A v \in Workers : /\ Counted(pc'[v]) <=> Counted(pc[v])
                           /\ Occupied(pc'[v]) <=> Occupied(pc[v])
    BY <1>2 DEF LoopTest, Steps, PoolTypeOK, Counted, Occupied
  <2>3. CountersExact'
    BY <1>2, <2>2, SectionsKept, CountersKept DEF LoopTest
  <2>4. Shape'
    BY <1>2 DEF LoopTest, Steps, Shape, UnbornPools, RunnersHaveJobs, WorkersOf, PoolTypeOK
  <2>5. QED
    BY <2>1, <2>3, <2>4
<1>3. CASE BsemWait(w)
  <2>1. PoolTypeOK'
    BY <1>3, PoolOfType DEF BsemWait, Steps, counters, clients, history, PoolTypeOK, WorkerSteps
  <2>2. \A v \in Workers : /\ Counted(pc'[v]) <=> Counted(pc[v])
                           /\ Occupied(pc'[v]) <=> Occupied(pc[v])
    BY <1>3 DEF BsemWait, Steps, PoolTypeOK, Counted, Occupied
  <2>3. CountersExact'
    BY <1>3, <2>2, SectionsKept, CountersKept DEF BsemWait
  <2>4. Shape'
    BY <1>3 DEF BsemWait, Steps, Shape, UnbornPools, RunnersHaveJobs, WorkersOf, PoolTypeOK
  <2>5. QED
    BY <2>1, <2>3, <2>4
<1>4. CASE GotTest(w)
  <2>1. PoolTypeOK'
    BY <1>4, PoolOfType DEF GotTest, Steps, counters, clients, history, PoolTypeOK, WorkerSteps
  <2>2. \A v \in Workers : /\ Counted(pc'[v]) <=> Counted(pc[v])
                           /\ Occupied(pc'[v]) <=> Occupied(pc[v])
    BY <1>4 DEF GotTest, Steps, PoolTypeOK, Counted, Occupied
  <2>3. CountersExact'
    BY <1>4, <2>2, SectionsKept, CountersKept DEF GotTest
  <2>4. Shape'
    BY <1>4 DEF GotTest, Steps, Shape, UnbornPools, RunnersHaveJobs, WorkersOf, PoolTypeOK
  <2>5. QED
    BY <2>1, <2>3, <2>4
<1>5. CASE Count(w)
  <2>1. /\ pc[w] = "count" /\ pc'[w] = "pull" /\ \A v \in Workers \ {w} : pc'[v] = pc[v]
        /\ working' = [working EXCEPT ![PoolOf[w]] = @ + 1]
        /\ alive' = alive
    BY <1>5 DEF Count, Steps, PoolTypeOK
  <2>2. w \notin Busy(PoolOf[w])
    BY <2>1, PoolOfType DEF Busy, WorkersOf
  <2>3. /\ \A q \in Pools : Busy(q)' = IF q = PoolOf[w] THEN Busy(q) \cup {w} ELSE Busy(q)
        /\ \A q \in Pools : Living(q)' = Living(q)
    BY <2>1, OneEnters DEF Counted, Occupied
  <2>4. /\ IsFiniteSet(Busy(PoolOf[w])) /\ Cardinality(Busy(PoolOf[w])) \in Nat
        /\ working[PoolOf[w]] = Cardinality(Busy(PoolOf[w]))
    BY PoolOfType, CountedFinite DEF CountersExact
  <2>5. /\ Cardinality(Busy(PoolOf[w]) \cup {w}) = Cardinality(Busy(PoolOf[w])) + 1
        /\ working[PoolOf[w]] + 1 \in Nat
    BY <2>2, <2>4, AddOne
  <2>6. CountersExact'
    BY <2>1, <2>3, <2>4, <2>5 DEF CountersExact, PoolTypeOK
  <2>7. PoolTypeOK'
    <3>1. working' \in [Pools -> Nat]
      BY <2>1, <2>5, PoolOfType DEF PoolTypeOK
    <3>2. QED
      BY <1>5, <2>1, <3>1 DEF Count, Steps, WaitersSignalled, WaitersAsleep, clients, history, PoolTypeOK, WorkerSteps, WaiterSteps
  <2>8. Shape'
    BY <1>5, <2>1 DEF Count, Shape, UnbornPools, RunnersHaveJobs, WorkersOf
  <2>9. QED
    BY <2>6, <2>7, <2>8
<1>6. CASE PullNothing(w)
  <2>1. PoolTypeOK'
    BY <1>6, PoolOfType DEF PullNothing, Steps, counters, clients, history, PoolTypeOK, WorkerSteps
  <2>2. \A v \in Workers : /\ Counted(pc'[v]) <=> Counted(pc[v])
                           /\ Occupied(pc'[v]) <=> Occupied(pc[v])
    BY <1>6 DEF PullNothing, Steps, PoolTypeOK, Counted, Occupied
  <2>3. CountersExact'
    BY <1>6, <2>2, SectionsKept, CountersKept DEF PullNothing
  <2>4. Shape'
    BY <1>6 DEF PullNothing, Steps, Shape, UnbornPools, RunnersHaveJobs, WorkersOf, PoolTypeOK
  <2>5. QED
    BY <2>1, <2>3, <2>4
<1>7. CASE Pull(w)
  <2>1. PICK S \in Signalled(PoolOf[w]) :
           pc' = [WakeUp(S) EXCEPT ![w] = "run"] \/ pc' = [pc EXCEPT ![w] = "run"]
    <3>1. Signalled(PoolOf[w]) # {}
      BY DEF Signalled
    <3>2. QED
      BY <1>7, <3>1 DEF Pull
  <2>2. /\ pc' \in [Workers -> WorkerSteps]
        /\ pc[w] = "pull" /\ pc'[w] = "run"
        /\ \A v \in Workers \ {w} : pc'[v] = pc[v] \/ (pc[v] = "asleep" /\ pc'[v] = "bsem")
    BY <1>7, <2>1 DEF Pull, WakeUp, Signalled, Sleepers, PoolTypeOK, WorkerSteps
  <2>3. PoolTypeOK'
    <3>1. queue[PoolOf[w]] \in Seq(Jobs) /\ queue[PoolOf[w]] # <<>>
      BY <1>7, PoolOfType DEF Pull, PoolTypeOK
    <3>2. Head(queue[PoolOf[w]]) \in Jobs /\ Tail(queue[PoolOf[w]]) \in Seq(Jobs)
      BY <3>1
    <3>3. hasJobs' \in [Pools -> {0, 1}]
      BY <1>7 DEF Pull, PoolTypeOK
    <3>4. QED
      BY <1>7, <2>2, <3>2, <3>3 DEF Pull, counters, clients, history, PoolTypeOK
  <2>4. \A v \in Workers : /\ Counted(pc'[v]) <=> Counted(pc[v])
                           /\ Occupied(pc'[v]) <=> Occupied(pc[v])
    BY <2>2 DEF Counted, Occupied
  <2>5. CountersExact'
    BY <1>7, <2>4, SectionsKept, CountersKept DEF Pull
  <2>6. Shape'
    <3>1. job'[w] \in Jobs /\ \A v \in Workers \ {w} : job'[v] = job[v]
      <4>1. queue[PoolOf[w]] \in Seq(Jobs) /\ queue[PoolOf[w]] # <<>>
        BY <1>7, PoolOfType DEF Pull, PoolTypeOK
      <4>2. Head(queue[PoolOf[w]]) \in Jobs
        BY <4>1
      <4>3. job' = [job EXCEPT ![w] = Head(queue[PoolOf[w]])]
        BY <1>7 DEF Pull
      <4>4. QED
        BY <4>2, <4>3 DEF PoolTypeOK
    <3>2. pool' = pool
      BY <1>7 DEF Pull
    <3>3. QED
      BY <2>2, <3>1, <3>2 DEF Shape, UnbornPools, RunnersHaveJobs, WorkersOf
  <2>7. QED
    BY <2>3, <2>5, <2>6
<1>8. CASE RunJob(w)
  <2>1. pc[w] = "run" /\ pc' = [pc EXCEPT ![w] = "discount"]
    BY <1>8 DEF RunJob, Steps
  <2>2. PoolTypeOK'
    <3>1. <<PoolOf[w], job[w]>> \in Pools \X Jobs
      BY <2>1, PoolOfType DEF Shape, RunnersHaveJobs
    <3>2. finished' \subseteq Pools \X Jobs
      BY <1>8, <3>1 DEF RunJob, PoolTypeOK
    <3>3. QED
      BY <1>8, <2>1, <3>2 DEF RunJob, counters, clients, PoolTypeOK, WorkerSteps
  <2>3. \A v \in Workers : /\ Counted(pc'[v]) <=> Counted(pc[v])
                           /\ Occupied(pc'[v]) <=> Occupied(pc[v])
    BY <2>1 DEF PoolTypeOK, Counted, Occupied
  <2>4. CountersExact'
    BY <1>8, <2>3, SectionsKept, CountersKept DEF RunJob
  <2>5. Shape'
    BY <1>8, <2>1 DEF RunJob, Shape, UnbornPools, RunnersHaveJobs, WorkersOf, PoolTypeOK
  <2>6. QED
    BY <2>2, <2>4, <2>5
<1>9. CASE Discount(w)
  <2>1. /\ pc[w] = "discount" /\ pc'[w] = "loop" /\ \A v \in Workers \ {w} : pc'[v] = pc[v]
        /\ working' = [working EXCEPT ![PoolOf[w]] = @ - 1]
        /\ alive' = alive
    BY <1>9 DEF Discount, Steps, PoolTypeOK
  <2>2. w \in Busy(PoolOf[w])
    BY <2>1, PoolOfType DEF Busy, WorkersOf
  <2>3. /\ \A q \in Pools : Busy(q)' = IF q = PoolOf[w] THEN Busy(q) \ {w} ELSE Busy(q)
        /\ \A q \in Pools : Living(q)' = Living(q)
    BY <2>1, OneEnters DEF Counted, Occupied
  <2>4. /\ IsFiniteSet(Busy(PoolOf[w])) /\ Cardinality(Busy(PoolOf[w])) \in Nat
        /\ working[PoolOf[w]] = Cardinality(Busy(PoolOf[w]))
    BY PoolOfType, CountedFinite DEF CountersExact
  <2>5. /\ Cardinality(Busy(PoolOf[w]) \ {w}) = Cardinality(Busy(PoolOf[w])) - 1
        /\ working[PoolOf[w]] - 1 \in Nat
    BY <2>2, <2>4, RemoveOne
  <2>6. CountersExact'
    BY <2>1, <2>3, <2>4, <2>5 DEF CountersExact, PoolTypeOK
  <2>7. PoolTypeOK'
    <3>1. working' \in [Pools -> Nat]
      BY <2>1, <2>5, PoolOfType DEF PoolTypeOK
    <3>2. QED
      BY <1>9, <2>1, <3>1, SMTT(30) DEF Discount, Steps, WaitersSignalled, WaitersAsleep, clients, history, PoolTypeOK, WorkerSteps, WaiterSteps
  <2>8. Shape'
    BY <1>9, <2>1 DEF Discount, Shape, UnbornPools, RunnersHaveJobs, WorkersOf
  <2>9. QED
    BY <2>6, <2>7, <2>8
<1>10. CASE Bye(w)
  <2>1. /\ pc[w] = "bye" /\ pc'[w] = "unlock" /\ \A v \in Workers \ {w} : pc'[v] = pc[v]
        /\ alive' = [alive EXCEPT ![PoolOf[w]] = @ - 1]
        /\ working' = working
    BY <1>10 DEF Bye, Steps, PoolTypeOK
  <2>2. w \in Living(PoolOf[w])
    BY <2>1, PoolOfType DEF Living, WorkersOf
  <2>3. /\ \A q \in Pools : Living(q)' = IF q = PoolOf[w] THEN Living(q) \ {w} ELSE Living(q)
        /\ \A q \in Pools : Busy(q)' = Busy(q)
    BY <2>1, OneEnters DEF Counted, Occupied
  <2>4. /\ IsFiniteSet(Living(PoolOf[w])) /\ Cardinality(Living(PoolOf[w])) \in Nat
        /\ alive[PoolOf[w]] = Cardinality(Living(PoolOf[w]))
    BY PoolOfType, CountedFinite DEF CountersExact
  <2>5. /\ Cardinality(Living(PoolOf[w]) \ {w}) = Cardinality(Living(PoolOf[w])) - 1
        /\ alive[PoolOf[w]] - 1 \in Nat
    BY <2>2, <2>4, RemoveOne
  <2>6. CountersExact'
    BY <2>1, <2>3, <2>4, <2>5 DEF CountersExact, PoolTypeOK
  <2>7. PoolTypeOK'
    <3>1. alive' \in [Pools -> Nat]
      BY <2>1, <2>5, PoolOfType DEF PoolTypeOK
    <3>2. QED
      BY <1>10, <2>1, <3>1 DEF Bye, Steps, WaitersSignalled, WaitersAsleep, clients, history, PoolTypeOK, WorkerSteps, WaiterSteps
  <2>8. Shape'
    BY <1>10, <2>1 DEF Bye, Shape, UnbornPools, RunnersHaveJobs, WorkersOf
  <2>9. QED
    BY <2>6, <2>7, <2>8
<1>11. CASE Unlock(w)
  <2>1. PoolTypeOK'
    BY <1>11, PoolOfType DEF Unlock, Steps, counters, clients, history, PoolTypeOK, WorkerSteps
  <2>2. \A v \in Workers : /\ Counted(pc'[v]) <=> Counted(pc[v])
                           /\ Occupied(pc'[v]) <=> Occupied(pc[v])
    BY <1>11 DEF Unlock, Steps, PoolTypeOK, Counted, Occupied
  <2>3. CountersExact'
    BY <1>11, <2>2, SectionsKept, CountersKept DEF Unlock
  <2>4. Shape'
    BY <1>11 DEF Unlock, Steps, Shape, UnbornPools, RunnersHaveJobs, WorkersOf, PoolTypeOK
  <2>5. QED
    BY <2>1, <2>3, <2>4
<1>12. QED
  BY <1>1, <1>2, <1>3, <1>4, <1>5, <1>6, <1>7, <1>8, <1>9, <1>10, <1>11 DEF WorkerStep

LEMMA StepIInv == IInv /\ [Next]_vars => IInv'
<1>1. SUFFICES ASSUME IInv, [Next]_vars PROVE IInv'
  OBVIOUS
<1>2. FlagsTypeOK'
  BY <1>1, FlagsStep DEF IInv, TypeOK
<1>3. Preserved
  <2>1. CASE UNCHANGED vars
    <3>1. PoolTypeOK'
      BY <1>1, <2>1 DEF IInv, TypeOK, PoolTypeOK, vars, counters, clients, history
    <3>2. CountersExact' /\ Shape'
      BY <1>1, <2>1 DEF IInv, CountersExact, Living, Busy, Shape, UnbornPools, RunnersHaveJobs,
                        WorkersOf, vars, counters
    <3>3. QED
      BY <3>1, <3>2 DEF Preserved
  <2>2. ASSUME NEW w \in Workers, HoldBegins(w) \/ HoldEnds(w)
        PROVE  Preserved
    <3>1. UNCHANGED <<pool, counters, queue, hasJobs, pc, job, clients, history>>
      BY <2>2 DEF HoldBegins, HoldEnds
    <3>2. PoolTypeOK'
      BY <1>1, <3>1 DEF IInv, TypeOK, PoolTypeOK, counters, clients, history
    <3>3. CountersExact' /\ Shape'
      BY <1>1, <3>1 DEF IInv, CountersExact, Living, Busy, Shape, UnbornPools, RunnersHaveJobs,
                        WorkersOf, counters
    <3>4. QED
      BY <3>2, <3>3 DEF Preserved
  <2>3. ASSUME NEW t \in Waiters, WaitTest(t) \/ SpuriousWakeup(t)
        PROVE  Preserved
    BY <1>1, <2>3, WaiterStep DEF IInv, TypeOK
  <2>4. QED
    BY <1>1, <2>1, <2>2, <2>3, OwnerStep, ClientStep, WaiterStep, WorkerPreserves DEF Next, IInv, TypeOK
<1>4. QED
  BY <1>2, <1>3 DEF IInv, TypeOK, Preserved

\* The type invariant of the pools, for any number of threads, jobs and clients.
THEOREM TypeCorrect == Spec => []TypeOK
<1>1. IInv => TypeOK
  BY DEF IInv
<1>2. QED
  BY <1>1, InitIInv, StepIInv, PTL DEF Spec

\* num_threads_alive and num_threads_working always equal the number of workers
\* in the sections of thread_do that they count.
THEOREM CountersCorrect == Spec => []CountersExact
<1>1. IInv => CountersExact
  BY DEF IInv
<1>2. QED
  BY <1>1, InitIInv, StepIInv, PTL DEF Spec

-----------------------------------------------------------------------------
(* thpool_destroy frees no pool under a running job.                        *)

\* Once thpool_init has returned every worker has started, and once
\* thpool_destroy has freed the pool no worker will look at the queue again.
LifeCycle ==
  \A p \in Pools :
    /\ pool[p] \in {"ready", "destroying", "freed"} =>
         \A w \in WorkersOf(p) : pc[w] \notin {"unborn", "created"}
    /\ pool[p] = "freed" => \A w \in WorkersOf(p) : pc[w] \in {"unlock", "gone"}

\* A signal only moves a sleeper.
LEMMA SignalMovesSleepers ==
  ASSUME NEW p \in Pools, NEW S \in Signalled(p)
  PROVE  /\ \A v \in Workers : WakeUp(S)[v] = pc[v] \/ (pc[v] = "asleep" /\ WakeUp(S)[v] = "bsem")
         /\ DOMAIN WakeUp(S) = Workers
<1>1. \A v \in S : pc[v] = "asleep"
  BY DEF Signalled, Sleepers
<1>2. QED
  BY <1>1 DEF WakeUp

\* What a step of worker w does to the program counters.
LEMMA WorkerMoves ==
  ASSUME PoolTypeOK, NEW w \in Workers, WorkerStep(w)
  PROVE  /\ pool' = pool
         /\ pc[w] \notin {"unborn", "gone"} /\ pc'[w] \notin {"unborn", "created"}
         /\ pc[w] = "unlock" => pc'[w] = "gone"
         /\ \A v \in Workers \ {w} : pc'[v] = pc[v] \/ (pc[v] = "asleep" /\ pc'[v] = "bsem")
<1>1. CASE Pull(w)
  <2>1. PICK S \in Signalled(PoolOf[w]) :
           pc' = [WakeUp(S) EXCEPT ![w] = "run"] \/ pc' = [pc EXCEPT ![w] = "run"]
    <3>1. Signalled(PoolOf[w]) # {}
      BY DEF Signalled
    <3>2. QED
      BY <1>1, <3>1 DEF Pull
  <2>2. pool' = pool /\ pc[w] = "pull"
    BY <1>1 DEF Pull
  <2>3. pc'[w] = "run"
    BY <2>1 DEF WakeUp, PoolTypeOK
  <2>4. \A v \in Workers \ {w} : pc'[v] = pc[v] \/ (pc[v] = "asleep" /\ pc'[v] = "bsem")
    <3>1. CASE pc' = [WakeUp(S) EXCEPT ![w] = "run"]
      BY <2>1, <3>1, SignalMovesSleepers, PoolOfType
    <3>2. CASE pc' = [pc EXCEPT ![w] = "run"]
      BY <3>2 DEF PoolTypeOK
    <3>3. QED
      BY <2>1, <3>1, <3>2
  <2>5. QED
    BY <2>2, <2>3, <2>4
<1>2. CASE Born(w) \/ LoopTest(w) \/ BsemWait(w) \/ GotTest(w) \/ Count(w)
  BY <1>2 DEF Born, LoopTest, BsemWait, GotTest, Count, Steps, PoolTypeOK
<1>3. CASE PullNothing(w) \/ RunJob(w) \/ Discount(w) \/ Bye(w) \/ Unlock(w)
  BY <1>3 DEF PullNothing, RunJob, Discount, Bye, Unlock, Steps, PoolTypeOK
<1>4. QED
  BY <1>1, <1>2, <1>3 DEF WorkerStep

LEMMA LifeCycleStep == IInv /\ LifeCycle /\ [Next]_vars => LifeCycle'
<1>1. SUFFICES ASSUME IInv, LifeCycle, [Next]_vars PROVE LifeCycle'
  OBVIOUS
<1> USE <1>1 DEF LifeCycle, WorkersOf, IInv, TypeOK
<1>2. CASE pool' = pool /\ pc' = pc
  BY <1>2
<1>3. ASSUME NEW p \in Pools, InitPool(p) PROVE LifeCycle'
  BY <1>3 DEF InitPool, StartThreads, PoolTypeOK
<1>4. ASSUME NEW p \in Pools, InitReturns(p) PROVE LifeCycle'
  <2>1. Living(p) \subseteq WorkersOf(p) /\ Cardinality(Living(p)) = Cardinality(WorkersOf(p))
    BY <1>4 DEF InitReturns, Living, CountersExact
  <2>2. Living(p) = WorkersOf(p)
    BY <2>1, WorkersOfFinite, FS_Subset
  <2>3. \A w \in WorkersOf(p) : pc[w] \notin {"unborn", "created"}
    BY <2>2 DEF Living
  <2>4. QED
    BY <1>4, <2>3 DEF InitReturns, PoolTypeOK
<1>5. ASSUME NEW p \in Pools, DestroyBegins(p) PROVE LifeCycle'
  BY <1>5 DEF DestroyBegins, PoolTypeOK
<1>6. ASSUME NEW p \in Pools, DestroyPolls(p) PROVE LifeCycle'
  BY <1>6 DEF DestroyPolls, WakeUp, Sleepers, PoolTypeOK
<1>7. ASSUME NEW p \in Pools, DestroyEnds(p) PROVE LifeCycle'
  <2>1. Cardinality(Living(p)) = 0
    BY <1>7 DEF DestroyEnds, CountersExact
  <2>2. Living(p) = {}
    BY <2>1, CountedFinite, FS_EmptySet
  <2>3. \A w \in WorkersOf(p) : pc[w] \in {"unlock", "gone"}
    BY <1>7, <2>2 DEF Living, DestroyEnds
  <2>4. QED
    BY <1>7, <2>3 DEF DestroyEnds, PoolTypeOK
<1>8. ASSUME NEW p \in Pools, NEW j \in Jobs, AddWork(p, j) PROVE LifeCycle'
  BY <1>8 DEF AddWork, Push, WakeUp, Signalled, Sleepers
<1>9. ASSUME NEW w \in Workers, WorkerStep(w) PROVE LifeCycle'
  BY <1>9, WorkerMoves
<1>10. QED
  BY <1>2, <1>3, <1>4, <1>5, <1>6, <1>7, <1>8, <1>9
     DEF Next, vars, Pause, Resume, WaitCall, WaitTest, SpuriousWakeup, HoldBegins, HoldEnds

\* A pool is never freed while one of its workers runs or is about to run a job,
\* although thpool_destroy reads num_threads_alive without the lock.
THEOREM NeverFreedUnderJob == Spec => []NoFreeUnderJob
<1>1. Init => LifeCycle
  BY DEF Init, LifeCycle, WorkersOf
<1>2. LifeCycle => NoFreeUnderJob
  BY DEF LifeCycle, NoFreeUnderJob, Busy
<1>3. QED
  BY <1>1, <1>2, InitIInv, StepIInv, LifeCycleStep, PTL DEF Spec

-----------------------------------------------------------------------------
(* A queued job is never stranded.                                          *)

Pulling(w) == pc[w] \in {"got", "count", "pull"}

\* As long as no pool of the process has been destroyed: threads_keepalive is
\* up, so no worker leaves its loop; the semaphore being up wakes somebody; and
\* a job in the queue has the semaphore up or a worker on its way to pull it.
Vigilance ==
  NoDestroy =>
    /\ \A w \in Workers : pc[w] # "unborn" => keepalive
    /\ \A w \in Workers : pc[w] \notin {"bye", "unlock", "gone"}
    /\ \A p \in Pools : hasJobs[p] = 1 => \E w \in WorkersOf(p) : Awake(w)
    /\ \A p \in Pools : queue[p] # <<>> =>
         hasJobs[p] = 1 \/ \E w \in WorkersOf(p) : Pulling(w)

LEMMA PoolHasWorker ==
  ASSUME NEW p \in Pools
  PROVE  \E w \in WorkersOf(p) : TRUE
BY PoolsHaveWorkers DEF WorkersOf

\* bsem_post leaves somebody awake.
LEMMA PostWakes ==
  ASSUME NEW p \in Pools, NEW S \in Signalled(p),
         \A w \in Workers : pc[w] \notin {"bye", "unlock", "gone"}
  PROVE  \E w \in WorkersOf(p) : WakeUp(S)[w] \notin {"asleep", "bye", "unlock", "gone"}
<1>1. CASE Sleepers(p) = {}
  <2>1. PICK w \in WorkersOf(p) : TRUE
    BY PoolHasWorker
  <2>2. WakeUp(S)[w] = pc[w] /\ pc[w] # "asleep"
    BY <1>1, <2>1 DEF Signalled, WakeUp, Sleepers, WorkersOf
  <2>3. QED
    BY <2>1, <2>2 DEF WorkersOf
<1>2. CASE Sleepers(p) # {}
  <2>1. PICK w \in Sleepers(p) : S = {w}
    BY <1>2 DEF Signalled
  <2>2. WakeUp(S)[w] = "bsem" /\ w \in WorkersOf(p)
    BY <2>1 DEF WakeUp, Sleepers, WorkersOf
  <2>3. QED
    BY <2>2
<1>3. QED
  BY <1>1, <1>2

LEMMA VigilanceStep == IInv /\ Vigilance /\ [Next]_vars => Vigilance'
<1>1. SUFFICES ASSUME IInv, Vigilance, [Next]_vars, NoDestroy' PROVE Vigilance'
  BY DEF Vigilance
<1>2. PoolTypeOK /\ Shape
  BY <1>1 DEF IInv, TypeOK
<1>3. CASE UNCHANGED <<keepalive, pool, pc, hasJobs, queue>>
  BY <1>1, <1>3 DEF Vigilance, NoDestroy, WorkersOf, Awake, Pulling
<1>4. ASSUME NEW p \in Pools, InitPool(p) PROVE Vigilance'
  <2>1. NoDestroy /\ keepalive' /\ hasJobs' = hasJobs /\ queue' = queue
    BY <1>1, <1>2, <1>4 DEF InitPool, NoDestroy, PoolTypeOK
  <2>2. \A w \in Workers : pc'[w] = pc[w] \/ (pc[w] = "unborn" /\ pc'[w] = "created")
    BY <1>2, <1>4 DEF InitPool, StartThreads, Shape, UnbornPools, WorkersOf
  <2>3. QED
    BY <1>1, <2>1, <2>2 DEF Vigilance, WorkersOf, Awake, Pulling
<1>5. ASSUME NEW p \in Pools, InitReturns(p) PROVE Vigilance'
  <2>1. NoDestroy /\ UNCHANGED <<keepalive, pc, hasJobs, queue>>
    BY <1>1, <1>2, <1>5 DEF InitReturns, NoDestroy, PoolTypeOK, globals
  <2>2. QED
    BY <1>1, <2>1 DEF Vigilance, WorkersOf, Awake, Pulling
<1>6. ASSUME NEW p \in Pools, DestroyBegins(p) \/ DestroyPolls(p) \/ DestroyEnds(p) PROVE Vigilance'
  <2>1. pool'[p] \in {"destroying", "freed"}
    BY <1>2, <1>6 DEF DestroyBegins, DestroyPolls, DestroyEnds, PoolTypeOK
  <2>2. QED
    BY <1>1, <2>1 DEF NoDestroy
<1>7. ASSUME NEW p \in Pools, NEW j \in Jobs, AddWork(p, j) PROVE Vigilance'
  <2>1. NoDestroy /\ keepalive' = keepalive
    BY <1>1, <1>7 DEF AddWork, NoDestroy, globals
  <2>2. PICK S \in Signalled(p) : pc' = WakeUp(S)
    BY <1>7 DEF AddWork, Push
  <2>3. /\ \A w \in Workers : pc'[w] = pc[w] \/ (pc[w] = "asleep" /\ pc'[w] = "bsem")
        /\ hasJobs'[p] = 1 /\ \A q \in Pools \ {p} : hasJobs'[q] = hasJobs[q] /\ queue'[q] = queue[q]
    BY <1>2, <1>7, <2>2 DEF AddWork, Push, WakeUp, Signalled, Sleepers, PoolTypeOK
  <2>4. \E w \in WorkersOf(p) : pc'[w] \notin {"asleep", "bye", "unlock", "gone"}
    BY <1>1, <2>1, <2>2, PostWakes DEF Vigilance
  <2>5. QED
    BY <1>1, <2>1, <2>3, <2>4 DEF Vigilance, WorkersOf, Awake, Pulling
<1>8. ASSUME NEW w \in Workers, WorkerStep(w) PROVE Vigilance'
  <2>1. NoDestroy /\ keepalive' = keepalive /\ pool' = pool
    <3>1. keepalive' = keepalive
      BY <1>8 DEF WorkerStep, Born, LoopTest, BsemWait, GotTest, Count, PullNothing, Pull, RunJob,
                  Discount, Bye, Unlock, globals
    <3>2. QED
      BY <1>1, <1>2, <1>8, <3>1, WorkerMoves DEF NoDestroy
  <2>2. pc[w] \notin {"unborn", "bye", "unlock", "gone"} /\ keepalive
    BY <1>1, <1>2, <1>8, <2>1, WorkerMoves DEF Vigilance
  <2>3. CASE Pull(w)
    <3>1. PICK S \in Signalled(PoolOf[w]) :
             \/ /\ hasJobs' = [hasJobs EXCEPT ![PoolOf[w]] = 1]
                /\ pc' = [WakeUp(S) EXCEPT ![w] = "run"]
             \/ /\ hasJobs' = hasJobs /\ Tail(queue[PoolOf[w]]) = <<>>
                /\ pc' = [pc EXCEPT ![w] = "run"]
      <4>1. Signalled(PoolOf[w]) # {}
        BY DEF Signalled
      <4>2. CASE Len(queue[PoolOf[w]]) > 1
        BY <2>3, <4>1, <4>2 DEF Pull
      <4>3. CASE ~(Len(queue[PoolOf[w]]) > 1)
        <5>1. queue[PoolOf[w]] \in Seq(Jobs) /\ queue[PoolOf[w]] # <<>>
          BY <1>2, <2>3, PoolOfType DEF Pull, PoolTypeOK
        <5>2. Tail(queue[PoolOf[w]]) = <<>>
          BY <4>3, <5>1
        <5>3. QED
          BY <2>3, <4>1, <4>3, <5>2 DEF Pull
      <4>4. QED
        BY <4>2, <4>3
    <3>2. /\ pc'[w] = "run" /\ pc[w] = "pull"
          /\ \A v \in Workers \ {w} : pc'[v] = pc[v] \/ (pc[v] = "asleep" /\ pc'[v] = "bsem")
      <4>1. pc'[w] = "run"
        BY <1>2, <3>1 DEF WakeUp, PoolTypeOK
      <4>2. pc[w] = "pull"
        BY <2>3 DEF Pull
      <4>3. QED
        BY <1>2, <1>8, <4>1, <4>2, WorkerMoves
    <3>3. /\ queue'[PoolOf[w]] # <<>> => hasJobs'[PoolOf[w]] = 1
          /\ \A q \in Pools \ {PoolOf[w]} : hasJobs'[q] = hasJobs[q] /\ queue'[q] = queue[q]
      <4>1. queue' = [queue EXCEPT ![PoolOf[w]] = Tail(@)]
        BY <2>3 DEF Pull
      <4>2. QED
        BY <1>2, <3>1, <4>1, PoolOfType DEF PoolTypeOK
    <3>4. QED
      BY <1>1, <2>1, <2>2, <3>2, <3>3, PoolOfType DEF Vigilance, WorkersOf, Awake, Pulling
  <2>4. CASE BsemWait(w)
    <3>1. /\ queue' = queue /\ pc[w] = "bsem"
          /\ hasJobs'[PoolOf[w]] = 0
          /\ hasJobs[PoolOf[w]] = 1 => pc'[w] = "got"
          /\ hasJobs[PoolOf[w]] # 1 => pc'[w] = "asleep"
          /\ \A v \in Workers \ {w} : pc'[v] = pc[v]
          /\ \A q \in Pools \ {PoolOf[w]} : hasJobs'[q] = hasJobs[q]
      BY <1>2, <2>4, PoolOfType DEF BsemWait, Steps, PoolTypeOK
    <3>2. QED
      BY <1>1, <2>1, <2>2, <3>1, PoolOfType DEF Vigilance, WorkersOf, Awake, Pulling
  <2>5. CASE Born(w) \/ LoopTest(w) \/ GotTest(w) \/ Count(w)
    <3>1. /\ UNCHANGED <<queue, hasJobs>>
          /\ pc'[w] \in {"loop", "bsem", "count", "pull"}
          /\ pc[w] \in {"got", "count", "pull"} => pc'[w] \in {"count", "pull"}
          /\ \A v \in Workers \ {w} : pc'[v] = pc[v]
      BY <1>2, <2>2, <2>5 DEF Born, LoopTest, GotTest, Count, Steps, PoolTypeOK
    <3>2. QED
      BY <1>1, <2>1, <2>2, <3>1 DEF Vigilance, WorkersOf, Awake, Pulling
  <2>6. CASE PullNothing(w)
    <3>1. /\ UNCHANGED <<queue, hasJobs>> /\ queue[PoolOf[w]] = <<>>
          /\ pc'[w] = "discount"
          /\ \A v \in Workers \ {w} : pc'[v] = pc[v]
      BY <1>2, <2>6 DEF PullNothing, Steps, PoolTypeOK
    <3>2. QED
      BY <1>1, <2>1, <2>2, <3>1, PoolOfType DEF Vigilance, WorkersOf, Awake, Pulling
  <2>7. CASE RunJob(w) \/ Discount(w) \/ Bye(w) \/ Unlock(w)
    <3>1. /\ UNCHANGED <<queue, hasJobs>>
          /\ pc[w] \in {"run", "discount"} /\ pc'[w] \in {"discount", "loop"}
          /\ \A v \in Workers \ {w} : pc'[v] = pc[v]
      BY <1>2, <2>2, <2>7 DEF RunJob, Discount, Bye, Unlock, Steps, PoolTypeOK
    <3>2. QED
      BY <1>1, <2>1, <2>2, <3>1 DEF Vigilance, WorkersOf, Awake, Pulling
  <2>8. QED
    BY <1>8, <2>3, <2>4, <2>5, <2>6, <2>7 DEF WorkerStep
<1>9. QED
  BY <1>1, <1>3, <1>4, <1>5, <1>6, <1>7, <1>8
     DEF Next, vars, globals, Pause, Resume, WaitCall, WaitTest, SpuriousWakeup, HoldBegins, HoldEnds

\* With the binary semaphore of the job queue no job is stranded, for any number
\* of workers: the posts that collapse are made up for by jobqueue_pull.
THEOREM NoWakeupLost == Spec => []NoLostWakeup
<1>1. Init => Vigilance
  BY DEF Init, Vigilance, WorkersOf
<1>2. Vigilance => NoLostWakeup
  BY DEF Vigilance, NoLostWakeup, Pulling
<1>3. QED
  BY <1>1, <1>2, InitIInv, StepIInv, VigilanceStep, PTL DEF Spec

-----------------------------------------------------------------------------
(* A pool implements the promise of JobPool.                                *)

Dropped == {p \in Pools : pool[p] = "freed"}
WaitsFor == [t \in Waiters |-> IF waiter[t] \in {"check", "asleep"} THEN {waitPool[t]} ELSE {}]

\* Every job queued, running or finished was added; no job is queued twice, queued
\* while it runs, or run by two workers; a client in thpool_wait waits for a pool.
EachJobOnce ==
  /\ \A p \in Pools : \A i \in 1..Len(queue[p]) : <<p, queue[p][i]>> \in added
  /\ \A p \in Pools : \A i, k \in 1..Len(queue[p]) : queue[p][i] = queue[p][k] => i = k
  /\ \A w \in Workers : pc[w] = "run" =>
       /\ <<PoolOf[w], job[w]>> \in added
       /\ \A i \in 1..Len(queue[PoolOf[w]]) : queue[PoolOf[w]][i] # job[w]
  /\ \A v, w \in Workers :
       pc[v] = "run" /\ pc[w] = "run" /\ PoolOf[v] = PoolOf[w] /\ job[v] = job[w] => v = w
  /\ finished \subseteq added

ClientsKnowPool == \A t \in Waiters : waiter[t] \in {"check", "asleep"} => waitPool[t] \in Pools

\* Most steps move no job.
JobsStay ==
  /\ UNCHANGED <<queue, job, added, finished>>
  /\ \A w \in Workers : pc'[w] = "run" <=> pc[w] = "run"
  /\ Dropped' = Dropped

LEMMA StepOfJobs ==
  ASSUME PoolTypeOK, Shape, [Next]_vars
  PROVE  \/ JobsStay
         \/ /\ UNCHANGED <<waiter, waitPool>>
            /\ \/ \E p \in Pools : DestroyEnds(p) \/ \E j \in Jobs : AddWork(p, j)
               \/ \E w \in Workers : Pull(w) \/ RunJob(w)
<1> DEFINE Moved == /\ UNCHANGED <<waiter, waitPool>>
                    /\ \/ \E p \in Pools : DestroyEnds(p) \/ \E j \in Jobs : AddWork(p, j)
                       \/ \E w \in Workers : Pull(w) \/ RunJob(w)
<1>1. SUFFICES ASSUME ~JobsStay, ~Moved PROVE FALSE
  OBVIOUS
<1>2. ASSUME UNCHANGED <<queue, job, added, finished, pool>>,
             \A w \in Workers : pc'[w] = "run" <=> pc[w] = "run"
      PROVE  FALSE
  BY <1>1, <1>2 DEF JobsStay, Dropped
<1>3. ASSUME NEW p \in Pools, InitPool(p) PROVE FALSE
  <2>1. \A w \in Workers : pc'[w] = "run" <=> pc[w] = "run"
    BY <1>3 DEF InitPool, StartThreads, Shape, UnbornPools, PoolTypeOK
  <2>2. UNCHANGED <<queue, job, added, finished>> /\ pool' = [pool EXCEPT ![p] = "starting"] /\ pool[p] = "none"
    BY <1>3 DEF InitPool, history
  <2>3. Dropped' = Dropped
    BY <2>2 DEF Dropped, PoolTypeOK
  <2>4. QED
    BY <1>1, <2>1, <2>2, <2>3 DEF JobsStay
<1>4. ASSUME NEW p \in Pools, InitReturns(p) \/ DestroyBegins(p) PROVE FALSE
  <2>1. UNCHANGED <<queue, job, added, finished, pc>>
    BY <1>4 DEF InitReturns, DestroyBegins, history
  <2>2. Dropped' = Dropped
    BY <1>4 DEF InitReturns, DestroyBegins, Dropped, PoolTypeOK
  <2>3. QED
    BY <1>1, <2>1, <2>2 DEF JobsStay
<1>5. ASSUME NEW p \in Pools, DestroyPolls(p) PROVE FALSE
  <2>1. UNCHANGED <<queue, job, added, finished, pool>> /\ pc' = WakeUp(Sleepers(p))
    BY <1>5 DEF DestroyPolls, history
  <2>2. \A w \in Workers : pc'[w] = "run" <=> pc[w] = "run"
    BY <2>1 DEF WakeUp, Sleepers
  <2>3. QED
    BY <1>2, <2>1, <2>2
<1>6. ASSUME NEW p \in Pools, Pause(p) \/ Resume(p) \/ \E t \in Waiters : WaitCall(t, p)
      PROVE  FALSE
  <2>1. UNCHANGED <<queue, job, added, finished, pool, pc>>
    BY <1>6 DEF Pause, Resume, WaitCall, history
  <2>2. QED
    BY <1>2, <2>1
<1>7. ASSUME NEW t \in Waiters, WaitTest(t) \/ SpuriousWakeup(t)
      PROVE  FALSE
  <2>1. UNCHANGED <<queue, job, added, finished, pool, pc>>
    BY <1>7 DEF WaitTest, SpuriousWakeup, history
  <2>2. QED
    BY <1>2, <2>1
<1>8. ASSUME NEW w \in Workers, HoldBegins(w) \/ HoldEnds(w)
      PROVE  FALSE
  <2>1. UNCHANGED <<queue, job, added, finished, pool, pc>>
    BY <1>8 DEF HoldBegins, HoldEnds, history
  <2>2. QED
    BY <1>2, <2>1
<1>9. ASSUME NEW w \in Workers,
             \/ Born(w) \/ LoopTest(w) \/ BsemWait(w) \/ GotTest(w) \/ Count(w)
             \/ PullNothing(w) \/ Discount(w) \/ Bye(w) \/ Unlock(w)
      PROVE  FALSE
  <2>1. UNCHANGED <<queue, job, added, finished, pool>>
    BY <1>9 DEF Born, LoopTest, BsemWait, GotTest, Count, PullNothing, Discount, Bye, Unlock, history
  <2>2. \A v \in Workers : pc'[v] = "run" <=> pc[v] = "run"
    BY <1>9 DEF Born, LoopTest, BsemWait, GotTest, Count, PullNothing, Discount, Bye, Unlock, Steps, PoolTypeOK
  <2>3. QED
    BY <1>2, <2>1, <2>2
<1>10. ASSUME NEW w \in Workers, Pull(w) \/ RunJob(w) PROVE FALSE
  <2>1. UNCHANGED <<waiter, waitPool>>
    BY <1>10 DEF Pull, RunJob, clients
  <2>2. QED
    BY <1>1, <1>10, <2>1
<1>11. ASSUME NEW p \in Pools, DestroyEnds(p) \/ \E j \in Jobs : AddWork(p, j) PROVE FALSE
  <2>1. UNCHANGED <<waiter, waitPool>>
    BY <1>11 DEF DestroyEnds, AddWork, clients
  <2>2. QED
    BY <1>1, <1>11, <2>1
<1>12. CASE UNCHANGED vars
  <2>1. UNCHANGED <<queue, job, added, finished, pool, pc>>
    BY <1>12 DEF vars, history
  <2>2. QED
    BY <1>2, <2>1
<1> HIDE DEF Moved
<1>13. QED
  BY <1>3, <1>4, <1>5, <1>6, <1>7, <1>8, <1>9, <1>10, <1>11, <1>12 DEF Next, WorkerStep

\* What the four steps that move a job do.
LEMMA AddMoves ==
  ASSUME PoolTypeOK, NEW p \in Pools, NEW j \in Jobs, AddWork(p, j)
  PROVE  /\ pool[p] = "ready" /\ \A q \in Pools : <<q, j>> \notin added
         /\ queue' = [queue EXCEPT ![p] = Append(@, j)]
         /\ added' = added \cup {<<p, j>>}
         /\ UNCHANGED <<pool, job, finished>>
         /\ \A w \in Workers : pc'[w] = "run" <=> pc[w] = "run"
<1>1. PICK S \in Signalled(p) : pc' = WakeUp(S)
  BY DEF AddWork, Push
<1>2. \A w \in Workers : pc'[w] = "run" <=> pc[w] = "run"
  BY <1>1, SignalMovesSleepers
<1>3. QED
  BY <1>2 DEF AddWork, Push

LEMMA PullMoves ==
  ASSUME PoolTypeOK, NEW w \in Workers, Pull(w)
  PROVE  /\ queue[PoolOf[w]] # <<>> /\ pc[w] = "pull" /\ pc'[w] = "run"
         /\ queue' = [queue EXCEPT ![PoolOf[w]] = Tail(@)]
         /\ job' = [job EXCEPT ![w] = Head(queue[PoolOf[w]])]
         /\ UNCHANGED <<pool, added, finished>>
         /\ \A v \in Workers \ {w} : pc'[v] = "run" <=> pc[v] = "run"
<1>1. WorkerStep(w)
  BY DEF WorkerStep
<1>2. \A v \in Workers \ {w} : pc'[v] = "run" <=> pc[v] = "run"
  BY <1>1, WorkerMoves
<1>3. pc'[w] = "run"
  BY DEF Pull, WakeUp, PoolTypeOK
<1>4. QED
  BY <1>2, <1>3 DEF Pull, history

LEMMA RunMoves ==
  ASSUME PoolTypeOK, NEW w \in Workers, RunJob(w)
  PROVE  /\ pc[w] = "run" /\ pc'[w] # "run"
         /\ job' = [job EXCEPT ![w] = NoJob]
         /\ finished' = finished \cup {<<PoolOf[w], job[w]>>}
         /\ UNCHANGED <<pool, queue, added>>
         /\ \A v \in Workers \ {w} : pc'[v] = "run" <=> pc[v] = "run"
BY DEF RunJob, Steps, PoolTypeOK

LEMMA EndMoves ==
  ASSUME PoolTypeOK, CountersExact, NEW p \in Pools, DestroyEnds(p)
  PROVE  /\ pool[p] = "destroying" /\ pool' = [pool EXCEPT ![p] = "freed"]
         /\ queue' = [queue EXCEPT ![p] = <<>>]
         /\ UNCHANGED <<pc, job, added, finished>>
         /\ \A w \in WorkersOf(p) : pc[w] # "run"
<1>1. Cardinality(Living(p)) = 0
  BY DEF DestroyEnds, CountersExact
<1>2. Living(p) = {}
  BY <1>1, CountedFinite, FS_EmptySet
<1>3. \A w \in WorkersOf(p) : pc[w] # "run"
  BY <1>2 DEF Living
<1>4. QED
  BY <1>3 DEF DestroyEnds, Clear, history

LEMMA EachJobOnceStep ==
  ASSUME IInv, EachJobOnce, [Next]_vars
  PROVE  EachJobOnce'
<1>1. PoolTypeOK /\ Shape /\ CountersExact
  BY DEF IInv, TypeOK
<1>2. queue \in [Pools -> Seq(Jobs)] /\ job \in [Workers -> Jobs \cup {NoJob}] /\ PoolOf \in [Workers -> Pools]
  BY <1>1, PoolOfType DEF PoolTypeOK
<1>3. CASE JobsStay
  BY <1>3 DEF JobsStay, EachJobOnce
<1>4. ASSUME NEW p \in Pools, NEW j \in Jobs, AddWork(p, j) PROVE EachJobOnce'
  <2>1. /\ \A q \in Pools : <<q, j>> \notin added
        /\ queue' = [queue EXCEPT ![p] = Append(@, j)]
        /\ added' = added \cup {<<p, j>>} /\ job' = job /\ finished' = finished
        /\ \A w \in Workers : pc'[w] = "run" <=> pc[w] = "run"
    BY <1>1, <1>4, AddMoves
  <2>2. \A q \in Pools : \A i \in 1..Len(queue'[q]) :
            \/ i \in 1..Len(queue[q]) /\ queue'[q][i] = queue[q][i]
            \/ q = p /\ i = Len(queue[q]) + 1 /\ queue'[q][i] = j
    BY <1>2, <2>1
  <2>3. \A q \in Pools : \A i \in 1..Len(queue'[q]) : <<q, queue'[q][i]>> \in added'
    <3>1. ASSUME NEW q \in Pools, NEW i \in 1..Len(queue'[q])
          PROVE  <<q, queue'[q][i]>> \in added \cup {<<p, j>>}
      <4>1. CASE i \in 1..Len(queue[q]) /\ queue'[q][i] = queue[q][i]
        BY <4>1 DEF EachJobOnce
      <4>2. CASE q = p /\ queue'[q][i] = j
        BY <4>2
      <4>3. QED
        BY <2>2, <4>1, <4>2
    <3>2. QED
      BY <2>1, <3>1
  <2>4. \A q \in Pools : \A i \in 1..Len(queue[q]) : queue[q][i] # j
    BY <2>1 DEF EachJobOnce
  <2>5. \A q \in Pools : \A i, k \in 1..Len(queue'[q]) : queue'[q][i] = queue'[q][k] => i = k
    <3>1. ASSUME NEW q \in Pools, NEW i \in 1..Len(queue'[q]), NEW k \in 1..Len(queue'[q]),
                 queue'[q][i] = queue'[q][k], i # k
          PROVE  FALSE
      <4>1. ASSUME NEW m \in 1..Len(queue'[q]), queue'[q][m] = j
            PROVE  m = Len(queue[q]) + 1
        BY <2>2, <2>4, <4>1
      <4>2. queue'[q][i] # j \/ queue'[q][k] # j
        BY <3>1, <4>1
      <4>3. /\ i \in 1..Len(queue[q]) /\ queue'[q][i] = queue[q][i]
            /\ k \in 1..Len(queue[q]) /\ queue'[q][k] = queue[q][k]
        BY <2>2, <3>1, <4>2
      <4>4. QED
        BY <3>1, <4>3 DEF EachJobOnce
    <3>2. QED
      BY <3>1
  <2>6. \A w \in Workers : pc[w] = "run" => job[w] # j
    BY <1>2, <2>1 DEF EachJobOnce
  <2>7. \A w \in Workers : pc'[w] = "run" =>
           /\ <<PoolOf[w], job'[w]>> \in added'
           /\ \A i \in 1..Len(queue'[PoolOf[w]]) : queue'[PoolOf[w]][i] # job'[w]
    <3>1. ASSUME NEW w \in Workers, pc'[w] = "run"
          PROVE  /\ <<PoolOf[w], job[w]>> \in added
                 /\ \A i \in 1..Len(queue'[PoolOf[w]]) : queue'[PoolOf[w]][i] # job[w]
      <4>1. PICK q \in Pools : q = PoolOf[w]
        BY <1>2
      <4>2. /\ <<q, job[w]>> \in added /\ job[w] # j
            /\ \A i \in 1..Len(queue[q]) : queue[q][i] # job[w]
        BY <2>1, <2>6, <3>1, <4>1 DEF EachJobOnce
      <4>3. QED
        BY <2>2, <4>1, <4>2
    <3>2. QED
      BY <2>1, <3>1
  <2>8. finished' \subseteq added'
    BY <2>1 DEF EachJobOnce
  <2>9. \A v, w \in Workers :
          pc'[v] = "run" /\ pc'[w] = "run" /\ PoolOf[v] = PoolOf[w] /\ job'[v] = job'[w] => v = w
    BY <2>1 DEF EachJobOnce
  <2>10. QED
    BY <2>3, <2>5, <2>7, <2>8, <2>9 DEF EachJobOnce
<1>5. ASSUME NEW w \in Workers, Pull(w) PROVE EachJobOnce'
  <2>1. PICK p \in Pools : p = PoolOf[w]
    BY <1>2
  <2>2. /\ queue[p] # <<>> /\ pc[w] = "pull" /\ pc'[w] = "run"
        /\ queue' = [queue EXCEPT ![p] = Tail(@)]
        /\ job' = [job EXCEPT ![w] = Head(queue[p])]
        /\ added' = added /\ finished' = finished
        /\ \A v \in Workers \ {w} : pc'[v] = "run" <=> pc[v] = "run"
    BY <1>1, <1>5, <2>1, PullMoves
  <2>3. PICK j \in Jobs : j = Head(queue[p]) /\ j = queue[p][1]
    BY <1>2, <2>2
  <2>4. \A q \in Pools : \A i \in 1..Len(queue'[q]) :
           \/ q # p /\ i \in 1..Len(queue[q]) /\ queue'[q][i] = queue[q][i]
           \/ q = p /\ i + 1 \in 1..Len(queue[q]) /\ i # 0 /\ queue'[q][i] = queue[q][i + 1]
    BY <1>2, <2>2
  <2>5. 1 \in 1..Len(queue[p])
    BY <1>2, <2>2
  <2>6. \A q \in Pools : \A i \in 1..Len(queue'[q]) : <<q, queue'[q][i]>> \in added
    BY <2>4 DEF EachJobOnce
  <2>7. \A q \in Pools : \A i, k \in 1..Len(queue'[q]) : queue'[q][i] = queue'[q][k] => i = k
    <3>1. ASSUME NEW q \in Pools, NEW i \in 1..Len(queue'[q]), NEW k \in 1..Len(queue'[q]),
                 queue'[q][i] = queue'[q][k]
          PROVE  i = k
      <4>1. CASE q # p
        BY <2>4, <3>1, <4>1 DEF EachJobOnce
      <4>2. CASE q = p
        <5>1. /\ i + 1 \in 1..Len(queue[q]) /\ k + 1 \in 1..Len(queue[q])
              /\ queue[q][i + 1] = queue[q][k + 1]
          BY <2>4, <3>1, <4>2
        <5>2. i + 1 = k + 1
          BY <5>1 DEF EachJobOnce
        <5>3. QED
          BY <5>2
      <4>3. QED
        BY <4>1, <4>2
    <3>2. QED
      BY <3>1
  <2>8. <<p, j>> \in added
    BY <2>3, <2>5 DEF EachJobOnce
  <2>9. \A i \in 1..Len(queue'[p]) : queue'[p][i] # j
    BY <2>3, <2>4, <2>5 DEF EachJobOnce
  <2>10. job'[w] = j /\ \A v \in Workers \ {w} : job'[v] = job[v]
    BY <1>2, <2>2, <2>3
  <2>11. ASSUME NEW v \in Workers, pc'[v] = "run"
         PROVE  /\ <<PoolOf[v], job'[v]>> \in added
                /\ \A i \in 1..Len(queue'[PoolOf[v]]) : queue'[PoolOf[v]][i] # job'[v]
    <3>1. CASE v = w
      BY <2>1, <2>8, <2>9, <2>10, <3>1
    <3>2. CASE v # w
      <4>1. pc[v] = "run" /\ job'[v] = job[v] /\ PoolOf[v] \in Pools
        BY <1>2, <2>2, <2>10, <2>11, <3>2
      <4>2. QED
        BY <2>4, <4>1 DEF EachJobOnce
    <3>3. QED
      BY <3>1, <3>2
  <2>12. \A v \in Workers \ {w} : pc[v] = "run" /\ PoolOf[v] = p => job[v] # j
    BY <2>3, <2>5 DEF EachJobOnce
  <2>13. \A u, v \in Workers :
          pc'[u] = "run" /\ pc'[v] = "run" /\ PoolOf[u] = PoolOf[v] /\ job'[u] = job'[v] => u = v
    BY <2>1, <2>2, <2>10, <2>12 DEF EachJobOnce
  <2>14. finished' \subseteq added'
    BY <2>2 DEF EachJobOnce
  <2>15. \A v \in Workers : pc'[v] = "run" =>
           /\ <<PoolOf[v], job'[v]>> \in added'
           /\ \A i \in 1..Len(queue'[PoolOf[v]]) : queue'[PoolOf[v]][i] # job'[v]
    BY <2>2, <2>11
  <2>16. \A q \in Pools : \A i \in 1..Len(queue'[q]) : <<q, queue'[q][i]>> \in added'
    BY <2>2, <2>6
  <2>17. QED
    BY <2>7, <2>13, <2>14, <2>15, <2>16 DEF EachJobOnce
<1>6. ASSUME NEW w \in Workers, RunJob(w) PROVE EachJobOnce'
  <2>1. /\ pc[w] = "run" /\ pc'[w] # "run"
        /\ job' = [job EXCEPT ![w] = NoJob]
        /\ finished' = finished \cup {<<PoolOf[w], job[w]>>}
        /\ queue' = queue /\ added' = added
        /\ \A v \in Workers \ {w} : pc'[v] = "run" <=> pc[v] = "run"
    BY <1>1, <1>6, RunMoves
  <2>2. finished' \subseteq added'
    BY <2>1 DEF EachJobOnce
  <2>3. \A v \in Workers : pc'[v] = "run" => v # w /\ pc[v] = "run" /\ job'[v] = job[v]
    BY <1>2, <2>1
  <2>4. QED
    BY <2>1, <2>2, <2>3 DEF EachJobOnce
<1>7. ASSUME NEW p \in Pools, DestroyEnds(p) PROVE EachJobOnce'
  <2>1. queue' = [queue EXCEPT ![p] = <<>>] /\ UNCHANGED <<pc, job, added, finished>>
    BY <1>1, <1>7, EndMoves
  <2>2. \A q \in Pools : \A i \in 1..Len(queue'[q]) : i \in 1..Len(queue[q]) /\ queue'[q][i] = queue[q][i]
    BY <1>2, <2>1
  <2>3. QED
    BY <1>2, <2>1, <2>2 DEF EachJobOnce
<1>8. QED
  BY <1>1, <1>3, <1>4, <1>5, <1>6, <1>7, StepOfJobs

LEMMA ClientsKnowPoolStep ==
  ASSUME IInv, ClientsKnowPool, [Next]_vars
  PROVE  ClientsKnowPool'
<1>1. /\ waiter \in [Waiters -> WaiterSteps] /\ waitPool \in [Waiters -> Pools \cup {NoPool}]
  BY DEF IInv, TypeOK, PoolTypeOK
<1>2. CASE UNCHANGED <<waiter, waitPool>>
  BY <1>2 DEF ClientsKnowPool
<1>3. ASSUME NEW t \in Waiters, NEW p \in Pools, WaitCall(t, p) PROVE ClientsKnowPool'
  BY <1>1, <1>3 DEF WaitCall, ClientsKnowPool
<1>4. ASSUME NEW t \in Waiters, WaitTest(t) \/ SpuriousWakeup(t) PROVE ClientsKnowPool'
  BY <1>1, <1>4 DEF WaitTest, SpuriousWakeup, ClientsKnowPool
<1>5. ASSUME NEW w \in Workers, Discount(w) PROVE ClientsKnowPool'
  <2>1. \A t \in Waiters : waiter'[t] = waiter[t] \/ waiter[t] = "asleep"
    BY <1>5 DEF Discount, WaitersSignalled, WaitersAsleep
  <2>2. waitPool' = waitPool
    BY <1>5 DEF Discount
  <2>3. QED
    BY <2>1, <2>2 DEF ClientsKnowPool
<1>6. QED
  BY <1>2, <1>3, <1>4, <1>5
     DEF Next, WorkerStep, vars, clients, InitPool, InitReturns, DestroyBegins, DestroyPolls, DestroyEnds, Pause,
         Resume, AddWork, HoldBegins, HoldEnds, Born, LoopTest, BsemWait, GotTest, Count, PullNothing,
         Pull, RunJob, Bye, Unlock

\* The five kinds of steps of the promise, from the steps of the pool.
LEMMA RunningSame ==
  ASSUME UNCHANGED job, \A w \in Workers : pc'[w] = "run" <=> pc[w] = "run"
  PROVE  Running' = Running
BY DEF Running

LEMMA RefineAdd ==
  ASSUME IInv, EachJobOnce, NEW p \in Pools, NEW j \in Jobs, AddWork(p, j),
         UNCHANGED <<waiter, waitPool>>
  PROVE  Promise!Add(p, j)
<1>1. PoolTypeOK
  BY DEF IInv, TypeOK
<1>2. /\ pool[p] = "ready" /\ \A q \in Pools : <<q, j>> \notin added
      /\ queue' = [queue EXCEPT ![p] = Append(@, j)]
      /\ UNCHANGED <<pool, job, finished>>
      /\ \A w \in Workers : pc'[w] = "run" <=> pc[w] = "run"
  BY <1>1, AddMoves
<1>3. Running' = Running
  BY <1>2, RunningSame
<1>4. \A q \in Pools : <<q, j>> \notin Running
  BY <1>2, PoolOfType DEF Running, EachJobOnce
<1>5. \A q \in Pools : <<q, j>> \notin finished
  BY <1>2 DEF EachJobOnce
<1>6. \A q \in Pools : \A i \in DOMAIN queue[q] : queue[q][i] # j
  <2>1. \A q \in Pools : DOMAIN queue[q] = 1..Len(queue[q])
    BY <1>1 DEF PoolTypeOK
  <2>2. QED
    BY <1>2, <2>1 DEF EachJobOnce
<1>7. Dropped' = Dropped /\ WaitsFor' = WaitsFor /\ p \notin Dropped
  BY <1>2 DEF Dropped, WaitsFor
<1>8. QED
  BY <1>2, <1>3, <1>4, <1>5, <1>6, <1>7, Zenon DEF Promise!Add, Promise!Queued, Dropped, WaitsFor

LEMMA RefinePull ==
  ASSUME IInv, NEW w \in Workers, Pull(w), UNCHANGED <<waiter, waitPool>>
  PROVE  Promise!Start(PoolOf[w])
<1>1. PoolTypeOK
  BY DEF IInv, TypeOK
<1>2. /\ queue[PoolOf[w]] # <<>> /\ pc[w] = "pull" /\ pc'[w] = "run"
      /\ queue' = [queue EXCEPT ![PoolOf[w]] = Tail(@)]
      /\ job' = [job EXCEPT ![w] = Head(queue[PoolOf[w]])]
      /\ UNCHANGED <<pool, added, finished>>
      /\ \A v \in Workers \ {w} : pc'[v] = "run" <=> pc[v] = "run"
  BY <1>1, PullMoves
<1>3. PICK j : j = Head(queue[PoolOf[w]])
  OBVIOUS
<1>4. job'[w] = j /\ \A v \in Workers \ {w} : job'[v] = job[v]
  BY <1>1, <1>2, <1>3 DEF PoolTypeOK
<1>5. Running' = Running \cup {<<PoolOf[w], j>>}
  BY <1>2, <1>4 DEF Running
<1>6. Dropped' = Dropped /\ WaitsFor' = WaitsFor
  BY <1>2 DEF Dropped, WaitsFor
<1>7. QED
  BY <1>2, <1>3, <1>5, <1>6, Zenon DEF Promise!Start, Dropped, WaitsFor

LEMMA RefineRun ==
  ASSUME IInv, EachJobOnce, NEW w \in Workers, RunJob(w), UNCHANGED <<waiter, waitPool>>
  PROVE  Promise!Finish(PoolOf[w], job[w])
<1>1. PoolTypeOK
  BY DEF IInv, TypeOK
<1>2. /\ pc[w] = "run" /\ pc'[w] # "run"
      /\ job' = [job EXCEPT ![w] = NoJob]
      /\ finished' = finished \cup {<<PoolOf[w], job[w]>>}
      /\ UNCHANGED <<pool, queue, added>>
      /\ \A v \in Workers \ {w} : pc'[v] = "run" <=> pc[v] = "run"
  BY <1>1, RunMoves
<1>3. <<PoolOf[w], job[w]>> \in Running
  BY <1>2 DEF Running
<1>4. \A v \in Workers \ {w} : job'[v] = job[v]
  BY <1>1, <1>2 DEF PoolTypeOK
<1>5. Running' = Running \ {<<PoolOf[w], job[w]>>}
  <2>1. \A v \in Workers \ {w} : pc[v] = "run" => <<PoolOf[v], job[v]>> # <<PoolOf[w], job[w]>>
    BY <1>2 DEF EachJobOnce
  <2>2. Running' \subseteq Running \ {<<PoolOf[w], job[w]>>}
    BY <1>2, <1>4, <2>1 DEF Running
  <2>3. Running \ {<<PoolOf[w], job[w]>>} \subseteq Running'
    BY <1>2, <1>4 DEF Running
  <2>4. QED
    BY <2>2, <2>3
<1>6. Dropped' = Dropped /\ WaitsFor' = WaitsFor
  BY <1>2 DEF Dropped, WaitsFor
<1>7. QED
  BY <1>2, <1>3, <1>5, <1>6, Zenon DEF Promise!Finish, Dropped, WaitsFor

LEMMA RefineEnd ==
  ASSUME IInv, NEW p \in Pools, DestroyEnds(p), UNCHANGED <<waiter, waitPool>>
  PROVE  Promise!Destroy(p)
<1>1. PoolTypeOK /\ CountersExact
  BY DEF IInv, TypeOK
<1>2. /\ pool[p] = "destroying" /\ pool' = [pool EXCEPT ![p] = "freed"]
      /\ queue' = [queue EXCEPT ![p] = <<>>]
      /\ UNCHANGED <<pc, job, added, finished>>
      /\ \A w \in WorkersOf(p) : pc[w] # "run"
  BY <1>1, EndMoves
<1>3. Running' = Running
  BY <1>2, RunningSame
<1>4. \A j \in Jobs : <<p, j>> \notin Running
  BY <1>2 DEF Running, WorkersOf
<1>5. p \notin Dropped /\ Dropped' = Dropped \cup {p} /\ WaitsFor' = WaitsFor
  BY <1>1, <1>2 DEF Dropped, WaitsFor, PoolTypeOK
<1>6. QED
  BY <1>2, <1>3, <1>4, <1>5, Zenon DEF Promise!Destroy, Dropped, WaitsFor

\* Where no job moves, a client may begin to wait or return from it.
LEMMA RefineWait ==
  ASSUME IInv, ClientsKnowPool, [Next]_vars
  PROVE  \/ WaitsFor' = WaitsFor
         \/ \E t \in Waiters, p \in Pools :
              WaitsFor[t] = {} /\ WaitsFor' = [WaitsFor EXCEPT ![t] = {p}]
         \/ \E t \in Waiters :
              /\ WaitsFor[t] # {} /\ WaitsFor' = [WaitsFor EXCEPT ![t] = {}]
              /\ \A p \in WaitsFor[t] : queue[p] = <<>> /\ \A w \in WorkersOf(p) : pc[w] # "run"
<1> DEFINE Same == WaitsFor' = WaitsFor
           Begins == \E t \in Waiters, p \in Pools :
              WaitsFor[t] = {} /\ WaitsFor' = [WaitsFor EXCEPT ![t] = {p}]
           Returns == \E t \in Waiters :
              /\ WaitsFor[t] # {} /\ WaitsFor' = [WaitsFor EXCEPT ![t] = {}]
              /\ \A p \in WaitsFor[t] : queue[p] = <<>> /\ \A w \in WorkersOf(p) : pc[w] # "run"
<1>1. SUFFICES ASSUME ~Same, ~Begins, ~Returns PROVE FALSE
  OBVIOUS
<1>2. /\ waiter \in [Waiters -> WaiterSteps] /\ waitPool \in [Waiters -> Pools \cup {NoPool}]
      /\ working \in [Pools -> Nat]
      /\ CountersExact
  BY DEF IInv, TypeOK, PoolTypeOK
<1>3. ASSUME \A t \in Waiters : (waiter'[t] \in {"check", "asleep"}) <=> (waiter[t] \in {"check", "asleep"}),
             waitPool' = waitPool
      PROVE  FALSE
  BY <1>1, <1>3 DEF WaitsFor
<1>4. ASSUME UNCHANGED <<waiter, waitPool>> PROVE FALSE
  BY <1>3, <1>4
<1>5. ASSUME NEW t \in Waiters, NEW p \in Pools, WaitCall(t, p) PROVE FALSE
  <2>1. /\ waiter[t] = "out" /\ waiter' = [waiter EXCEPT ![t] = "check"]
        /\ waitPool' = [waitPool EXCEPT ![t] = p]
    BY <1>5 DEF WaitCall
  <2>2. WaitsFor[t] = {} /\ WaitsFor' = [WaitsFor EXCEPT ![t] = {p}]
    BY <1>2, <2>1 DEF WaitsFor
  <2>3. QED
    BY <1>1, <2>2
<1>6. ASSUME NEW t \in Waiters, SpuriousWakeup(t) PROVE FALSE
  BY <1>2, <1>3, <1>6 DEF SpuriousWakeup
<1>7. ASSUME NEW t \in Waiters, WaitTest(t) PROVE FALSE
  <2>1. PICK p \in Pools : p = waitPool[t]
    BY <1>7 DEF WaitTest, ClientsKnowPool
  <2>2. /\ waiter[t] = "check" /\ waitPool' = waitPool
        /\ waiter' = [waiter EXCEPT ![t] = IF queue[p] # <<>> \/ working[p] # 0 THEN "asleep" ELSE "returned"]
    BY <1>7, <2>1 DEF WaitTest
  <2>3. CASE queue[p] # <<>> \/ working[p] # 0
    BY <1>2, <1>3, <2>2, <2>3
  <2>4. CASE queue[p] = <<>> /\ working[p] = 0
    <3>1. Busy(p) = {}
      BY <1>2, <2>4, CountedFinite, FS_EmptySet DEF CountersExact
    <3>2. \A w \in WorkersOf(p) : pc[w] # "run"
      BY <3>1 DEF Busy
    <3>3. WaitsFor[t] = {p} /\ WaitsFor' = [WaitsFor EXCEPT ![t] = {}]
      BY <1>2, <2>1, <2>2, <2>4 DEF WaitsFor
    <3>4. QED
      BY <1>1, <2>4, <3>2, <3>3
  <2>5. QED
    BY <2>3, <2>4
<1>8. ASSUME NEW w \in Workers, Discount(w) PROVE FALSE
  <2>1. \A t \in Waiters : waiter'[t] = waiter[t] \/ (waiter[t] = "asleep" /\ waiter'[t] = "check")
    BY <1>8 DEF Discount, WaitersSignalled, WaitersAsleep
  <2>2. waitPool' = waitPool
    BY <1>8 DEF Discount
  <2>3. QED
    BY <1>3, <2>1, <2>2
<1> HIDE DEF Same, Begins, Returns
<1>9. QED
  BY <1>4, <1>5, <1>6, <1>7, <1>8
     DEF Next, WorkerStep, vars, clients, InitPool, InitReturns, DestroyBegins, DestroyPolls, DestroyEnds, Pause,
         Resume, AddWork, HoldBegins, HoldEnds, Born, LoopTest, BsemWait, GotTest, Count, PullNothing,
         Pull, RunJob, Bye, Unlock

LEMMA RefineStep ==
  ASSUME IInv, EachJobOnce, ClientsKnowPool, [Next]_vars
  PROVE  [Promise!Next]_(Promise!vars)
<1>1. PoolTypeOK /\ Shape
  BY DEF IInv, TypeOK
<1>2. CASE JobsStay
  <2>1. queue' = queue /\ finished' = finished /\ Dropped' = Dropped /\ Running' = Running
    BY <1>2, RunningSame DEF JobsStay
  <2>2. CASE WaitsFor' = WaitsFor
    BY <2>1, <2>2, Zenon DEF Promise!vars, Dropped, WaitsFor
  <2>3. ASSUME NEW t \in Waiters, NEW p \in Pools,
               WaitsFor[t] = {}, WaitsFor' = [WaitsFor EXCEPT ![t] = {p}]
        PROVE  Promise!Wait(t, p)
    BY <2>1, <2>3, Zenon DEF Promise!Wait, Dropped, WaitsFor
  <2>4. ASSUME NEW t \in Waiters,
               WaitsFor[t] # {}, WaitsFor' = [WaitsFor EXCEPT ![t] = {}],
               \A p \in WaitsFor[t] : queue[p] = <<>> /\ \A w \in WorkersOf(p) : pc[w] # "run"
        PROVE  Promise!Return(t)
    <3>1. \A p \in WaitsFor[t] : queue[p] = <<>> /\ \A j \in Jobs : <<p, j>> \notin Running
      BY <2>4 DEF Running, WorkersOf
    <3>2. QED
      BY <2>1, <2>4, <3>1, Zenon DEF Promise!Return, Promise!Idle, Dropped, WaitsFor
  <2>5. QED
    BY <2>2, <2>3, <2>4, RefineWait, Zenon DEF Promise!Next
<1>3. ASSUME UNCHANGED <<waiter, waitPool>>, NEW p \in Pools,
             DestroyEnds(p) \/ \E j \in Jobs : AddWork(p, j)
      PROVE  Promise!Next
  BY <1>3, RefineEnd, RefineAdd, Zenon DEF Promise!Next
<1>4. ASSUME UNCHANGED <<waiter, waitPool>>, NEW w \in Workers, Pull(w) \/ RunJob(w)
      PROVE  Promise!Next
  <2>1. PoolOf[w] \in Pools
    BY PoolOfType
  <2>2. CASE Pull(w)
    BY <1>4, <2>1, <2>2, RefinePull, Zenon DEF Promise!Next
  <2>3. CASE RunJob(w)
    <3>1. pc[w] = "run"
      BY <1>1, <2>3, RunMoves
    <3>2. job[w] \in Jobs
      BY <1>1, <3>1 DEF Shape, RunnersHaveJobs
    <3>3. QED
      BY <1>4, <2>1, <2>3, <3>2, RefineRun, Zenon DEF Promise!Next
  <2>4. QED
    BY <1>4, <2>2, <2>3
<1>5. QED
  BY <1>1, <1>2, <1>3, <1>4, StepOfJobs, Zenon

\* The pool of thread_pool.c implements JobPool: jobs start in the order they were
\* added, each at most once, thpool_wait returns only from a pool where nothing is
\* queued or running, and thpool_destroy ends only when nothing runs.
THEOREM ImplementsPromise == Spec => ImplementsJobPool
<1>1. Init => EachJobOnce /\ ClientsKnowPool
  BY DEF Init, EachJobOnce, ClientsKnowPool
<1>2. Init => Promise!Init
  <2>1. ASSUME Init PROVE Running = {} /\ Dropped = {} /\ WaitsFor = [t \in Waiters |-> {}]
    BY <2>1 DEF Init, Running, Dropped, WaitsFor
  <2>2. QED
    BY <2>1, Zenon DEF Init, Promise!Init, Dropped, WaitsFor
<1>3. IInv /\ EachJobOnce /\ ClientsKnowPool /\ [Next]_vars => (EachJobOnce /\ ClientsKnowPool)'
  BY EachJobOnceStep, ClientsKnowPoolStep
<1>4. IInv /\ EachJobOnce /\ ClientsKnowPool /\ [Next]_vars => [Promise!Next]_(Promise!vars)
  BY RefineStep
<1>5. QED
  BY <1>1, <1>2, <1>3, <1>4, InitIInv, StepIInv, PTL DEF Spec, ImplementsJobPool, Promise!Spec

=============================================================================
