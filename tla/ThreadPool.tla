----------------------------- MODULE ThreadPool -----------------------------
(***************************************************************************)
(* The thread pool of libp2p/utils/thread_pool.c (libipfs/util holds an    *)
(* identical copy).  A pool owns worker threads, a job queue with a binary *)
(* semaphore, and two counters that thpool_wait and thpool_destroy read.   *)
(* The flags threads_keepalive and threads_on_hold are file-scope          *)
(* variables, so all pools of the process share them: that is why this     *)
(* module models several pools at once.                                    *)
(*                                                                         *)
(* Grain of atomicity.  A critical section that never blocks is one step.  *)
(* The exception is the last one of thread_do: the decrement of            *)
(* num_threads_alive and the unlock of thcount_lock are two steps, because *)
(* thpool_destroy reads the counter without the lock.                      *)
(***************************************************************************)
EXTENDS Integers, Sequences, FiniteSets

CONSTANTS
  Pools,      \* the pools created with thpool_init
  Workers,    \* the threads of all pools
  PoolOf,     \* PoolOf[w] is the pool w->thpool_p of worker w
  Jobs,       \* the jobs clients may add, each at most once
  Waiters,    \* client threads that call thpool_wait
  MaxPauses,  \* bound on the calls of thpool_pause
  NoJob,      \* a worker holds no job
  NoPool      \* a client waits for no pool

ASSUME PoolOfType == PoolOf \in [Workers -> Pools]
ASSUME WorkersFinite == IsFiniteSet(Workers)
ASSUME PoolsHaveWorkers == \A p \in Pools : \E w \in Workers : PoolOf[w] = p
ASSUME MaxPausesType == MaxPauses \in Nat
ASSUME Nulls == NoJob \notin Jobs /\ NoPool \notin Pools

VARIABLES
  keepalive,  \* threads_keepalive, shared by all pools
  onHold,     \* threads_on_hold, shared by all pools
  pool,       \* life cycle of each pool, as its owner sees it
  alive,      \* num_threads_alive
  working,    \* num_threads_working
  queue,      \* jobqueue: front first
  hasJobs,    \* jobqueue.has_jobs->v
  pc,         \* where each worker is in thread_do
  job,        \* job_p of a worker between the pull and the free
  sig,        \* SIGUSR1 sent to the worker and not yet handled
  held,       \* the worker is in the loop of thread_hold
  waiter,     \* where each client thread is in thpool_wait
  waitPool,   \* the pool it waits for
  added,      \* history: jobs given to thpool_add_work, with their pool
  finished,   \* history: jobs whose function has returned
  pauses      \* number of calls of thpool_pause

globals  == <<keepalive, onHold>>
counters == <<alive, working>>
signals  == <<sig, held>>
clients  == <<waiter, waitPool>>
history  == <<added, finished, pauses>>
vars == <<globals, pool, counters, queue, hasJobs, pc, job, signals,
          clients, history>>

PoolStates == {"none", "starting", "ready", "destroying", "freed"}

\* The steps of thread_do, in the order of the code.
WorkerSteps == {"unborn",   \* pthread_create not called yet
                "created",  \* before num_threads_alive += 1
                "loop",     \* while (threads_keepalive)
                "bsem",     \* bsem_wait: about to test v
                "asleep",   \* bsem_wait: in pthread_cond_wait
                "got",      \* if (threads_keepalive)
                "count",    \* num_threads_working++
                "pull",     \* jobqueue_pull
                "run",      \* func_buff(arg_buff); free(job_p)
                "discount", \* num_threads_working--
                "bye",      \* num_threads_alive--
                "unlock",   \* still holds thcount_lock
                "gone"}

WaiterSteps == {"out", "check", "asleep", "returned"}

WorkersOf(p) == {w \in Workers : PoolOf[w] = p}

\* Workers counted in num_threads_alive and in num_threads_working.
Living(p) == {w \in WorkersOf(p) : pc[w] \notin {"unborn", "created", "unlock", "gone"}}
Busy(p)   == {w \in WorkersOf(p) : pc[w] \in {"pull", "run", "discount"}}

\* thcount_lock is free unless a worker is between its last two steps.
ThcountFree(p) == \A w \in WorkersOf(p) : pc[w] # "unlock"

-----------------------------------------------------------------------------
Init ==
  /\ keepalive = FALSE
  /\ onHold = FALSE
  /\ pool = [p \in Pools |-> "none"]
  /\ alive = [p \in Pools |-> 0]
  /\ working = [p \in Pools |-> 0]
  /\ queue = [p \in Pools |-> <<>>]
  /\ hasJobs = [p \in Pools |-> 0]
  /\ pc = [w \in Workers |-> "unborn"]
  /\ job = [w \in Workers |-> NoJob]
  /\ sig = [w \in Workers |-> FALSE]
  /\ held = [w \in Workers |-> FALSE]
  /\ waiter = [t \in Waiters |-> "out"]
  /\ waitPool = [t \in Waiters |-> NoPool]
  /\ added = {}
  /\ finished = {}
  /\ pauses = 0

-----------------------------------------------------------------------------
(* The binary semaphore.  pthread_cond_signal moves one sleeper, if there   *)
(* is one, back to the test of v; pthread_cond_broadcast moves all of them. *)

Sleepers(p) == {w \in WorkersOf(p) : pc[w] = "asleep"}

\* The sets of workers pthread_cond_signal may wake.
Signalled(p) == IF Sleepers(p) = {} THEN {{}} ELSE {{w} : w \in Sleepers(p)}

WakeUp(S) == [w \in Workers |-> IF w \in S THEN "bsem" ELSE pc[w]]

-----------------------------------------------------------------------------
(* The owner of a pool: thpool_init and thpool_destroy.                     *)

\* thread_init for each thread of the pool.
StartThreads(p) ==
  pc' = [w \in Workers |-> IF w \in WorkersOf(p) THEN "created" ELSE pc[w]]

\* thpool_init up to its last pthread_create.
InitPool(p) ==
  /\ pool[p] = "none"
  /\ pool' = [pool EXCEPT ![p] = "starting"]
  /\ keepalive' = TRUE
  /\ onHold' = FALSE
  /\ StartThreads(p)
  /\ UNCHANGED <<counters, queue, hasJobs, job, signals, clients, history>>

\* The spin loop of thpool_init sees all threads and the call returns.
InitReturns(p) ==
  /\ pool[p] = "starting"
  /\ alive[p] = Cardinality(WorkersOf(p))
  /\ pool' = [pool EXCEPT ![p] = "ready"]
  /\ UNCHANGED <<globals, counters, queue, hasJobs, pc, job, signals, clients, history>>

\* thpool_destroy up to its first poll.  The owner does not destroy a pool it
\* waits for.
DestroyBegins(p) ==
  /\ pool[p] = "ready"
  /\ \A t \in Waiters : waitPool[t] = p => waiter[t] \in {"out", "returned"}
  /\ pool' = [pool EXCEPT ![p] = "destroying"]
  /\ keepalive' = FALSE
  /\ UNCHANGED <<onHold, counters, queue, hasJobs, pc, job, signals, clients, history>>

\* One turn of either polling loop: bsem_post_all.
DestroyPolls(p) ==
  /\ pool[p] = "destroying"
  /\ alive[p] # 0
  /\ hasJobs' = [hasJobs EXCEPT ![p] = 1]
  /\ pc' = WakeUp(Sleepers(p))
  /\ UNCHANGED <<globals, pool, counters, queue, job, signals, clients, history>>

\* jobqueue_clear: the jobs still queued are freed, never run.
Clear(p) ==
  /\ queue' = [queue EXCEPT ![p] = <<>>]
  /\ hasJobs' = [hasJobs EXCEPT ![p] = 0]

\* Mutant: the second polling loop, which has no time limit, is left out.
DestroyAfterTimeout(p) ==
  /\ pool[p] = "destroying"
  /\ Clear(p)
  /\ pool' = [pool EXCEPT ![p] = "freed"]
  /\ UNCHANGED <<globals, counters, pc, job, signals, clients, history>>

\* jobqueue_destroy and the frees.
DestroyEnds(p) ==
  /\ pool[p] = "destroying"
  /\ alive[p] = 0
  /\ Clear(p)
  /\ pool' = [pool EXCEPT ![p] = "freed"]
  /\ UNCHANGED <<globals, counters, pc, job, signals, clients, history>>

-----------------------------------------------------------------------------
(* Clients: thpool_add_work, thpool_wait, thpool_pause, thpool_resume.      *)

\* Mutant: v is set, pthread_cond_signal is forgotten.
PushSilently(p, j) ==
  /\ queue' = [queue EXCEPT ![p] = Append(@, j)]
  /\ hasJobs' = [hasJobs EXCEPT ![p] = 1]
  /\ UNCHANGED pc

\* jobqueue_push: append, then bsem_post.
Push(p, j) ==
  /\ queue' = [queue EXCEPT ![p] = Append(@, j)]
  /\ hasJobs' = [hasJobs EXCEPT ![p] = 1]
  /\ \E S \in Signalled(p) : pc' = WakeUp(S)

AddWork(p, j) ==
  /\ pool[p] = "ready"
  /\ \A q \in Pools : <<q, j>> \notin added
  /\ added' = added \cup {<<p, j>>}
  /\ Push(p, j)
  /\ UNCHANGED <<globals, pool, counters, job, signals, clients, finished, pauses>>

WaitCall(t, p) ==
  /\ pool[p] = "ready"
  /\ waiter[t] = "out"
  /\ waiter' = [waiter EXCEPT ![t] = "check"]
  /\ waitPool' = [waitPool EXCEPT ![t] = p]
  /\ UNCHANGED <<globals, pool, counters, queue, hasJobs, pc, job, signals, history>>

\* Mutant: the loop condition forgets num_threads_working.
WaitTestQueueOnly(t) ==
  LET p == waitPool[t] IN
  /\ waiter[t] = "check"
  /\ ThcountFree(p)
  /\ waiter' = [waiter EXCEPT ![t] = IF queue[p] # <<>> THEN "asleep" ELSE "returned"]
  /\ UNCHANGED <<globals, pool, counters, queue, hasJobs, pc, job, signals, waitPool, history>>

\* The loop condition of thpool_wait, under thcount_lock.
WaitTest(t) ==
  LET p == waitPool[t] IN
  /\ waiter[t] = "check"
  /\ ThcountFree(p)
  /\ waiter' = [waiter EXCEPT ![t] =
                  IF queue[p] # <<>> \/ working[p] # 0 THEN "asleep" ELSE "returned"]
  /\ UNCHANGED <<globals, pool, counters, queue, hasJobs, pc, job, signals, waitPool, history>>

\* POSIX lets pthread_cond_wait return without a signal.
SpuriousWakeup(t) ==
  /\ waiter[t] = "asleep"
  /\ waiter' = [waiter EXCEPT ![t] = "check"]
  /\ UNCHANGED <<globals, pool, counters, queue, hasJobs, pc, job, signals, waitPool, history>>

\* thpool_pause signals the first num_threads_alive threads of the pool, which
\* are all of them unless some have ended.
Pause(p) ==
  /\ pool[p] = "ready"
  /\ pauses < MaxPauses
  /\ pauses' = pauses + 1
  /\ \E S \in SUBSET WorkersOf(p) :
       /\ Cardinality(S) = alive[p]
       /\ sig' = [w \in Workers |-> sig[w] \/ (w \in S /\ pc[w] # "gone")]
  /\ UNCHANGED <<globals, pool, counters, queue, hasJobs, pc, job, held, clients, added, finished>>

Resume(p) ==
  /\ pool[p] = "ready"
  /\ pauses > 0
  /\ onHold' = FALSE
  /\ UNCHANGED <<keepalive, pool, counters, queue, hasJobs, pc, job, signals, clients,
                 added, finished, pauses>>

-----------------------------------------------------------------------------
(* The workers: thread_do, and the signal handler thread_hold.              *)

\* Worker w, not on hold, goes from one step of thread_do to another.
Steps(w, from, to) ==
  /\ pc[w] = from
  /\ ~held[w]
  /\ pc' = [pc EXCEPT ![w] = to]

\* num_threads_alive += 1.
Born(w) ==
  /\ Steps(w, "created", "loop")
  /\ ThcountFree(PoolOf[w])
  /\ alive' = [alive EXCEPT ![PoolOf[w]] = @ + 1]
  /\ UNCHANGED <<globals, pool, working, queue, hasJobs, job, signals, clients, history>>

\* while (threads_keepalive)
LoopTest(w) ==
  /\ Steps(w, "loop", IF keepalive THEN "bsem" ELSE "bye")
  /\ UNCHANGED <<globals, pool, counters, queue, hasJobs, job, signals, clients, history>>

\* bsem_wait: take the semaphore, or sleep on its condition variable.
BsemWait(w) ==
  LET p == PoolOf[w] IN
  /\ Steps(w, "bsem", IF hasJobs[p] = 1 THEN "got" ELSE "asleep")
  /\ hasJobs' = [hasJobs EXCEPT ![p] = 0]
  /\ UNCHANGED <<globals, pool, counters, queue, job, signals, clients, history>>

\* if (threads_keepalive)
GotTest(w) ==
  /\ Steps(w, "got", IF keepalive THEN "count" ELSE "loop")
  /\ UNCHANGED <<globals, pool, counters, queue, hasJobs, job, signals, clients, history>>

Count(w) ==
  /\ Steps(w, "count", "pull")
  /\ ThcountFree(PoolOf[w])
  /\ working' = [working EXCEPT ![PoolOf[w]] = @ + 1]
  /\ UNCHANGED <<globals, pool, alive, queue, hasJobs, job, signals, clients, history>>

\* Mutant: num_threads_working-- is done inside if (job_p).
PullNothingUncounted(w) ==
  /\ queue[PoolOf[w]] = <<>>
  /\ Steps(w, "pull", "loop")
  /\ UNCHANGED <<globals, pool, counters, queue, hasJobs, job, signals, clients, history>>

\* jobqueue_pull on an empty queue returns NULL and nothing is run.
PullNothing(w) ==
  /\ queue[PoolOf[w]] = <<>>
  /\ Steps(w, "pull", "discount")
  /\ UNCHANGED <<globals, pool, counters, queue, hasJobs, job, signals, clients, history>>

\* Mutant: the semaphore is not posted for the jobs that remain.
PullOnce(w) ==
  LET p == PoolOf[w] IN
  /\ queue[p] # <<>>
  /\ Steps(w, "pull", "run")
  /\ job' = [job EXCEPT ![w] = Head(queue[p])]
  /\ queue' = [queue EXCEPT ![p] = Tail(@)]
  /\ UNCHANGED <<globals, pool, counters, hasJobs, signals, clients, history>>

\* jobqueue_pull takes the front; if jobs remain it posts the semaphore.
Pull(w) ==
  LET p == PoolOf[w] IN
  /\ queue[p] # <<>>
  /\ pc[w] = "pull"
  /\ ~held[w]
  /\ job' = [job EXCEPT ![w] = Head(queue[p])]
  /\ queue' = [queue EXCEPT ![p] = Tail(@)]
  /\ IF Len(queue[p]) > 1
       THEN /\ hasJobs' = [hasJobs EXCEPT ![p] = 1]
            /\ \E S \in Signalled(p) : pc' = [WakeUp(S) EXCEPT ![w] = "run"]
       ELSE /\ pc' = [pc EXCEPT ![w] = "run"]
            /\ UNCHANGED hasJobs
  /\ UNCHANGED <<globals, pool, counters, signals, clients, history>>

\* The job function returns and the job is freed.
RunJob(w) ==
  /\ Steps(w, "run", "discount")
  /\ finished' = finished \cup {<<PoolOf[w], job[w]>>}
  /\ job' = [job EXCEPT ![w] = NoJob]
  /\ UNCHANGED <<globals, pool, counters, queue, hasJobs, signals, clients, added, pauses>>

\* The clients asleep in thpool_wait, and the sets a signal may wake.
WaitersAsleep(p) == {t \in Waiters : waiter[t] = "asleep" /\ waitPool[t] = p}
WaitersSignalled(p) ==
  IF WaitersAsleep(p) = {} THEN {{}} ELSE {{t} : t \in WaitersAsleep(p)}

\* Mutant: the test of the counter comes before the decrement.
DiscountLate(w) ==
  LET p == PoolOf[w] IN
  /\ Steps(w, "discount", "loop")
  /\ ThcountFree(p)
  /\ working' = [working EXCEPT ![p] = @ - 1]
  /\ \E S \in IF working[p] = 0 THEN WaitersSignalled(p) ELSE {{}} :
       waiter' = [t \in Waiters |-> IF t \in S THEN "check" ELSE waiter[t]]
  /\ UNCHANGED <<globals, pool, alive, queue, hasJobs, job, signals, waitPool, history>>

\* num_threads_working--; the last worker signals threads_all_idle.
Discount(w) ==
  LET p == PoolOf[w] IN
  /\ Steps(w, "discount", "loop")
  /\ ThcountFree(p)
  /\ working' = [working EXCEPT ![p] = @ - 1]
  /\ \E S \in IF working[p] = 1 THEN WaitersSignalled(p) ELSE {{}} :
       waiter' = [t \in Waiters |-> IF t \in S THEN "check" ELSE waiter[t]]
  /\ UNCHANGED <<globals, pool, alive, queue, hasJobs, job, signals, waitPool, history>>

\* num_threads_alive --, thcount_lock taken and not yet released.
Bye(w) ==
  /\ Steps(w, "bye", "unlock")
  /\ ThcountFree(PoolOf[w])
  /\ alive' = [alive EXCEPT ![PoolOf[w]] = @ - 1]
  /\ UNCHANGED <<globals, pool, working, queue, hasJobs, job, signals, clients, history>>

\* The last pthread_mutex_unlock of thread_do.
Unlock(w) ==
  /\ Steps(w, "unlock", "gone")
  /\ UNCHANGED <<globals, pool, counters, queue, hasJobs, job, signals, clients, history>>

\* thread_hold starts: it sets threads_on_hold, whatever its value was.
HoldBegins(w) ==
  /\ sig[w]
  /\ ~held[w]
  /\ pc[w] \notin {"unborn", "created", "gone"}
  /\ sig' = [sig EXCEPT ![w] = FALSE]
  /\ held' = [held EXCEPT ![w] = TRUE]
  /\ onHold' = TRUE
  /\ UNCHANGED <<keepalive, pool, counters, queue, hasJobs, pc, job, clients, history>>

HoldEnds(w) ==
  /\ held[w]
  /\ ~onHold
  /\ held' = [held EXCEPT ![w] = FALSE]
  /\ UNCHANGED <<globals, pool, counters, queue, hasJobs, pc, job, sig, clients, history>>

-----------------------------------------------------------------------------
WorkerStep(w) ==
  \/ Born(w) \/ LoopTest(w) \/ BsemWait(w) \/ GotTest(w) \/ Count(w)
  \/ PullNothing(w) \/ Pull(w) \/ RunJob(w) \/ Discount(w) \/ Bye(w) \/ Unlock(w)

Next ==
  \/ \E p \in Pools :
       \/ InitPool(p) \/ InitReturns(p)
       \/ DestroyBegins(p) \/ DestroyPolls(p) \/ DestroyEnds(p)
       \/ Pause(p) \/ Resume(p)
       \/ \E j \in Jobs : AddWork(p, j)
       \/ \E t \in Waiters : WaitCall(t, p)
  \/ \E t \in Waiters : WaitTest(t) \/ SpuriousWakeup(t)
  \/ \E w \in Workers : WorkerStep(w) \/ HoldBegins(w) \/ HoldEnds(w)

Spec == Init /\ [][Next]_vars

\* A thread that can run is scheduled: threads are preemptive, and the loops of
\* thpool_init, thpool_destroy and thread_hold poll.  A job function returns.
Fairness ==
  /\ \A w \in Workers : WF_vars(WorkerStep(w)) /\ WF_vars(HoldBegins(w)) /\ WF_vars(HoldEnds(w))
  /\ \A t \in Waiters : WF_vars(WaitTest(t))
  /\ \A p \in Pools : WF_vars(InitReturns(p)) /\ WF_vars(DestroyPolls(p)) /\ WF_vars(DestroyEnds(p))

FairSpec == Spec /\ Fairness
-----------------------------------------------------------------------------
(* Properties.                                                              *)

FlagsTypeOK ==
  /\ keepalive \in BOOLEAN
  /\ onHold \in BOOLEAN
  /\ sig \in [Workers -> BOOLEAN]
  /\ held \in [Workers -> BOOLEAN]

PoolTypeOK ==
  /\ pool \in [Pools -> PoolStates]
  /\ alive \in [Pools -> Nat]
  /\ working \in [Pools -> Nat]
  /\ queue \in [Pools -> Seq(Jobs)]
  /\ hasJobs \in [Pools -> {0, 1}]
  /\ pc \in [Workers -> WorkerSteps]
  /\ job \in [Workers -> Jobs \cup {NoJob}]
  /\ waiter \in [Waiters -> WaiterSteps]
  /\ waitPool \in [Waiters -> Pools \cup {NoPool}]
  /\ added \subseteq Pools \X Jobs
  /\ finished \subseteq Pools \X Jobs
  /\ pauses \in Nat

TypeOK == FlagsTypeOK /\ PoolTypeOK

\* The unlocked readers of the two counters (thpool_destroy, the spin loop of
\* thpool_init) and thpool_wait can rely on them: each equals the number of
\* workers in the section of thread_do it counts, whatever the interleaving.
CountersExact ==
  \A p \in Pools : /\ alive[p] = Cardinality(Living(p))
                   /\ working[p] = Cardinality(Busy(p))

\* No pool of the process has been destroyed.
NoDestroy == \A p \in Pools : pool[p] \notin {"destroying", "freed"}

\* Worker w has work left to do in thread_do without being signalled first.
Awake(w) == pc[w] \notin {"asleep", "bye", "unlock", "gone"}

\* has_jobs is binary, so several posts may collapse into one and a signal may
\* be taken by a late worker.  Still a queued job is never stranded: either the
\* semaphore is up and a worker is awake to test it, or a worker has taken the
\* semaphore and will pull.
NoLostWakeup ==
  NoDestroy =>
    \A p \in Pools : queue[p] # <<>> =>
      \/ hasJobs[p] = 1 /\ \E w \in WorkersOf(p) : Awake(w)
      \/ \E w \in WorkersOf(p) : pc[w] \in {"got", "count", "pull"}

\* A worker that runs a job keeps its pool from being freed.
NoFreeUnderJob ==
  \A p \in Pools : pool[p] = "freed" => Busy(p) = {}

\* No handler of a pause signal that runs late, after thpool_resume, has the last
\* word: in the end the workers are not on hold.
Released == <>[](~onHold)

\* Every job given to a pool that is not destroyed is run, unless a pause, or a
\* pause signal handled after the resume it belongs before, lasts for ever.
EveryJobRuns ==
  Released =>
    \A p \in Pools, j \in Jobs :
      (<<p, j>> \in added) ~> (<<p, j>> \in finished \/ pool[p] \in {"destroying", "freed"})

\* thpool_destroy returns once the jobs that are running have, and thpool_wait
\* too: "Once the queue is empty and all work has completed, the calling thread
\* (probably the main program) will continue" (thread_pool.h); unless a worker is
\* on hold for ever.
CallsReturn ==
  Released =>
    /\ \A p \in Pools : (pool[p] = "destroying") ~> (pool[p] = "freed")
    /\ \A t \in Waiters : (waiter[t] = "check") ~> (waiter[t] = "returned")

\* A pool implements the promise of JobPool: a job starts at its pull, ends when
\* its function returns, and thpool_wait returns only in an idle pool.
Running == {<<PoolOf[w], job[w]>> : w \in {v \in Workers : pc[v] = "run"}}

Promise == INSTANCE JobPool WITH
  pending  <- queue,
  running  <- Running,
  dropped  <- {p \in Pools : pool[p] = "freed"},
  waitsFor <- [t \in Waiters |-> IF waiter[t] \in {"check", "asleep"}
                                   THEN {waitPool[t]} ELSE {}]

ImplementsJobPool == Promise!Spec
=============================================================================
