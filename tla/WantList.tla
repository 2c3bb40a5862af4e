------------------------------ MODULE WantList ------------------------------
(***************************************************************************)
(* The want list of one node: libipfs/exchange/bitswap/wantlist_queue.c,   *)
(* want_manager.c, the Exchange methods of bitswap.c and the thread of     *)
(* engine.c that serves the list.                                          *)
(*                                                                         *)
(* Three kinds of thread meet in it.  A caller of GetBlock adds a want and *)
(* polls its entry until the block is there or the time is up.  Processor  *)
(* is the engine's thread: it takes the first unserved entry, looks in the *)
(* blockstore, asks the router for providers, and gives up on an entry     *)
(* after too many attempts.  The network thread hands an arrived block to  *)
(* HasBlock.  Only queue_add and queue_pop take wantlist_mutex; the        *)
(* session vectors, the block pointers and the flags are read and written  *)
(* by all three without it.                                                *)
(*                                                                         *)
(* Every session in the list is WANTLIST_SESSION_TYPE_LOCAL (no code makes *)
(* a remote one), all local sessions compare equal, so a vector of         *)
(* sessions is its length, total[c].  The read and the write of            *)
(* "v->total++" and "v->total--" are steps of their own.                   *)
(***************************************************************************)
EXTENDS Integers, Sequences, FiniteSets

CONSTANTS Callers,      \* threads that call GetBlock and GetBlockAsync
          Processor,    \* ipfs_bitswap_engine_wantlist_processor_start
          Cids,         \* block identifiers
          NoCid,        \* "no identifier": a thread that works on none
          Timeout,      \* polls before GetBlock stops looking (60 in the code)
          MaxAttempts,  \* failed searches before the engine gives up (10)
          Demand,       \* bound: the calls <<caller, cid, async>> made
          MaxCalls      \* bound: how many calls are made

ASSUME WantListAssumption ==
    /\ Processor \notin Callers
    /\ NoCid \notin Cids
    /\ Timeout \in Nat \ {0}
    /\ MaxAttempts \in Nat
    /\ Demand \subseteq Callers \X Cids \X BOOLEAN
    /\ MaxCalls \in Nat

Threads == Callers \cup {Processor}

VARIABLES store,      \* blocks in the blockstore
          queue,      \* wantlist->queue: the wanted cids in order of arrival
          total,      \* entry->sessionsRequesting->total
          block,      \* entry->block # NULL
          asked,      \* entry->asked_network
          attempts,   \* entry->attempts
          mutex,      \* who holds wantlist_mutex: a set of at most one thread
          pc,         \* where each thread is
          want,       \* the cid a thread works on
          seen,       \* what a thread last read of a session count
          fresh,      \* what queue_find told the thread that adds
          async,      \* the caller is in GetBlockAsync
          time,       \* timeTaken of a caller in GetBlock
          answer,     \* what GetBlock is about to return
          index,      \* i of the loop in which the engine gives up
          net,        \* the cid HasBlock is working on
          requested,  \* cids some provider was sent a request for
          received,   \* cids HasBlock was called with, to the end
          searches,   \* successful searches for providers, per cid
          phase,      \* the life of the exchange
          calls       \* calls made so far

entryVars == <<total, block, asked, attempts>>
callVars == <<async, time, answer>>
vars == <<store, queue, total, block, asked, attempts, mutex, pc, want, seen,
          fresh, async, time, answer, index, net, requested, received,
          searches, phase, calls>>

Answers == {"none", "found", "missing"}

PCs == {"idle", "add", "find", "insert", "count", "wait", "remove", "delete",
        "shift", "store", "loop", "giveup", "local", "remote", "mark", "exit"}

(* ipfs_bitswap_new: an empty list (its vector is made by the first add),  *)
(* an empty node, and the engine's threads running.                        *)
Init ==
    /\ store = {}
    /\ queue = <<>>
    /\ total = [c \in Cids |-> 0]
    /\ block = [c \in Cids |-> FALSE]
    /\ asked = [c \in Cids |-> FALSE]
    /\ attempts = [c \in Cids |-> 0]
    /\ mutex = {}
    /\ pc = [t \in Threads |-> IF t = Processor THEN "loop" ELSE "idle"]
    /\ want = [t \in Threads |-> NoCid]
    /\ seen = [t \in Threads |-> 0]
    /\ fresh = [t \in Threads |-> FALSE]
    /\ async = [t \in Callers |-> FALSE]
    /\ time = [t \in Callers |-> 0]
    /\ answer = [t \in Callers |-> "none"]
    /\ index = 0
    /\ net = NoCid
    /\ requested = {}
    /\ received = {}
    /\ searches = [c \in Cids |-> 0]
    /\ phase = "open"
    /\ calls = 0

Goto(t, label) == pc' = [pc EXCEPT ![t] = label]

(* ipfs_bitswap_wantlist_queue_find                                        *)
Queued(c) == \E i \in 1..Len(queue) : queue[i] = c

-----------------------------------------------------------------------------
(* Callers                                                                 *)

(* The first lines of GetBlock and GetBlockAsync: look in the blockstore,  *)
(* and only then turn to the want list.                                    *)
Call(t, c, isAsync) ==
    /\ phase = "open"
    /\ pc[t] = "idle"
    /\ <<t, c, isAsync>> \in Demand
    /\ calls < MaxCalls
    /\ calls' = calls + 1
    /\ IF c \in store
       THEN UNCHANGED <<pc, want, async>>
       ELSE /\ Goto(t, "add")
            /\ want' = [want EXCEPT ![t] = c]
            /\ async' = [async EXCEPT ![t] = isAsync]
    /\ UNCHANGED <<store, queue, entryVars, mutex, seen, fresh, time, answer,
                   index, net, requested, received, searches, phase>>

(* Mutant: queue_add goes ahead without waiting for the mutex.             *)
LockIgnored(t) ==
    /\ pc[t] = "add"
    /\ mutex' = mutex \cup {t}
    /\ Goto(t, "find")
    /\ UNCHANGED <<store, queue, entryVars, want, seen, fresh, callVars,
                   index, net, requested, received, searches, phase, calls>>

(* pthread_mutex_lock(&wantlist->wantlist_mutex)                           *)
LockWantList(t) ==
    /\ pc[t] = "add"
    /\ mutex = {}
    /\ mutex' = {t}
    /\ Goto(t, "find")
    /\ UNCHANGED <<store, queue, entryVars, want, seen, fresh, callVars,
                   index, net, requested, received, searches, phase, calls>>

(* The lookup of queue_add                                                 *)
AddFind(t) ==
    /\ pc[t] = "find"
    /\ fresh' = [fresh EXCEPT ![t] = ~Queued(want[t])]
    /\ Goto(t, "insert")
    /\ UNCHANGED <<store, queue, entryVars, mutex, want, seen, callVars,
                   index, net, requested, received, searches, phase, calls>>

(* queue_add: a new entry is given the session once when it is made, and   *)
(* the vector's length is read for the second vector_add.                  *)
AddInsert(t) ==
    LET c == want[t]
    IN  /\ pc[t] = "insert"
        /\ IF fresh[t]
           THEN /\ queue' = Append(queue, c)
                /\ total' = [total EXCEPT ![c] = 1]
                /\ block' = [block EXCEPT ![c] = FALSE]
                /\ asked' = [asked EXCEPT ![c] = FALSE]
                /\ attempts' = [attempts EXCEPT ![c] = 0]
                /\ seen' = [seen EXCEPT ![t] = 1]
           ELSE /\ seen' = [seen EXCEPT ![t] = total[c]]
                /\ UNCHANGED <<queue, entryVars>>
        /\ fresh' = [fresh EXCEPT ![t] = FALSE]
        /\ Goto(t, "count")
        /\ UNCHANGED <<store, mutex, want, callVars, index, net, requested,
                       received, searches, phase, calls>>

(* The end of queue_add: the write of total++, and the unlock.             *)
(* GetBlockAsync is done then; GetBlock starts to wait.                    *)
AddCount(t) ==
    LET c == want[t]
    IN  /\ pc[t] = "count"
        /\ total' = [total EXCEPT ![c] = seen[t] + 1]
        /\ mutex' = mutex \ {t}
        /\ Goto(t, IF async[t] THEN "idle" ELSE "wait")
        /\ want' = [want EXCEPT ![t] = IF async[t] THEN NoCid ELSE c]
        /\ seen' = [seen EXCEPT ![t] = 0]
        /\ async' = [async EXCEPT ![t] = FALSE]
        /\ UNCHANGED <<store, queue, block, asked, attempts, fresh, time,
                       answer, index, net, requested, received, searches,
                       phase, calls>>

(* Mutant: the poll loop that never counts the seconds it slept.           *)
WaitForever(t) ==
    /\ pc[t] = "wait"
    /\ block[want[t]]
    /\ answer' = [answer EXCEPT ![t] = "found"]
    /\ Goto(t, "remove")
    /\ UNCHANGED <<store, queue, entryVars, mutex, want, seen, fresh, async,
                   time, index, net, requested, received, searches, phase,
                   calls>>

(* One turn of GetBlock's loop: the block is there, or the time is up, or  *)
(* another second passes.                                                  *)
Wait(t) ==
    /\ pc[t] = "wait"
    /\ \/ /\ block[want[t]]
          /\ answer' = [answer EXCEPT ![t] = "found"]
          /\ Goto(t, "remove")
          /\ UNCHANGED time
       \/ /\ ~block[want[t]]
          /\ time' = [time EXCEPT ![t] = @ + 1]
          /\ IF time[t] + 1 >= Timeout
             THEN /\ answer' = [answer EXCEPT ![t] = "missing"]
                  /\ Goto(t, "remove")
             ELSE UNCHANGED <<answer, pc>>
    /\ UNCHANGED <<store, queue, entryVars, mutex, want, seen, fresh, async,
                   index, net, requested, received, searches, phase, calls>>

-----------------------------------------------------------------------------
(* Giving a session back: queue_remove, entry_decrement and vector_delete, *)
(* called by a caller that is done and by the engine that gives up.        *)

(* Back to what the thread was doing: GetBlock returns, the engine goes on *)
(* with its loop over the sessions.                                        *)
Removed(t) ==
    IF t = Processor
    THEN /\ Goto(t, "giveup")
         /\ index' = index + 1
         /\ UNCHANGED <<want, callVars>>
    ELSE /\ Goto(t, "idle")
         /\ want' = [want EXCEPT ![t] = NoCid]
         /\ time' = [time EXCEPT ![t] = 0]
         /\ answer' = [answer EXCEPT ![t] = "none"]
         /\ UNCHANGED <<index, async>>

(* entry_decrement's loop test.  It compares a size_t with the int total:  *)
(* a negative total is larger than any index, no session is ever found     *)
(* there, and the loop does not end.                                       *)
RemoveTest(t) ==
    /\ pc[t] = "remove"
    /\ \/ /\ total[want[t]] > 0
          /\ Goto(t, "delete")
          /\ UNCHANGED <<want, callVars, index>>
       \/ /\ total[want[t]] = 0
          /\ Removed(t)
    /\ UNCHANGED <<store, queue, entryVars, mutex, seen, fresh, net,
                   requested, received, searches, phase, calls>>

(* vector_delete's own test of the index: with the sessions gone since the *)
(* loop test it returns, and queue_remove with it.                         *)
DeleteTest(t) ==
    /\ pc[t] = "delete"
    /\ \/ /\ total[want[t]] > 0
          /\ Goto(t, "shift")
          /\ UNCHANGED <<want, callVars, index>>
       \/ /\ total[want[t]] <= 0
          /\ Removed(t)
    /\ UNCHANGED <<store, queue, entryVars, mutex, seen, fresh, net,
                   requested, received, searches, phase, calls>>

(* vector_delete: the read of total--                                      *)
DeleteRead(t) ==
    /\ pc[t] = "shift"
    /\ seen' = [seen EXCEPT ![t] = total[want[t]]]
    /\ Goto(t, "store")
    /\ UNCHANGED <<store, queue, entryVars, mutex, want, fresh, callVars,
                   index, net, requested, received, searches, phase, calls>>

(* vector_delete: the write of total--                                     *)
DeleteWrite(t) ==
    /\ pc[t] = "store"
    /\ total' = [total EXCEPT ![want[t]] = seen[t] - 1]
    /\ Removed(t)
    /\ seen' = [seen EXCEPT ![t] = 0]
    /\ UNCHANGED <<store, queue, block, asked, attempts, mutex, fresh,
                   net, requested, received, searches, phase, calls>>

-----------------------------------------------------------------------------
(* The engine's thread                                                     *)

(* What queue_pop looks for                                                *)
Unserved(c) == ~block[c] /\ ~asked[c]

(* item->attempts > 10                                                     *)
TooManyAttempts(c) == attempts[c] > MaxAttempts

(* Mutant: only the head of the queue is looked at.                        *)
PopHead ==
    /\ pc[Processor] = "loop"
    /\ phase = "open"
    /\ mutex = {}
    /\ \E i \in 1..Len(queue) :
          /\ Unserved(queue[i])
          /\ i = 1
          /\ want' = [want EXCEPT ![Processor] = queue[i]]
          /\ Goto(Processor, IF TooManyAttempts(queue[i]) THEN "giveup"
                                                          ELSE "local")
    /\ index' = 0
    /\ UNCHANGED <<store, queue, entryVars, mutex, seen, fresh, callVars, net,
                   requested, received, searches, phase, calls>>

(* queue_pop: the first unserved entry, which stays where it is.  With     *)
(* none the thread sleeps, and changes nothing.                            *)
Pop ==
    /\ pc[Processor] = "loop"
    /\ phase = "open"
    /\ mutex = {}
    /\ \E i \in 1..Len(queue) :
          /\ Unserved(queue[i])
          /\ \A j \in 1..(i - 1) : ~Unserved(queue[j])
          /\ want' = [want EXCEPT ![Processor] = queue[i]]
          /\ Goto(Processor, IF TooManyAttempts(queue[i]) THEN "giveup"
                                                          ELSE "local")
    /\ index' = 0
    /\ UNCHANGED <<store, queue, entryVars, mutex, seen, fresh, callVars, net,
                   requested, received, searches, phase, calls>>

(* The loop over the sessions of an entry the engine gives up: the list    *)
(* shrinks while the index grows, so every other session is given back.    *)
GiveUp ==
    LET more == index < total[want[Processor]]
    IN  /\ pc[Processor] = "giveup"
        /\ Goto(Processor, IF more THEN "remove" ELSE "loop")
        /\ index' = IF more THEN index ELSE 0
        /\ UNCHANGED <<store, queue, entryVars, mutex, want, seen, fresh,
                       callVars, net, requested, received, searches, phase,
                       calls>>

(* process_entry up to the question whether to go and get the block        *)
ProcessLocal ==
    LET c == want[Processor]
    IN  /\ pc[Processor] = "local"
        /\ block' = [block EXCEPT ![c] = @ \/ c \in store]
        /\ Goto(Processor,
                IF c \notin store /\ total[c] > 0 THEN "remote" ELSE "loop")
        /\ UNCHANGED <<store, queue, total, asked, attempts, mutex, want, seen,
                       fresh, callVars, index, net, requested, received,
                       searches, phase, calls>>

(* get_block_remote: without providers one more attempt is counted; with   *)
(* providers each is sent a request, and whether one got out is ignored.   *)
ProcessRemote ==
    LET c == want[Processor]
    IN  /\ pc[Processor] = "remote"
        /\ \/ /\ attempts' = [attempts EXCEPT ![c] = @ + 1]
              /\ Goto(Processor, "loop")
              /\ UNCHANGED <<requested, searches>>
           \/ /\ \/ requested' = requested \cup {c}
                 \/ UNCHANGED requested
              /\ searches' = [searches EXCEPT ![c] = @ + 1]
              /\ Goto(Processor, "mark")
              /\ UNCHANGED attempts
        /\ UNCHANGED <<store, queue, total, block, asked, mutex, want, seen,
                       fresh, callVars, index, net, received, phase, calls>>

(* process_entry after get_block_remote: entry->asked_network = 1          *)
MarkAsked ==
    /\ pc[Processor] = "mark"
    /\ asked' = [asked EXCEPT ![want[Processor]] = TRUE]
    /\ Goto(Processor, "loop")
    /\ UNCHANGED <<store, queue, total, block, attempts, mutex, want, seen,
                   fresh, callVars, index, net, requested, received, searches,
                   phase, calls>>

(* while (!shutting_down)                                                  *)
ProcessorExits ==
    /\ pc[Processor] = "loop"
    /\ phase = "stopping"
    /\ Goto(Processor, "exit")
    /\ UNCHANGED <<store, queue, entryVars, mutex, want, seen, fresh, callVars,
                   index, net, requested, received, searches, phase, calls>>

-----------------------------------------------------------------------------
(* A listening thread of the swarm: HasBlock.  A block comes only for a    *)
(* cid that was requested (module Bitswap shows it of the peers).  Close   *)
(* neither stops this thread nor waits for it.                             *)

(* Blockstore->Put, whose result HasBlock ignores.  An exchange that was   *)
(* freed has no context to find the blockstore by.                         *)
HasBlockPut(c) ==
    /\ phase # "crashed"
    /\ net = NoCid
    /\ c \in requested
    /\ IF phase = "freed"
       THEN /\ phase' = "crashed"
            /\ UNCHANGED <<store, net>>
       ELSE /\ net' = c
            /\ \/ store' = store \cup {c}
               \/ UNCHANGED store
            /\ UNCHANGED phase
    /\ UNCHANGED <<queue, entryVars, mutex, pc, want, seen, fresh, callVars,
                   index, requested, received, searches, calls>>

(* Mutant: HasBlock stores the block and tells nobody.                     *)
HasBlockSilent ==
    /\ net # NoCid
    /\ received' = received \cup {net}
    /\ net' = NoCid
    /\ UNCHANGED <<store, queue, entryVars, mutex, pc, want, seen, fresh,
                   callVars, index, requested, searches, phase, calls>>

(* The update of the entry, without the mutex; queue_find reads through    *)
(* the list, freed or not.                                                 *)
HasBlockFill ==
    /\ phase # "crashed"
    /\ net # NoCid
    /\ net' = NoCid
    /\ IF phase = "freed"
       THEN /\ phase' = "crashed"
            /\ UNCHANGED <<block, received>>
       ELSE /\ block' = [block EXCEPT ![net] = @ \/ Queued(net)]
            /\ received' = received \cup {net}
            /\ UNCHANGED phase
    /\ UNCHANGED <<store, queue, total, asked, attempts, mutex, pc, want, seen,
                   fresh, callVars, index, requested, searches, calls>>

-----------------------------------------------------------------------------
(* Exchange->Close, called once nobody is in GetBlock any more             *)

(* engine_stop raises shutting_down.                                       *)
CloseBegins ==
    /\ phase = "open"
    /\ \A t \in Callers : pc[t] = "idle"
    /\ phase' = "stopping"
    /\ UNCHANGED <<store, queue, entryVars, mutex, pc, want, seen, fresh,
                   callVars, index, net, requested, received, searches, calls>>

(* Mutant: Close frees the list without joining the engine's threads.      *)
CloseUnjoined ==
    /\ phase = "stopping"
    /\ phase' = "freed"
    /\ UNCHANGED <<store, queue, entryVars, mutex, pc, want, seen, fresh,
                   callVars, index, net, requested, received, searches, calls>>

(* Both joins return, and the list is freed, under a HasBlock too.         *)
CloseEnds ==
    /\ phase = "stopping"
    /\ pc[Processor] = "exit"
    /\ phase' = "freed"
    /\ UNCHANGED <<store, queue, entryVars, mutex, pc, want, seen, fresh,
                   callVars, index, net, requested, received, searches, calls>>

-----------------------------------------------------------------------------
CallerStep(t) ==
    \/ \E c \in Cids, isAsync \in BOOLEAN : Call(t, c, isAsync)
    \/ LockWantList(t)
    \/ AddFind(t)
    \/ AddInsert(t)
    \/ AddCount(t)
    \/ Wait(t)

RemoveStep(t) ==
    RemoveTest(t) \/ DeleteTest(t) \/ DeleteRead(t) \/ DeleteWrite(t)

ProcessorStep ==
    \/ Pop
    \/ GiveUp
    \/ ProcessLocal
    \/ ProcessRemote
    \/ MarkAsked
    \/ ProcessorExits

Next ==
    \/ \E t \in Callers : CallerStep(t)
    \/ \E t \in Threads : RemoveStep(t)
    \/ ProcessorStep
    \/ \E c \in Cids : HasBlockPut(c)
    \/ HasBlockFill
    \/ CloseBegins
    \/ CloseEnds

Spec == Init /\ [][Next]_vars

(* Threads that have something to do are scheduled, and a call of Close    *)
(* that has begun goes on.  Nobody is obliged to call.                     *)
CallerWorks(t) ==
    LockWantList(t) \/ AddFind(t) \/ AddInsert(t) \/ AddCount(t) \/ Wait(t)
        \/ RemoveStep(t)

Fairness ==
    /\ \A t \in Callers : WF_vars(CallerWorks(t))
    /\ WF_vars(ProcessorStep \/ RemoveStep(Processor))
    /\ WF_vars(HasBlockFill)
    /\ WF_vars(CloseEnds)

LiveSpec == Spec /\ Fairness

-----------------------------------------------------------------------------
(* The type invariant.                                                     *)
TypeOK ==
    /\ store \subseteq Cids
    /\ queue \in Seq(Cids)
    /\ total \in [Cids -> Int]
    /\ block \in [Cids -> BOOLEAN]
    /\ asked \in [Cids -> BOOLEAN]
    /\ attempts \in [Cids -> Nat]
    /\ mutex \in SUBSET Callers
    /\ pc \in [Threads -> PCs]
    /\ want \in [Threads -> Cids \cup {NoCid}]
    /\ seen \in [Threads -> Int]
    /\ fresh \in [Threads -> BOOLEAN]
    /\ async \in [Callers -> BOOLEAN]
    /\ time \in [Callers -> 0..Timeout]
    /\ answer \in [Callers -> Answers]
    /\ index \in Nat
    /\ net \in Cids \cup {NoCid}
    /\ requested \subseteq Cids
    /\ received \subseteq Cids
    /\ searches \in [Cids -> Nat]
    /\ phase \in {"open", "stopping", "freed", "crashed"}
    /\ calls \in 0..MaxCalls

(* Two callers that want the same block share one entry, however their     *)
(* calls interleave: "there will be 1 WantListEntry in the WantList"       *)
(* (wantlist_queue.h).                                                     *)
OneEntryPerCid ==
    \A i, j \in 1..Len(queue) : queue[i] = queue[j] => i = j

(* A block that HasBlock has taken in reaches the entry of its cid: no     *)
(* interleaving of the unlocked update with queue_add and with the engine  *)
(* leaves a waiting GetBlock without it.                                   *)
ReceivedReachesEntry ==
    \A c \in received : Queued(c) => block[c]

(* The network is asked for a block at most once in the life of the node:  *)
(* asked_network is set after the first successful search and never reset. *)
AskedAtMostOnce ==
    \A c \in Cids : searches[c] <= 1

(* The engine searches for a block at most MaxAttempts + 1 times.          *)
AttemptsBounded ==
    \A c \in Cids : attempts[c] <= MaxAttempts + 1

(* GetBlock answers "found" only with a block that arrived or was stored   *)
(* here, and only for the cid of that caller's want.                       *)
FoundIsReal ==
    \A t \in Callers :
        pc[t] \in {"remove", "delete", "shift", "store"} /\ answer[t] = "found"
            => want[t] \in received \cup store

(* Once Close has freed the list, no thread of the engine and no caller    *)
(* touches it.  What Close does not wait for is a listening thread: one in *)
(* HasBlock may read the freed list, and then a request must have gone out *)
(* in the node's life, so a node that asked nobody is freed in peace.      *)
FreedIsQuiet ==
    [][/\ phase \in {"freed", "crashed"} =>
              UNCHANGED <<queue, entryVars, mutex, pc>>
       /\ phase' = "crashed" => requested # {}]_vars

(* A GetBlock that polls returns, found or not, and a Close that has begun *)
(* joins the threads and ends, whatever the others do to the entries; with *)
(* one exception: two unlocked decrements have made a session count        *)
(* negative, which entry_decrement compares as a size_t, for ever.         *)
CallsReturn ==
    LET broken == \E c \in Cids : total[c] < 0
    IN  /\ \A t \in Callers : (pc[t] = "wait") ~> (pc[t] = "idle" \/ broken)
        /\ (phase = "stopping") ~> (phase = "freed" \/ broken)

(* An unserved entry ahead of c that the engine takes again and again to   *)
(* no effect: one given up, and one whose sessions are gone (racing        *)
(* updates of the count lose a session), for which process_entry returns   *)
(* before it counts an attempt.                                            *)
Blocked(c) ==
    \E i, j \in 1..Len(queue) :
        /\ i < j
        /\ queue[j] = c
        /\ Unserved(queue[i])
        /\ TooManyAttempts(queue[i]) \/ total[queue[i]] <= 0

(* The engine comes to every entry that is unserved and has a session, but *)
(* for the two kinds of entry ahead of it that stay first for ever.        *)
EveryWantProcessed ==
    \A c \in Cids :
        (Queued(c) /\ Unserved(c) /\ total[c] > 0)
            ~> (want[Processor] = c \/ ~Unserved(c) \/ total[c] <= 0
                    \/ phase # "open" \/ Blocked(c))
=============================================================================
