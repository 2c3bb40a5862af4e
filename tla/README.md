# libipfs: a TLA+ verification project

This directory models the core of libipfs (a C implementation of IPFS) and of
the libp2p it is built on, checks the models with TLC on small instances, and
proves theorems about them with TLAPS. Paths below are relative to `src/`.

## 1. The system

A node is one process. `ipfs_node_online_new` (libipfs/core/ipfs_node.c) opens
the repository, makes the block store, the router and the bitswap exchange;
`ipfs_daemon_start` (libipfs/core/daemon.c) starts the listener and waits. The
node's threads are: the listener (libp2p/net/server.c), the 25 workers of the
swarm's pool and of the server's pool (libp2p/swarm/swarm.c, server.c), the two
threads of the bitswap engine (libipfs/exchange/bitswap/engine.c), the API
threads (libipfs/core/api.c), and whoever calls `GetBlock` or adds a file.

| Component | State it keeps | Operations | Talks to |
|---|---|---|---|
| Thread pool (libp2p/utils/thread_pool.c, and a copy in libipfs/util) | job queue, a binary semaphore, two counters, two process-wide flags | init, add_work, wait, destroy, pause, resume; the worker loop | server and swarm give it jobs |
| Want list (wantlist_queue.c, want_manager.c) | entries per cid: sessions, block, asked, attempts; a mutex | queue_add, remove, find, pop, process_entry | exchange methods, engine, router, block store |
| Bitswap exchange (bitswap.c, engine.c) | the two queues and two threads | GetBlock, GetBlockAsync, HasBlock, Close | everything below |
| Peer requests (peer_request_queue.c) | a linked list of peers, each with cids we want, cids they want, blocks | find_peer, find_entry, process_entry, add, pop, remove | network.c, message.c, want list |
| Bitswap network (network.c, message.c) | messages | send_message, handle_message | peers and their connections |
| Peers, dialer, sessions (libp2p/peer, conn, net) | connection and session per peer | connect, handle_connection_error, read, write | swarm, multistream, secio, yamux |
| Yamux, multistream, secio | streams, windows, negotiation, keys | handlers and filters of a connection | sessions |
| Swarm and server | thread pool, accepted connections (limit 50) | listen, add_peer | thread pool, protocols |
| Peer store, provider store, kademlia, routing | tables of peers and providers | provide, find_providers, find_peer, get_value, bootstrap | swarm, bitswap |
| Repository (fsrepo, LMDB datastore and journal), block store | files and two databases | put, get, journal append | journal sync, importer |
| Journal synchronisation | last entries of each peer | build, send and handle a journal message | datastore, bitswap |
| Merkle DAG, importer, exporter, resolver, unixfs | trees of nodes | import, export, resolve | block store, exchange |
| Namesys, path, dnslink, pin, commands, HTTP API | small | publish, resolve, request handlers | all |

What is hard here: almost everything is shared between threads, and few places
take a lock. The want list locks its insertion and not its removal; the list
of peer requests is never locked; two process-wide flags steer every thread
pool; messages are marked as sent when they are built; nodes restart and peers
do not know it. `PROJECT.json` lists these hazards at their lines, each with
the properties that watch it.

What makes each part correct, in the terms used below:

* pool: every job given runs once, no wake-up is lost, `thpool_wait` returns
  only from an idle pool and does return, `thpool_destroy` ends and takes no
  memory from a job that runs;
* want list: one entry per cid, a block that came reaches whoever waits, the
  network is not asked again and again, nothing touches a freed list;
* exchange: nobody is sent what he did not ask for, a request is never between
  two chairs, a request that can be answered is answered;
* peer requests: one request per peer, walkers miss nobody, the list stays a
  list;
* yamux: stream numbers of the two ends never meet, a stream is announced once,
  bytes reach their reader in order and are read;
* connections: a dial that succeeds was verified, memory is not used after it
  was freed, dials and listening threads end;
* repository: the two tables agree, a recorded block has its file, times only
  become earlier;
* DHT: the table stays a partition with its nodes in place and keeps nodes that
  answer; a search ends, and says so only when its announcements were taken;
* routing: only what was announced gets into the provider store, answers belong
  to their questions, every call returns.

## 2. Modules

| Module | Models | Notes |
|---|---|---|
| `ThreadPool` | thread_pool.c | one action per critical section of a worker, per API call, and per signal |
| `JobPool` | what thread_pool.h promises | abstract specification: jobs wait, run, finish; a wait ends when nothing is left |
| `ThreadPoolProofs` | | theorems about `ThreadPool` |
| `WantList` | bitswap.c, wantlist_queue.c, want_manager.c, the want thread of engine.c, the vector of libp2p/utils/vector.c | reads and writes of a shared counter are steps of their own |
| `WantListProofs` | | theorems about `WantList` |
| `Bitswap` | network.c, message.c, peer_request_queue.c, the peer thread of engine.c | several nodes, connections that break, restarts |
| `BitswapProofs` | | theorems about `Bitswap` |
| `PeerRequestQueue` | the list of peer_request_queue.c, pointer by pointer | |
| `PeerRequestQueueProofs` | | theorems about `PeerRequestQueue` |
| `Yamux` | libp2p/yamux, threadsafe_buffer.c, the reading half of multistream.c | one end of a session; the peer sends any frame |
| `YamuxProofs` | | theorems about `Yamux` |
| `Connection` | conn/dialer.c, conn/session.c, net/connectionstream.c, secio.c, multistream.c, swarm.c, peer.c | dialling threads, listening threads, one remote peer |
| `ConnectionProofs` | | theorems about `Connection` |
| `Repository` | lmdb_datastore.c, lmdb_journalstore.c, blockstore.c, journal.c, publisher.c | threads of one node, with crashes |
| `RepositoryProofs` | | theorems about `Repository` |
| `DhtTable`, `DhtSearch` | routing/dht.c | the table of buckets; the searches with their peers |
| `Routing` | libipfs/routing/online.c, dht_protocol.c, peerstore.c, providerstore.c | several nodes on shared streams |
| `RoutingProofs` | | theorems about `Routing` and `DhtSearch` |
| `MC...` | | constants, initial stores and symmetry for TLC |

`Bitswap` is the composition: each node has a want list, abstracted to the set
of wanted cids and the search under way, and a peer request per peer. What
`WantList` assumes of the network (a block comes only for a cid that was
requested) is what `Bitswap` shows of the peers (`OnlyRequestedTravels`). What
`Bitswap` takes for granted of a peer request (there is one per peer, and the
peer thread finds it) is what `PeerRequestQueue` shows, under its conditions.
Below it, `Bitswap`'s `Dial`, `Break` and `PeekError` are one step each of what
`Connection` does in many; `Connection` ends where a session has yamux, and
`Yamux` begins there. The search that `WantList` and `Bitswap` take as given is
`Routing`; its streams, in turn, are those of `Connection`. The jobs of
`JobPool` are, in the running node, the listening threads of `Connection`.

### ThreadPool

A worker's `pc` is its place in `thread_do`: `unborn` and `created` before it
counts itself, then `loop`, the semaphore, `got`, `count`, `pull`, `run`,
`discount`, and `unlock`, `gone` on the way out. `queue` is the job queue,
`hasJobs` the value of the binary semaphore, `alive` and `working` the counters,
`keepalive` and `onHold` the two globals, `sig` and `held` the pause signal and
the workers inside its handler. A client's wait is `check` or `asleep`
(`pthread_cond_wait` may wake without cause: `SpuriousWakeup`).
`thpool_destroy` is begin, polls, end; each poll posts the semaphore to all.

### WantList

`total[c]` is the length of an entry's session vector: every session is local
and local sessions compare equal, so a vector of them is its length. It is a
signed number because the code's is. `queue` is the order of the entries.
`queue_add` is four steps (lock, find, insert, count), a removal three (test,
read, write) that runs without the mutex, as in the code.
The engine's thread pops the first unserved entry, and goes through the local
lookup, the search for providers and the mark, or through the loop that gives
an entry's sessions back. `HasBlock` stores, then fills the entry, on a listening
thread. `Close` joins the engine's two threads (engine.c:189-198) and frees the
list; a listening thread it neither stops nor waits for, so one in `HasBlock` may
read the freed list (`phase` is then "crashed"). `FreedIsQuiet` says what holds:
nobody else touches the list, and that thread only if a block was requested in
the node's life. The router is external: a search finds providers or does not.

### Bitswap

A pair `q = <<n, p>>` is node n's view of peer p: `weWant[q]` and `theyWant[q]`
are the two vectors of its PeerRequest with their marks, `view[q]` is the
connection type, `chan[q]` what is under way. `ProcessEntry` returns at once for a
peer that is not connected and has no address, connects if need
be, and builds the message; building marks the wants as sent and the blocks as
served, and puts the message into `outbox`; `SendWritten` and `SendLost` are the
two outcomes of `send_message`, whose result the code does not look at.
`Receive` is `handle_message`: payload to `HasBlock`, then
`adjust_cid_queue` for each want. That function advances the pointer of the
list and not its index, so it reads past the list for the second cid; the model
takes the outcomes such a read can have: the want is not recorded, or the node
dies (`ReceiveOutOfBounds`). A node that stops loses its memory and its
connections and keeps its store.

### PeerRequestQueue

`first`, `last`, `next`, `prior` are the pointers. `find_peer` is a walk, an
allocation and three writes, each a step, because it does not lock. Several
threads append: the engine's threads and every listening thread
(wantlist_queue.c:278, network.c:130). `clash` remembers that two of them were past
the end of their walks at the same time, which is what loses an entry or makes
two for one peer; `age` numbers the entries as they are appended, so that
`NoLoop` can be said of the list however the appends cross. The
operations that do lock (`queue_add`, `queue_remove`, `queue_pop`) are one step
each; no code calls them, and `locked` tells behaviours
that use them from the ones the node has. `Undisturbed` is neither.

### Yamux

`slots` is the array of streams, which only grows while the session lives.
`Receive` is one pass of `libp2p_yamux_read` and `yamux_decode`: a frame of the
session, of a stream that is found (`DecodePlain`, `DecodeClose`,
`DecodeRefuse`), of a new one (`DecodeSyn`) or of none. A SYN with a number of our
own parity makes no stream and its payload goes to the listener; the number is
also used as an index, and one beyond the array may be read out of bounds. A payload goes into the
channel's buffer and `Notify` starts a reader unless `read_running` is set; the
reader sets and clears that flag itself (`ReaderStart`, `ReaderExit`), and that
is the race the properties are about. Bytes are numbered tokens, an odd one a
length and the next its body, so that a message put together from the wrong
bytes can be told (`torn`). The receive window is kept by the code and
enforced nowhere; it is left out.

### Connection

`sess`, `conn` and `peer` are the structures and the pointers between them;
`dialer` is the place of a calling thread in
`libp2p_conn_dialer_join_swarm`, which waits by polling for what the connection's
`listener` (`libp2p_swarm_listen`) does. A handshake is three messages
(`HandshakePropose`, `HandshakeExchange`, `HandshakeNonce`). Each may be read, not
come in time, fail to come, or be written to a connection that is closed
(`HandshakeFails`); the first may be refused (`ProposalRefused` for a nonce of
another size, `HandshakePropose` when no algorithm is in common), the signature in
the second and the nonce in the third may be wrong. `verified` is the set of the checks that were passed:
"signature", then "nonce" (`Checks`). A proposal, a public key or an exchange
that cannot be decoded is freed and then freed or read again
(`HandshakeGarbled`). A use of missing or freed memory sets `fault` and ends the
behaviour, because C says nothing of what follows; `FaultHasCause` says which
events must have happened before. `Reply` is the remote, external. Whether it
asks for multistream above secio (`asks`) is chosen with each dial: dialer.c:136
takes for granted that it does, this library's own accepting side does not
(secio.c:63-84). Left out are writes that fail on a closed connection outside the
handshake, whose results are not looked at, and failures of our own side (no
memory, no random bytes).

### Repository

A block is a file in three steps (open with truncation, flush, close) and then
a record. `Put` is `repo_fsrepo_lmdb_put`, one step because every transaction of
the code is a write transaction, of which LMDB admits one. `store[k]` is a set of
duplicates and `Get` returns the one whose bytes sort first: the time as a
varint, low group first, and then the value (`Before`). `journal` is the other
table. The key and value of a journal entry point into stack frames that have
returned when LMDB copies them, so `Written` may also leave a garbled entry.
`HandleMessage`, `BuildTodo`, `AdjustGet`, `AdjustPut` and `HandleDone` are the
journal handler. Two kinds of record have no file: the node's own published name,
and what another node sends in PUT_VALUE (`PutValue`, dht_protocol.c:382-412; every
publisher sends it, publisher.c:226 and 255), which may be any key, that of a
block too. A key is `Bare` while such a record is in the datastore; the reader of
one finds no file and reads through NULL (blockstore.c:343-344), and
`ReadAfterWrite` says that this and a write that went wrong are the only ways in
which what is recorded cannot be read. A crash loses the threads and keeps the files, partly written
ones too.

### DhtTable and DhtSearch

`dht_periodic` runs in one thread, so each packet it handles is one action, with
the expiry and the maintenance that end the call (`Finish`). `DhtTable` is the
list of buckets around our own id with node replacement, pinging, caching and
the blacklist; `DhtSearch` is the list of searches, the walk, announcing, and at
the peers the tokens and their rotating secrets. Times are kept as the
comparisons the code makes on them. The two modules share no variable: a search
pings a node of the table (`SearchAsks`) and starts from any nodes the table may
hold.

### Routing

A request is four messages on the stream two nodes share: the protocol id, the
same back, the request and the answer. `client` is the calling thread in
`online.c`, `server` the listening thread of a stream; both read `chan` and nobody
locks it. Publishing a name sends the record like any request (PUT_VALUE) to all
connected peers in turn, but nobody answers it or waits for an answer; the limit
of ten in `libp2p_routing_dht_send_message_nearest_x` is not reached.
`puts` is the records without a file that this leaves in the
datastores: a GET_VALUE for one ends the node that is asked (`crashed` is "file").
`ReadTimeout` is the five seconds a read waits. A read may end although a message
is coming, and the write of a protocol id, a request, an answer or a record may
fail: `faults` counts both and `faulty` remembers their streams. A write that
fails in a listening thread ends that thread; one that fails in `Provide` goes
unnoticed (online.c:277). `conn` may be `ghost`: a peer that
another node named is added with the connection type it had there.

`AnswerTrue` says that a call takes a wrong answer only when a stream it uses was
`Disturbed`: it failed, so that an earlier answer came late, or another thread or a
request of the other node was on the stream at the same time. `GetValue` asks two
peers, the second the one that the first named, so for it the stream to either
counts; the proof needs both. `ListenerStays` names the two ends of a listening
thread there are: a stream that failed or was shared, and the record without a
file, on any stream; the second takes a name that somebody published.

## 3. Runs

| Run | Instance | Properties |
|---|---|---|
| `pool` | 1 pool, 2 workers, 3 jobs, 1 waiting client, 1 pause | `CountersExact`, `NoLostWakeup`, `NoFreeUnderJob`, `ImplementsJobPool`, `EveryJobRuns`, `CallsReturn` |
| `want` | 2 callers that want one cid and one of them another, 3 calls, time-out 1, given up at the first attempt counted | `OneEntryPerCid`, `ReceivedReachesEntry`, `FreedIsQuiet`, `CallsReturn`, `EveryWantProcessed` |
| `bitswap` | 2 nodes, 3 blocks, 1 fault, 1 stop | `OnlyRequestedTravels`, `RequestIsSomewhere`, `HasBlockHasQueue`, `RequestAnswered` |
| `requests_safety` | 3 peers, 3 entries, two appenders, one walker, one locked operation | `WalkMissesNobody`, `ListSound` |
| `yamux` | 2 stream ids, backlog 2, 2 readers, 3 frames, 2 local writes | `IdsApart`, `AnnouncedOnce`, `BytesInOrder`, `Drained` |
| `connection` | 2 dialling threads, 2 connections, remotes that ask for multistream and that do not, 1 wait that ends too early | `JoinedIsVerified`, `FaultHasCause`, `DialFailsForCause`, `ThreadsEnd` |
| `repository` | 2 threads, 1 block and a name, PUT_VALUE of either, a clock of 3 seconds, 3 calls, 1 crash | `JournalSound`, `ReadAfterWrite`, `AdjustNeverLater`, `CallsReturn` |
| `dht_table` | 3-bit ids, 3 peers, buckets of 2, 3 packets | `TableSound`, `BrokenStaysMarked`, `GoodNodesStay` |
| `dht_search` | 2 peers, one of them broken, 2 calls, 2 rotations, 3 replies | `SearchSorted`, `AckedWasAnnounced`, `DoneIsComplete`, `SearchesEnd` |
| `routing` | 3 nodes in a line, 2 blocks and a name, 2 calls, 1 failure (a write, or a read that gives up too early) | `ProvidersRight`, `AnswerTrue`, `ListenerStays`, `CallReturns` |
| `bitswap_second` | 2 nodes, 2 blocks | violated: `WantsAreRecorded` |
| `repository_update` | 2 threads, 2 paths, 2 calls, no crash | violated: `PutUpdates` |

Many of these properties have an exception in them, and the exception is part
of what is shown: `CallsReturn` of the want list, say, holds except when two
unlocked decrements made a session count negative, so that is the only way a
`GetBlock` can hang. `EveryWantProcessed` has two: an entry is not served behind
one that was given up, nor behind one whose sessions racing updates have lost
(wantlist_queue.c:305 returns before an attempt is counted, so the engine takes it
again and again). The type invariants of most modules are
conjuncts of the first property of their run; those of `ThreadPool` and
`WantList` are proved and not run, and so are `AskedAtMostOnce`,
`AttemptsBounded` and `FoundIsReal`.

Bounds. The races of the pool need two workers and a client, and a third job so
that one is queued while both workers are busy. Those of the want
list need two threads on one entry, and a second entry behind it for the order
of service; three calls let the first want for the second cid come after two
callers have raced on the first. Two nodes show every exchange between neighbours; with three blocks
each side can ask and be asked and one side asks twice. Three entries give the
linked list a first, a middle and a last, and two appenders are enough to cross,
also with a list that has an entry. Two readers of one channel are what
the race on `read_running` can produce first, and two ids are one of either
parity. Two connections let a second dial, or the peer's own, meet the first.
The clock of the repository starts at 5 with varint groups of one bit, so that
the bytes of 5, 6 and 7 do not sort by time, as those of real times do not. In
the table of buckets of two, three peers fill and split a bucket; the blacklist
of one address wraps round. A search of two nodes has one that answers and one
that gets blacklisted, and two rotations make a token expire. That run has one
hash and as many peers as a search can hold: two hashes with two rotations, or a
third peer with two calls, are out of TLC's reach, so a search whose slot another
hash takes, and a list that overflows, rest on the theorems `AcksAreEarned`,
`NodesAreSorted` and `DoneMeansComplete`, which are for any of them. In the line of
three nodes an answer about the far node comes from the middle one, and the name
of one end reaches the middle node and is asked for.
`MaxPauses`, `MaxCalls`, `Demand`, `MaxFaults`, `MaxStops`, `MaxFrames`,
`MaxWrites`, `MaxLocked`, `MaxConns`, `MaxSlow`, `MaxOps`, `MaxCrashes`, `MaxPackets`, `MaxRotations`,
`MaxArrivals` bound what the environment does, in the guards of the actions
concerned. `Timeout`, `MaxAttempts`, `Backlog`, `Radix`, `MaxSkew`,
`BucketSize`, `MaxBlacklisted`, `SearchNodes`, `Closest`, `Parallel` and
`TidSpan` are parameters of the code at small values.

Deadlock is not checked: every component may come to rest (an empty queue, a
closed list, a node with all its blocks, an exhausted bound).

Fairness. `FairSpec` of `ThreadPool`: each worker, waiting client and
`thpool_destroy` that can take a step takes one some time, which is what the
scheduler gives a runnable thread; a job is assumed to return, and nobody is
obliged to call. `LiveSpec` of `WantList`: the same for callers inside a call,
the engine, `HasBlock` and `Close`. `LiveSpec` of `Bitswap`: the threads of a
node that is up go on with a message built, a provider found, every peer on the
round of the peer thread and every message that arrived; faults and stops are
never fair. `Yamux`, `Connection` and `Repository`: each thread that has a next
step takes it; the peer, the network, breaks and crashes owe nothing. `DhtSearch`:
`dht_periodic` is called again and time goes on (its callers loop on the time it
returns); no packet need arrive. `Routing`: the calling thread is strongly fair,
because every read it makes has a limit of five seconds after which it goes on
whatever the listening threads do to the stream in between.

## 4. What is proved

The theorems hold for all values of the constants that satisfy the assumptions
named in the modules (`WorkersFinite` and the types of `ThreadPool`'s constants,
`WantListAssumption`, `BitswapAssumption`, `QueueAssumption`, the assumptions of
`Yamux`, `ConnectionAssumption`, `RepositoryAssumption`, `RoutingAssumption`,
`DhtSearchAssumption`). Most of these only give the constants their types: finite
sets of threads and entries, ids of either parity, orders that are 1 or -1, a
positive radix of the varint. Three say more. `PoolsHaveWorkers`: a pool is created
with a thread at least. `RoutingAssumption` describes the start: each node's
peerstore holds itself and the peers it is connected to, and the announcements it
has taken are true. `AcksAreEarned` has the hypothesis named below.

* `ThreadPoolProofs`. `TypeCorrect` and `CountersCorrect`: the invariant is
  `IInv == TypeOK /\ CountersExact /\ Shape`. That `num_threads_working--`
  stays a natural number needs the counter to be exact, and that it is exact
  needs a pool that is not created to have no threads (`Shape`). The counters
  are cardinalities of sets of workers; `SectionsKept` and `OneEnters` say how
  these sets change when one worker moves. `NeverFreedUnderJob` adds
  `LifeCycle` (a pool is freed only after its counter reached 0). `NoWakeupLost`
  adds `Vigilance`: when jobs are queued, the semaphore is up with a worker awake
  for it, or a worker is on its way to the queue; it is preserved by a pull
  because the worker that leaves jobs behind posts again. `ImplementsPromise`
  is the refinement of `JobPool`. A step either leaves queue, running and
  finished jobs alone (`JobsStay`) and then at most begins or ends a wait, or it
  is one of add, pull, run, end of a destroy, each matched by its abstract step.
  It needs two facts more: no job is in two places (`EachJobOnce`), and a
  client in `thpool_wait` knows its pool (`ClientsKnowPool`). That
  `thpool_wait` returns only when nothing runs is where the exact counters
  enter: the code looks at `num_threads_working`, the promise is about jobs.
* `WantListProofs`. The invariant `IInv` joins `TypeOK` with `Places` (which
  steps each thread can be at), `Patient` (time left), `Locking` (the mutex is
  held exactly between lock and unlock, by one), `Found` (what the lookup of
  `queue_add` told stays true until the insert; this is where the mutex is
  used), `Served` (asked, requested and received cids have entries, and a
  received block is in its entry), `Searched` (searches are counted once and
  marked a step later), `Attempted`, `Closing` (once `Close` frees the list the callers are
  out and the engine's thread has ended; a list that is read after that was
  read by `HasBlock`, so that some block had been requested). From it: `TypeCorrect`,
  `EntriesUnique`, `ReceivedArrives`, `AskedOnce`, `AttemptsLimited`,
  `FoundCorrect` and the action property `FreedStaysQuiet`.
* `BitswapProofs`. `NobodySentUnasked` follows the chain from the answer back:
  what is on the wire, in an outbox or on a peer's list was requested
  (`Requested`, which needs that nobody talks to itself, `OthersOnly`).
  `QueueThereInFirstLife` needs `FirstLife`: until a node goes down, whatever it
  asks of anybody it still wants, so its want list exists. `RequestNotForgotten`
  needs `FirstTracked`: while nothing is disturbed the first want of a pair is in
  exactly the outbox, on the wire or on the list, alone at the head of its
  message; it is the head that `adjust_cid_queue` records. The wants that a
  message takes along (`Unsent`) are a recursive function; `UnsentTo` is
  unfolded one element at a time.
* `PeerRequestQueueProofs`. All of it is for any number of threads in `find_peer`
  and `find_entry`. `TypeCorrect` and `EmptyTogether` need no more than `Ends`.
  `NobodyMissed` and `ListStaysSound` rest on `IInv`, which has three layers. As
  long as nobody uses the locked operations, entries are `Numbered`: numbers grow
  along the list, and this gives `NoLoop` however the appends cross. As long as
  no two appends crossed (`clash`), no two threads are past the end of their walks
  (`Overlap`). As long as neither happened (`Undisturbed`) there is a sequence `s`,
  the list as a walk meets it, that is `Kept`: the pointers are those of `s`
  (`Listed`), every entry with a peer is in `s` or about to be (`Placed`), the
  back pointers and `last` are as far as the three unlocked writes of the one
  append under way have come (`Whole`, `Stage`), and each walker still has the
  entry it looks for ahead of it (`Ahead`). After a crossing the rest fails in
  the code (section 5).
* `YamuxProofs`. `IInv == Types /\ Sides /\ Ordered /\ Streams /\
  AnnouncedOnce`. `Sides`: the counter of stream numbers has our parity and is
  above every id we used, hence a SYN of the peer cannot hit a stream of ours.
  `Ordered` and `Streams`: the buffer of a stream without an excuse is a run of
  consecutive tokens up to the last one told, and its next token is the body its
  one reader waits for, or else a length; `MessagesWhole` is a consequence.
  `OneFlagPerStream` compares two cardinalities that grow together.
* `ConnectionProofs`. `IInv == Types /\ Places /\ Dials /\ Known /\ Redials /\
  Orderly /\ Errors`. `Places`: a connection is unused, or it is its own (`Owned`)
  and at one of eleven stages from the first message to yamux, or it was dialled
  for a session that an earlier dial left (`Stray`). A stage fixes the top layer,
  the step of the listening thread, what is acknowledged, and the list of
  messages that are due (`Due`; a closed socket holds the beginning of it), and
  so each handler finds the message it expects. Stages are needed because no
  property can be kept alone: that yamux comes after the nonce is compared
  (`JoinedVerified`: signature and nonce, all of `Checks`) follows from the order of
  the remote's messages, not from any check in the dialling thread. `Innocent`
  means that none of the six causes of `FaultHasCause` occurred; then `Peaceful` holds: no session is freed, no
  socket closed under its thread, and the one dial there is keeps pace with its
  stage (`Progress`). `FaultCaused` is then immediate. `DialFailureCaused`
  combines them: a wait that runs out without a cause does so when no thread has
  a message to read (`Quiet`), so at a stage with nothing due, and at these
  (`QuietStage`) what the dial waits for is there, except at `Secured` when
  the remote does not ask for multistream: this is the cause `Unasked`, and one
  that was found stays (`Grown`), so each step is shown to preserve
  `Keeps == IInv' /\ Grown`. `Errors` ties the events that a bad message or
  bitswap's thread leaves to the fault they are.
  `SelectAlike`: with opposite orders both ends choose the same algorithm.
* `RepositoryProofs`. First the operators, by induction over numbers: the varint
  is injective and determines where it ends, `memcmp` on encodings (`Before`) is a
  strict total order, so a finite set of duplicates that is not empty has
  exactly one first (`FirstExists`, `FirstUnique`), and adding to the set can
  only move it earlier (`FirstOfMore`). Then `IInv`: journal and
  datastore agree (`Journalled`), no record is of the future (`Pasts`), what a
  thread read is still there when it uses it (`Sure`: nothing deletes), a key that
  is no block has only records without a file (`NamesBare`), the file
  of a block recorded by a put of its own (`Filed`) was made and is whole unless it
  was opened twice or
  spoiled (`FileMade`, `FileIntact`, `OpenedAgain`), and a reader that faulted read
  a `Bare` key (`Fair`). The step hardest to see is
  `OpenedAgain`: two writers of one block truncate each other's file, and only
  the count of opens tells. `AdjustedNeverLater` is the action property; the
  put that another thread makes in between can only lower what a reader sees.
* `RoutingProofs`. The heart of `IInv` is `Orderly`: on a stream that never
  failed and was never shared (`Quiet`) either nobody asks (`Rest`), or a record
  is being put (`Putting`), or one node asks and the other
  answers (`Asking`), with call, listening thread and both directions of the
  stream at one of five `Stage`s; a record, which nobody waits for, may be under way
  before the protocol id. In the last of them the one message under way
  is the answer (`Correct`), and for an announcement this says that it is in the
  other's providerstore. Hence `ListenersStay`, with `Fatal` for the record without
  a file, and `AnswersAreTrue`. A step on one
  stream leaves the others calm (`CalmStays`), and a clash ends `Quiet` in the
  same step (`NoClash`), which is why `shared` is history and not just the
  present. `Truthful` covers what strays: an announcement under way, on whatever
  stream and read by whatever thread, is one that was made, and a record is that of
  a name (`Honest`). `Walked` follows
  Provide through the peerstore, which may grow behind it; a peer passed was told
  if its stream never failed (`Reached`), and what it was told stays in its store
  (`AnnouncementsArrive`). The second half is about
  `DhtSearch`. `SearchInv` says of the searches and the packets (`Fit`): each
  search is `Sound`, its nodes sorted and each flag of a node `Earned`, each
  packet `Genuine`; and of the search numbers in use, in searches or in packets
  still under way, that each stands for one hash (`Numbered`). The last is what
  `AcksAreEarned` needs: an acknowledgement carries a number and no hash, and may
  come after its search was dropped and its slot taken by another hash. It holds
  while the numbers, unsigned shorts, do not come round, hence the hypothesis
  `MaxSearchCalls <= TidSpan` (65536 searches); the other results do without it.
  `NodesAreSorted` rests on `xorcmp` being a strict total order on ids
  (`CloserTotal`, `CloserTransitive`) and on where `insert_search_node` puts a
  node (`PlaceFacts`, `ShiftedFacts`); lists that are filtered or filled one by
  one are recursive functions, with `Recursion` and `UpTo` for the induction.
  `DoneMeansComplete`: a handler keeps number, hash and mark of each search
  (`Kin`), expiry and `search_step` after it mark a search only when it is
  `Complete` (`Descend`), and a search that is begun is not marked.

The inductive invariants of `Bitswap`, `PeerRequestQueue`, `Yamux`,
`Connection`, `Repository`, `Routing` and `DhtSearch` were first checked by TLC on
the instances of section 3.
Induction is by the least counterexample: the library's theorem that the
naturals are well founded gives `LeastNumber` (a set of naturals that is not
empty has a least element), and `UpTo` applies it to the set of numbers for which
a fact fails. This reaches recursive functions over numbers; the library's
schemes with an operator as a parameter are not usable.

Only model-checked: all liveness (`EveryJobRuns`, `CallsReturn`,
`EveryWantProcessed`, `RequestAnswered`, `Drained`, `ThreadsEnd`, `SearchesEnd`,
`CallReturns`; the prover does not handle fairness), and everything in
`DhtTable`: its `NewNode` is a `RECURSIVE` operator, with which the prover loses
its arithmetic, and `TableSound` is about powers of two, of which it has none.

## 5. Where the code and its comments part

Two runs are violated; `findings` in `PROJECT.json` quotes the lines.

* network.c:63: the loop moves the pointer, not the index, so the second cid a
  peer asks for is not recorded (`bitswap_second`).
* lmdb_datastore.c:255: a put under a key that exists adds a duplicate, and a
  reader goes on seeing the old record, against the comment "Write (or update)"
  (lmdb_datastore.c:172; `repository_update`).

Others were found by a run with another configuration, or by dropping the
exception from a property:

* thread_pool.c:214 lowers one flag for all pools: with two pools, destroying
  one leaves the other's jobs unrun (`EveryJobRuns`), against thread_pool.h:143.
* wantlist_queue.c:101 and :18: removal without the mutex can leave a session
  count at -1, which a loop compares with a `size_t` (`CallsReturn`).
* engine.c:46 and wantlist_queue.c:305: an entry given up stays first, and so does
  one whose sessions were lost (`EveryWantProcessed`).
* engine.c:189-198: `Close` frees the want list although a listening thread may be
  in `HasBlock` (`FreedIsQuiet`).
* wantlist_queue.c:115: the queue is NULL until the first want, so an answer to
  a question of an earlier life ends a restarted node (`HasBlockHasQueue`).
* dialer.c:137 says "Don't bother, as the other side requests multistream"; the
  accepting side of this library never does. A dial to it is secured and then
  fails with nothing gone wrong (the cause `Unasked` of `DialFailsForCause`).
* secio.c:1112-1146: a proposal or key that cannot be decoded is freed twice, an
  exchange is read after it was freed (event `garbled`, `FaultHasCause`).
* dht_protocol.c:409 and publisher.c:216 store records that have no file, under any
  key; the reader, which for GET_VALUE is a listening thread, goes through NULL at
  blockstore.c:343-344 (`ReadAfterWrite`, `ListenerStays`).
* online.c:277: `Provide` ignores a write that failed; the peer still counts as
  connected and was not told (`ProvidersRight`).
* peer.c:150 copies a session pointer into the copy of a peer, where peer.c:112
  says the copy has none; two owners then free it (event `copied`).
* dht.c:2080 inserts into a search the node that dht.c:2032 has just
  blacklisted and discarded from it.
* online.c:30 says of a protocol id "expect the same back"; any message is taken
  for it. online.c:70 "loop through the connected peers" includes peers that
  another node called connected (`ghost`) and that have no session.

The models show more, which no run records:

* thread_pool.c:384: a worker counts itself out before it unlocks
  `thcount_lock`, so `thpool_destroy` may free the mutex it still holds.
  `NoFreeUnderJob` says what does hold. thread_pool.c:377 signals one of several
  waiting clients; `CallsReturn` holds for one. thread_pool.c:302: a pause
  signal delivered after `thpool_resume` holds its worker.
* wantlist_queue.c:81 and :84 add the first session twice, which is why a
  single unlocked removal seldom reaches 0; nothing removes an entry.
* message.c:688 marks a want as sent before the send that may fail, and
  network.c:65 leaves a want that is already on the list as it is, mark
  included: after a lost message neither side tries again. `RequestAnswered` and
  `RequestIsSomewhere` therefore hold without faults only.
* peer_request_queue.c:425: two threads in `find_peer` can append two requests
  for one peer, or lose one of two entries; `OneEntryPerPeer` and `Chained`, parts of
  `ListSound`, and `WalkMissesNobody` hold until two appends cross. `queue_add` (:147) does not
  link the old last entry, `queue_pop` (:262) closes a ring, `queue_remove`
  (:169) follows a null pointer at the head; they have no callers.
* Yamux: yamux.c:394 and stream.c:40 count stream numbers differently, and both
  ends run with `am_server` 0; `IdsApart` holds until the first is used. Two
  readers of one channel, or a body that times out after its length was read,
  tear messages (`excused`); bytes that arrive while a reader leaves wait for
  the next frame (`late`).
* Repository: lowering the time of a record never reaches the journal; adding a
  block again stamps a new duplicate; the walk over the journal
  (lmdb_journalstore.c:329) does not look at the result of `MDB_NEXT` and never
  ends once an entry is garbled; early returns of the put leak their write
  transaction; has_block does not look at the result of storing
  (bitswap.c:153).
* Journal: `ipfs_journal_sync` returns at journal.c:150 in every run, as no code
  sets `secure_stream`; `get_last` never resets its record.
* DHT: a reply that is repeated for ever keeps a search alive that announces
  with an expired token, because each one clears the count of unanswered
  requests (dht.c:1010); `SearchesEnd` is about finitely many replies.
* Routing: `get_value` returns 1 without data because it compares the pointer
  `buffer_size` with 0; no code sets `is_local`; a `FIND_NODE` nobody answers marks
  the peer as not connected; `build_local_peer` advertises 127.0.0.1; the
  stores' check and append have no lock; two listening threads that took each
  other's messages echo an announcement or a ping for ever, while calls still
  return (`CallReturns`).

## 6. Not modelled, and the plan

Left out for good: vendored code (mbedTLS, LMDB, jsmn, the hash map), encodings
(protobuf, multiaddr, multihash, base encodings, cid), cryptography, logging and
the command line. Of the repository's 144 thousand lines, mbedTLS with its
headers and LMDB are more than a hundred thousand, and of the thirty thousand
that are its own most are encodings, tests, headers and calls that touch nothing
shared; the map covers a correspondingly small share of the whole.

Not called in a node, and so not modelled: kademlia.c (constructed by no code,
with its mailbox `searching`), flatfs.c, the locked half of peer_request_queue.c
beyond its safety, the blocking helpers of multistream.c.

One thread each, and so of less interest than what they call: the importer,
exporter and resolver (their blocks are `Repository`'s), name resolution, the
start and stop of a node, the HTTP API's accept loop and table of connections.
A `MerkleDag` module with the importer's tree against the exporter's bytes would
be a set of recursive functions checked over small files.

Races not modelled: two threads that build a message from one PeerRequest at the
same time (peer_request_queue.c:334), the check and the append of the peer store,
the search number of dht.c coming round after 65536 searches (the run and
`AcksAreEarned` take `TidSpan` to be at least the number of searches).

Proofs to come: `DhtTable` would need `NewNode` as a function of the table.
