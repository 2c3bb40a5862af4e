----------------------------- MODULE Repository -----------------------------
(***************************************************************************)
(* The repository of one node: block files (blocks/blockstore.c), the      *)
(* DATASTORE and JOURNALSTORE tables of LMDB (repo/fsrepo/lmdb_*.c), and   *)
(* the threads that use them - an import or a pin (merkledag_add), bitswap *)
(* storing a received block (has_block), the publisher of names, the       *)
(* handler of PUT_VALUE, which stores what a peer sends, and the handler   *)
(* of a peer's journal (journal.c).                                        *)
(*                                                                         *)
(* Both tables are DUPSORT: a put under a key that exists adds a duplicate *)
(* and a get returns the duplicate whose bytes sort first.  The bytes are  *)
(* the timestamp as a varint, low group first, then the value.  Every LMDB *)
(* transaction of the code is a write transaction, so one put is one step. *)
(* The process may crash between any two steps.                            *)
(***************************************************************************)
EXTENDS Integers, Sequences, FiniteSets

CONSTANTS Threads,      \* pool threads that use the repository
          Blocks,       \* hashes of blocks
          Name,         \* the peer's own id, under which a name is published
          Paths,        \* what a name may resolve to, as integers >= 1
          Messages,     \* journal messages of peers: [epoch, entries]
          Radix,        \* 128 in the code: one varint group is 7 bits
          FirstTime, MaxTime,   \* the clock runs from one to the other
          MaxSkew,      \* 300 seconds in the code
          MaxOps, MaxCrashes    \* bounds on the calls and on the crashes

ASSUME RepositoryAssumption ==
    /\ Name \notin Blocks
    /\ Radix \in Nat \ {0, 1}
    /\ FirstTime \in Nat \ {0} /\ MaxTime \in Nat /\ FirstTime <= MaxTime
    /\ MaxSkew \in Nat /\ MaxOps \in Nat /\ MaxCrashes \in Nat
    /\ Paths \subseteq Nat \ {0}
    /\ Messages \subseteq [epoch : Nat, entries : Seq([hash : Blocks \cup {Name}, ts : Nat])]

VARIABLES files,    \* [Blocks -> "none" | "empty" | "part" | "whole"]
          store,    \* DATASTORE: [Keys -> set of duplicates [ts, val]]
          journal,  \* JOURNALSTORE: set of [ts, hash]
          th,       \* what each thread is doing
          now,      \* os_utils_gmtime
          ops,      \* calls begun so far
          crashes,  \* crashes so far
          opens,    \* [Blocks -> how often the file was opened for writing]
          spoiled   \* blocks a crash or a failed fwrite left incomplete

vars == <<files, store, journal, th, now, ops, crashes, opens, spoiled>>

Keys    == Blocks \cup {Name}
Times   == FirstTime .. MaxTime
Garbled == "garbled"          \* bytes of a dead stack frame
Entries == [ts : 1 .. MaxTime, hash : Keys \cup {Garbled}]
Dups    == [ts : 1 .. MaxTime, val : {0} \cup Paths]

\* A thread waiting in the pool.  "op" is the caller, "key" what it works on,
\* "ts" and "val" the caller's DatastoreRecord, "rest" and "todo" what is left
\* of the handler's vectors, "got" what the last call gave.
Idle == [pc |-> "idle", op |-> "none", key |-> Name, ts |-> 0, val |-> 0,
         rest |-> <<>>, todo |-> <<>>, got |-> "none"]

Init == /\ files = [b \in Blocks |-> "none"]
        /\ store = [k \in Keys |-> {}]
        /\ journal = {}
        /\ th = [t \in Threads |-> Idle]
        /\ now = FirstTime
        /\ ops = 0 /\ crashes = 0
        /\ opens = [b \in Blocks |-> 0]
        /\ spoiled = {}

-----------------------------------------------------------------------------
(* The order of LMDB: memcmp on what the code encodes.                     *)

\* varint_encode: groups from the low end, all but the last marked.  No time
\* in the tables is beyond the clock.
Varint[n \in 0 .. MaxTime] ==
    IF n < Radix THEN <<n>>
    ELSE <<Radix + (n % Radix)>> \o Varint[n \div Radix]

\* memcmp, a shorter string before the longer one it starts.
Before(a, b) ==
    \E i \in 1 .. Len(b) :
        /\ \A j \in 1 .. i - 1 : j <= Len(a) /\ a[j] = b[j]
        /\ i > Len(a) \/ a[i] < b[i]

\* repo_fsrepo_lmdb_encode_record.
EncodeRecord(r) == Varint[r.ts] \o <<r.val>>

\* mdb_get on a DUPSORT table, then repo_fsrepo_lmdb_build_record.
Get(k) == CHOOSE r \in store[k] :
              \A q \in store[k] \ {r} : Before(EncodeRecord(r), EncodeRecord(q))

\* lmdb_journalstore_cursor_get with CURSOR_FIRST and a record to look for.
\* MDB_FIRST ignores the key, so the walk starts at the first time of the
\* table and ends at the record or at another time; at the end of the table
\* mdb_cursor_get fails, its result is not read, and the walk goes on for ever.
CursorGet(k, ts) ==
    LET first == CHOOSE x \in {e.ts : e \in journal} :
                     \A y \in {e.ts : e \in journal} \ {x} : Before(Varint[x], Varint[y])
    IN  IF journal = {} \/ first # ts THEN "absent"
        ELSE IF [ts |-> ts, hash |-> k] \in journal THEN "found"
        ELSE IF \E e \in journal : e.ts # ts THEN "absent"
        ELSE "loops"

-----------------------------------------------------------------------------
(* repo_fsrepo_lmdb_put                                                    *)

\* Mutant: the time already recorded is not looked at.
EarlierNever(k, ts) == ts

\* An earlier time that is already recorded replaces the incoming one.
Earlier(k, ts) ==
    IF store[k] # {} /\ Get(k).ts # 0 /\ ts > Get(k).ts THEN Get(k).ts ELSE ts

\* A record without a time, or from the future, is stamped with the clock.
Stamp(ts) == IF ts = 0 \/ ts > now THEN now ELSE ts

\* lmdb_journalstore_build_key_value_pair hands LMDB pointers into frames that
\* have returned: what is stored is the entry, or whatever the stack holds.
Written(e) == {e} \cup {[ts |-> x, hash |-> Garbled] : x \in Times}

\* Mutant: the journal is written for records that exist only.
JournalAfterUpdate(k, asked, stamped) ==
    IF store[k] = {} \/ asked = stamped THEN {journal}
    ELSE {journal \cup {e} : e \in Written([ts |-> stamped, hash |-> k])}

\* The journal entries a put may leave, given the time asked for and the time
\* stamped.  An existing record's journal entry is written only when the stamp
\* changed the time; the search record carries the time already lowered.
JournalAfter(k, asked, stamped) ==
    IF store[k] # {} /\ asked = stamped THEN {journal}
    ELSE {journal \cup {e} : e \in Written([ts |-> stamped, hash |-> k])}

\* No thread is inside a transaction that will never end.
Unlocked == \A t \in Threads : th[t].pc # "stuck"

\* One transaction.  "next" is the thread's state when the put returns.  The
\* duplicate that is there already is MDB_KEYEXIST: nothing is written.
Put(t, k, val, ts, next) ==
    LET asked   == Earlier(k, ts)
        stamped == Stamp(asked)
        new     == [ts |-> stamped, val |-> val]
    IN  /\ Unlocked
        /\ IF store[k] # {} /\ CursorGet(k, asked) = "loops"
           THEN /\ th' = [th EXCEPT ![t].pc = "stuck"]
                /\ UNCHANGED <<store, journal>>
           ELSE /\ th' = [th EXCEPT ![t] = next]
                /\ store' = [store EXCEPT ![k] = @ \cup {new}]
                /\ journal' \in IF new \in store[k] THEN {journal}
                                ELSE JournalAfter(k, asked, stamped)

-----------------------------------------------------------------------------
(* Writing a block: ipfs_repo_fsrepo_block_write (op "add") and            *)
(* ipfs_bitswap_has_block (op "has").                                      *)

Begin(t) == /\ th[t].pc = "idle" /\ ops < MaxOps
            /\ ops' = ops + 1

\* fopen "wb" in ipfs_blockstore_put truncates the file.
WriteOpen(t, b, op) ==
    /\ Begin(t)
    /\ th' = [th EXCEPT ![t] = [Idle EXCEPT !.pc = "opened", !.op = op, !.key = b]]
    /\ files' = [files EXCEPT ![b] = "empty"]
    /\ opens' = [opens EXCEPT ![b] = @ + 1]
    /\ UNCHANGED <<store, journal, now, crashes, spoiled>>

\* fwrite hands the whole pages of a large block to the system before fclose.
WriteFlush(t) ==
    /\ th[t].pc = "opened"
    /\ th' = [th EXCEPT ![t].pc = "flushed"]
    /\ files' = [files EXCEPT ![th[t].key] = IF @ = "whole" THEN @ ELSE "part"]
    /\ UNCHANGED <<store, journal, now, ops, crashes, opens, spoiled>>

\* fclose; every byte was written.
WriteClose(t) ==
    /\ th[t].pc \in {"opened", "flushed"}
    /\ th' = [th EXCEPT ![t].pc = "closed"]
    /\ files' = [files EXCEPT ![th[t].key] = "whole"]
    /\ spoiled' = spoiled \ {th[t].key}
    /\ UNCHANGED <<store, journal, now, ops, crashes, opens>>

\* fwrite wrote less than it was given.  block_write returns 0; has_block does
\* not look at the result and goes on to the datastore.
WriteFails(t) ==
    /\ th[t].pc \in {"opened", "flushed"}
    /\ th' = [th EXCEPT ![t] = IF @.op = "has" THEN [@ EXCEPT !.pc = "closed"] ELSE Idle]
    /\ files' \in {[files EXCEPT ![th[t].key] = x] :
                     x \in {files[th[t].key]} \cup (IF files[th[t].key] = "empty" THEN {"part"} ELSE {})}
    /\ spoiled' = spoiled \cup {th[t].key}
    /\ UNCHANGED <<store, journal, now, ops, crashes, opens>>

\* Mutant: the record is put while the file is still being written.
WritePutEarly(t) ==
    /\ th[t].pc \in {"opened", "closed"}
    /\ Put(t, th[t].key, 0, 0, IF th[t].pc = "opened" THEN th[t] ELSE Idle)
    /\ UNCHANGED <<files, now, ops, crashes, opens, spoiled>>

\* ipfs_datastore_helper_add_block_to_datastore: the time is left to the put.
WritePut(t) ==
    /\ th[t].pc = "closed"
    /\ Put(t, th[t].key, 0, 0, Idle)
    /\ UNCHANGED <<files, now, ops, crashes, opens, spoiled>>

\* ipfs_namesys_publisher_publish stores the path under the peer's id, and sends
\* the same record to the peers nearest to it: there it is a PutValue.
Publish(t, p) ==
    /\ Begin(t)
    /\ Put(t, Name, p, 0, [Idle EXCEPT !.got = "published", !.val = p])
    /\ UNCHANGED <<files, now, crashes, opens, spoiled>>

\* libp2p_routing_dht_handle_put_value stores what a peer sent, under whatever
\* key: its id when it publishes a name, and nobody looks whether it is one.
PutValue(t, k, p) ==
    /\ Begin(t)
    /\ Put(t, k, p, 0, Idle)
    /\ UNCHANGED <<files, now, crashes, opens, spoiled>>

-----------------------------------------------------------------------------
(* Reading a node: ipfs_merkledag_get.                                     *)

\* The record must be there, whoever put it; node_read asks again.
ReadCheck(t, k) ==
    /\ Begin(t) /\ Unlocked
    /\ store[k] # {}
    /\ th' = [th EXCEPT ![t] = [Idle EXCEPT !.pc = "found", !.op = "get", !.key = k]]
    /\ UNCHANGED <<files, store, journal, now, crashes, opens, spoiled>>

\* ipfs_blockstore_path_get: only blocks are ever written to a file.
FileOf(k) == IF k \in Blocks THEN files[k] ELSE "none"

\* ipfs_blockstore_get_node: the FILE is not compared with NULL, an empty file
\* decodes to no node, and a length in a torn file is believed.
ReadFile(t) ==
    /\ th[t].pc = "found"
    /\ th' = [th EXCEPT ![t] = [@ EXCEPT !.pc = "idle", !.got =
                  CASE FileOf(th[t].key) = "none"  -> "fault"
                    [] FileOf(th[t].key) = "empty" -> "failed"
                    [] FileOf(th[t].key) = "part"  -> "garbage"
                    [] FileOf(th[t].key) = "whole" -> "node"]]
    /\ UNCHANGED <<files, store, journal, now, ops, crashes, opens, spoiled>>

-----------------------------------------------------------------------------
(* A peer's journal: ipfs_journal_handle_message.                          *)

Skewed(epoch) == now - epoch > MaxSkew \/ epoch - now > MaxSkew

\* The message is decoded; a clock too far from ours ends the handler.
HandleMessage(t, m) ==
    /\ Begin(t)
    /\ ~Skewed(m.epoch)
    /\ th' = [th EXCEPT ![t] = [Idle EXCEPT !.pc = "build", !.op = "sync", !.rest = m.entries]]
    /\ UNCHANGED <<files, store, journal, now, crashes, opens, spoiled>>

\* ipfs_journal_build_todo, one entry: do we have it, and is our time later?
BuildTodo(t) ==
    LET e == Head(th[t].rest)
        needed == store[e.hash] = {}
        adjust == ~needed /\ e.ts # 0 /\ (Get(e.hash).ts = 0 \/ e.ts < Get(e.hash).ts)
    IN  /\ th[t].pc = "build" /\ th[t].rest # <<>> /\ Unlocked
        /\ th' = [th EXCEPT ![t].rest = Tail(@),
                            ![t].todo = IF needed \/ adjust
                                        THEN Append(@, [entry |-> e, needed |-> needed])
                                        ELSE @]
        /\ UNCHANGED <<files, store, journal, now, ops, crashes, opens, spoiled>>

\* JOURNAL_ENTRY_NEEDED: GetBlockAsync fills a variable of its own, so the
\* handler's block stays NULL and no time is set; the block is only wanted.
TodoNeeded(t) ==
    /\ th[t].pc = "build" /\ th[t].rest = <<>> /\ th[t].todo # <<>>
    /\ Head(th[t].todo).needed
    /\ th' = [th EXCEPT ![t].todo = Tail(@)]
    /\ UNCHANGED <<files, store, journal, now, ops, crashes, opens, spoiled>>

\* Mutant: a time that needs no change stays on the list.
AdjustGetKeeps(t) ==
    LET todo == Head(th[t].todo)
    IN  /\ th[t].pc = "build" /\ th[t].rest = <<>> /\ th[t].todo # <<>>
        /\ ~todo.needed /\ Unlocked
        /\ Get(todo.entry.hash).ts > todo.entry.ts
        /\ th' = [th EXCEPT ![t] = [@ EXCEPT !.pc = "adjust", !.key = todo.entry.hash,
                                              !.ts = todo.entry.ts,
                                              !.val = Get(todo.entry.hash).val,
                                              !.todo = Tail(th[t].todo)]]
        /\ UNCHANGED <<files, store, journal, now, ops, crashes, opens, spoiled>>

\* JOURNAL_TIME_ADJUST: ipfs_journal_adjust_time reads the record in a
\* transaction of its own ...
AdjustGet(t) ==
    LET todo == Head(th[t].todo)
    IN  /\ th[t].pc = "build" /\ th[t].rest = <<>> /\ th[t].todo # <<>>
        /\ ~todo.needed /\ Unlocked
        /\ th' = [th EXCEPT ![t] = IF Get(todo.entry.hash).ts > todo.entry.ts
                                   THEN [@ EXCEPT !.pc = "adjust", !.key = todo.entry.hash,
                                                  !.ts = todo.entry.ts,
                                                  !.val = Get(todo.entry.hash).val,
                                                  !.todo = Tail(th[t].todo)]
                                   ELSE [@ EXCEPT !.todo = Tail(th[t].todo)]]
        /\ UNCHANGED <<files, store, journal, now, ops, crashes, opens, spoiled>>

\* ... and writes it back, with the remote time, in another.
AdjustPut(t) ==
    /\ th[t].pc = "adjust"
    /\ Put(t, th[t].key, th[t].val, th[t].ts, [th[t] EXCEPT !.pc = "build"])
    /\ UNCHANGED <<files, now, ops, crashes, opens, spoiled>>

HandleDone(t) ==
    /\ th[t].pc = "build" /\ th[t].rest = <<>> /\ th[t].todo = <<>>
    /\ th' = [th EXCEPT ![t] = Idle]
    /\ UNCHANGED <<files, store, journal, now, ops, crashes, opens, spoiled>>

-----------------------------------------------------------------------------
Tick == /\ now < MaxTime
        /\ now' = now + 1
        /\ UNCHANGED <<files, store, journal, th, ops, crashes, opens, spoiled>>

\* The process dies: LMDB keeps what was committed, files keep what reached
\* them, and opening the repository again repairs nothing.
Crash == /\ crashes < MaxCrashes
         /\ crashes' = crashes + 1
         /\ spoiled' = spoiled \cup
                {b \in Blocks : \E t \in Threads : /\ th[t].pc \in {"opened", "flushed"}
                                                   /\ th[t].key = b}
         /\ th' = [t \in Threads |-> Idle]
         /\ UNCHANGED <<files, store, journal, now, ops, opens>>

\* The steps of a call already begun.
Step(t) == \/ WriteFlush(t) \/ WriteClose(t) \/ WriteFails(t) \/ WritePut(t)
           \/ ReadFile(t)
           \/ BuildTodo(t) \/ TodoNeeded(t) \/ AdjustGet(t) \/ AdjustPut(t) \/ HandleDone(t)

Call(t) == \/ \E b \in Blocks : \/ WriteOpen(t, b, "add")
                                \/ WriteOpen(t, b, "has")
           \/ \E k \in Keys : ReadCheck(t, k)
           \/ \E p \in Paths : Publish(t, p) \/ \E k \in Keys : PutValue(t, k, p)
           \/ \E m \in Messages : HandleMessage(t, m)

Next == Tick \/ Crash \/ \E t \in Threads : Call(t) \/ Step(t)

\* A thread inside a call goes on; calls, time and crashes may never come.
Spec == Init /\ [][Next]_vars /\ \A t \in Threads : WF_vars(Step(t))

-----------------------------------------------------------------------------
TypeOK ==
    /\ files \in [Blocks -> {"none", "empty", "part", "whole"}]
    /\ store \in [Keys -> SUBSET Dups]
    /\ journal \subseteq Entries
    /\ \A t \in Threads :
          /\ th[t].pc \in {"idle", "opened", "flushed", "closed", "found", "build",
                           "adjust", "stuck"}
          /\ th[t].key \in Keys
    /\ now \in Times /\ ops \in 0 .. MaxOps /\ crashes \in 0 .. MaxCrashes
    /\ opens \in [Blocks -> 0 .. MaxOps] /\ spoiled \subseteq Blocks

\* What the journal tells peers is what the datastore says: an entry that
\* reached the table as it was meant carries a time recorded for its hash (one
\* transaction of repo_fsrepo_lmdb_put writes both tables).  Every recorded key is
\* in the journal, whatever crashes, unless the entry was lost to the dead stack
\* frames of build_key_value_pair; and only then does the search of cursor_get
\* walk off the end of the table, inside a write transaction.
JournalSound ==
    LET garbled == \E e \in journal : e.hash = Garbled
    IN  /\ TypeOK
        /\ \A e \in journal : e.hash # Garbled => \E r \in store[e.hash] : r.ts = e.ts
        /\ \A k \in Keys : store[k] # {} => garbled \/ \E e \in journal : e.hash = k
        /\ (\E t \in Threads : th[t].pc = "stuck") => garbled

\* Something that is no block was stored under the key: a name, or what a peer
\* sent with PUT_VALUE (the value of a block's record is its hash, 0 here).
Bare(k) == \E r \in store[k] : r.val # 0

\* ipfs_merkledag_get does not compare the FILE with NULL: its reader faults only
\* on a key under which a name or a PUT_VALUE was stored.  A key that only
\* block_write and has_block recorded has a file, in every interleaving and
\* after every crash, and all of it unless the block was stored a second time or
\* a write of it failed: both put the file first.
ReadAfterWrite ==
    \A t \in Threads :
        /\ th[t].got = "fault" => Bare(th[t].key)
        /\ th[t].got \in {"failed", "garbage"} =>
               opens[th[t].key] > 1 \/ th[t].key \in spoiled \/ Bare(th[t].key)

\* ipfs_journal_adjust_time never makes the time a reader sees later, even when
\* another put came between its get and its put.
AdjustNeverLater ==
    [][\A t \in Threads :
          th[t].pc = "adjust" /\ th'[t].pc = "build" =>
              Get(th[t].key)'.ts <= Get(th[t].key).ts]_vars

\* Every call returns, unless a garbled journal caught it.
CallsReturn ==
    \A t \in Threads :
        th[t].pc # "idle" ~> (th[t].pc = "idle" \/ \E e \in journal : e.hash = Garbled)

\* repo_fsrepo_lmdb_put, "Write (or update) data in the datastore": after a name
\* was published a get gives the path that was published.
PutUpdates ==
    [][\A t \in Threads :
          th'[t].got = "published" /\ th'[t] # th[t] => Get(Name)'.val = th'[t].val]_vars
=============================================================================
