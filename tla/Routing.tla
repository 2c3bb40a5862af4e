------------------------------ MODULE Routing ------------------------------
(***************************************************************************)
(* How nodes find out who provides a block: the online routing of          *)
(* libipfs/routing/online.c, the messages of libp2p/routing/dht_protocol.c *)
(* and the two tables behind them, peer/peerstore.c and                    *)
(* peer/providerstore.c.                                                   *)
(*                                                                         *)
(* A request is four messages on the stream two nodes share: the protocol  *)
(* id, the same id back, the request, the answer (if there is one to       *)
(* give).  The thread that asks reads what comes next without a lock,      *)
(* while the listening thread of its own node reads from the same stream,  *)
(* and while the other node may be asking too.                             *)
(*                                                                         *)
(* The streams below (modules Connection and Yamux) are external: they     *)
(* keep the order of messages, and a write to one may fail.  The other     *)
(* protocols on the stream are left out; no code sets is_local.            *)
(***************************************************************************)
EXTENDS Integers, Sequences, FiniteSets

CONSTANTS
  Nodes,
  Keys,
  Data,      \* the blocks of each node: a record in the datastore, and a file
  NameOf,    \* the key under which each node publishes its name
  Links,     \* pairs of nodes connected from the start
  Stores,    \* the peerstores at the start: a node and those it is connected to
  Before,    \* the providerstores at the start, from announcements made before
  Ops,       \* the calls each node makes
  MaxCalls,  \* bound on calls
  MaxFaults, \* bound on failures of streams
  None

AllOps == {"find", "provide", "peer", "ping", "value", "name"}

\* A ProviderEntry: the hash and the peer that has it.
Entries == [key : Keys, id : Nodes]

Neighbours(n) == {p \in Nodes : {n, p} \in Links}

Elements(s) == {s[i] : i \in 1 .. Len(s)}

ASSUME RoutingAssumption ==
  /\ Data \in [Nodes -> SUBSET Keys] /\ NameOf \in [Nodes -> Keys]
  /\ Links \subseteq {{a, b} : a, b \in Nodes}
  /\ \A l \in Links : Cardinality(l) = 2
  /\ Stores \in [Nodes -> Seq(Nodes)]
  /\ \A n \in Nodes : Elements(Stores[n]) = {n} \cup Neighbours(n)
  /\ Before \in [Nodes -> Seq(Entries)]
  /\ \A n \in Nodes : \A i \in 1 .. Len(Before[n]) :
       {n, Before[n][i].id} \in Links /\ Before[n][i].key \in Data[Before[n][i].id]
  /\ Ops \in [Nodes -> SUBSET AllOps]
  /\ MaxCalls \in Nat /\ MaxFaults \in Nat
  /\ None \notin Nodes \cup Keys

Pairs == {q \in Nodes \X Nodes : q[1] # q[2]}

VARIABLES
  store,     \* peerstore: the peers in order, the node itself first
  conn,      \* connection_type and sessionContext of q[2] at q[1]: "yes", "no",
             \* or "ghost" when CONNECTED without a session
  provs,     \* providerstore: [key, id] entries in order
  puts,      \* records without a file: names, and what PUT_VALUE brought
  chan,      \* messages under way from q[1] to q[2]
  server,    \* the thread of q[1] that listens to q[2]
  client,    \* the call in progress at each node, or the last one
  calls,
  faults,    \* failures so far
  crashed,   \* "no", or a node used a "session" or a "file" that is not there
  provided,  \* history: [key, id] of every Provide begun
  published, \* history: [key, id] of every Provide that returned
  faulty,    \* history: streams on which a write failed, or a read gave up
             \* though a message was coming
  shared     \* history: streams that two threads read for themselves at once

tables == <<store, conn, provs, puts>>
net    == <<chan, server>>
fails  == <<faults, faulty>>
vars == <<tables, net, client, calls, crashed, provided, published, fails, shared>>

\* Messages: the protocol id, "na", and KademliaMessage.  provs and rec have at
\* most one element; a provider travels with its connection_type.
Header == [t |-> "header"]
Na     == [t |-> "na"]
Message(t, k) == [t |-> t, key |-> k, provs |-> {}, rec |-> {}]
Decodes(m) == m.t \notin {"header", "na"}

RequestOf == [find |-> "get_providers", provide |-> "add_provider", peer |-> "find_node",
              ping |-> "ping", value |-> "get_providers", name |-> "put_value"]

NoCall == [op |-> None, key |-> None, at |-> 0, step |-> "idle", who |-> None,
           ask |-> None, found |-> {}, got |-> {}]

Init ==
  /\ store = Stores
  /\ conn = [q \in Pairs |-> IF {q[1], q[2]} \in Links THEN "yes" ELSE "no"]
  /\ provs = Before
  /\ puts = [n \in Nodes |-> {}]
  /\ chan = [q \in Pairs |-> <<>>]
  /\ server = [q \in Pairs |-> IF {q[1], q[2]} \in Links THEN "listen" ELSE "none"]
  /\ client = [n \in Nodes |-> NoCall]
  /\ calls = 0 /\ faults = 0
  /\ crashed = "no"
  /\ provided = UNION {Elements(Before[n]) : n \in Nodes}
  /\ published = {}
  /\ faulty = {}
  /\ shared = {}

Up == crashed = "no"
Knows(n, p) == p \in Elements(store[n])

\* datastore_get finds a record; the file it stands for may not be there.
Has(n, k) == k \in Data[n] \cup puts[n]
Bare(n, k) == k \in puts[n] \ Data[n]
-----------------------------------------------------------------------------
(* The tables.                                                              *)

\* libp2p_peerstore_add_peer: a known peer keeps what is known of it; a new one
\* is a copy, with the connection_type the message gave it and no session.
AddPeer(n, peer) ==
  IF Knows(n, peer.id) THEN UNCHANGED <<store, conn>>
  ELSE /\ store' = [store EXCEPT ![n] = Append(@, peer.id)]
       /\ conn' = [conn EXCEPT ![<<n, peer.id>>] = IF peer.connected THEN "ghost" ELSE "no"]

\* libp2p_providerstore_add appends without a look at what is there; a second
\* entry of the same key and peer is never returned, and left out.
AddProvider(entries, e) == IF e \in Elements(entries) THEN entries ELSE Append(entries, e)

\* Mutant: the hash is not compared.
ProviderOfAny(n, k) ==
  IF Has(n, k) THEN {n}
  ELSE {provs[n][i].id : i \in 1 .. Len(provs[n]) \cap {1}}

\* libp2p_providerstore_get: the node itself, or the first peer that announced
\* the key.
ProviderOf(n, k) ==
  IF Has(n, k) THEN {n}
  ELSE LET hits == {i \in 1 .. Len(provs[n]) : provs[n][i].key = k}
       IN {provs[n][i].id : i \in {j \in hits : \A h \in hits : j <= h}}

\* A peer as libp2p_peer_protobuf_encode writes it.
Encoded(n, p) == [id |-> p, connected |-> p # n /\ conn[<<n, p>>] # "no"]
-----------------------------------------------------------------------------
(* Asking: ipfs_routing_online_send_receive_message.                        *)

Send(q, m) == chan' = [chan EXCEPT ![q] = Append(@, m)]
Exchange(in, out, m) == chan' = [chan EXCEPT ![in] = Tail(@), ![out] = Append(@, m)]
Take(in) == chan' = [chan EXCEPT ![in] = Tail(@)]

Set(n, c) == client' = [client EXCEPT ![n] = c]

\* The stream of n and p fails.
Fault(n, p) ==
  /\ faults < MaxFaults
  /\ faults' = faults + 1
  /\ faulty' = faulty \cup {{n, p}}

\* Mutant: Provide stops at the first peer that answers, as the search does.
NextPeerOrStop(c) ==
  IF c.op = "provide" THEN [c EXCEPT !.at = 1000, !.step = "walk"]
                      ELSE [c EXCEPT !.at = @ + 1, !.step = "walk"]

NextPeer(c) == [c EXCEPT !.at = @ + 1, !.step = "walk"]

\* send_receive_message returned NULL: find_peer takes the connection for broken,
\* the others go on.
NotReplied(n, c) ==
  /\ conn' = IF c.ask = "find_node" THEN [conn EXCEPT ![<<n, c.who>>] = "no"] ELSE conn
  /\ Set(n, IF c.ask \in {"ping", "get_value"} THEN [c EXCEPT !.step = "idle"] ELSE NextPeer(c))
  /\ UNCHANGED <<store, provs, puts>>

\* libp2p_routing_dht_send_message begins: the protocol id goes out, or the write
\* fails.  A session that is not there is dereferenced.
Ask(n, p, c) ==
  IF conn[<<n, p>>] = "ghost"
    THEN crashed' = "session" /\ UNCHANGED <<tables, chan, client, fails>>
    ELSE /\ \/ /\ Send(<<n, p>>, Header)
               /\ Set(n, [c EXCEPT !.step = "upgrade", !.who = p])
               /\ UNCHANGED <<tables, fails>>
            \/ /\ Fault(n, p)
               /\ NotReplied(n, [c EXCEPT !.who = p])
               /\ UNCHANGED chan
         /\ UNCHANGED crashed

Ended(c, found) == [c EXCEPT !.step = "idle", !.found = found]

\* FindProviders has its answer; GetValue goes on with it.
Answered(c, found) ==
  IF c.op = "value" /\ found # {}
    THEN [c EXCEPT !.step = "value", !.found = found, !.ask = "get_value"]
    ELSE Ended(c, found)

Begin(n, op, k) ==
  LET c == [NoCall EXCEPT !.op = op, !.key = k, !.at = 1, !.step = "walk", !.ask = RequestOf[op]]
  IN CASE op \in {"find", "value"} ->
            IF ProviderOf(n, k) # {} THEN Answered(c, ProviderOf(n, k)) ELSE c
       [] op = "peer" -> IF Knows(n, k) THEN Ended(c, {k}) ELSE c
       [] op = "ping" -> [c EXCEPT !.step = "direct"]
       [] OTHER -> c

Call(n, op, k) ==
  /\ Up /\ calls < MaxCalls /\ op \in Ops[n] /\ client[n].step = "idle"
  /\ k \in CASE op \in {"peer", "ping"} -> Nodes \ {n} [] op = "name" -> {NameOf[n]} [] OTHER -> Keys
  /\ op = "ping" => Knows(n, k)
  /\ op = "provide" => k \in Data[n]
  /\ calls' = calls + 1
  /\ Set(n, Begin(n, op, k))
  /\ puts' = IF op = "name" THEN [puts EXCEPT ![n] = @ \cup {k}] ELSE puts
  /\ provided' = IF op = "provide" THEN provided \cup {[key |-> k, id |-> n]} ELSE provided
  /\ UNCHANGED <<store, conn, provs, net, crashed, fails, published>>

\* libp2p_peer_connect of a peer that is up: secio at the other end marks the
\* caller as connected if it knows it, and adds it if not.
Connected(n, p) ==
  /\ store' = [store EXCEPT ![p] = IF Knows(p, n) THEN @ ELSE Append(@, n)]
  /\ conn' = [conn EXCEPT ![<<n, p>>] = "yes", ![<<p, n>>] = IF Knows(p, n) THEN "yes" ELSE "no"]
  /\ server' = [server EXCEPT ![<<n, p>>] = "listen", ![<<p, n>>] = "listen"]

\* One peer is asked, and connected first if need be; "c" is the call that goes on
\* without it.  A connection to itself, and a second one to the same peer, are
\* left out.
Reach(n, p, c, connected) ==
  IF connected THEN Ask(n, p, client[n]) /\ UNCHANGED server
  ELSE /\ \/ /\ server[<<n, p>>] = "none"
             /\ Connected(n, p)
             /\ UNCHANGED <<client, provs, puts>>
          \/ /\ conn' = [conn EXCEPT ![<<n, p>>] = "no"]
             /\ Set(n, c)
             /\ UNCHANGED <<store, provs, puts, server>>
       /\ UNCHANGED <<chan, crashed, fails>>

\* One turn of the loop over the peerstore: connected peers are asked; a name goes
\* to every peer (libp2p_routing_dht_send_message_nearest_x), which dials again
\* even where there is a connection: here the one there is serves.
Walk(n) ==
  LET c == client[n] IN
  /\ Up /\ c.step = "walk"
  /\ IF c.at > Len(store[n])
       THEN /\ Set(n, Answered(c, {}))
            /\ published' = IF c.op = "provide" THEN published \cup {[key |-> c.key, id |-> n]}
                                                ELSE published
            /\ UNCHANGED <<tables, net, crashed, fails>>
       ELSE /\ LET p == store[n][c.at] IN
               IF p # n /\ c.op = "name"
                 THEN Reach(n, p, NextPeer(c), conn[<<n, p>>] = "yes")
               ELSE IF p # n /\ conn[<<n, p>>] # "no" THEN Ask(n, p, c) /\ UNCHANGED server
               ELSE Set(n, NextPeer(c)) /\ UNCHANGED <<tables, net, crashed, fails>>
            /\ UNCHANGED published
  /\ UNCHANGED <<calls, provided>>

\* Ping, and GetValue once it has a provider.  libp2p_peer_is_connected, which
\* GetValue uses, sees through a connection_type without a session; Ping does
\* not.  GetValue of the node itself reads the file of the record.
Direct(n) ==
  LET c == client[n]
      p == IF c.op = "ping" THEN c.key ELSE CHOOSE q \in c.found : TRUE
      end == [c EXCEPT !.step = "idle"]
  IN
  /\ Up /\ c.step \in {"direct", "value"}
  /\ IF p # n
       THEN Reach(n, p, end, conn[<<n, p>>] = "yes" \/ (c.op = "ping" /\ conn[<<n, p>>] = "ghost"))
       ELSE /\ IF Bare(n, c.key) THEN crashed' = "file" /\ UNCHANGED client
                                ELSE Set(n, end) /\ UNCHANGED crashed
            /\ UNCHANGED <<tables, net, fails>>
  /\ UNCHANGED <<calls, provided, published>>
-----------------------------------------------------------------------------
(* The answer.                                                              *)

\* find_remote_providers puts a provider it has not heard of into the peerstore.
Learn(n, c, m) ==
  IF m.provs = {} THEN UNCHANGED tables
  ELSE /\ AddPeer(n, CHOOSE x \in m.provs : TRUE)
       /\ UNCHANGED <<provs, puts>>

Ids(peers) == {x.id : x \in peers}

\* What the caller of send_receive_message does with the message it got.
Replied(n, m) ==
  LET c == client[n] IN
  CASE c.ask = "get_providers" ->
         /\ Learn(n, c, m)
         /\ Set(n, IF m.provs = {} THEN NextPeer(c) ELSE Answered(c, Ids(m.provs)))
    [] c.ask = "find_node" ->
         /\ Set(n, IF m.provs = {} THEN NextPeer(c) ELSE Ended(c, Ids(m.provs)))
         /\ UNCHANGED tables
    [] c.ask = "add_provider" -> Set(n, NextPeer(c)) /\ UNCHANGED tables
    [] OTHER -> /\ Set(n, [c EXCEPT !.step = "idle", !.got = m.rec])
                /\ UNCHANGED tables

\* libp2p_routing_dht_upgrade_stream reads the id back, and the request follows,
\* unless its write fails.  A name needs no answer.
Request(n) ==
  LET c == client[n]
      m == Message(c.ask, c.key)
  IN CASE c.ask = "add_provider" -> [m EXCEPT !.provs = {[id |-> n, connected |-> TRUE]}]
       [] c.ask = "put_value" -> [m EXCEPT !.provs = {[id |-> n, connected |-> FALSE]}, !.rec = {c.key}]
       [] OTHER -> m

ReadUpgrade(n) ==
  LET c == client[n]
      in == <<c.who, n>>
  IN
  /\ Up /\ c.step = "upgrade" /\ chan[in] # <<>>
  /\ IF Head(chan[in]) = Header
       THEN \/ /\ Exchange(in, <<n, c.who>>, Request(n))
               /\ Set(n, IF c.ask = "put_value" THEN NextPeer(c) ELSE [c EXCEPT !.step = "reply"])
               /\ UNCHANGED <<tables, fails>>
            \/ Take(in) /\ Fault(n, c.who) /\ NotReplied(n, c)
       ELSE Take(in) /\ NotReplied(n, c) /\ UNCHANGED fails
  /\ UNCHANGED <<server, calls, crashed, provided, published>>

\* libp2p_routing_dht_receive_message: whatever comes next is the answer.
ReadReply(n) ==
  LET c == client[n]
      in == <<c.who, n>>
  IN
  /\ Up /\ c.step = "reply" /\ chan[in] # <<>>
  /\ Take(in)
  /\ IF Decodes(Head(chan[in])) THEN Replied(n, Head(chan[in])) ELSE NotReplied(n, c)
  /\ UNCHANGED <<server, calls, crashed, fails, provided, published>>

\* Something is still to come from the other end.
Coming(n, p) ==
  \/ server[<<p, n>>] \in {"listen", "msg"} /\ chan[<<n, p>>] # <<>>
  \/ client[p].who = n /\ client[p].step = "upgrade" /\ chan[<<n, p>>] # <<>>

Patience(n, p) == IF Coming(n, p) THEN Fault(n, p) ELSE UNCHANGED fails

\* Mutant: the read of the answer waits for ever.
NeverTimesOut(n) ==
  /\ Up /\ client[n].step = "upgrade" /\ chan[<<client[n].who, n>>] = <<>>
  /\ Patience(n, client[n].who)
  /\ NotReplied(n, client[n])
  /\ UNCHANGED <<net, calls, crashed, provided, published>>

\* Either read gives up after five seconds.
ReadTimeout(n) ==
  /\ Up /\ client[n].step \in {"upgrade", "reply"} /\ chan[<<client[n].who, n>>] = <<>>
  /\ Patience(n, client[n].who)
  /\ NotReplied(n, client[n])
  /\ UNCHANGED <<net, calls, crashed, provided, published>>
-----------------------------------------------------------------------------
(* Answering: the listening thread, libp2p_protocol_marshal and             *)
(* libp2p_routing_dht_handle_msg.                                           *)

\* The answers of the handlers: a set of at most one message.
ProvidersReply(n, m) ==
  {[m EXCEPT !.provs = {Encoded(n, p)}] : p \in {q \in ProviderOf(n, m.key) : Knows(n, q)}}

NodeReply(n, m) ==
  IF Knows(n, m.key) THEN {[m EXCEPT !.provs = {Encoded(n, m.key)}]} ELSE {}

ValueReply(n, m) ==
  IF m.key \in Data[n] THEN {[m EXCEPT !.rec = {m.key}]} ELSE {}

HandleAddProvider(n, m) ==
  IF m.provs = {} THEN UNCHANGED tables
  ELSE LET peer == CHOOSE x \in m.provs : TRUE IN
       /\ AddPeer(n, peer)
       /\ provs' = [provs EXCEPT ![n] = AddProvider(@, [key |-> m.key, id |-> peer.id])]
       /\ UNCHANGED puts

\* libp2p_routing_dht_handle_put_value: the record goes to the datastore, whatever
\* its key.
HandlePutValue(n, m) ==
  /\ puts' = [puts EXCEPT ![n] = @ \cup m.rec]
  /\ UNCHANGED <<store, conn, provs>>

Handle(n, m) ==
  CASE m.t = "add_provider" -> HandleAddProvider(n, m)
    [] m.t = "put_value"    -> HandlePutValue(n, m)
    [] OTHER                -> UNCHANGED tables

Reply(n, m) ==
  CASE m.t = "get_providers" -> ProvidersReply(n, m)
    [] m.t = "find_node"     -> NodeReply(n, m)
    [] m.t = "get_value"     -> ValueReply(n, m)
    [] m.t = "add_provider"  -> IF m.provs = {} THEN {} ELSE {m}
    [] m.t = "put_value"     -> {}
    [] m.t = "ping"          -> {m}

Serving(n, p, step) ==
  /\ Up
  /\ server[<<n, p>>] = step
  /\ chan[<<p, n>>] # <<>>

Serve(n, p, step) == server' = [server EXCEPT ![<<n, p>>] = step]

\* The id is answered with the id.  Anything else has no handler and ends the
\* thread; if there is a newline in it, "na" is sent first.  So does a write that
\* fails.
ServeHeader(n, p) ==
  LET m == Head(chan[<<p, n>>]) IN
  /\ Serving(n, p, "listen")
  /\ \/ m = Header /\ Exchange(<<p, n>>, <<n, p>>, Header) /\ Serve(n, p, "msg") /\ UNCHANGED fails
     \/ m # Header /\ Exchange(<<p, n>>, <<n, p>>, Na) /\ Serve(n, p, "ended") /\ UNCHANGED fails
     \/ Decodes(m) /\ Take(<<p, n>>) /\ Serve(n, p, "ended") /\ UNCHANGED fails
     \/ Fault(n, p) /\ Take(<<p, n>>) /\ Serve(n, p, "ended")
  /\ UNCHANGED <<tables, client, calls, crashed, provided, published>>

\* Mutant: a request without an answer is an error.
RespondOrFail(n, p, m) ==
  \/ /\ Reply(n, m) # {}
     /\ \E r \in Reply(n, m) : Exchange(<<p, n>>, <<n, p>>, r)
     /\ Serve(n, p, "listen") /\ UNCHANGED fails
  \/ Reply(n, m) = {} /\ Take(<<p, n>>) /\ Serve(n, p, "ended") /\ UNCHANGED fails

\* The answer, if there is one, is written, and the thread listens again; or the
\* write fails.
Respond(n, p, m) ==
  \/ /\ IF Reply(n, m) = {} THEN Take(<<p, n>>)
        ELSE \E r \in Reply(n, m) : Exchange(<<p, n>>, <<n, p>>, r)
     /\ Serve(n, p, "listen") /\ UNCHANGED fails
  \/ Reply(n, m) # {} /\ Fault(n, p) /\ Take(<<p, n>>) /\ Serve(n, p, "ended")

\* libp2p_routing_dht_handle_message.  The value of a record without a file is read
\* through a FILE that is NULL.
ServeMessage(n, p) ==
  LET m == Head(chan[<<p, n>>]) IN
  /\ Serving(n, p, "msg")
  /\ IF ~Decodes(m)
       THEN /\ Take(<<p, n>>) /\ Serve(n, p, "ended")
            /\ UNCHANGED <<tables, crashed, fails>>
     ELSE IF m.t = "get_value" /\ Bare(n, m.key)
       THEN crashed' = "file" /\ UNCHANGED <<tables, net, fails>>
       ELSE Handle(n, m) /\ Respond(n, p, m) /\ UNCHANGED crashed
  /\ UNCHANGED <<client, calls, provided, published>>

\* Its read gives up after five seconds, which ends the thread.
ServeTimeout(n, p) ==
  /\ Up /\ server[<<n, p>>] = "msg" /\ chan[<<p, n>>] = <<>>
  /\ Patience(n, p)
  /\ Serve(n, p, "ended")
  /\ UNCHANGED <<tables, chan, client, calls, crashed, provided, published>>

\* Bitswap's peer thread notices a CONNECTED peer without a session.
Tidy(n, p) ==
  /\ Up /\ conn[<<n, p>>] = "ghost"
  /\ conn' = [conn EXCEPT ![<<n, p>>] = "no"]
  /\ UNCHANGED <<store, provs, puts, net, client, calls, crashed, fails, provided, published>>
-----------------------------------------------------------------------------
Waits(n, p) == client[n].step \in {"upgrade", "reply"} /\ client[n].who = p

\* The streams from which somebody else than the asking thread reads at the
\* asking node, or on which both nodes ask.
Clashes ==
  {{q[1], q[2]} : q \in {r \in Pairs :
     /\ Waits(r[1], r[2])
     /\ Waits(r[2], r[1]) \/ server[r] \in {"msg", "ended"}}}

ClientStep(n) == Walk(n) \/ Direct(n) \/ ReadUpgrade(n) \/ ReadReply(n) \/ ReadTimeout(n)
ServerStep(n, p) == ServeHeader(n, p) \/ ServeMessage(n, p) \/ ServeTimeout(n, p)

Next ==
  /\ \/ \E n \in Nodes, op \in AllOps, k \in Keys \cup Nodes : Call(n, op, k)
     \/ \E n \in Nodes : ClientStep(n)
     \/ \E q \in Pairs : ServerStep(q[1], q[2]) \/ Tidy(q[1], q[2])
  /\ shared' = shared \cup Clashes'

Spec == Init /\ [][Next]_vars

\* Threads are scheduled and reads have a time limit: a call that waits while
\* another thread takes every message it could read gives up in the end, hence
\* strong fairness for the caller.
Fairness ==
  /\ \A n \in Nodes : SF_vars(ClientStep(n) /\ shared' = shared \cup Clashes')
  /\ \A q \in Pairs : WF_vars(ServerStep(q[1], q[2]) /\ shared' = shared \cup Clashes')

FairSpec == Spec /\ Fairness
-----------------------------------------------------------------------------
(* Properties.                                                              *)

Peers == [id : Nodes, connected : BOOLEAN]
Messages == {Header, Na} \cup
  [t : {"get_providers", "add_provider", "find_node", "get_value", "put_value", "ping"},
   key : Keys \cup Nodes, provs : SUBSET Peers, rec : SUBSET Keys]

\* The type invariant.
TypeOK ==
  /\ store \in [Nodes -> Seq(Nodes)]
  /\ conn \in [Pairs -> {"yes", "no", "ghost"}]
  /\ provs \in [Nodes -> Seq(Entries)]
  /\ puts \in [Nodes -> SUBSET Keys]
  /\ \A q \in Pairs : \A i \in 1 .. Len(chan[q]) : chan[q][i] \in Messages
  /\ server \in [Pairs -> {"none", "listen", "msg", "ended"}]
  /\ \A n \in Nodes : client[n].step \in {"idle", "walk", "direct", "value", "upgrade", "reply"}
  /\ calls \in 0 .. MaxCalls /\ faults \in 0 .. MaxFaults
  /\ crashed \in {"no", "session", "file"}
  /\ \A l \in faulty \cup shared : Cardinality(l) = 2

\* Whatever a node takes for an answer, its providerstore names only peers that
\* announced that very key: answers, however late or crossed, do not get there.
\* And a Provide that has returned has reached every peer that was connected from
\* the start and still counts as connected, unless two threads read that stream, a
\* write to it failed or a read of it gave up too early: Provide ignores the result.
ProvidersRight ==
  /\ TypeOK
  /\ \A n \in Nodes : Elements(provs[n]) \subseteq provided
  /\ \A q \in Pairs, k \in Keys :
       /\ [key |-> k, id |-> q[1]] \in published
       /\ {q[1], q[2]} \in Links \ (faulty \cup shared)
       /\ conn[q] = "yes"
       => [key |-> k, id |-> q[1]] \in Elements(provs[q[2]])

\* The result of a call is right: the peer has or announced the key, is the
\* peer that was looked for, the value is that of the key.
Right(c) ==
  CASE c.op = "peer" -> c.found \subseteq {c.key}
    [] c.op \in {"find", "value"} ->
         /\ \A p \in c.found : Has(p, c.key) \/ [key |-> c.key, id |-> p] \in provided
         /\ c.got \subseteq {c.key}
    [] OTHER -> TRUE

\* A stream of the call failed, so that an earlier answer came too late, or it was
\* read by another thread or used for a request of the other node at the same
\* time.  GetValue asks two peers, the second the one that the first named.
Disturbed(n) ==
  LET c == client[n] IN
  \E p \in IF c.op = "value" THEN Nodes ELSE {c.who} : {n, p} \in faulty \cup shared

\* Only then does a call take a wrong answer.
AnswerTrue ==
  \A n \in Nodes : client[n].step = "idle" => Right(client[n]) \/ Disturbed(n)

\* Nothing but that ends a listening thread: a request for a key, a value or a
\* peer the node has never heard of does not.  But the value of a record without a
\* file ends the whole node, on any stream; and that takes a name that some node
\* published, which PUT_VALUE brought to its datastore.
ListenerStays ==
  /\ \A q \in Pairs : server[q] = "ended" => {q[1], q[2]} \in faulty \cup shared
  /\ crashed = "file" => \E n, p \in Nodes : Bare(p, NameOf[n])

\* Every call of the routing returns: of the calls that are made, none is under
\* way for ever, whatever the two listening threads of a stream send each other.
CallReturns ==
  []<>(~Up \/ \A n \in Nodes : client[n].step = "idle")
=============================================================================
