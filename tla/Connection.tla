----------------------------- MODULE Connection -----------------------------
(***************************************************************************)
(* How a node of libp2p gets and loses a connection with one remote peer:  *)
(* conn/dialer.c, conn/session.c, peer/peer.c, swarm/swarm.c, the layers   *)
(* negotiated on it (net/multistream.c, secio/secio.c, yamux/yamux.c) and  *)
(* what bitswap's peer thread does to it (exchange/bitswap/engine.c).      *)
(*                                                                         *)
(* A dial runs in the thread of its caller and waits, by polling, for what *)
(* the listening thread of the connection does.  The remote is external:   *)
(* Reply is what it sends after each message we write.  A use of memory    *)
(* that is missing or freed ends the behaviour: nothing is said of what    *)
(* the process does after it.                                              *)
(***************************************************************************)
EXTENDS Naturals, Integers, Sequences, FiniteSets

CONSTANTS
  Dialers,   \* threads that may call libp2p_peer_connect
  Supported, \* our list of algorithms, best first
  Proposals, \* what a remote may propose: a list, and our place in the order
  MaxConns,  \* bound on connections, dialled or accepted
  MaxSlow    \* bound on waits that end though an answer is coming

ASSUME ConnectionAssumption ==
  /\ \A p \in Proposals : p.order \in {-1, 1}
  /\ MaxConns \in Nat /\ MaxSlow \in Nat

Conns == 1 .. MaxConns

VARIABLES
  sess,     \* SessionContext: its state, its default_stream and its host;
            \* there is at most one per connection
  conn,     \* a socket, its ConnectionContext and the streams above it
  peer,     \* the Libp2pPeer of the remote in the peerstore
  listener, \* libp2p_swarm_listen for each connection
  dialer,   \* libp2p_conn_dialer_join_swarm in each dialling thread
  slow,     \* waits that ended too early so far
  fault,    \* the use of missing or freed memory that ended the behaviour
  events    \* history: what happened to sessions (see FaultHasCause)

vars == <<sess, conn, peer, listener, dialer, slow, fault, events>>

Layers == {"raw", "multi", "secio", "multi2", "yamux"}
Messages == {"ms", "secio", "propose", "exchange", "nonce", "ms2", "yamux"}
Steps == {"none", "read", "propose", "exchange", "nonce", "leave", "ended"}
Waits == {"idle", "multi", "type", "secio", "multi2", "yamux", "joined", "failed"}

\* What the handshake holds against the remote before it succeeds.
Checks == {"signature", "nonce"}

SessType == [state : {"none", "live", "freed"}, conn : 0 .. MaxConns, top : Layers,
             host : {"none", "set", "freed"}]
ConnType == [state : {"none", "open", "closed"}, owner : 0 .. MaxConns,
             accepted : BOOLEAN, asks : BOOLEAN, in : Seq(Messages), ack : SUBSET Layers,
             verified : SUBSET Checks, errno : BOOLEAN, agreed : BOOLEAN]

NoSession == [state |-> "none", conn |-> 0, top |-> "raw", host |-> "none"]
NoConn == [state |-> "none", owner |-> 0, accepted |-> FALSE, asks |-> TRUE, in |-> <<>>,
           ack |-> {}, verified |-> {}, errno |-> FALSE, agreed |-> TRUE]

Init ==
  /\ sess = [s \in Conns |-> NoSession]
  /\ conn = [c \in Conns |-> NoConn]
  /\ peer \in [known : BOOLEAN, sess : {0}, connected : {FALSE}]
  /\ listener = [c \in Conns |-> [pc |-> "none", sess |-> 0, conn |-> 0, temp |-> FALSE]]
  /\ dialer = [d \in Dialers |-> [pc |-> "idle", sess |-> 0]]
  /\ slow = 0
  /\ fault = "none"
  /\ events = {}

Up == fault = "none"

\* The thread reads through a pointer it must not read through.
Fail(kind) ==
  /\ fault' = kind
  /\ UNCHANGED <<sess, conn, peer, listener, dialer, slow, events>>
-----------------------------------------------------------------------------
(* Streams.                                                                 *)

\* What the remote sends when it has read m.  It speaks first when dialled,
\* and asks for the next layer when it dialled.  A dialled remote may ask for
\* multistream once secio is up (asks); this library's own, which ends with its
\* handshake in libp2p_secio_handle_message, does not.
Reply(c, m) ==
  CASE m = "ms"       -> <<>>
    [] m = "secio"    -> IF conn[c].accepted THEN <<"propose">> ELSE <<"secio", "propose">>
    [] m = "propose"  -> <<"exchange">>
    [] m = "exchange" -> <<"nonce">>
    [] m = "nonce"    -> IF conn[c].accepted \/ conn[c].asks THEN <<"ms">> ELSE <<>>
    [] m = "ms2"      -> IF conn[c].accepted THEN <<"yamux">> ELSE <<>>
    [] m = "yamux"    -> IF conn[c].accepted THEN <<>> ELSE <<"yamux">>

\* Connection c after writing m: a closed connection swallows it.
Write(cn, c, m) ==
  IF cn[c].state = "open" THEN [cn EXCEPT ![c].in = @ \o Reply(c, m)] ELSE cn

Ack(cn, c, layer) == [cn EXCEPT ![c].ack = @ \cup {layer}]

\* handle_upgrade down to the connection: the session that owns it, if any,
\* gets the new default_stream.
Upgrade(c, layer) ==
  IF conn[c].owner = 0 THEN sess ELSE [sess EXCEPT ![conn[c].owner].top = layer]

\* libp2p_session_context_free: default_stream is closed (secio's close does
\* not close the socket below it), then the memory is gone.
ClosesSocket(s) == sess[s].top \in {"raw", "multi"}
Freed(s) == [sess EXCEPT ![s].state = "freed"]
Dropped(s) ==
  IF ClosesSocket(s) /\ sess[s].conn # 0
    THEN [conn EXCEPT ![sess[s].conn].state = "closed"] ELSE conn

IsFreed(s) == s # 0 /\ sess[s].state = "freed"
-----------------------------------------------------------------------------
(* Algorithms: libp2p_secio_select_best takes the leader's first choice     *)
(* that the follower has too; order says who leads.                         *)

FirstChoice(lead, follow) ==
  LET common == {k \in DOMAIN lead : \E j \in DOMAIN follow : lead[k] = follow[j]}
  IN IF common = {} THEN "none"
     ELSE lead[CHOOSE k \in common : \A j \in common : k <= j]

SelectBest(order, ours, theirs) ==
  IF order > 0 THEN FirstChoice(ours, theirs) ELSE FirstChoice(theirs, ours)

\* libp2p_secio_determine_order compares two hashes, which swap at the other
\* end: the remote's order is the opposite of ours.
RemoteAlg(p) == SelectBest(-p.order, p.offer, Supported)
-----------------------------------------------------------------------------
(* Dialling: libp2p_peer_connect, libp2p_conn_dialer_join_swarm.            *)

Free(c) == conn[c].state = "none" /\ \A b \in Conns : b < c => conn[b].state # "none"

Opened(owner, accepted, asks, in) ==
  [NoConn EXCEPT !.state = "open", !.owner = owner, !.accepted = accepted, !.asks = asks,
                 !.in = in]

Listening(c, s) == [listener EXCEPT ![c] = [@ EXCEPT !.pc = "read", !.sess = s]]

\* Mutant: the connection is tied to no session.
DialOwnerNone(c) == 0

\* The session the new ConnectionContext points to: only a session made here is
\* put into it, so a dial with a session left from an earlier one has none.
DialOwner(c) == IF peer.sess = 0 THEN c ELSE 0

\* The callers dial a peer that is not connected or has no session.
Dial(d) == \E c \in Conns, asks \in BOOLEAN :
  /\ Up /\ Free(c) /\ peer.known
  /\ dialer[d].pc \in {"idle", "failed"}
  /\ ~peer.connected \/ peer.sess = 0
  /\ IF IsFreed(peer.sess) THEN Fail("freed")
     ELSE LET s == IF peer.sess = 0 THEN c ELSE peer.sess IN
          /\ sess' = [sess EXCEPT ![s] =
               [state |-> "live", conn |-> c, top |-> "raw", host |-> "set"]]
          /\ conn' = [conn EXCEPT ![c] = Opened(DialOwner(c), FALSE, asks, <<"ms">>)]
          /\ peer' = [peer EXCEPT !.sess = s, !.connected = FALSE]
          /\ listener' = Listening(c, s)
          /\ dialer' = [dialer EXCEPT ![d] = [pc |-> "multi", sess |-> s]]
          /\ events' = IF peer.sess = 0 THEN events ELSE events \cup {"redialled"}
          /\ UNCHANGED <<slow, fault>>

Topmost(d) == sess[dialer[d].sess].top
OnConn(d)  == sess[dialer[d].sess].conn
IsReady(d, layer) == Topmost(d) = layer /\ layer \in conn[OnConn(d)].ack

\* The next wait starts from peer->sessionContext, read again.
Await(d, layer) == dialer' = [dialer EXCEPT ![d] = [pc |-> layer, sess |-> peer.sess]]

Dialling(d) == dialer[d].pc \in {"multi", "type", "secio", "multi2", "yamux"}

\* A thread that waits on a session that is freed, or goes on with a peer that
\* has none.
DialerLost(d) ==
  /\ Up /\ Dialling(d)
  /\ \/ IsFreed(dialer[d].sess) /\ Fail("freed")
     \/ peer.sess = 0 /\ ~IsFreed(dialer[d].sess) /\ Fail("null")

Ready(d) == Up /\ ~IsFreed(dialer[d].sess) /\ peer.sess # 0 /\ ~IsFreed(peer.sess)

\* libp2p_net_multistream_ready, then libp2p_secio_stream_new on it.
DialerMultistream(d) ==
  LET c == OnConn(d) IN
  /\ Ready(d) /\ dialer[d].pc = "multi" /\ IsReady(d, "multi")
  /\ sess' = Upgrade(c, "secio")
  /\ conn' = Write(conn, c, "secio")
  /\ Await(d, "type")
  /\ UNCHANGED <<peer, listener, slow, fault, events>>

\* The first test of libp2p_secio_ready: once the listening thread has put
\* multistream on top, it never holds.
DialerType(d) ==
  /\ Ready(d) /\ dialer[d].pc = "type"
  /\ Topmost(d) = "secio"
  /\ dialer' = [dialer EXCEPT ![d].pc = "secio"]
  /\ UNCHANGED <<sess, conn, peer, listener, slow, fault, events>>

\* Its second loop looks at the status of the secio stream found above.
DialerSecio(d) ==
  /\ Ready(d) /\ dialer[d].pc = "secio"
  /\ "secio" \in conn[OnConn(d)].ack
  /\ Await(d, "multi2")
  /\ UNCHANGED <<sess, conn, peer, listener, slow, fault, events>>

\* libp2p_net_multistream_ready again, then libp2p_yamux_stream_new.
DialerYamux(d) ==
  LET c == OnConn(d) IN
  /\ Ready(d) /\ dialer[d].pc = "multi2" /\ IsReady(d, "multi2")
  /\ sess' = Upgrade(c, "yamux")
  /\ conn' = Write(conn, c, "yamux")
  /\ Await(d, "yamux")
  /\ UNCHANGED <<peer, listener, slow, fault, events>>

\* libp2p_yamux_stream_ready; identify follows on a channel (module Yamux).
DialerJoined(d) ==
  /\ Ready(d) /\ dialer[d].pc = "yamux" /\ IsReady(d, "yamux")
  /\ dialer' = [dialer EXCEPT ![d].pc = "joined"]
  /\ UNCHANGED <<sess, conn, peer, listener, slow, fault, events>>

\* What the thread waits for is there: each wait looks once more at its end.
Awaited(d) ==
  CASE dialer[d].pc = "type"  -> Topmost(d) = "secio"
    [] dialer[d].pc = "secio" -> "secio" \in conn[OnConn(d)].ack
    [] OTHER                  -> IsReady(d, dialer[d].pc)

\* Nothing will come any more: no listening thread has anything to do.
Quiet == \A l \in Conns :
  \/ listener[l].pc \in {"none", "ended"}
  \/ /\ listener[l].pc = "read"
     /\ sess[listener[l].sess].state = "live" => conn[sess[listener[l].sess].conn].in = <<>>

\* Mutant: a wait never ends without an answer.
DialerTimeoutNever(d) ==
  /\ Up /\ Dialling(d) /\ ~IsFreed(dialer[d].sess) /\ ~Awaited(d)
  /\ slow < MaxSlow
  /\ slow' = slow + 1
  /\ dialer' = [dialer EXCEPT ![d].pc = "failed"]
  /\ events' = events \cup {"slow"}
  /\ UNCHANGED <<sess, conn, peer, listener, fault>>

\* The counter of a wait runs out; the session stays with the peer.
DialerTimeout(d) ==
  /\ Up /\ Dialling(d) /\ ~IsFreed(dialer[d].sess) /\ ~Awaited(d)
  /\ IF Quiet THEN slow' = slow
     ELSE slow < MaxSlow /\ slow' = slow + 1
  /\ dialer' = [dialer EXCEPT ![d].pc = "failed"]
  /\ events' = events \cup IF slow' # slow THEN {"slow"} ELSE
                 IF dialer[d].pc = "type" /\ "secio" \in conn[OnConn(d)].ack
                   THEN {"missed"} ELSE {}
  /\ UNCHANGED <<sess, conn, peer, listener, fault>>
-----------------------------------------------------------------------------
(* Listening: libp2p_swarm_listen.  ReadsFrom is the connection below the   *)
(* session's default_stream, which a later dial may have moved.             *)

ReadsFrom(l) == sess[listener[l].sess].conn
Owner(l) == conn[ReadsFrom(l)].owner
Goto(l, step) == listener' = [listener EXCEPT ![l].pc = step]

\* The message the thread has read, without it.
Took(c) == [conn EXCEPT ![c].in = Tail(@)]

\* The same, and what it proves of the remote is noted.
Passed(c, check) == [Took(c) EXCEPT ![c].verified = @ \cup {check}]

\* The thread can read message m from the stream and find the session again
\* from the connection.
Hears(l, m) ==
  /\ Up /\ listener[l].pc = "read" /\ ~IsFreed(listener[l].sess)
  /\ conn[ReadsFrom(l)].in # <<>> /\ Head(conn[ReadsFrom(l)].in) = m
  /\ Owner(l) # 0 /\ ~IsFreed(Owner(l))

\* Either pointer is bad.
ListenerLost(l) ==
  /\ Up /\ listener[l].pc = "read"
  /\ \/ IsFreed(listener[l].sess) /\ Fail("freed")
     \/ /\ ~IsFreed(listener[l].sess) /\ conn[ReadsFrom(l)].in # <<>>
        /\ \/ Owner(l) = 0 /\ Fail("null")
           \/ IsFreed(Owner(l)) /\ Fail("freed")

\* libp2p_net_multistream_handle_message: the answer to our id, or a request to
\* put multistream on top, which is answered.  An answer that comes twice ends
\* the thread.
HandleMultistream(l) ==
  LET c == ReadsFrom(l)
      top == sess[Owner(l)].top
      layer == IF top = "raw" THEN "multi" ELSE "multi2"
  IN
  /\ Hears(l, "ms")
  /\ IF top \in {"multi", "multi2"}
       THEN /\ conn' = Ack(Took(c), c, top)
            /\ Goto(l, IF top \in conn[c].ack THEN "leave" ELSE "read")
            /\ UNCHANGED sess
       ELSE /\ conn' = Ack(Write(Took(c), c, IF top = "raw" THEN "ms" ELSE "ms2"), c, layer)
            /\ sess' = Upgrade(c, layer)
            /\ UNCHANGED listener
  /\ UNCHANGED <<peer, dialer, slow, fault, events>>

\* libp2p_secio_handle_message: unless we asked for secio it is put on top and
\* answered; then the handshake starts, with our proposal.
HandleSecio(l) ==
  LET c == ReadsFrom(l)
      asked == sess[Owner(l)].top = "secio"
  IN
  /\ Hears(l, "secio")
  /\ sess' = IF asked THEN sess ELSE Upgrade(c, "secio")
  /\ conn' = Write(IF asked THEN Took(c) ELSE Write(Took(c), c, "secio"), c, "propose")
  /\ listener' = [listener EXCEPT ![l] = [@ EXCEPT !.pc = "propose", !.conn = c]]
  /\ UNCHANGED <<peer, dialer, slow, fault, events>>

\* Mutant: the answer to our own request is taken for an error.
HandleYamuxRefused(l) ==
  /\ Hears(l, "yamux")
  /\ conn' = Took(ReadsFrom(l))
  /\ Goto(l, "leave")
  /\ UNCHANGED <<sess, peer, dialer, slow, fault, events>>

\* yamux_handle_message, in the same way.
HandleYamux(l) ==
  LET c == ReadsFrom(l)
      asked == sess[Owner(l)].top = "yamux"
  IN
  /\ Hears(l, "yamux")
  /\ sess' = IF asked THEN sess ELSE Upgrade(c, "yamux")
  /\ conn' = Ack(IF asked THEN Took(c) ELSE Write(Took(c), c, "yamux"), c, "yamux")
  /\ Goto(l, IF "yamux" \in conn[c].ack THEN "leave" ELSE "read")
  /\ UNCHANGED <<peer, dialer, slow, fault, events>>

\* A read that times out only leaves EAGAIN in errno.
ListenerTimeout(l) ==
  LET c == ReadsFrom(l) IN
  /\ Up /\ listener[l].pc = "read" /\ ~IsFreed(listener[l].sess)
  /\ conn[c].state = "open" /\ conn[c].in = <<>> /\ "secio" \in conn[c].ack
  /\ conn' = [conn EXCEPT ![c].errno = TRUE]
  /\ UNCHANGED <<sess, peer, listener, dialer, slow, fault, events>>

\* The remote has closed: libp2p_secio_unencrypted_read notices, if errno is
\* still 0, and libp2p_stream_is_open then ends the thread.  Below secio, or
\* with an old errno, the thread reads again, for ever.
ListenerEof(l) ==
  LET c == ReadsFrom(l) IN
  /\ Up /\ listener[l].pc = "read" /\ ~IsFreed(listener[l].sess)
  /\ conn[c].state = "closed" /\ conn[c].in = <<>>
  /\ "secio" \in conn[c].ack /\ ~conn[c].errno
  /\ Goto(l, "leave")
  /\ UNCHANGED <<sess, conn, peer, dialer, slow, fault, events>>

\* The thread frees the session's host, which it does not reset.
ListenerLeave(l) ==
  LET s == listener[l].sess IN
  /\ Up /\ listener[l].pc = "leave"
  /\ IF IsFreed(s) THEN Fail("freed")
     ELSE IF sess[s].host = "freed" THEN Fail("twice")
     ELSE /\ sess' = [sess EXCEPT ![s].host = "freed"]
          /\ Goto(l, "ended")
          /\ UNCHANGED <<conn, peer, dialer, slow, fault, events>>
-----------------------------------------------------------------------------
(* libp2p_secio_handshake, in the listening thread, which holds             *)
(* socket_mutex.                                                            *)

InHandshake(l, step) ==
  /\ Up /\ listener[l].pc = step /\ ~IsFreed(listener[l].sess)

HandshakeLost(l) ==
  /\ Up /\ listener[l].pc \in {"propose", "exchange", "nonce"}
  /\ IsFreed(listener[l].sess) /\ Fail("freed")

Gets(l, m) ==
  LET c == listener[l].conn IN conn[c].in # <<>> /\ Head(conn[c].in) = m

\* A read that fails: the connection is closed, or the answer takes too long.
GetsNothing(l) ==
  LET c == listener[l].conn IN
  IF conn[c].in = <<>> THEN slow' = slow /\ events' = events
  ELSE slow < MaxSlow /\ slow' = slow + 1 /\ events' = events \cup {"slow"}

\* libp2p_secio_get_peer_or_add.  A peer that is new is added as a copy that
\* shares the session; it is the original that is marked as connected.
PeerWith(l) ==
  [known |-> TRUE, sess |-> listener[l].sess, connected |-> peer.known]

Replaces(l) == peer.known /\ peer.sess \notin {0, listener[l].sess}

\* Their proposal: the peer, the algorithms, and our part of the exchange.
HandshakePropose(l) == \E p \in Proposals :
  LET c == listener[l].conn
      alg == SelectBest(p.order, Supported, p.offer)
  IN
  /\ InHandshake(l, "propose") /\ Gets(l, "propose")
  /\ IF Replaces(l) /\ IsFreed(peer.sess) THEN Fail("freed")
     ELSE
     /\ peer' = PeerWith(l)
     /\ sess' = IF Replaces(l) THEN Freed(peer.sess) ELSE sess
     /\ LET cn == [IF Replaces(l) THEN Dropped(peer.sess) ELSE conn
                     EXCEPT ![c].in = Tail(@), ![c].agreed = alg = RemoteAlg(p)]
        IN conn' = IF alg = "none" THEN cn ELSE Write(cn, c, "exchange")
     /\ listener' = [listener EXCEPT ![l].pc = IF alg = "none" THEN "leave" ELSE "exchange",
                                     ![l].temp = ~peer.known]
     /\ events' = events \cup (IF Replaces(l) THEN {"replaced"} ELSE {})
                          \cup (IF peer.known THEN {} ELSE {"copied"})
                          \cup (IF alg = "none" THEN {"refused"} ELSE {})
     /\ UNCHANGED <<dialer, slow, fault>>

\* A nonce of another size: nothing is done about the peer.
ProposalRefused(l) ==
  /\ InHandshake(l, "propose") /\ Gets(l, "propose")
  /\ conn' = Took(listener[l].conn)
  /\ Goto(l, "leave")
  /\ events' = events \cup {"refused"}
  /\ UNCHANGED <<sess, peer, dialer, slow, fault>>

\* A proposal or a public key that cannot be decoded is freed by its decoder and
\* again at the exit; an exchange is freed and then read, as the result of its
\* decoder is not looked at.
HandshakeGarbled(l) == \E step \in {"propose", "exchange"} :
  /\ InHandshake(l, step) /\ Gets(l, step)
  /\ fault' = IF step = "propose" THEN "twice" ELSE "freed"
  /\ events' = events \cup {"garbled"}
  /\ UNCHANGED <<sess, conn, peer, listener, dialer, slow>>

\* Mutant: the handshake goes on without the signature.
HandshakeExchangeAny(l) == \E ok \in BOOLEAN :
  LET c == listener[l].conn
      cn == IF ok THEN Passed(c, "signature") ELSE Took(c)
  IN
  /\ InHandshake(l, "exchange") /\ Gets(l, "exchange")
  /\ conn' = Ack(Write(cn, c, "nonce"), c, "secio")
  /\ Goto(l, "nonce")
  /\ UNCHANGED <<sess, peer, dialer, slow, fault, events>>

\* Their part of the exchange.  If they signed it, and keys can be made of it, the
\* status is set and their nonce sent back; if not, the handshake ends.
HandshakeExchange(l) == \E ok \in BOOLEAN :
  LET c == listener[l].conn IN
  /\ InHandshake(l, "exchange") /\ Gets(l, "exchange")
  /\ conn' = IF ok THEN Ack(Write(Passed(c, "signature"), c, "nonce"), c, "secio")
             ELSE Took(c)
  /\ Goto(l, IF ok THEN "nonce" ELSE "leave")
  /\ events' = IF ok THEN events ELSE events \cup {"refused"}
  /\ UNCHANGED <<sess, peer, dialer, slow, fault>>

\* Our nonce comes back, or something else does.
HandshakeNonce(l) == \E ok \in BOOLEAN :
  LET c == listener[l].conn IN
  /\ InHandshake(l, "nonce") /\ Gets(l, "nonce")
  /\ conn' = IF ok THEN Passed(c, "nonce") ELSE Took(c)
  /\ Goto(l, IF ok THEN "read" ELSE "leave")
  /\ events' = IF ok THEN events ELSE events \cup {"refused"}
  /\ UNCHANGED <<sess, peer, dialer, slow, fault>>

\* A read of the handshake fails, or a write on a closed connection; it ends, and
\* the thread with it.
HandshakeFails(l) == \E step \in {"propose", "exchange", "nonce"} :
  /\ InHandshake(l, step)
  /\ \/ step # "exchange" /\ GetsNothing(l)
     \/ conn[listener[l].conn].state = "closed" /\ UNCHANGED <<slow, events>>
  /\ Goto(l, "leave")
  /\ UNCHANGED <<sess, conn, peer, dialer, fault>>

\* If the exchange does not come, libp2p_peer_handle_connection_error frees the
\* session of the peer found above: of the peerstore's, or of the original of
\* its copy.
ExchangeFails(l) ==
  LET s == IF listener[l].temp THEN listener[l].sess ELSE peer.sess IN
  /\ InHandshake(l, "exchange") /\ GetsNothing(l)
  /\ IF IsFreed(s) THEN fault' = "freed" /\ UNCHANGED <<sess, conn, peer, listener>>
     ELSE /\ sess' = IF s = 0 THEN sess ELSE Freed(s)
          /\ conn' = IF s = 0 THEN conn ELSE Dropped(s)
          /\ peer' = IF listener[l].temp THEN peer
                     ELSE [peer EXCEPT !.sess = 0, !.connected = FALSE]
          /\ Goto(l, "leave")
          /\ UNCHANGED fault
  /\ UNCHANGED dialer
-----------------------------------------------------------------------------
(* The rest of the node, and the network.                                   *)

\* libp2p_swarm_add_connection: we ask for multistream.  If that cannot be
\* written, there is no default_stream and the thread leaves at once.
Accept == \E c \in Conns, ok \in BOOLEAN :
  LET cn == [conn EXCEPT ![c] = [Opened(c, TRUE, TRUE, <<>>) EXCEPT
               !.state = IF ok THEN "open" ELSE "closed",
               !.in = IF ok THEN <<"ms", "secio">> ELSE <<>>]]
  IN
  /\ Up /\ Free(c)
  /\ conn' = cn
  /\ sess' = [sess EXCEPT ![c] = [state |-> "live", conn |-> c, top |-> "multi", host |-> "set"]]
  /\ listener' = [Listening(c, c) EXCEPT ![c].pc = IF ok THEN "read" ELSE "leave"]
  /\ UNCHANGED <<peer, dialer, slow, fault, events>>

\* ipfs_bitswap_engine_peer_request_processor_start: the peek of a connected
\* peer reports an error, libp2p_peer_handle_connection_error frees the session,
\* and the stream is unlocked through it.
EnginePeek ==
  /\ Up /\ peer.connected /\ peer.sess # 0 /\ ~IsFreed(peer.sess)
  /\ \A l \in Conns : listener[l].pc \notin {"propose", "exchange", "nonce"}
  /\ sess' = Freed(peer.sess)
  /\ conn' = Dropped(peer.sess)
  /\ peer' = [peer EXCEPT !.sess = 0, !.connected = FALSE]
  /\ fault' = "null"
  /\ events' = events \cup {"errored"}
  /\ UNCHANGED <<listener, dialer, slow>>

\* The remote closes the connection.
Break(c) ==
  /\ Up /\ conn[c].state = "open"
  /\ conn' = [conn EXCEPT ![c].state = "closed"]
  /\ events' = events \cup {"broken"}
  /\ UNCHANGED <<sess, peer, listener, dialer, slow, fault>>

DialerStep(d) ==
  \/ DialerMultistream(d) \/ DialerType(d) \/ DialerSecio(d) \/ DialerYamux(d)
  \/ DialerJoined(d) \/ DialerTimeout(d) \/ DialerLost(d)

ListenerStep(l) ==
  \/ HandleMultistream(l) \/ HandleSecio(l) \/ HandleYamux(l) \/ ListenerEof(l)
  \/ ListenerLeave(l) \/ ListenerLost(l) \/ HandshakePropose(l) \/ ProposalRefused(l)
  \/ HandshakeGarbled(l) \/ HandshakeExchange(l) \/ HandshakeNonce(l) \/ HandshakeFails(l)
  \/ ExchangeFails(l) \/ HandshakeLost(l)

Next ==
  \/ \E d \in Dialers : DialerStep(d)
  \/ \E d \in Dialers : Dial(d)
  \/ Accept
  \/ \E l \in Conns : ListenerStep(l) \/ ListenerTimeout(l)
  \/ \E c \in Conns : Break(c)
  \/ EnginePeek

Spec == Init /\ [][Next]_vars

\* Threads run, and a counter that counts seconds ends.
LiveSpec ==
  /\ Spec
  /\ \A d \in Dialers : WF_vars(DialerStep(d))
  /\ \A l \in Conns : WF_vars(ListenerStep(l))
-----------------------------------------------------------------------------
(* Properties.                                                              *)

Types ==
  /\ sess \in [Conns -> SessType]
  /\ conn \in [Conns -> ConnType]
  /\ peer \in [known : BOOLEAN, sess : 0 .. MaxConns, connected : BOOLEAN]
  /\ listener \in [Conns -> [pc : Steps, sess : 0 .. MaxConns, conn : 0 .. MaxConns,
                             temp : BOOLEAN]]
  /\ dialer \in [Dialers -> [pc : Waits, sess : 0 .. MaxConns]]
  /\ slow \in 0 .. MaxSlow
  /\ fault \in {"none", "null", "freed", "twice"}

\* One session and one socket per connection; layers are acknowledged from the
\* bottom up; never more than two messages wait to be read.
TypeOK ==
  /\ Types
  /\ \A c \in Conns :
       /\ conn[c].owner \in {0, c} /\ Len(conn[c].in) <= 2
       /\ "multi2" \in conn[c].ack => {"multi", "secio"} \subseteq conn[c].ack

\* A dial that succeeds has a connection on which the whole of secio's handshake
\* was done: the remote's signature was verified, keys were made and our nonce came
\* back, though the dial goes on when the status says so, before the nonce is
\* compared (secio.c:1297 and 1319); and both ends have taken the same algorithm,
\* whoever leads.
JoinedIsVerified ==
  /\ \A d \in Dialers :
       dialer[d].pc = "joined" /\ ~IsFreed(dialer[d].sess) /\ "redialled" \notin events
         => LET c == conn[OnConn(d)] IN "secio" \in c.ack /\ c.verified = Checks
  /\ \A c \in Conns : conn[c].agreed

\* Missing or freed memory is used only after one of these: a dial with the
\* session of an earlier one (dialer.c:106), a second connection of the peer that
\* replaces the first one's session (secio.c:1005), a read that failed in the
\* handshake or an answer that came too late, a message of the handshake that
\* cannot be decoded (secio.c:1112), or an error seen by bitswap's thread
\* (engine.c:124).  The session of the peerstore's peer is there, if the peer was
\* not added while it connected.
FaultHasCause ==
  /\ TypeOK
  /\ fault # "none" =>
       events \cap {"redialled", "replaced", "slow", "broken", "garbled", "errored"} # {}
  /\ peer.sess # 0 /\ "copied" \notin events => ~IsFreed(peer.sess)

\* The remote was dialled, is secured, and does not ask for multistream.
Unasked(c) == ~conn[c].asks /\ "secio" \in conn[c].ack

\* A dial fails only if the other end was slow, broke or refused, if another dial
\* or connection of the peer came between, if the listening thread was done with
\* secio before libp2p_secio_ready looked for it (secio.c:1476), or if the remote,
\* as one of this library does, leaves it to us to ask for multistream over secio,
\* which dialer.c:136 leaves to the remote.
DialFailsForCause ==
  \A d \in Dialers : dialer[d].pc = "failed" =>
    \/ events \cap {"slow", "broken", "refused", "redialled", "replaced", "missed"} # {}
    \/ \E c \in Conns : Unasked(c)

\* Every dial ends; and the listening thread of a connection that was secured and
\* then closed does, if no earlier time-out hides the end of the stream
\* (secio.c:699).
ThreadsEnd ==
  /\ \A d \in Dialers : Dialling(d) ~> (~Dialling(d) \/ ~Up)
  /\ \A l \in Conns :
       (listener[l].pc = "read" /\ conn[l].state = "closed" /\ "secio" \in conn[l].ack
          /\ ~conn[l].errno /\ listener[l].sess = conn[l].owner)
         ~> (listener[l].pc = "ended" \/ ~Up \/ (listener[l].sess # 0 /\ ReadsFrom(l) # l))
=============================================================================
