-------------------------- MODULE ConnectionProofs --------------------------
(***************************************************************************)
(* Theorems about Connection.  Each connection is at one of a few stages   *)
(* between its first message and yamux, known to both its listening thread *)
(* and the session it belongs to (Owned), unless it was dialled for a      *)
(* session that an earlier dial had left (Stray).  As long as nothing      *)
(* happened that may do harm (Innocent) the one dial there is keeps pace   *)
(* with the stage of its connection (Progress).                            *)
(***************************************************************************)
EXTENDS Connection, SequenceTheorems, TLAPS

Causes == {"redialled", "replaced", "slow", "broken", "garbled", "errored"}
Innocent == events \cap Causes = {}

Gone == {"leave", "ended"}
InSecio == {"propose", "exchange", "nonce"}

\* What was sent and not yet read is q; on a closed socket, the beginning of q.
IsDue(state, in, q) ==
  \/ in = q
  \/ state = "closed" /\ Len(in) <= Len(q) /\ \A i \in 1 .. Len(in) : in[i] = q[i]
Due(c, q) == IsDue(conn[c].state, conn[c].in, q)

\* The session of c is still one of c itself.
Proper(c) == sess[c].conn = c
Top(c, tops) == Proper(c) => sess[c].top \in tops

At(c, tops, pc, ack, verified) ==
  /\ Top(c, tops) /\ listener[c].pc = pc
  /\ conn[c].ack = ack /\ conn[c].verified = verified

\* The remote's request for multistream on top of secio.
LastMs(c) == IF conn[c].accepted \/ conn[c].asks THEN <<"ms">> ELSE <<>>

\* The stages, from the first message to yamux.
Greeting(c) ==
  IF conn[c].accepted
  THEN At(c, {"multi"}, "read", {}, {}) /\ Due(c, <<"ms", "secio">>)
  ELSE At(c, {"raw"}, "read", {}, {}) /\ Due(c, <<"ms">>)
MultiUp(c) ==
  /\ At(c, {"multi"}, "read", {"multi"}, {})
  /\ Due(c, IF conn[c].accepted THEN <<"secio">> ELSE <<>>)
Asked(c) ==
  /\ ~conn[c].accepted /\ At(c, {"secio"}, "read", {"multi"}, {})
  /\ Due(c, <<"secio", "propose">>)
Proposing(c) ==
  /\ At(c, {"secio"}, "propose", {"multi"}, {}) /\ Due(c, <<"propose", "exchange">>)
Exchanging(c) ==
  /\ At(c, {"secio"}, "exchange", {"multi"}, {}) /\ Due(c, <<"exchange", "nonce">>)
Comparing(c) ==
  /\ At(c, {"secio"}, "nonce", {"multi", "secio"}, {"signature"})
  /\ Due(c, <<"nonce">> \o LastMs(c))
Secured(c) ==
  /\ At(c, {"secio"}, "read", {"multi", "secio"}, Checks) /\ Due(c, LastMs(c))
Multi2Up(c) ==
  /\ At(c, {"multi2"}, "read", {"multi", "secio", "multi2"}, Checks)
  /\ Due(c, IF conn[c].accepted THEN <<"yamux">> ELSE <<>>)
YamuxAsked(c) ==
  /\ At(c, {"yamux"}, "read", {"multi", "secio", "multi2"}, Checks) /\ Due(c, <<"yamux">>)
YamuxUp(c) ==
  /\ At(c, {"yamux"}, "read", {"multi", "secio", "multi2", "yamux"}, Checks)
  /\ Due(c, <<>>)
Left(c) ==
  /\ listener[c].pc \in Gone /\ Len(conn[c].in) <= 2
  /\ IF conn[c].verified = Checks
     THEN /\ {"multi", "secio"} \subseteq conn[c].ack
          /\ Top(c, {"secio", "multi2", "yamux"})
          /\ Proper(c) /\ sess[c].top = "multi2" => conn[c].in = <<>>
     ELSE /\ conn[c].ack \subseteq {"multi", "secio"}
          /\ Top(c, IF conn[c].accepted THEN {"multi", "secio"} ELSE {"secio"})

Stage(c) ==
  \/ Greeting(c) \/ MultiUp(c) \/ Asked(c) \/ Proposing(c) \/ Exchanging(c)
  \/ Comparing(c) \/ Secured(c) \/ Multi2Up(c) \/ YamuxAsked(c) \/ YamuxUp(c) \/ Left(c)

\* A session that was moved is on a connection that knows no session.
Owned(c) ==
  /\ conn[c].state # "none" /\ conn[c].owner = c
  /\ sess[c].state # "none" /\ sess[c].conn \in Conns /\ conn[sess[c].conn].state # "none"
  /\ Proper(c) \/ conn[sess[c].conn].owner = 0
  /\ listener[c].sess = c /\ (listener[c].pc \in InSecio => listener[c].conn = c)
  /\ Stage(c)

\* A connection that was dialled for the session of an earlier one.
Stray(c) ==
  LET s == listener[c].sess IN
  /\ conn[c].state # "none" /\ conn[c].owner = 0 /\ ~conn[c].accepted
  /\ conn[c].in = <<"ms">> /\ conn[c].ack = {}
  /\ sess[c].state = "none" /\ listener[c].pc = "read"
  /\ s \in Conns /\ sess[s].state # "none" /\ conn[s].owner = s /\ ~Proper(s)

Unused(c) ==
  conn[c].state = "none" /\ conn[c] = NoConn /\ sess[c].state = "none" /\ listener[c].pc = "none"

Places == \A c \in Conns : Unused(c) \/ Owned(c) \/ Stray(c)

\* A thread that dials is with the session of the peer, until it is freed.
Waiting(d) == dialer[d].pc \notin {"idle", "failed"}
Stays(d) ==
  LET s == dialer[d].sess IN
  Waiting(d) =>
    /\ s \in Conns /\ sess[s].state # "none"
    /\ IsFreed(s) \/ s = peer.sess
    /\ dialer[d].pc = "multi" => ~conn[sess[s].conn].accepted
    /\ dialer[d].pc = "joined" /\ Proper(s) => "yamux" \in conn[s].ack
Dials == \A d \in Dialers : Stays(d)

Known ==
  /\ peer.sess # 0 => sess[peer.sess].state # "none"
  /\ peer.sess # 0 /\ "copied" \notin events => ~IsFreed(peer.sess)
  /\ ~peer.known => peer.sess = 0
  /\ \A c \in Conns : conn[c].agreed /\ (listener[c].temp => "copied" \in events)

\* Only a second dial for a session makes a stray connection.
Redials ==
  "redialled" \notin events => \A c \in Conns : conn[c].state # "none" => conn[c].owner # 0

Unharmed(c) ==
  /\ sess[c].state # "freed"
  /\ conn[c].state # "none" /\ listener[c].pc \notin Gone => conn[c].state = "open"
  /\ sess[c].host = "freed" => listener[c].pc = "ended"

\* How far the connection of a dial is.
Progress(d) ==
  LET s == dialer[d].sess
      pc == dialer[d].pc
  IN
  /\ s = peer.sess /\ ~conn[s].accepted
  /\ pc = "multi" <=> sess[s].top \in {"raw", "multi"}
  /\ pc \in {"type", "secio", "multi2"} => sess[s].top # "yamux"
  /\ pc = "multi2" => "secio" \in conn[s].ack
  /\ pc = "yamux" => sess[s].top = "yamux"
  /\ listener[s].pc \in Gone => "refused" \in events

Peaceful ==
  /\ fault = "none"
  /\ \A c \in Conns : Unharmed(c)
  /\ \A d \in Dialers : dialer[d].pc # "idle" => peer.sess # 0
  /\ \A d \in Dialers : Waiting(d) => Progress(d)
  /\ \A d, e \in Dialers : dialer[d].pc # "idle" /\ dialer[e].pc # "idle" => d = e

Orderly == Innocent => Peaceful

Marks == {"errored", "garbled"}
Errors == events \cap Marks # {} => fault # "none"

IInv == Types /\ Places /\ Dials /\ Known /\ Redials /\ Orderly /\ Errors

\* A remote that does not ask for multistream over secio is not taken for one that
\* does.
Grown == \A c \in Conns : Unasked(c) => Unasked(c)'
Keeps == IInv' /\ Grown

-----------------------------------------------------------------------------
(* Messages that are due.                                                   *)

\* Whoever reads a message reads the next one of those due.
LEMMA DueHead ==
  ASSUME NEW state, NEW in \in Seq(Messages), NEW q \in Seq(Messages),
         IsDue(state, in, q), in # <<>>
  PROVE  q # <<>> /\ Head(in) = Head(q)
<1>1. Len(in) > 0 /\ 1 \in 1 .. Len(in)
  OBVIOUS
<1>2. CASE in = q
  BY <1>2
<1>3. CASE Len(in) <= Len(q) /\ \A i \in 1 .. Len(in) : in[i] = q[i]
  <2>1. in[1] = q[1] /\ Len(q) > 0
    BY <1>1, <1>3
  <2> QED
    BY <1>1, <2>1
<1> QED
  BY <1>2, <1>3 DEF IsDue

\* The others stay due.
LEMMA DueTail ==
  ASSUME NEW state, NEW in \in Seq(Messages), NEW q \in Seq(Messages),
         IsDue(state, in, q), in # <<>>
  PROVE  IsDue(state, Tail(in), Tail(q))
<1>1. q # <<>>
  BY DueHead
<1>2. CASE in = q
  BY <1>2 DEF IsDue
<1>3. CASE state = "closed" /\ Len(in) <= Len(q) /\ \A i \in 1 .. Len(in) : in[i] = q[i]
  <2>1. Len(Tail(in)) <= Len(Tail(q))
    BY <1>1, <1>3
  <2>2. ASSUME NEW i \in 1 .. Len(Tail(in))
        PROVE  Tail(in)[i] = Tail(q)[i]
    <3>1. i + 1 \in 1 .. Len(in) /\ i + 1 \in 1 .. Len(q) /\ i \in 1 .. Len(Tail(q))
      BY <1>1, <1>3, <2>1
    <3>2. Tail(in)[i] = in[i + 1] /\ Tail(q)[i] = q[i + 1]
      BY <1>1, <3>1
    <3> QED
      BY <1>3, <3>1, <3>2
  <2> QED
    BY <1>3, <2>1, <2>2 DEF IsDue
<1> QED
  BY <1>2, <1>3 DEF IsDue

\* A closed socket loses what is sent next.
LEMMA DueMore ==
  ASSUME NEW state, NEW in \in Seq(Messages), NEW q \in Seq(Messages), NEW r \in Seq(Messages),
         IsDue(state, in, q), state \in {"open", "closed"}
  PROVE  IsDue(state, IF state = "open" THEN in \o r ELSE in, q \o r)
<1>1. CASE state = "open"
  BY <1>1 DEF IsDue
<1>2. CASE state = "closed"
  <2>1. Len(in) <= Len(q) /\ \A i \in 1 .. Len(in) : in[i] = q[i]
    BY <1>2 DEF IsDue
  <2>2. Len(in) <= Len(q \o r)
    BY <2>1
  <2>3. \A i \in 1 .. Len(in) : in[i] = (q \o r)[i]
    BY <2>1
  <2> QED
    BY <1>2, <2>2, <2>3 DEF IsDue
<1> QED
  BY <1>1, <1>2

LEMMA DueShort ==
  ASSUME NEW state, NEW in \in Seq(Messages), NEW q \in Seq(Messages), IsDue(state, in, q)
  PROVE  Len(in) <= Len(q) /\ IsDue("closed", in, q)
BY DEF IsDue

LEMMA PairConcat ==
  ASSUME NEW a \in Messages, NEW b \in Messages
  PROVE  <<a>> \o <<b>> = <<a, b>>
<1>1. ASSUME NEW p \in Seq(Messages), NEW q \in Seq(Messages), NEW t \in Seq(Messages),
             Len(p) = 1, Len(q) = 1, Len(t) = 2, p[1] = t[1], q[1] = t[2]
      PROVE  p \o q = t
  <2>1. p \o q \in Seq(Messages) /\ Len(p \o q) = 2
    <3>1. p \o q \in Seq(Messages) /\ Len(p \o q) = Len(p) + Len(q)
      BY ConcatProperties
    <3> QED
      BY <1>1, <3>1
  <2>2. (p \o q)[1] = t[1]
    <3>1. 1 \in 1 .. Len(p) + Len(q) /\ 1 <= Len(p)
      BY <1>1
    <3>2. (p \o q)[1] = IF 1 <= Len(p) THEN p[1] ELSE q[1 - Len(p)]
      BY <3>1, ConcatProperties
    <3> QED
      BY <1>1, <3>1, <3>2
  <2>3. (p \o q)[2] = t[2]
    <3>1. 2 \in 1 .. Len(p) + Len(q) /\ 2 - Len(p) = 1 /\ ~(2 <= Len(p))
      BY <1>1
    <3>2. (p \o q)[2] = IF 2 <= Len(p) THEN p[2] ELSE q[2 - Len(p)]
      BY <3>1, ConcatProperties
    <3> QED
      BY <1>1, <3>1, <3>2
  <2>4. \A i \in 1 .. Len(p \o q) : (p \o q)[i] = t[i]
    BY <2>1, <2>2, <2>3
  <2> QED
    BY <1>1, <2>1, <2>4, SeqEqual
<1>2. /\ <<a>> \in Seq(Messages) /\ <<b>> \in Seq(Messages) /\ <<a, b>> \in Seq(Messages)
      /\ Len(<<a>>) = 1 /\ Len(<<b>>) = 1 /\ Len(<<a, b>>) = 2
      /\ <<a>>[1] = <<a, b>>[1] /\ <<b>>[1] = <<a, b>>[2]
  OBVIOUS
<1> QED
  BY <1>1, <1>2

\* The lists of messages that the stages name.
LEMMA Lists ==
  /\ \A a \in Messages : /\ <<a>> \in Seq(Messages) /\ <<a>> # <<>> /\ Len(<<a>>) = 1
                         /\ Head(<<a>>) = a /\ Tail(<<a>>) = <<>>
  /\ \A a, b \in Messages : /\ <<a, b>> \in Seq(Messages) /\ <<a, b>> # <<>>
                            /\ Len(<<a, b>>) = 2 /\ <<a>> \o <<b>> = <<a, b>>
                            /\ Head(<<a, b>>) = a /\ Tail(<<a, b>>) = <<b>>
  /\ <<>> \in Seq(Messages) /\ Len(<<>>) = 0
  /\ \A q \in Seq(Messages) : q \o <<>> = q /\ <<>> \o q = q
<1>1. ASSUME NEW a \in Messages
      PROVE  /\ <<a>> \in Seq(Messages) /\ <<a>> # <<>> /\ Len(<<a>>) = 1
             /\ Head(<<a>>) = a /\ Tail(<<a>>) = <<>>
  OBVIOUS
<1>2. ASSUME NEW a \in Messages, NEW b \in Messages
      PROVE  /\ <<a, b>> \in Seq(Messages) /\ <<a, b>> # <<>>
             /\ Len(<<a, b>>) = 2 /\ <<a>> \o <<b>> = <<a, b>>
             /\ Head(<<a, b>>) = a /\ Tail(<<a, b>>) = <<b>>
  <2>1. <<a, b>> \in Seq(Messages) /\ <<a, b>> # <<>> /\ Len(<<a, b>>) = 2
    OBVIOUS
  <2>2. Head(<<a, b>>) = a
    OBVIOUS
  <2>3. Tail(<<a, b>>) = <<b>>
    OBVIOUS
  <2>4. <<a>> \o <<b>> = <<a, b>>
    BY PairConcat
  <2> QED
    BY <2>1, <2>2, <2>3, <2>4
<1>3. <<>> \in Seq(Messages) /\ Len(<<>>) = 0
  OBVIOUS
<1>4. ASSUME NEW q \in Seq(Messages)
      PROVE  q \o <<>> = q /\ <<>> \o q = q
  OBVIOUS
<1> QED
  BY <1>1, <1>2, <1>3, <1>4

-----------------------------------------------------------------------------
(* The operators that change a connection or a session.                     *)

\* All of a connection but what was read, what is acknowledged and verified.
Alike(r, t) ==
  /\ r.state = t.state /\ r.owner = t.owner /\ r.accepted = t.accepted
  /\ r.asks = t.asks /\ r.errno = t.errno /\ r.agreed = t.agreed

LEMMA ReplyType ==
  ASSUME Types, NEW c \in Conns, NEW m \in Messages
  PROVE  Reply(c, m) \in Seq(Messages)
<1>1. {<<>>, <<"propose">>, <<"secio", "propose">>, <<"exchange">>, <<"nonce">>, <<"ms">>,
       <<"yamux">>} \subseteq Seq(Messages)
  BY Lists DEF Messages
<1> QED
  BY <1>1 DEF Reply, Messages, Types, ConnType

LEMMA WriteFacts ==
  ASSUME Types, NEW cn \in [Conns -> ConnType], NEW c \in Conns, NEW m \in Messages
  PROVE  /\ Write(cn, c, m) \in [Conns -> ConnType]
         /\ \A b \in Conns \ {c} : Write(cn, c, m)[b] = cn[b]
         /\ Alike(Write(cn, c, m)[c], cn[c]) /\ Write(cn, c, m)[c].verified = cn[c].verified
         /\ Write(cn, c, m)[c].ack = cn[c].ack
         /\ Write(cn, c, m)[c].in =
              IF cn[c].state = "open" THEN cn[c].in \o Reply(c, m) ELSE cn[c].in
<1>1. Reply(c, m) \in Seq(Messages)
  BY ReplyType
<1>2. cn[c].in \o Reply(c, m) \in Seq(Messages)
  BY <1>1 DEF ConnType
<1>3. [cn[c] EXCEPT !.in = cn[c].in \o Reply(c, m)] \in ConnType
  BY <1>2 DEF ConnType
<1>4. CASE cn[c].state = "open"
  <2>1. Write(cn, c, m) = [cn EXCEPT ![c] = [cn[c] EXCEPT !.in = cn[c].in \o Reply(c, m)]]
    BY <1>4 DEF Write
  <2>2. Write(cn, c, m)[c] = [cn[c] EXCEPT !.in = cn[c].in \o Reply(c, m)]
    BY <2>1
  <2> QED
    BY <1>3, <1>4, <2>1, <2>2, ZenonT(60) DEF Alike, ConnType
<1>5. CASE cn[c].state # "open"
  BY <1>5 DEF Write, Alike
<1> QED
  BY <1>4, <1>5

LEMMA AckFacts ==
  ASSUME NEW cn \in [Conns -> ConnType], NEW c \in Conns, NEW layer \in Layers
  PROVE  /\ Ack(cn, c, layer) \in [Conns -> ConnType]
         /\ \A b \in Conns \ {c} : Ack(cn, c, layer)[b] = cn[b]
         /\ Alike(Ack(cn, c, layer)[c], cn[c])
         /\ Ack(cn, c, layer)[c].verified = cn[c].verified
         /\ Ack(cn, c, layer)[c].in = cn[c].in
         /\ Ack(cn, c, layer)[c].ack = cn[c].ack \cup {layer}
<1>1. [cn[c] EXCEPT !.ack = cn[c].ack \cup {layer}] \in ConnType
  BY DEF ConnType
<1>2. Ack(cn, c, layer) = [cn EXCEPT ![c] = [cn[c] EXCEPT !.ack = cn[c].ack \cup {layer}]]
  BY DEF Ack
<1>3. Ack(cn, c, layer)[c] = [cn[c] EXCEPT !.ack = cn[c].ack \cup {layer}]
  BY <1>2
<1> QED
  BY <1>1, <1>2, <1>3 DEF Alike, ConnType

LEMMA NotChecks == {} # Checks /\ {"signature"} # Checks /\ {"signature"} \cup {"nonce"} = Checks
BY DEF Checks

LEMMA TookFacts ==
  ASSUME Types, NEW c \in Conns, conn[c].in # <<>>
  PROVE  /\ Took(c) \in [Conns -> ConnType]
         /\ \A b \in Conns \ {c} : Took(c)[b] = conn[b]
         /\ Alike(Took(c)[c], conn[c]) /\ Took(c)[c].verified = conn[c].verified
         /\ Took(c)[c].ack = conn[c].ack /\ Took(c)[c].in = Tail(conn[c].in)
<1>1. Tail(conn[c].in) \in Seq(Messages)
  BY DEF Types, ConnType
<1>2. conn[c] \in ConnType /\ conn \in [Conns -> ConnType]
  BY DEF Types
<1>3. [conn[c] EXCEPT !.in = Tail(conn[c].in)] \in ConnType
  BY <1>1, <1>2 DEF ConnType
<1>4. Took(c) = [conn EXCEPT ![c] = [conn[c] EXCEPT !.in = Tail(conn[c].in)]]
  BY DEF Took
<1>5. Took(c)[c] = [conn[c] EXCEPT !.in = Tail(conn[c].in)]
  BY <1>2, <1>4
<1> QED
  BY <1>2, <1>3, <1>4, <1>5 DEF Alike, ConnType

LEMMA UpgradeFacts ==
  ASSUME Types, NEW c \in Conns, NEW layer \in Layers, conn[c].owner \in {0, c}
  PROVE  /\ Upgrade(c, layer) \in [Conns -> SessType]
         /\ conn[c].owner = 0 => Upgrade(c, layer) = sess
         /\ conn[c].owner = c => /\ \A b \in Conns \ {c} : Upgrade(c, layer)[b] = sess[b]
                                 /\ Upgrade(c, layer)[c] = [sess[c] EXCEPT !.top = layer]
<1>1. c # 0
  BY DEF Conns
<1>2. sess[c] \in SessType /\ sess \in [Conns -> SessType]
  BY DEF Types
<1>3. [sess[c] EXCEPT !.top = layer] \in SessType
  BY <1>2 DEF SessType
<1>4. CASE conn[c].owner = 0
  BY <1>1, <1>2, <1>4 DEF Upgrade
<1>5. CASE conn[c].owner = c
  BY <1>1, <1>2, <1>3, <1>5 DEF Upgrade
<1> QED
  BY <1>4, <1>5

LEMMA FreedFacts ==
  ASSUME Types, NEW s \in Conns
  PROVE  /\ Freed(s) \in [Conns -> SessType]
         /\ \A b \in Conns \ {s} : Freed(s)[b] = sess[b]
         /\ Freed(s)[s] = [sess[s] EXCEPT !.state = "freed"]
BY DEF Freed, Types, SessType

\* Freeing a session does not make a socket of a connection that has none.
LEMMA DroppedFacts ==
  ASSUME Types, NEW s \in Conns, sess[s].conn \in Conns
  PROVE  /\ Dropped(s) \in [Conns -> ConnType]
         /\ \A b \in Conns \ {sess[s].conn} : Dropped(s)[b] = conn[b]
         /\ Dropped(s)[sess[s].conn] \in
              {conn[sess[s].conn], [conn[sess[s].conn] EXCEPT !.state = "closed"]}
<1> DEFINE c == sess[s].conn
<1>1. conn[c] \in ConnType /\ conn \in [Conns -> ConnType] /\ c \in Conns
  BY DEF Types
<1>2. [conn[c] EXCEPT !.state = "closed"] \in ConnType
  BY <1>1 DEF ConnType
<1>3. Dropped(s) \in {conn, [conn EXCEPT ![c] = [conn[c] EXCEPT !.state = "closed"]]}
  BY DEF Dropped
<1> QED
  BY <1>1, <1>2, <1>3

-----------------------------------------------------------------------------
(* What a step leaves alone.                                                *)

\* The stage of b stays: at most its socket is closed or its session freed.
Still(b) ==
  /\ conn'[b].in = conn[b].in /\ conn'[b].ack = conn[b].ack
  /\ conn'[b].verified = conn[b].verified /\ conn'[b].accepted = conn[b].accepted
  /\ conn'[b].asks = conn[b].asks
  /\ conn'[b].state \in {conn[b].state, "closed"}
  /\ conn[b].state = "none" => conn'[b] = conn[b]
  /\ sess'[b].top = sess[b].top
  /\ listener'[b].pc = listener[b].pc /\ listener'[b].sess = listener[b].sess
  /\ listener'[b].conn = listener[b].conn

\* Who belongs to whom stays.
Kept(b) ==
  /\ conn'[b].owner = conn[b].owner /\ (conn'[b].state = "none" <=> conn[b].state = "none")
  /\ sess'[b].conn = sess[b].conn /\ (sess'[b].state = "none" <=> sess[b].state = "none")

LEMMA ConnFields ==
  ASSUME Types, NEW c \in Conns
  PROVE  /\ conn[c].state \in {"none", "open", "closed"} /\ conn[c].in \in Seq(Messages)
         /\ conn[c].accepted \in BOOLEAN /\ conn[c].asks \in BOOLEAN
         /\ conn[c].verified \subseteq Checks
         /\ conn[c].ack \subseteq Layers /\ conn[c].owner \in 0 .. MaxConns
         /\ conn[c].errno \in BOOLEAN /\ conn[c].agreed \in BOOLEAN
         /\ sess[c].state \in {"none", "live", "freed"} /\ sess[c].conn \in 0 .. MaxConns
         /\ sess[c].top \in Layers /\ sess[c].host \in {"none", "set", "freed"}
         /\ listener[c].pc \in Steps /\ listener[c].sess \in 0 .. MaxConns
         /\ listener[c].conn \in 0 .. MaxConns /\ listener[c].temp \in BOOLEAN
         /\ conn[c] \in ConnType /\ sess[c] \in SessType
         /\ conn \in [Conns -> ConnType] /\ sess \in [Conns -> SessType]
BY DEF Types, ConnType, SessType

LEMMA DueStays ==
  ASSUME Types, NEW b \in Conns, NEW q \in Seq(Messages), conn[b].state # "none",
         conn'[b].in = conn[b].in, conn'[b].state \in {conn[b].state, "closed"}, Due(b, q)
  PROVE  IsDue(conn'[b].state, conn'[b].in, q)
<1>1. IsDue(conn[b].state, conn[b].in, q) /\ conn[b].in \in Seq(Messages)
  BY ConnFields DEF Due
<1>2. IsDue("closed", conn[b].in, q)
  BY <1>1, DueShort
<1> QED
  BY <1>1, <1>2

\* Every list of messages of a stage is one.
LEMMA StageLists ==
  /\ \A c : LastMs(c) \in Seq(Messages)
  /\ \A c : <<"nonce">> \o LastMs(c) \in Seq(Messages) /\ Head(<<"nonce">> \o LastMs(c)) = "nonce"
            /\ Tail(<<"nonce">> \o LastMs(c)) = LastMs(c) /\ <<"nonce">> \o LastMs(c) # <<>>
  /\ {<<>>, <<"ms">>, <<"secio">>, <<"yamux">>, <<"nonce">>, <<"ms", "secio">>, <<"secio", "propose">>,
      <<"propose", "exchange">>, <<"exchange", "nonce">>} \subseteq Seq(Messages)
<1>1. "ms" \in Messages /\ "secio" \in Messages /\ "propose" \in Messages
      /\ "exchange" \in Messages /\ "nonce" \in Messages /\ "yamux" \in Messages
  BY DEF Messages
<1>2. \A c : LastMs(c) \in {<<>>, <<"ms">>}
  BY DEF LastMs
<1>3. /\ <<>> \in Seq(Messages) /\ <<"ms">> \in Seq(Messages)
      /\ <<"nonce">> \in Seq(Messages) /\ <<"nonce", "ms">> \in Seq(Messages)
      /\ <<"nonce">> \o <<>> = <<"nonce">> /\ <<"nonce">> \o <<"ms">> = <<"nonce", "ms">>
      /\ Head(<<"nonce">>) = "nonce" /\ Head(<<"nonce", "ms">>) = "nonce"
      /\ Tail(<<"nonce">>) = <<>> /\ Tail(<<"nonce", "ms">>) = <<"ms">>
      /\ <<"nonce">> # <<>> /\ <<"nonce", "ms">> # <<>>
  BY <1>1, Lists
<1>4. ASSUME NEW c
      PROVE  /\ LastMs(c) \in Seq(Messages)
             /\ <<"nonce">> \o LastMs(c) \in Seq(Messages)
             /\ Head(<<"nonce">> \o LastMs(c)) = "nonce"
             /\ Tail(<<"nonce">> \o LastMs(c)) = LastMs(c) /\ <<"nonce">> \o LastMs(c) # <<>>
  <2>1. CASE LastMs(c) = <<>>
    BY <1>3, <2>1
  <2>2. CASE LastMs(c) = <<"ms">>
    BY <1>3, <2>2
  <2> QED
    BY <1>2, <2>1, <2>2
<1> QED
  BY <1>1, <1>4, Lists

LEMMA AtStays ==
  ASSUME NEW b \in Conns, Still(b), sess'[b].conn = sess[b].conn,
         NEW tops, NEW pc, NEW ack, NEW verified, At(b, tops, pc, ack, verified)
  PROVE  At(b, tops, pc, ack, verified)'
BY DEF At, Top, Proper, Still

LEMMA StageStays ==
  ASSUME Types, NEW b \in Conns, conn[b].state # "none", Still(b), sess'[b].conn = sess[b].conn,
         Stage(b)
  PROVE  Stage(b)'
<1>1. \A q \in Seq(Messages) : Due(b, q) => IsDue(conn'[b].state, conn'[b].in, q)
  BY DueStays DEF Still
<1>2. conn'[b].accepted = conn[b].accepted /\ LastMs(b)' = LastMs(b)
  BY DEF Still, LastMs
<1>3. CASE Greeting(b)
  <2>1. Greeting(b)'
    BY <1>1, <1>2, <1>3, AtStays, StageLists DEF Greeting, Due
  <2> QED
    BY <2>1 DEF Stage
<1>4. CASE MultiUp(b)
  <2>1. MultiUp(b)'
    BY <1>1, <1>2, <1>4, AtStays, StageLists DEF MultiUp, Due
  <2> QED
    BY <2>1 DEF Stage
<1>5. CASE Asked(b)
  <2>1. Asked(b)'
    BY <1>1, <1>2, <1>5, AtStays, StageLists DEF Asked, Due
  <2> QED
    BY <2>1 DEF Stage
<1>6. CASE Proposing(b)
  <2>1. Proposing(b)'
    BY <1>1, <1>2, <1>6, AtStays, StageLists DEF Proposing, Due
  <2> QED
    BY <2>1 DEF Stage
<1>7. CASE Exchanging(b)
  <2>1. Exchanging(b)'
    BY <1>1, <1>2, <1>7, AtStays, StageLists DEF Exchanging, Due
  <2> QED
    BY <2>1 DEF Stage
<1>8. CASE Comparing(b)
  <2>1. Comparing(b)'
    BY <1>1, <1>2, <1>8, AtStays, StageLists DEF Comparing, Due
  <2> QED
    BY <2>1 DEF Stage
<1>9. CASE Secured(b)
  <2>1. Secured(b)'
    BY <1>1, <1>2, <1>9, AtStays, StageLists DEF Secured, Due
  <2> QED
    BY <2>1 DEF Stage
<1>10. CASE Multi2Up(b)
  <2>1. Multi2Up(b)'
    BY <1>1, <1>2, <1>10, AtStays, StageLists DEF Multi2Up, Due
  <2> QED
    BY <2>1 DEF Stage
<1>11. CASE YamuxAsked(b)
  <2>1. YamuxAsked(b)'
    BY <1>1, <1>2, <1>11, AtStays, StageLists DEF YamuxAsked, Due
  <2> QED
    BY <2>1 DEF Stage
<1>12. CASE YamuxUp(b)
  <2>1. YamuxUp(b)'
    BY <1>1, <1>2, <1>12, AtStays, StageLists DEF YamuxUp, Due
  <2> QED
    BY <2>1 DEF Stage
<1>13. CASE Left(b)
  <2>1. Left(b)'
    BY <1>2, <1>13 DEF Left, Top, Proper, Still
  <2> QED
    BY <2>1 DEF Stage
<1> QED
  BY <1>3, <1>4, <1>5, <1>6, <1>7, <1>8, <1>9, <1>10, <1>11, <1>12, <1>13 DEF Stage

\* A step within connection c, if it leaves c in order, leaves all in order.
LEMMA PlacesKept ==
  ASSUME Types, Places, \A x \in Conns : Kept(x), NEW c \in Conns,
         \A b \in Conns \ {c} : Still(b), (Unused(c) \/ Owned(c) \/ Stray(c))'
  PROVE  Places'
<1> SUFFICES ASSUME NEW b \in Conns \ {c}
             PROVE  (Unused(b) \/ Owned(b) \/ Stray(b))'
  BY DEF Places
<1>1. Still(b) /\ Kept(b) /\ (\A x \in Conns : Proper(x)' <=> Proper(x))
  BY DEF Kept, Proper
<1>2. CASE Unused(b)
  <2>1. Unused(b)'
    BY <1>1, <1>2 DEF Unused, Still, Kept
  <2> QED
    BY <2>1
<1>3. CASE Owned(b)
  <2>1. Stage(b)'
    BY <1>1, <1>3, StageStays DEF Owned, Kept
  <2>2. Owned(b)'
    BY <1>1, <1>3, <2>1 DEF Owned, Still, Kept
  <2> QED
    BY <2>2
<1>4. CASE Stray(b)
  <2>1. Stray(b)'
    BY <1>1, <1>4 DEF Stray, Still, Kept
  <2> QED
    BY <2>1
<1> QED
  BY <1>2, <1>3, <1>4 DEF Places

-----------------------------------------------------------------------------
(* Sessions and their connections.                                          *)

\* A session belongs to a connection that owns itself.
LEMMA SessionOwned ==
  ASSUME Places, NEW s \in Conns, sess[s].state # "none"
  PROVE  Owned(s)
BY DEF Places, Unused, Stray

\* Where nobody dialled again each connection has its session.
LEMMA Straight ==
  ASSUME Places, Redials, "redialled" \notin events, NEW c \in Conns, conn[c].state # "none"
  PROVE  Owned(c) /\ Proper(c)
<1>1. conn[c].owner # 0
  BY DEF Redials
<1>2. Owned(c)
  BY <1>1 DEF Places, Unused, Stray
<1>3. conn[sess[c].conn].owner # 0
  BY <1>2 DEF Owned, Redials
<1> QED
  BY <1>2, <1>3 DEF Owned

\* A thread that reads is with its own connection, or with one that knows none.
LEMMA Reading ==
  ASSUME Types, Places, NEW l \in Conns, listener[l].pc = "read"
  PROVE  /\ ReadsFrom(l) \in Conns
         /\ \/ Owned(l) /\ Proper(l) /\ ReadsFrom(l) = l
            \/ Owner(l) = 0
<1>1. Owned(l) \/ Stray(l)
  BY DEF Places, Unused
<1>2. CASE Owned(l)
  BY <1>2 DEF Owned, Proper, ReadsFrom, Owner
<1>3. CASE Stray(l)
  <2> DEFINE s == listener[l].sess
  <2>1. s \in Conns /\ sess[s].state # "none" /\ ~Proper(s)
    BY <1>3 DEF Stray
  <2>2. Owned(s)
    BY <2>1, SessionOwned
  <2> QED
    BY <2>1, <2>2 DEF Owned, Proper, ReadsFrom, Owner
<1> QED
  BY <1>1, <1>2, <1>3

LEMMA Hearing ==
  ASSUME Types, Places, NEW l \in Conns, NEW m, Hears(l, m)
  PROVE  /\ Owned(l) /\ Proper(l) /\ ReadsFrom(l) = l /\ Owner(l) = l
         /\ listener[l].pc = "read" /\ listener[l].sess = l
         /\ conn[l].in # <<>> /\ Head(conn[l].in) = m /\ ~IsFreed(l) /\ Up
<1>1. listener[l].pc = "read" /\ Owner(l) # 0
  BY DEF Hears
<1>2. Owned(l) /\ Proper(l) /\ ReadsFrom(l) = l
  BY <1>1, Reading
<1> QED
  BY <1>1, <1>2 DEF Hears, Owned, Owner

\* In the handshake a thread is on its own connection, which may have lost the
\* session.
LEMMA Shaking ==
  ASSUME Types, Places, NEW l \in Conns, listener[l].pc \in InSecio \cup Gone
  PROVE  Owned(l) /\ listener[l].sess = l /\ (listener[l].pc \in InSecio => listener[l].conn = l)
BY DEF Places, Unused, Stray, Owned, InSecio, Gone

\* What may be read at which stage.
LEMMA NextDue ==
  ASSUME Types, NEW c \in Conns, NEW q \in Seq(Messages), Due(c, q), conn[c].in # <<>>
  PROVE  q # <<>> /\ Head(conn[c].in) = Head(q)
BY ConnFields, DueHead DEF Due

LEMMA NothingDue ==
  ASSUME Types, NEW c \in Conns, Due(c, <<>>)
  PROVE  conn[c].in = <<>>
BY Lists, NextDue

LEMMA HeardMs ==
  ASSUME Types, NEW l \in Conns, Stage(l), listener[l].pc = "read",
         conn[l].in # <<>>, Head(conn[l].in) = "ms"
  PROVE  Greeting(l) \/ (Secured(l) /\ LastMs(l) = <<"ms">>)
<1>1. ~Due(l, <<>>)
  BY NothingDue
<1>2. ASSUME NEW q \in Seq(Messages), Head(q) # "ms"
      PROVE  ~Due(l, q)
  BY <1>2, NextDue
<1>3. /\ Head(<<"secio">>) = "secio" /\ Head(<<"yamux">>) = "yamux"
      /\ Head(<<"secio", "propose">>) = "secio"
  BY Lists DEF Messages
<1>4. ~Due(l, <<"secio">>) /\ ~Due(l, <<"yamux">>) /\ ~Due(l, <<"secio", "propose">>)
  BY <1>2, <1>3, StageLists
<1>5. ~MultiUp(l) /\ ~Asked(l) /\ ~Multi2Up(l) /\ ~YamuxAsked(l) /\ ~YamuxUp(l)
  BY <1>1, <1>4 DEF MultiUp, Asked, Multi2Up, YamuxAsked, YamuxUp
<1>6. ~Proposing(l) /\ ~Exchanging(l) /\ ~Comparing(l) /\ ~Left(l)
  BY DEF Proposing, Exchanging, Comparing, Left, At, Gone
<1>7. Secured(l) => LastMs(l) = <<"ms">>
  BY <1>1 DEF Secured, LastMs
<1> QED
  BY <1>5, <1>6, <1>7 DEF Stage

LEMMA HeardSecio ==
  ASSUME Types, NEW l \in Conns, Stage(l), listener[l].pc = "read",
         conn[l].in # <<>>, Head(conn[l].in) = "secio"
  PROVE  (MultiUp(l) /\ conn[l].accepted) \/ Asked(l)
<1>1. ~Due(l, <<>>)
  BY NothingDue
<1>2. ASSUME NEW q \in Seq(Messages), Head(q) # "secio"
      PROVE  ~Due(l, q)
  BY <1>2, NextDue
<1>3. /\ Head(<<"ms">>) = "ms" /\ Head(<<"yamux">>) = "yamux"
      /\ Head(<<"ms", "secio">>) = "ms"
  BY Lists DEF Messages
<1>4. ~Due(l, <<"ms">>) /\ ~Due(l, <<"yamux">>) /\ ~Due(l, <<"ms", "secio">>)
  BY <1>2, <1>3, StageLists
<1>5. ~Greeting(l) /\ ~Secured(l) /\ ~Multi2Up(l) /\ ~YamuxAsked(l) /\ ~YamuxUp(l)
  BY <1>1, <1>4 DEF Greeting, Secured, LastMs, Multi2Up, YamuxAsked, YamuxUp
<1>6. ~Proposing(l) /\ ~Exchanging(l) /\ ~Comparing(l) /\ ~Left(l)
  BY DEF Proposing, Exchanging, Comparing, Left, At, Gone
<1>7. MultiUp(l) => conn[l].accepted
  BY <1>1 DEF MultiUp
<1> QED
  BY <1>5, <1>6, <1>7 DEF Stage

LEMMA HeardYamux ==
  ASSUME Types, NEW l \in Conns, Stage(l), listener[l].pc = "read",
         conn[l].in # <<>>, Head(conn[l].in) = "yamux"
  PROVE  (Multi2Up(l) /\ conn[l].accepted) \/ YamuxAsked(l)
<1>1. ~Due(l, <<>>)
  BY NothingDue
<1>2. ASSUME NEW q \in Seq(Messages), Head(q) # "yamux"
      PROVE  ~Due(l, q)
  BY <1>2, NextDue
<1>3. /\ Head(<<"ms">>) = "ms" /\ Head(<<"secio">>) = "secio"
      /\ Head(<<"ms", "secio">>) = "ms" /\ Head(<<"secio", "propose">>) = "secio"
  BY Lists DEF Messages
<1>4. /\ ~Due(l, <<"ms">>) /\ ~Due(l, <<"secio">>) /\ ~Due(l, <<"ms", "secio">>)
      /\ ~Due(l, <<"secio", "propose">>)
  BY <1>2, <1>3, StageLists
<1>5. ~Greeting(l) /\ ~MultiUp(l) /\ ~Asked(l) /\ ~Secured(l) /\ ~YamuxUp(l)
  BY <1>1, <1>4 DEF Greeting, MultiUp, Asked, Secured, LastMs, YamuxUp
<1>6. ~Proposing(l) /\ ~Exchanging(l) /\ ~Comparing(l) /\ ~Left(l)
  BY DEF Proposing, Exchanging, Comparing, Left, At, Gone
<1>7. Multi2Up(l) => conn[l].accepted
  BY <1>1 DEF Multi2Up
<1> QED
  BY <1>5, <1>6, <1>7 DEF Stage

-----------------------------------------------------------------------------
(* Steps of a listening thread on its own connection.                       *)

\* Nobody notices but the thread and those who wait for a layer of c.
Within(c) ==
  /\ \A x \in Conns : Kept(x)
  /\ \A x \in Conns \ {c} : Still(x) /\ sess'[x].host = sess[x].host
  /\ \A x \in Conns :
       /\ sess'[x].state = sess[x].state /\ conn'[x].state = conn[x].state
       /\ conn'[x].accepted = conn[x].accepted /\ conn[x].ack \subseteq conn'[x].ack
       /\ conn'[x].asks = conn[x].asks
       /\ conn'[x].agreed = conn[x].agreed /\ listener'[x].temp = listener[x].temp
  /\ sess'[c].host = "freed" =>
       listener'[c].pc = "ended" \/ (sess[c].host = "freed" /\ listener[c].pc # "ended")
  /\ listener[c].pc \in Gone => listener'[c].pc \in Gone
  /\ ~conn[c].accepted /\ Proper(c) =>
       /\ sess'[c].top \in {"raw", "multi"} <=> sess[c].top \in {"raw", "multi"}
       /\ sess'[c].top = "yamux" <=> sess[c].top = "yamux"
  /\ Innocent' /\ listener'[c].pc \in Gone => listener[c].pc \in Gone \/ "refused" \in events'
  /\ events \subseteq events' /\ events' \cap Marks \subseteq events
  /\ UNCHANGED <<fault, peer, dialer>>

LEMMA EventsGrow ==
  ASSUME events \subseteq events'
  PROVE  (Innocent' => Innocent) /\ \A e : e \in events => e \in events'
BY DEF Innocent

LEMMA DialsKept ==
  ASSUME IInv, \A x \in Conns : Kept(x),
         \A x \in Conns : /\ sess'[x].state = sess[x].state /\ conn'[x].accepted = conn[x].accepted
                          /\ conn[x].ack \subseteq conn'[x].ack,
         dialer' = dialer, peer' = peer
  PROVE  Dials'
<1> SUFFICES ASSUME NEW d \in Dialers, Waiting(d)'
             PROVE  Stays(d)'
  BY DEF Dials, Stays
<1> DEFINE s == dialer[d].sess
<1>1. Waiting(d) /\ Stays(d)
  BY DEF Waiting, IInv, Dials
<1>2. s \in Conns /\ sess[s].state # "none" /\ sess[s].conn \in Conns
  BY <1>1, SessionOwned DEF Stays, IInv, Owned
<1>3. sess'[s].conn = sess[s].conn /\ (Proper(s)' => Proper(s)) /\ (IsFreed(s)' <=> IsFreed(s))
  BY <1>2 DEF Kept, Proper, IsFreed
<1> QED
  BY <1>1, <1>2, <1>3 DEF Stays, Waiting

LEMMA KnownKept ==
  ASSUME IInv, \A x \in Conns : Kept(x), events \subseteq events',
         \A x \in Conns : /\ sess'[x].state = sess[x].state /\ conn'[x].agreed = conn[x].agreed
                          /\ listener'[x].temp = listener[x].temp,
         peer' = peer
  PROVE  Known'
<1>1. peer.sess # 0 => peer.sess \in Conns
  BY DEF IInv, Types, Conns
<1> QED
  BY <1>1 DEF IInv, Known, IsFreed

LEMMA RedialsKept ==
  ASSUME IInv, \A x \in Conns : Kept(x), events \subseteq events'
  PROVE  Redials'
BY DEF IInv, Redials, Kept

\* In peace a dial waits on its own session.
LEMMA DialsInPeace ==
  ASSUME IInv, Innocent, NEW d \in Dialers, Waiting(d)
  PROVE  LET s == dialer[d].sess IN
         s \in Conns /\ Owned(s) /\ Proper(s) /\ Progress(d) /\ ~conn[s].accepted /\ sess[s].state = "live"
<1> DEFINE s == dialer[d].sess
<1>1. s \in Conns /\ sess[s].state # "none"
  BY DEF IInv, Dials, Stays
<1>2. Owned(s)
  BY <1>1, SessionOwned DEF IInv
<1>3. "redialled" \notin events
  BY DEF Innocent, Causes
<1>4. Proper(s)
  BY <1>1, <1>2, <1>3, Straight DEF IInv, Owned
<1>5. Progress(d) /\ Unharmed(s)
  BY <1>1 DEF IInv, Orderly, Peaceful
<1>6. sess[s].state = "live"
  BY <1>1, <1>5, ConnFields DEF Unharmed, IInv
<1> QED
  BY <1>1, <1>2, <1>4, <1>5, <1>6 DEF Progress

LEMMA WithinOrderly ==
  ASSUME IInv, NEW c \in Conns, Within(c)
  PROVE  Orderly'
<1> SUFFICES ASSUME Innocent'
             PROVE  Peaceful'
  BY DEF Orderly
<1>1. Innocent /\ Peaceful /\ events \subseteq events'
  BY EventsGrow DEF Within, IInv, Orderly
<1>2. fault' = "none"
  BY <1>1 DEF Within, Peaceful
<1>3. ASSUME NEW x \in Conns
      PROVE  Unharmed(x)'
  <2>1. Unharmed(x) /\ sess'[x].state = sess[x].state /\ conn'[x].state = conn[x].state
    BY <1>1 DEF Peaceful, Within
  <2>2. CASE x = c
    BY <2>1, <2>2 DEF Within, Unharmed, Gone
  <2>3. CASE x # c
    <3>1. sess'[x].host = sess[x].host /\ listener'[x].pc = listener[x].pc
      BY <2>3 DEF Within, Still
    <3> QED
      BY <2>1, <3>1 DEF Unharmed
  <2> QED
    BY <2>2, <2>3
<1>4. ASSUME NEW d \in Dialers, Waiting(d)'
      PROVE  Progress(d)'
  <2> DEFINE s == dialer[d].sess
  <2>1. Waiting(d) /\ dialer' = dialer /\ peer' = peer
    BY <1>4 DEF Waiting, Within
  <2>2. s \in Conns /\ Proper(s) /\ Progress(d) /\ ~conn[s].accepted
    BY <1>1, <2>1, DialsInPeace
  <2>3. conn'[s].accepted = conn[s].accepted /\ conn[s].ack \subseteq conn'[s].ack
    BY <2>2 DEF Within
  <2>4. /\ sess'[s].top \in {"raw", "multi"} <=> sess[s].top \in {"raw", "multi"}
        /\ sess'[s].top = "yamux" <=> sess[s].top = "yamux"
        /\ listener'[s].pc \in Gone => listener[s].pc \in Gone \/ "refused" \in events'
    <3>1. CASE s = c
      BY <2>2, <3>1 DEF Within
    <3>2. CASE s # c
      BY <2>2, <3>2 DEF Within, Still
    <3> QED
      BY <3>1, <3>2
  <2> QED
    BY <1>1, <2>1, <2>2, <2>3, <2>4 DEF Progress
<1>5. dialer' = dialer /\ peer' = peer
  BY DEF Within
<1> QED
  BY <1>1, <1>2, <1>3, <1>4, <1>5 DEF Peaceful

LEMMA WithinKeeps ==
  ASSUME IInv, NEW c \in Conns, Within(c), Types', Owned(c)'
  PROVE  Keeps
<1>1. Places'
  BY PlacesKept DEF IInv, Within
<1>2. Dials'
  BY DialsKept DEF Within
<1>3. Known'
  BY KnownKept DEF Within
<1>4. Redials'
  BY RedialsKept DEF Within
<1>5. Orderly'
  BY WithinOrderly
<1>6. Errors'
  BY DEF IInv, Errors, Within
<1>7. Grown
  BY DEF Within, Grown, Unasked
<1> QED
  BY <1>1, <1>2, <1>3, <1>4, <1>5, <1>6, <1>7 DEF IInv, Keeps

\* The step changes nothing but connection c, its session's top or host, and its
\* thread.
Here(c) ==
  /\ \A b \in Conns \ {c} : conn'[b] = conn[b] /\ sess'[b] = sess[b] /\ listener'[b] = listener[b]
  /\ conn'[c].owner = conn[c].owner /\ conn'[c].state = conn[c].state
  /\ conn'[c].accepted = conn[c].accepted /\ conn'[c].asks = conn[c].asks
  /\ conn'[c].agreed = conn[c].agreed
  /\ conn[c].ack \subseteq conn'[c].ack
  /\ sess'[c].conn = sess[c].conn /\ sess'[c].state = sess[c].state
  /\ listener'[c].sess = listener[c].sess /\ listener'[c].temp = listener[c].temp

LEMMA HereFrame ==
  ASSUME NEW c \in Conns, conn[c].state # "none", Here(c)
  PROVE  /\ \A x \in Conns : Kept(x)
         /\ \A x \in Conns \ {c} : Still(x) /\ sess'[x].host = sess[x].host
         /\ \A x \in Conns :
              /\ sess'[x].state = sess[x].state /\ conn'[x].state = conn[x].state
              /\ conn'[x].accepted = conn[x].accepted /\ conn[x].ack \subseteq conn'[x].ack
              /\ conn'[x].asks = conn[x].asks
              /\ conn'[x].agreed = conn[x].agreed /\ listener'[x].temp = listener[x].temp
<1>1. \A x \in Conns \ {c} : Kept(x) /\ Still(x) /\ sess'[x].host = sess[x].host
  BY DEF Here, Kept, Still
<1>2. Kept(c)
  BY DEF Here, Kept
<1>3. \A x \in Conns :
        /\ sess'[x].state = sess[x].state /\ conn'[x].state = conn[x].state
        /\ conn'[x].accepted = conn[x].accepted /\ conn[x].ack \subseteq conn'[x].ack
        /\ conn'[x].asks = conn[x].asks
        /\ conn'[x].agreed = conn[x].agreed /\ listener'[x].temp = listener[x].temp
  BY DEF Here
<1> QED
  BY <1>1, <1>2, <1>3

LEMMA HereOwned ==
  ASSUME NEW c \in Conns, Owned(c), Here(c), Stage(c)',
         listener'[c].pc \in InSecio => listener'[c].conn = c
  PROVE  Owned(c)'
<1>1. conn[c].state # "none"
  BY DEF Owned
<1>2. \A x \in Conns : Kept(x)
  BY <1>1, HereFrame
<1> QED
  BY <1>2 DEF Owned, Kept, Proper, Here

LEMMA HereKeeps ==
  ASSUME IInv, NEW c \in Conns, Owned(c), Here(c), Types', Stage(c)',
         listener'[c].pc \in InSecio => listener'[c].conn = c,
         sess'[c].host = "freed" =>
           listener'[c].pc = "ended" \/ (sess[c].host = "freed" /\ listener[c].pc # "ended"),
         listener[c].pc \in Gone => listener'[c].pc \in Gone,
         ~conn[c].accepted /\ Proper(c) =>
           /\ sess'[c].top \in {"raw", "multi"} <=> sess[c].top \in {"raw", "multi"}
           /\ sess'[c].top = "yamux" <=> sess[c].top = "yamux",
         Innocent' /\ listener'[c].pc \in Gone => listener[c].pc \in Gone \/ "refused" \in events',
         events \subseteq events', events' \cap Marks \subseteq events,
         UNCHANGED <<fault, peer, dialer>>
  PROVE  Keeps
<1>1. conn[c].state # "none"
  BY DEF Owned
<1>2. Within(c)
  BY <1>1, HereFrame DEF Within
<1>3. Owned(c)'
  BY HereOwned
<1> QED
  BY <1>2, <1>3, WithinKeeps

LEMMA TookAck ==
  ASSUME Types, NEW c \in Conns, NEW layer \in Layers, conn[c].in # <<>>,
         NEW cn, cn = Ack(Took(c), c, layer)
  PROVE  /\ cn \in [Conns -> ConnType] /\ \A b \in Conns \ {c} : cn[b] = conn[b]
         /\ Alike(cn[c], conn[c]) /\ cn[c].verified = conn[c].verified
         /\ cn[c].ack = conn[c].ack \cup {layer} /\ cn[c].in = Tail(conn[c].in)
<1>1. /\ Took(c) \in [Conns -> ConnType] /\ \A b \in Conns \ {c} : Took(c)[b] = conn[b]
      /\ Alike(Took(c)[c], conn[c]) /\ Took(c)[c].verified = conn[c].verified
      /\ Took(c)[c].ack = conn[c].ack /\ Took(c)[c].in = Tail(conn[c].in)
  BY TookFacts
<1> QED
  BY <1>1, AckFacts DEF Alike

LEMMA PassedFacts ==
  ASSUME Types, NEW c \in Conns, NEW check \in Checks, conn[c].in # <<>>
  PROVE  /\ Passed(c, check) \in [Conns -> ConnType]
         /\ \A b \in Conns \ {c} : Passed(c, check)[b] = conn[b]
         /\ Alike(Passed(c, check)[c], conn[c])
         /\ Passed(c, check)[c].verified = conn[c].verified \cup {check}
         /\ Passed(c, check)[c].ack = conn[c].ack
         /\ Passed(c, check)[c].in = Tail(conn[c].in)
<1>1. PICK cn : cn = Took(c)
  OBVIOUS
<1>2. /\ cn \in [Conns -> ConnType] /\ \A b \in Conns \ {c} : cn[b] = conn[b]
      /\ Alike(cn[c], conn[c]) /\ cn[c].verified = conn[c].verified
      /\ cn[c].ack = conn[c].ack /\ cn[c].in = Tail(conn[c].in)
  BY <1>1, TookFacts
<1>3. PICK r : r = [cn[c] EXCEPT !.verified = cn[c].verified \cup {check}]
  OBVIOUS
<1>4. /\ r \in ConnType /\ Alike(r, cn[c]) /\ r.in = cn[c].in /\ r.ack = cn[c].ack
      /\ r.verified = cn[c].verified \cup {check}
  BY <1>2, <1>3 DEF ConnType, Alike
<1>5. Passed(c, check) = [cn EXCEPT ![c] = r]
  BY <1>1, <1>3 DEF Passed
<1>6. PICK t : t = Passed(c, check)
  OBVIOUS
<1>7. t[c] = r /\ t \in [Conns -> ConnType] /\ \A b \in Conns \ {c} : t[b] = cn[b]
  BY <1>2, <1>4, <1>5, <1>6
<1>8. Alike(t[c], conn[c])
  BY <1>2, <1>4, <1>7 DEF Alike
<1> QED
  BY <1>2, <1>4, <1>6, <1>7, <1>8

LEMMA PassedWrite ==
  ASSUME Types, NEW c \in Conns, NEW check \in Checks, NEW m \in Messages, conn[c].in # <<>>,
         NEW cn, cn = Write(Passed(c, check), c, m)
  PROVE  /\ cn \in [Conns -> ConnType] /\ \A b \in Conns \ {c} : cn[b] = conn[b]
         /\ Alike(cn[c], conn[c]) /\ cn[c].verified = conn[c].verified \cup {check}
         /\ cn[c].ack = conn[c].ack
         /\ cn[c].in = IF conn[c].state = "open" THEN Tail(conn[c].in) \o Reply(c, m)
                       ELSE Tail(conn[c].in)
<1>1. PICK t : t = Passed(c, check)
  OBVIOUS
<1>2. /\ t \in [Conns -> ConnType] /\ \A b \in Conns \ {c} : t[b] = conn[b]
      /\ Alike(t[c], conn[c]) /\ t[c].verified = conn[c].verified \cup {check}
      /\ t[c].ack = conn[c].ack /\ t[c].in = Tail(conn[c].in)
  BY <1>1, PassedFacts
<1>3. cn = Write(t, c, m)
  BY <1>1
<1> QED
  BY <1>2, <1>3, WriteFacts DEF Alike

LEMMA TookWrite ==
  ASSUME Types, NEW c \in Conns, NEW m \in Messages, conn[c].in # <<>>,
         NEW cn, cn = Write(Took(c), c, m)
  PROVE  /\ cn \in [Conns -> ConnType] /\ \A b \in Conns \ {c} : cn[b] = conn[b]
         /\ Alike(cn[c], conn[c]) /\ cn[c].verified = conn[c].verified
         /\ cn[c].ack = conn[c].ack
         /\ cn[c].in = IF conn[c].state = "open" THEN Tail(conn[c].in) \o Reply(c, m)
                       ELSE Tail(conn[c].in)
<1>1. /\ Took(c) \in [Conns -> ConnType] /\ \A b \in Conns \ {c} : Took(c)[b] = conn[b]
      /\ Alike(Took(c)[c], conn[c]) /\ Took(c)[c].verified = conn[c].verified
      /\ Took(c)[c].ack = conn[c].ack /\ Took(c)[c].in = Tail(conn[c].in)
  BY TookFacts
<1> QED
  BY <1>1, WriteFacts DEF Alike

LEMMA TookWriteAck ==
  ASSUME Types, NEW c \in Conns, NEW m \in Messages, NEW layer \in Layers, conn[c].in # <<>>,
         NEW cn, cn = Ack(Write(Took(c), c, m), c, layer)
  PROVE  /\ cn \in [Conns -> ConnType] /\ \A b \in Conns \ {c} : cn[b] = conn[b]
         /\ Alike(cn[c], conn[c]) /\ cn[c].verified = conn[c].verified
         /\ cn[c].ack = conn[c].ack \cup {layer}
         /\ cn[c].in = IF conn[c].state = "open" THEN Tail(conn[c].in) \o Reply(c, m)
                       ELSE Tail(conn[c].in)
<1> DEFINE t == Write(Took(c), c, m)
<1>1. /\ t \in [Conns -> ConnType] /\ \A b \in Conns \ {c} : t[b] = conn[b]
      /\ Alike(t[c], conn[c]) /\ t[c].verified = conn[c].verified
      /\ t[c].ack = conn[c].ack
      /\ t[c].in = IF conn[c].state = "open" THEN Tail(conn[c].in) \o Reply(c, m)
                   ELSE Tail(conn[c].in)
  BY TookWrite
<1>2. cn = Ack(t, c, layer)
  OBVIOUS
<1> HIDE DEF t
<1> QED
  BY <1>1, <1>2, AckFacts DEF Alike

\* What is due when the thread has read a message and maybe answered it.
LEMMA DueNext ==
  ASSUME Types, NEW c \in Conns, conn[c].state # "none", conn[c].in # <<>>,
         NEW q \in Seq(Messages), Due(c, q), NEW r \in Seq(Messages),
         conn'[c].state = conn[c].state,
         conn'[c].in = IF conn[c].state = "open" THEN Tail(conn[c].in) \o r ELSE Tail(conn[c].in)
  PROVE  IsDue(conn'[c].state, conn'[c].in, Tail(q) \o r)
<1>1. conn[c].in \in Seq(Messages) /\ conn[c].state \in {"open", "closed"}
  BY ConnFields
<1>2. q # <<>> /\ Tail(conn[c].in) \in Seq(Messages) /\ Tail(q) \in Seq(Messages)
  BY <1>1, NextDue
<1>3. IsDue(conn[c].state, Tail(conn[c].in), Tail(q))
  BY <1>1, DueTail DEF Due
<1> QED
  BY <1>1, <1>2, <1>3, DueMore

LEMMA DueRead ==
  ASSUME Types, NEW c \in Conns, conn[c].state # "none", conn[c].in # <<>>,
         NEW q \in Seq(Messages), Due(c, q),
         conn'[c].state = conn[c].state, conn'[c].in = Tail(conn[c].in)
  PROVE  IsDue(conn'[c].state, conn'[c].in, Tail(q))
BY ConnFields, DueTail DEF Due

-----------------------------------------------------------------------------
(* The messages a thread handles.                                           *)

\* A listening thread that goes on, or ends.
LEMMA GotoFacts ==
  ASSUME Types, NEW l \in Conns, NEW pc \in Steps, Goto(l, pc)
  PROVE  /\ listener' \in [Conns -> [pc : Steps, sess : 0 .. MaxConns, conn : 0 .. MaxConns,
                                    temp : BOOLEAN]]
         /\ \A b \in Conns \ {l} : listener'[b] = listener[b]
         /\ listener'[l].pc = pc /\ listener'[l].conn = listener[l].conn
         /\ listener'[l].sess = listener[l].sess /\ listener'[l].temp = listener[l].temp
<1>1. listener[l] \in [pc : Steps, sess : 0 .. MaxConns, conn : 0 .. MaxConns, temp : BOOLEAN]
  BY DEF Types
<1>2. listener' = [listener EXCEPT ![l] = [listener[l] EXCEPT !.pc = pc]]
  BY DEF Goto
<1>3. listener'[l] = [listener[l] EXCEPT !.pc = pc]
  BY <1>2 DEF Types
<1>4. \A b \in Conns \ {l} : listener'[b] = listener[b]
  BY <1>2 DEF Types
<1>5. [listener[l] EXCEPT !.pc = pc]
        \in [pc : Steps, sess : 0 .. MaxConns, conn : 0 .. MaxConns, temp : BOOLEAN]
  BY <1>1
<1>6. listener' \in [Conns -> [pc : Steps, sess : 0 .. MaxConns, conn : 0 .. MaxConns, temp : BOOLEAN]]
  BY <1>2, <1>5 DEF Types
<1> QED
  BY <1>1, <1>3, <1>4, <1>6

\* A stage that is reached.
LEMMA AtNext ==
  ASSUME NEW b \in Conns, NEW tops, NEW pc, NEW ack, NEW verified,
         sess'[b].conn = b => sess'[b].top \in tops, listener'[b].pc = pc,
         conn'[b].ack = ack, conn'[b].verified = verified
  PROVE  At(b, tops, pc, ack, verified)'
BY DEF At, Top, Proper

\* The replies of the remote to the messages a thread writes.
LEMMA Replies ==
  ASSUME NEW c
  PROVE  /\ Reply(c, "ms") = <<>> /\ Reply(c, "propose") = <<"exchange">>
         /\ Reply(c, "exchange") = <<"nonce">> /\ Reply(c, "nonce") = LastMs(c)
         /\ Reply(c, "ms2") = (IF conn[c].accepted THEN <<"yamux">> ELSE <<>>)
         /\ Reply(c, "secio") = (IF conn[c].accepted THEN <<"propose">> ELSE <<"secio", "propose">>)
         /\ Reply(c, "yamux") = (IF conn[c].accepted THEN <<>> ELSE <<"yamux">>)
BY DEF Reply, LastMs

LEMMA MultistreamKeeps ==
  ASSUME IInv, NEW l \in Conns, HandleMultistream(l)
  PROVE  Keeps
<1> USE DEF IInv
<1>1. /\ Owned(l) /\ Proper(l) /\ ReadsFrom(l) = l /\ Owner(l) = l
      /\ listener[l].pc = "read" /\ listener[l].sess = l
      /\ conn[l].in # <<>> /\ Head(conn[l].in) = "ms"
  BY Hearing DEF HandleMultistream
<1>2. Greeting(l) \/ (Secured(l) /\ LastMs(l) = <<"ms">>)
  BY <1>1, HeardMs DEF Owned
<1>3. /\ UNCHANGED <<peer, dialer, slow, fault, events>>
      /\ conn[l].owner = l /\ conn[l].state # "none"
  BY <1>1 DEF HandleMultistream, Owned
<1>4. {"ms", "ms2"} \subseteq Messages /\ {"multi", "multi2"} \subseteq Layers
      /\ {"read", "leave"} \subseteq Steps /\ listener[l].conn \in 0 .. MaxConns
  BY ConnFields DEF Messages, Layers, Steps
<1>5. CASE Greeting(l) /\ conn[l].accepted
  <2>1. sess[l].top = "multi" /\ conn[l].ack = {} /\ conn[l].verified = {} /\ Due(l, <<"ms", "secio">>)
    BY <1>1, <1>5 DEF Greeting, At, Top
  <2>2. conn' = Ack(Took(l), l, "multi") /\ sess' = sess /\ Goto(l, "read")
    BY <1>1, <2>1 DEF HandleMultistream
  <2>3. /\ conn' \in [Conns -> ConnType] /\ \A b \in Conns \ {l} : conn'[b] = conn[b]
        /\ Alike(conn'[l], conn[l]) /\ conn'[l].verified = conn[l].verified
        /\ conn'[l].ack = {"multi"} /\ conn'[l].in = Tail(conn[l].in)
    BY <1>1, <1>4, <2>1, <2>2, TookAck
  <2>5. /\ listener' \in [Conns -> [pc : Steps, sess : 0 .. MaxConns, conn : 0 .. MaxConns,
                                   temp : BOOLEAN]]
        /\ \A b \in Conns \ {l} : listener'[b] = listener[b]
        /\ listener'[l].pc = "read" /\ listener'[l].sess = l /\ listener'[l].temp = listener[l].temp
    BY <1>1, <1>4, <2>2, GotoFacts
  <2>6. Types'
    BY <1>3, <2>2, <2>3, <2>5 DEF Types
  <2>7. Due(l, <<"secio">>)'
    <3>1. Tail(<<"ms", "secio">>) = <<"secio">> /\ <<"ms", "secio">> \in Seq(Messages)
      BY StageLists, Lists DEF Messages
    <3> QED
      BY <1>1, <1>3, <2>1, <2>3, <3>1, DueRead DEF Due, Alike
  <2>8. MultiUp(l)'
    <3>1. At(l, {"multi"}, "read", {"multi"}, {})'
      BY <2>1, <2>2, <2>3, <2>5, AtNext
    <3>2. conn'[l].accepted
      BY <1>5, <2>3 DEF Alike
    <3> QED
      BY <2>7, <3>1, <3>2 DEF MultiUp
  <2>9. Here(l)
    BY <1>1, <2>1, <2>2, <2>3, <2>5 DEF Here, Alike
  <2> QED
    BY <1>1, <1>3, <1>5, <2>2, <2>5, <2>6, <2>8, <2>9, HereKeeps DEF Stage, InSecio, Gone
<1>6. CASE ~(Greeting(l) /\ conn[l].accepted)
  <2> DEFINE layer == IF sess[l].top = "raw" THEN "multi" ELSE "multi2"
             m == IF sess[l].top = "raw" THEN "ms" ELSE "ms2"
  <2>1. sess[l].top \in {"raw", "secio"}
    BY <1>1, <1>2, <1>6 DEF Greeting, Secured, At, Top
  <2>2. /\ conn' = Ack(Write(Took(l), l, m), l, layer) /\ sess' = Upgrade(l, layer)
        /\ listener' = listener
    BY <1>1, <2>1 DEF HandleMultistream
  <2>3. m \in Messages /\ layer \in Layers
    BY <1>4
  <2> HIDE DEF m, layer
  <2>4. /\ conn' \in [Conns -> ConnType] /\ \A b \in Conns \ {l} : conn'[b] = conn[b]
        /\ Alike(conn'[l], conn[l]) /\ conn'[l].verified = conn[l].verified
        /\ conn'[l].ack = conn[l].ack \cup {layer}
        /\ conn'[l].in = IF conn[l].state = "open" THEN Tail(conn[l].in) \o Reply(l, m)
                         ELSE Tail(conn[l].in)
    BY <1>1, <2>2, <2>3, TookWriteAck
  <2>5. /\ sess' \in [Conns -> SessType] /\ \A b \in Conns \ {l} : sess'[b] = sess[b]
        /\ sess'[l] = [sess[l] EXCEPT !.top = layer]
    BY <1>3, <2>2, <2>3, UpgradeFacts
  <2>6. /\ sess'[l].top = layer /\ sess'[l].conn = l /\ sess'[l].host = sess[l].host
        /\ sess'[l].state = sess[l].state
    BY <1>1, <2>5, ConnFields DEF SessType, Proper
  <2>7. Types'
    BY <1>3, <2>2, <2>4, <2>5 DEF Types
  <2>8. Here(l)
    BY <1>1, <2>2, <2>4, <2>5, <2>6 DEF Here, Alike, Proper
  <2>9. ASSUME Greeting(l), ~conn[l].accepted
        PROVE  Keeps
    <3>1. conn[l].ack = {} /\ conn[l].verified = {} /\ Due(l, <<"ms">>) /\ sess[l].top = "raw"
      BY <1>1, <2>9 DEF Greeting, At, Top
    <3>2. layer = "multi" /\ m = "ms"
      BY <3>1 DEF layer, m
    <3>3. Tail(<<"ms">>) = <<>> /\ <<>> \o <<>> = <<>> /\ <<"ms">> \in Seq(Messages) /\ <<>> \in Seq(Messages)
      BY Lists DEF Messages
    <3>4. IsDue(conn'[l].state, conn'[l].in, Tail(<<"ms">>) \o <<>>)
      BY <1>1, <1>3, <2>4, <3>1, <3>2, <3>3, DueNext, Replies DEF Alike
    <3>5. MultiUp(l)'
      <4>1. At(l, {"multi"}, "read", {"multi"}, {})'
        BY <1>1, <2>2, <2>4, <2>6, <3>1, <3>2, AtNext
      <4>2. ~conn'[l].accepted /\ Due(l, <<>>)'
        BY <2>4, <2>9, <3>3, <3>4 DEF Alike, Due
      <4> QED
        BY <4>1, <4>2 DEF MultiUp
    <3> QED
      BY <1>1, <1>3, <2>2, <2>6, <2>7, <2>8, <3>1, <3>2, <3>5, HereKeeps DEF Stage, InSecio, Gone
  <2>10. ASSUME Secured(l), LastMs(l) = <<"ms">>
         PROVE  Keeps
    <3> DEFINE r == IF conn[l].accepted THEN <<"yamux">> ELSE <<>>
    <3>1. conn[l].ack = {"multi", "secio"} /\ conn[l].verified = Checks /\ Due(l, <<"ms">>) /\ sess[l].top = "secio"
      BY <1>1, <2>10 DEF Secured, At, Top
    <3>2. layer = "multi2" /\ m = "ms2"
      BY <3>1 DEF layer, m
    <3>3. Tail(<<"ms">>) = <<>> /\ <<"ms">> \in Seq(Messages) /\ r \in Seq(Messages) /\ <<>> \o r = r
      <4>1. "ms" \in Messages /\ "yamux" \in Messages
        BY DEF Messages
      <4>2. Tail(<<"ms">>) = <<>> /\ <<"ms">> \in Seq(Messages)
        BY <4>1, Lists
      <4>3. <<"yamux">> \in Seq(Messages) /\ <<>> \in Seq(Messages)
        BY <4>1, Lists
      <4>4. r \in Seq(Messages)
        BY <4>3
      <4>5. <<>> \o r = r
        BY <4>4, Lists
      <4> QED
        BY <4>2, <4>4, <4>5
    <3>6. Reply(l, m) = r
      BY <3>2, Replies
    <3> HIDE DEF r
    <3>4. IsDue(conn'[l].state, conn'[l].in, Tail(<<"ms">>) \o r)
      BY <1>1, <1>3, <2>4, <3>1, <3>3, <3>6, DueNext DEF Alike
    <3>5. Multi2Up(l)'
      <4>1. At(l, {"multi2"}, "read", {"multi", "secio", "multi2"}, Checks)'
        BY <1>1, <2>2, <2>4, <2>6, <3>1, <3>2, AtNext
      <4>2. conn'[l].accepted = conn[l].accepted
        BY <2>4 DEF Alike
      <4>3. IsDue(conn'[l].state, conn'[l].in, r)
        BY <3>3, <3>4
      <4> QED
        BY <4>1, <4>2, <4>3 DEF Multi2Up, Due, r
    <3> QED
      BY <1>1, <1>3, <2>2, <2>6, <2>7, <2>8, <3>1, <3>2, <3>5, HereKeeps DEF Stage, InSecio, Gone
  <2> QED
    BY <1>2, <1>6, <2>9, <2>10
<1> QED
  BY <1>5, <1>6

\* The same with the ConnectionContext that the handshake is given.
LEMMA HandFacts ==
  ASSUME Types, NEW l \in Conns,
         listener' = [listener EXCEPT ![l] = [@ EXCEPT !.pc = "propose", !.conn = l]]
  PROVE  /\ listener' \in [Conns -> [pc : Steps, sess : 0 .. MaxConns, conn : 0 .. MaxConns,
                                    temp : BOOLEAN]]
         /\ \A b \in Conns \ {l} : listener'[b] = listener[b]
         /\ listener'[l].pc = "propose" /\ listener'[l].conn = l
         /\ listener'[l].sess = listener[l].sess /\ listener'[l].temp = listener[l].temp
<1>1. listener[l] \in [pc : Steps, sess : 0 .. MaxConns, conn : 0 .. MaxConns, temp : BOOLEAN]
  BY DEF Types
<1>2. l \in 0 .. MaxConns /\ "propose" \in Steps
  BY ConnectionAssumption DEF Conns, Steps
<1>3. [listener[l] EXCEPT !.pc = "propose", !.conn = l]
        \in [pc : Steps, sess : 0 .. MaxConns, conn : 0 .. MaxConns, temp : BOOLEAN]
  BY <1>1, <1>2
<1>4. listener' = [listener EXCEPT ![l] = [listener[l] EXCEPT !.pc = "propose", !.conn = l]]
  OBVIOUS
<1>5. /\ listener'[l] = [listener[l] EXCEPT !.pc = "propose", !.conn = l]
      /\ \A b \in Conns \ {l} : listener'[b] = listener[b]
  BY <1>4 DEF Types
<1>6. listener' \in [Conns -> [pc : Steps, sess : 0 .. MaxConns, conn : 0 .. MaxConns, temp : BOOLEAN]]
  BY <1>3, <1>4 DEF Types
<1> QED
  BY <1>1, <1>5, <1>6

\* A new layer on the session of connection l.
LEMMA TopFacts ==
  ASSUME Types, NEW l \in Conns, Proper(l), NEW layer \in Layers, conn[l].owner = l,
         sess' = Upgrade(l, layer)
  PROVE  /\ sess' \in [Conns -> SessType] /\ \A b \in Conns \ {l} : sess'[b] = sess[b]
         /\ sess'[l].top = layer /\ sess'[l].conn = l /\ sess'[l].host = sess[l].host
         /\ sess'[l].state = sess[l].state
<1>1. /\ sess' \in [Conns -> SessType] /\ \A b \in Conns \ {l} : sess'[b] = sess[b]
      /\ sess'[l] = [sess[l] EXCEPT !.top = layer]
  BY UpgradeFacts
<1> QED
  BY <1>1, ConnFields DEF SessType, Proper

LEMMA SecioKeeps ==
  ASSUME IInv, NEW l \in Conns, HandleSecio(l)
  PROVE  Keeps
<1> USE DEF IInv
<1>1. /\ Owned(l) /\ Proper(l) /\ ReadsFrom(l) = l /\ Owner(l) = l
      /\ listener[l].pc = "read" /\ listener[l].sess = l
      /\ conn[l].in # <<>> /\ Head(conn[l].in) = "secio"
  BY Hearing DEF HandleSecio
<1>2. (MultiUp(l) /\ conn[l].accepted) \/ Asked(l)
  BY <1>1, HeardSecio DEF Owned
<1>3. /\ UNCHANGED <<peer, dialer, slow, fault, events>>
      /\ conn[l].owner = l /\ conn[l].state # "none"
  BY <1>1 DEF HandleSecio, Owned
<1>4. {"secio", "propose", "exchange"} \subseteq Messages /\ "secio" \in Layers
  BY DEF Messages, Layers
<1>5. listener' = [listener EXCEPT ![l] = [@ EXCEPT !.pc = "propose", !.conn = l]]
  BY <1>1 DEF HandleSecio
<1>6. /\ listener' \in [Conns -> [pc : Steps, sess : 0 .. MaxConns, conn : 0 .. MaxConns,
                                 temp : BOOLEAN]]
      /\ \A b \in Conns \ {l} : listener'[b] = listener[b]
      /\ listener'[l].pc = "propose" /\ listener'[l].conn = l
      /\ listener'[l].sess = listener[l].sess /\ listener'[l].temp = listener[l].temp
  BY <1>5, HandFacts
<1>7. conn[l].ack = {"multi"} /\ conn[l].verified = {} /\ sess[l].top \in {"multi", "secio"}
  BY <1>1, <1>2 DEF MultiUp, Asked, At, Top
<1>8. /\ sess' \in [Conns -> SessType] /\ \A b \in Conns \ {l} : sess'[b] = sess[b]
      /\ sess'[l].top = "secio" /\ sess'[l].conn = l /\ sess'[l].host = sess[l].host
      /\ sess'[l].state = sess[l].state
      /\ ~conn[l].accepted => sess' = sess
  <2>1. CASE MultiUp(l) /\ conn[l].accepted
    <3>1. sess' = Upgrade(l, "secio")
      BY <1>1, <2>1 DEF HandleSecio, MultiUp, At, Top
    <3> QED
      BY <1>1, <1>3, <1>4, <2>1, <3>1, TopFacts
  <2>2. CASE Asked(l)
    <3>1. sess[l].top = "secio" /\ sess' = sess
      BY <1>1, <2>2 DEF HandleSecio, Asked, At, Top
    <3> QED
      BY <1>1, <3>1, ConnFields DEF Proper
  <2> QED
    BY <1>2, <2>1, <2>2
<1>9. /\ conn' \in [Conns -> ConnType] /\ \A b \in Conns \ {l} : conn'[b] = conn[b]
      /\ Alike(conn'[l], conn[l]) /\ conn'[l].verified = conn[l].verified
      /\ conn'[l].ack = conn[l].ack
      /\ IsDue(conn'[l].state, conn'[l].in, <<"propose", "exchange">>)
  <2>1. CASE MultiUp(l) /\ conn[l].accepted
    <3> DEFINE t == Write(Took(l), l, "secio")
    <3>1. conn' = Write(t, l, "propose")
      BY <1>1, <2>1 DEF HandleSecio, MultiUp, At, Top
    <3>2. /\ t \in [Conns -> ConnType] /\ \A b \in Conns \ {l} : t[b] = conn[b]
          /\ Alike(t[l], conn[l]) /\ t[l].verified = conn[l].verified
          /\ t[l].ack = conn[l].ack
          /\ t[l].in = IF conn[l].state = "open" THEN Tail(conn[l].in) \o Reply(l, "secio")
                       ELSE Tail(conn[l].in)
      BY <1>1, <1>4, TookWrite
    <3> HIDE DEF t
    <3>3. /\ conn' \in [Conns -> ConnType] /\ \A b \in Conns \ {l} : conn'[b] = t[b]
          /\ Alike(conn'[l], t[l]) /\ conn'[l].verified = t[l].verified
          /\ conn'[l].ack = t[l].ack
          /\ conn'[l].in = IF t[l].state = "open" THEN t[l].in \o Reply(l, "propose") ELSE t[l].in
      BY <1>4, <3>1, <3>2, WriteFacts
    <3>4. Reply(l, "secio") = <<"propose">> /\ Reply(l, "propose") = <<"exchange">>
      BY <2>1, Replies
    <3>5. /\ <<"secio">> \in Seq(Messages) /\ <<"propose">> \in Seq(Messages)
          /\ <<"exchange">> \in Seq(Messages) /\ Tail(<<"secio">>) \o <<"propose">> = <<"propose">>
          /\ <<"propose">> \o <<"exchange">> = <<"propose", "exchange">>
      BY <1>4, Lists
    <3>6. Due(l, <<"secio">>) /\ conn[l].state \in {"open", "closed"}
          /\ conn[l].in \in Seq(Messages) /\ Tail(conn[l].in) \in Seq(Messages)
      BY <1>1, <1>3, <2>1, ConnFields DEF MultiUp
    <3>7. IsDue(conn[l].state, Tail(conn[l].in), Tail(<<"secio">>)) /\ Tail(<<"secio">>) \in Seq(Messages)
      BY <1>1, <1>4, <3>5, <3>6, DueTail, Lists DEF Due
    <3>8. t[l].state = conn[l].state /\ conn'[l].state = conn[l].state
      BY <3>2, <3>3 DEF Alike
    <3>9. IsDue(t[l].state, t[l].in, <<"propose">>)
      BY <3>2, <3>4, <3>5, <3>6, <3>7, <3>8, DueMore, ZenonT(60)
    <3>10. t[l].in \in Seq(Messages)
      BY <3>2 DEF ConnType
    <3>11. IsDue(conn'[l].state, conn'[l].in, <<"propose", "exchange">>)
      BY <3>3, <3>4, <3>5, <3>6, <3>8, <3>9, <3>10, DueMore, ZenonT(60)
    <3> QED
      BY <3>2, <3>3, <3>11 DEF Alike
  <2>2. CASE Asked(l)
    <3>1. conn' = Write(Took(l), l, "propose")
      BY <1>1, <2>2 DEF HandleSecio, Asked, At, Top
    <3>2. /\ conn' \in [Conns -> ConnType] /\ \A b \in Conns \ {l} : conn'[b] = conn[b]
          /\ Alike(conn'[l], conn[l]) /\ conn'[l].verified = conn[l].verified
          /\ conn'[l].ack = conn[l].ack
          /\ conn'[l].in = IF conn[l].state = "open" THEN Tail(conn[l].in) \o Reply(l, "propose")
                           ELSE Tail(conn[l].in)
      BY <1>1, <1>4, <3>1, TookWrite
    <3>3. Reply(l, "propose") = <<"exchange">> /\ Due(l, <<"secio", "propose">>)
      BY <2>2, Replies DEF Asked
    <3>4. /\ <<"secio", "propose">> \in Seq(Messages) /\ <<"exchange">> \in Seq(Messages)
          /\ Tail(<<"secio", "propose">>) = <<"propose">>
          /\ <<"propose">> \o <<"exchange">> = <<"propose", "exchange">>
      BY <1>4, Lists
    <3>5. conn'[l].state = conn[l].state
      BY <3>2 DEF Alike
    <3>6. IsDue(conn'[l].state, conn'[l].in, <<"propose", "exchange">>)
      BY <1>1, <1>3, <3>2, <3>3, <3>4, <3>5, DueNext
    <3> QED
      BY <3>2, <3>6
  <2> QED
    BY <1>2, <2>1, <2>2
<1>10. Types'
  BY <1>3, <1>6, <1>8, <1>9 DEF Types
<1>11. At(l, {"secio"}, "propose", {"multi"}, {})'
  BY <1>6, <1>7, <1>8, <1>9, AtNext
<1>12. Proposing(l)'
  BY <1>9, <1>11 DEF Proposing, Due
<1>13. Here(l)
  BY <1>1, <1>6, <1>8, <1>9 DEF Here, Alike, Proper
<1> QED
  BY <1>1, <1>3, <1>6, <1>8, <1>10, <1>12, <1>13, HereKeeps DEF Stage, InSecio, Gone

LEMMA YamuxKeeps ==
  ASSUME IInv, NEW l \in Conns, HandleYamux(l)
  PROVE  Keeps
<1> USE DEF IInv
<1>1. /\ Owned(l) /\ Proper(l) /\ ReadsFrom(l) = l /\ Owner(l) = l
      /\ listener[l].pc = "read" /\ listener[l].sess = l
      /\ conn[l].in # <<>> /\ Head(conn[l].in) = "yamux"
  BY Hearing DEF HandleYamux
<1>2. (Multi2Up(l) /\ conn[l].accepted) \/ YamuxAsked(l)
  BY <1>1, HeardYamux DEF Owned
<1>3. /\ UNCHANGED <<peer, dialer, slow, fault, events>>
      /\ conn[l].owner = l /\ conn[l].state # "none"
  BY <1>1 DEF HandleYamux, Owned
<1>4. "yamux" \in Messages /\ "yamux" \in Layers /\ "read" \in Steps
  BY DEF Messages, Layers, Steps
<1>5. /\ conn[l].ack = {"multi", "secio", "multi2"} /\ conn[l].verified = Checks
      /\ sess[l].top \in {"multi2", "yamux"}
  BY <1>1, <1>2 DEF Multi2Up, YamuxAsked, At, Top
<1>6. Goto(l, "read")
  BY <1>1, <1>5 DEF HandleYamux
<1>7. /\ listener' \in [Conns -> [pc : Steps, sess : 0 .. MaxConns, conn : 0 .. MaxConns,
                                 temp : BOOLEAN]]
      /\ \A b \in Conns \ {l} : listener'[b] = listener[b]
      /\ listener'[l].pc = "read" /\ listener'[l].sess = l /\ listener'[l].temp = listener[l].temp
  BY <1>1, <1>4, <1>6, GotoFacts
<1>8. /\ sess' \in [Conns -> SessType] /\ \A b \in Conns \ {l} : sess'[b] = sess[b]
      /\ sess'[l].top = "yamux" /\ sess'[l].conn = l /\ sess'[l].host = sess[l].host
      /\ sess'[l].state = sess[l].state
      /\ ~conn[l].accepted => sess' = sess
  <2>1. CASE Multi2Up(l) /\ conn[l].accepted
    <3>1. sess' = Upgrade(l, "yamux")
      BY <1>1, <2>1 DEF HandleYamux, Multi2Up, At, Top
    <3> QED
      BY <1>1, <1>3, <1>4, <2>1, <3>1, TopFacts
  <2>2. CASE YamuxAsked(l)
    <3>1. sess[l].top = "yamux" /\ sess' = sess
      BY <1>1, <2>2 DEF HandleYamux, YamuxAsked, At, Top
    <3> QED
      BY <1>1, <3>1, ConnFields DEF Proper
  <2> QED
    BY <1>2, <2>1, <2>2
<1>9. /\ conn' \in [Conns -> ConnType] /\ \A b \in Conns \ {l} : conn'[b] = conn[b]
      /\ Alike(conn'[l], conn[l]) /\ conn'[l].verified = conn[l].verified
      /\ conn'[l].ack = conn[l].ack \cup {"yamux"}
      /\ IsDue(conn'[l].state, conn'[l].in, <<>>)
  <2>1. CASE Multi2Up(l) /\ conn[l].accepted
    <3>1. conn' = Ack(Write(Took(l), l, "yamux"), l, "yamux")
      BY <1>1, <2>1 DEF HandleYamux, Multi2Up, At, Top
    <3>2. /\ conn' \in [Conns -> ConnType] /\ \A b \in Conns \ {l} : conn'[b] = conn[b]
          /\ Alike(conn'[l], conn[l]) /\ conn'[l].verified = conn[l].verified
          /\ conn'[l].ack = conn[l].ack \cup {"yamux"}
          /\ conn'[l].in = IF conn[l].state = "open" THEN Tail(conn[l].in) \o Reply(l, "yamux")
                           ELSE Tail(conn[l].in)
      BY <1>1, <1>4, <3>1, TookWriteAck
    <3>3. Reply(l, "yamux") = <<>> /\ Due(l, <<"yamux">>)
      BY <2>1, Replies DEF Multi2Up
    <3>4. /\ <<"yamux">> \in Seq(Messages) /\ <<>> \in Seq(Messages)
          /\ Tail(<<"yamux">>) \o <<>> = <<>>
      BY <1>4, Lists
    <3>5. conn'[l].state = conn[l].state
      BY <3>2 DEF Alike
    <3>6. IsDue(conn'[l].state, conn'[l].in, Tail(<<"yamux">>) \o <<>>)
      BY <1>1, <1>3, <3>2, <3>3, <3>4, <3>5, DueNext
    <3> QED
      BY <3>2, <3>4, <3>6
  <2>2. CASE YamuxAsked(l)
    <3>1. conn' = Ack(Took(l), l, "yamux")
      BY <1>1, <2>2 DEF HandleYamux, YamuxAsked, At, Top
    <3>2. /\ conn' \in [Conns -> ConnType] /\ \A b \in Conns \ {l} : conn'[b] = conn[b]
          /\ Alike(conn'[l], conn[l]) /\ conn'[l].verified = conn[l].verified
          /\ conn'[l].ack = conn[l].ack \cup {"yamux"} /\ conn'[l].in = Tail(conn[l].in)
      BY <1>1, <1>4, <3>1, TookAck
    <3>3. Due(l, <<"yamux">>) /\ <<"yamux">> \in Seq(Messages) /\ Tail(<<"yamux">>) = <<>>
      BY <1>4, <2>2, Lists DEF YamuxAsked
    <3>4. conn'[l].state = conn[l].state
      BY <3>2 DEF Alike
    <3>5. IsDue(conn'[l].state, conn'[l].in, Tail(<<"yamux">>))
      BY <1>1, <1>3, <3>2, <3>3, <3>4, DueRead
    <3> QED
      BY <3>2, <3>3, <3>5
  <2> QED
    BY <1>2, <2>1, <2>2
<1>10. Types'
  BY <1>3, <1>7, <1>8, <1>9 DEF Types
<1>11. At(l, {"yamux"}, "read", {"multi", "secio", "multi2", "yamux"}, Checks)'
  BY <1>5, <1>7, <1>8, <1>9, AtNext
<1>12. YamuxUp(l)'
  BY <1>9, <1>11 DEF YamuxUp, Due
<1>13. Here(l)
  BY <1>1, <1>7, <1>8, <1>9 DEF Here, Alike, Proper
<1> QED
  BY <1>1, <1>3, <1>7, <1>8, <1>10, <1>12, <1>13, HereKeeps DEF Stage, InSecio, Gone

-----------------------------------------------------------------------------
(* A thread that waits, ends or is lost.                                    *)

\* A connection without a session is not secured.
LEMMA SecuredOwned ==
  ASSUME Types, Places, NEW l \in Conns, listener[l].pc = "read",
         "secio" \in conn[ReadsFrom(l)].ack
  PROVE  Owned(l) /\ Proper(l) /\ ReadsFrom(l) = l
<1>1. ReadsFrom(l) \in Conns
  BY Reading
<1>2. Unused(ReadsFrom(l)) \/ Owned(ReadsFrom(l)) \/ Stray(ReadsFrom(l))
  BY <1>1 DEF Places
<1>3. Owned(ReadsFrom(l))
  BY <1>2 DEF Unused, Stray, NoConn
<1>4. Owner(l) # 0
  BY <1>1, <1>3 DEF Owned, Owner, Conns
<1> QED
  BY <1>4, Reading

LEMMA ListenerTimeoutKeeps ==
  ASSUME IInv, NEW l \in Conns, ListenerTimeout(l)
  PROVE  Keeps
<1> USE DEF IInv
<1>1. Owned(l) /\ Proper(l) /\ ReadsFrom(l) = l /\ listener[l].pc = "read"
  BY SecuredOwned DEF ListenerTimeout
<1>2. /\ conn' = [conn EXCEPT ![l].errno = TRUE] /\ conn[l].state = "open"
      /\ UNCHANGED <<sess, peer, listener, dialer, slow, fault, events>>
  BY <1>1 DEF ListenerTimeout
<1>3. conn[l] \in ConnType /\ conn \in [Conns -> ConnType]
  BY ConnFields
<1>4. /\ conn'[l] = [conn[l] EXCEPT !.errno = TRUE]
      /\ \A b \in Conns \ {l} : conn'[b] = conn[b]
  BY <1>2, <1>3
<1>5. [conn[l] EXCEPT !.errno = TRUE] \in ConnType
  BY <1>3 DEF ConnType
<1>6. conn' \in [Conns -> ConnType]
  BY <1>2, <1>3, <1>5
<1>7. /\ conn'[l].in = conn[l].in /\ conn'[l].ack = conn[l].ack /\ conn'[l].state = conn[l].state
      /\ conn'[l].verified = conn[l].verified /\ conn'[l].accepted = conn[l].accepted
      /\ conn'[l].owner = conn[l].owner /\ conn'[l].agreed = conn[l].agreed
      /\ conn'[l].asks = conn[l].asks
  BY <1>3, <1>4 DEF ConnType
<1>8. Types'
  BY <1>2, <1>6 DEF Types
<1>9. Still(l)
  BY <1>2, <1>7 DEF Still
<1>10. Stage(l)'
  BY <1>1, <1>2, <1>9, StageStays DEF Owned
<1>11. Here(l)
  BY <1>2, <1>4, <1>7 DEF Here
<1> QED
  BY <1>1, <1>2, <1>8, <1>10, <1>11, HereKeeps DEF InSecio, Gone

\* In peace no socket is closed while its thread goes on.
LEMMA OpenInPeace ==
  ASSUME IInv, Innocent, NEW c \in Conns, Owned(c), listener[c].pc \notin Gone
  PROVE  conn[c].state = "open" /\ sess[c].state # "freed" /\ sess[c].host # "freed"
BY DEF IInv, Orderly, Peaceful, Unharmed, Owned, Gone

LEMMA ListenerEofKeeps ==
  ASSUME IInv, NEW l \in Conns, ListenerEof(l)
  PROVE  Keeps
<1> USE DEF IInv
<1>1. Owned(l) /\ Proper(l) /\ ReadsFrom(l) = l /\ listener[l].pc = "read"
  BY SecuredOwned DEF ListenerEof
<1>2. /\ conn[l].state = "closed" /\ conn[l].in = <<>> /\ "secio" \in conn[l].ack
      /\ Goto(l, "leave")
      /\ UNCHANGED <<sess, conn, peer, dialer, slow, fault, events>>
  BY <1>1 DEF ListenerEof
<1>3. "leave" \in Steps
  BY DEF Steps
<1>4. /\ listener' \in [Conns -> [pc : Steps, sess : 0 .. MaxConns, conn : 0 .. MaxConns,
                                 temp : BOOLEAN]]
      /\ \A b \in Conns \ {l} : listener'[b] = listener[b]
      /\ listener'[l].pc = "leave" /\ listener'[l].sess = listener[l].sess
      /\ listener'[l].temp = listener[l].temp
  BY <1>2, <1>3, GotoFacts
<1>5. Types'
  BY <1>2, <1>4 DEF Types
<1>6. /\ conn[l].verified = Checks /\ {"multi", "secio"} \subseteq conn[l].ack
      /\ sess[l].top \in {"secio", "multi2", "yamux"}
  <2>1. Secured(l) \/ Multi2Up(l) \/ YamuxAsked(l) \/ YamuxUp(l)
    BY <1>1, <1>2 DEF Owned, Stage, Greeting, MultiUp, Asked, Proposing, Exchanging, Comparing,
                      Left, At, Gone
  <2> QED
    BY <1>1, <2>1 DEF Secured, Multi2Up, YamuxAsked, YamuxUp, At, Top
<1>7. Left(l)'
  BY <1>2, <1>4, <1>6, Lists DEF Left, Gone, Top
<1>8. Here(l)
  BY <1>2, <1>4 DEF Here
<1>9. ~Innocent
  BY <1>1, <1>2, OpenInPeace DEF Gone
<1>10. ~Innocent'
  BY <1>2, <1>9 DEF Innocent
<1> QED
  BY <1>1, <1>2, <1>4, <1>5, <1>7, <1>8, <1>10, HereKeeps DEF Stage, InSecio, Gone

\* A use of freed memory, which peace excludes, changes nothing else.
LEMMA FailKeeps ==
  ASSUME IInv, NEW kind \in {"null", "freed", "twice"}, Fail(kind), ~Innocent
  PROVE  Keeps
<1> USE DEF IInv
<1>1. UNCHANGED <<sess, conn, peer, listener, dialer, slow, events>> /\ fault' = kind
  BY DEF Fail
<1>2. Types'
  BY <1>1 DEF Types
<1>3. \A c \in Conns : Stage(c)' <=> Stage(c)
  BY <1>1 DEF Stage, Greeting, MultiUp, Asked, Proposing, Exchanging, Comparing, Secured, Multi2Up,
              YamuxAsked, YamuxUp, Left, At, Top, Proper, Due, LastMs
<1>4. Places'
  BY <1>1, <1>3 DEF Places, Unused, Owned, Stray, Proper
<1>5. Dials'
  BY <1>1 DEF Dials, Stays, Waiting, IsFreed, Proper
<1>6. Known' /\ Redials'
  BY <1>1 DEF Known, IsFreed, Redials
<1>7. Orderly'
  BY <1>1 DEF Orderly, Innocent
<1>8. Errors'
  BY <1>1 DEF Errors
<1>9. Grown
  BY <1>1 DEF Grown, Unasked
<1> QED
  BY <1>2, <1>4, <1>5, <1>6, <1>7, <1>8, <1>9 DEF Keeps

LEMMA ListenerLeaveKeeps ==
  ASSUME IInv, NEW l \in Conns, ListenerLeave(l)
  PROVE  Keeps
<1> USE DEF IInv
<1>1. Owned(l) /\ listener[l].sess = l /\ listener[l].pc = "leave"
  BY Shaking DEF ListenerLeave, Gone
<1>2. CASE IsFreed(l) \/ sess[l].host = "freed"
  <2>1. Fail("freed") \/ Fail("twice")
    BY <1>1, <1>2 DEF ListenerLeave
  <2>2. ~Innocent
    BY <1>1, <1>2 DEF Orderly, Peaceful, Unharmed, IsFreed
  <2> QED
    BY <2>1, <2>2, FailKeeps
<1>3. CASE ~(IsFreed(l) \/ sess[l].host = "freed")
  <2>1. /\ sess' = [sess EXCEPT ![l].host = "freed"] /\ Goto(l, "ended")
        /\ UNCHANGED <<conn, peer, dialer, slow, fault, events>>
    BY <1>1, <1>3 DEF ListenerLeave
  <2>2. "ended" \in Steps
    BY DEF Steps
  <2>3. /\ listener' \in [Conns -> [pc : Steps, sess : 0 .. MaxConns, conn : 0 .. MaxConns,
                                   temp : BOOLEAN]]
        /\ \A b \in Conns \ {l} : listener'[b] = listener[b]
        /\ listener'[l].pc = "ended" /\ listener'[l].sess = listener[l].sess
        /\ listener'[l].temp = listener[l].temp
    BY <2>1, <2>2, GotoFacts
  <2>4. sess[l] \in SessType /\ sess \in [Conns -> SessType]
    BY ConnFields
  <2>5. [sess[l] EXCEPT !.host = "freed"] \in SessType
    BY <2>4 DEF SessType
  <2>6. /\ sess'[l] = [sess[l] EXCEPT !.host = "freed"] /\ sess' \in [Conns -> SessType]
        /\ \A b \in Conns \ {l} : sess'[b] = sess[b]
    BY <2>1, <2>4, <2>5
  <2>7. sess'[l].top = sess[l].top /\ sess'[l].conn = sess[l].conn /\ sess'[l].state = sess[l].state
    BY <2>4, <2>6 DEF SessType
  <2>8. Types'
    BY <2>1, <2>3, <2>6 DEF Types
  <2>9. Left(l)
    BY <1>1 DEF Owned, Stage, Greeting, MultiUp, Asked, Proposing, Exchanging, Comparing, Secured,
                Multi2Up, YamuxAsked, YamuxUp, At
  <2>10. Left(l)'
    BY <2>1, <2>3, <2>7, <2>9 DEF Left, Gone, Top, Proper
  <2>11. Here(l)
    BY <2>1, <2>3, <2>6, <2>7 DEF Here
  <2> QED
    BY <1>1, <2>1, <2>3, <2>7, <2>8, <2>10, <2>11, HereKeeps DEF Stage, InSecio, Gone
<1> QED
  BY <1>2, <1>3

\* Missing or freed memory is met only after what may do harm.
LEMMA ListenerLostKeeps ==
  ASSUME IInv, NEW l \in Conns, ListenerLost(l)
  PROVE  Keeps
<1> USE DEF IInv
<1>1. listener[l].pc = "read" /\ (Fail("freed") \/ Fail("null"))
      /\ (IsFreed(listener[l].sess) \/ Owner(l) = 0 \/ IsFreed(Owner(l)))
  BY DEF ListenerLost
<1>2. ASSUME Innocent
      PROVE  FALSE
  <2>1. conn[l].state # "none"
    BY <1>1 DEF Places, Unused, Owned, Stray
  <2>2. Owned(l) /\ Proper(l)
    BY <1>2, <2>1, Straight DEF Innocent, Causes
  <2>3. listener[l].sess = l /\ Owner(l) = l
    BY <2>2 DEF Owned, Owner, ReadsFrom, Proper
  <2>4. ~IsFreed(l)
    BY <1>2 DEF Orderly, Peaceful, Unharmed, IsFreed
  <2> QED
    BY <1>1, <2>3, <2>4 DEF Conns
<1> QED
  BY <1>1, <1>2, FailKeeps

LEMMA HandshakeLostKeeps ==
  ASSUME IInv, NEW l \in Conns, HandshakeLost(l)
  PROVE  Keeps
<1> USE DEF IInv
<1>1. listener[l].pc \in InSecio /\ Fail("freed") /\ IsFreed(listener[l].sess)
  BY DEF HandshakeLost, InSecio
<1>2. Owned(l) /\ listener[l].sess = l
  BY <1>1, Shaking
<1>3. ~Innocent
  BY <1>1, <1>2 DEF Orderly, Peaceful, Unharmed, IsFreed
<1> QED
  BY <1>1, <1>3, FailKeeps

-----------------------------------------------------------------------------
(* The handshake.                                                           *)

\* The stage that a step of the handshake finds.
LEMMA ShakingStage ==
  ASSUME NEW l \in Conns, Stage(l)
  PROVE  /\ listener[l].pc = "propose" => Proposing(l)
         /\ listener[l].pc = "exchange" => Exchanging(l)
         /\ listener[l].pc = "nonce" => Comparing(l)
BY DEF Stage, Greeting, MultiUp, Asked, Proposing, Exchanging, Comparing, Secured, Multi2Up,
       YamuxAsked, YamuxUp, Left, At, Gone

LEMMA ShortLists ==
  ASSUME NEW c
  PROVE  /\ LastMs(c) = <<>> \/ LastMs(c) = <<"ms">>
         /\ Len(LastMs(c)) \in Nat /\ Len(LastMs(c)) <= 2
         /\ Len(<<"nonce">> \o LastMs(c)) \in Nat /\ Len(<<"nonce">> \o LastMs(c)) <= 2
<1>1. LastMs(c) = <<>> \/ LastMs(c) = <<"ms">>
  BY DEF LastMs
<1>2. /\ Len(<<>>) = 0 /\ Len(<<"ms">>) = 1 /\ Len(<<"nonce">>) = 1 /\ Len(<<"nonce", "ms">>) = 2
      /\ <<"nonce">> \o <<>> = <<"nonce">> /\ <<"nonce">> \o <<"ms">> = <<"nonce", "ms">>
  BY Lists DEF Messages
<1>3. CASE LastMs(c) = <<>>
  BY <1>2, <1>3
<1>4. CASE LastMs(c) = <<"ms">>
  BY <1>2, <1>4
<1> QED
  BY <1>1, <1>3, <1>4

\* A thread that fails in the handshake leaves.
LEMMA LeftInSecio ==
  ASSUME IInv, NEW l \in Conns, listener[l].pc \in InSecio, Owned(l),
         listener'[l].pc = "leave", sess'[l].conn = sess[l].conn, sess'[l].top = sess[l].top,
         conn'[l].in = conn[l].in \/ (conn[l].in # <<>> /\ conn'[l].in = Tail(conn[l].in)),
         conn'[l].ack = conn[l].ack,
         conn'[l].verified = conn[l].verified
  PROVE  Left(l)'
<1> USE DEF IInv
<1>1. Proposing(l) \/ Exchanging(l) \/ Comparing(l)
  BY ShakingStage DEF Owned, InSecio
<1>2. /\ conn[l].ack \subseteq {"multi", "secio"} /\ conn[l].verified # Checks
      /\ sess[l].conn = l => sess[l].top = "secio"
  BY <1>1, NotChecks DEF Proposing, Exchanging, Comparing, At, Top, Proper
<1>3. Len(conn[l].in) <= 2
  <2>1. conn[l].in \in Seq(Messages) /\ Len(conn[l].in) \in Nat
    BY ConnFields
  <2>2. /\ <<"propose", "exchange">> \in Seq(Messages) /\ Len(<<"propose", "exchange">>) = 2
        /\ <<"exchange", "nonce">> \in Seq(Messages) /\ Len(<<"exchange", "nonce">>) = 2
    BY Lists DEF Messages
  <2>3. <<"nonce">> \o LastMs(l) \in Seq(Messages) /\ Len(<<"nonce">> \o LastMs(l)) <= 2
    BY StageLists, ShortLists
  <2>4. ASSUME NEW q, q \in Seq(Messages), Due(l, q), Len(q) <= 2
        PROVE  Len(conn[l].in) <= 2
    <3>1. Len(conn[l].in) <= Len(q)
      BY <2>1, <2>4, DueShort DEF Due
    <3> QED
      BY <2>1, <2>4, <3>1
  <2>5. CASE Proposing(l)
    <3>1. PICK q : q = <<"propose", "exchange">>
      OBVIOUS
    <3>2. q \in Seq(Messages) /\ Len(q) <= 2
      BY <2>2, <3>1
    <3>3. Due(l, q)
      BY <2>5, <3>1 DEF Proposing
    <3> QED
      BY <2>4, <3>2, <3>3
  <2>6. CASE Exchanging(l)
    <3>1. PICK q : q = <<"exchange", "nonce">>
      OBVIOUS
    <3>2. q \in Seq(Messages) /\ Len(q) <= 2
      BY <2>2, <3>1
    <3>3. Due(l, q)
      BY <2>6, <3>1 DEF Exchanging
    <3> QED
      BY <2>4, <3>2, <3>3
  <2>7. CASE Comparing(l)
    BY <2>3, <2>4, <2>7 DEF Comparing
  <2> QED
    BY <1>1, <2>5, <2>6, <2>7
<1>4. Len(conn'[l].in) <= 2
  <2>1. conn[l].in \in Seq(Messages)
    BY ConnFields
  <2>2. conn[l].in # <<>> => Len(Tail(conn[l].in)) <= 2
    BY <1>3, <2>1
  <2> QED
    BY <1>3, <2>2
<1> QED
  BY <1>2, <1>4 DEF Left, Gone, Top, Proper

\* A remote that is refused.
LEMMA RefusedKeeps ==
  ASSUME IInv, NEW l \in Conns, listener[l].pc \in InSecio, conn[l].in # <<>>,
         conn' = Took(l), Goto(l, "leave"), events' = events \cup {"refused"},
         UNCHANGED <<sess, peer, dialer, slow, fault>>
  PROVE  Keeps
<1> USE DEF IInv
<1>1. Owned(l) /\ listener[l].sess = l
  BY Shaking
<1>2. "leave" \in Steps
  BY DEF Steps
<1>3. /\ listener' \in [Conns -> [pc : Steps, sess : 0 .. MaxConns, conn : 0 .. MaxConns,
                                 temp : BOOLEAN]]
      /\ \A b \in Conns \ {l} : listener'[b] = listener[b]
      /\ listener'[l].pc = "leave" /\ listener'[l].sess = listener[l].sess
      /\ listener'[l].temp = listener[l].temp
  BY <1>2, GotoFacts
<1>4. /\ conn' \in [Conns -> ConnType] /\ \A b \in Conns \ {l} : conn'[b] = conn[b]
      /\ Alike(conn'[l], conn[l]) /\ conn'[l].verified = conn[l].verified
      /\ conn'[l].ack = conn[l].ack /\ conn'[l].in = Tail(conn[l].in)
  BY TookFacts
<1>5. Types'
  BY <1>3, <1>4 DEF Types
<1>6. Left(l)'
  BY <1>1, <1>3, <1>4, LeftInSecio
<1>7. Here(l)
  BY <1>3, <1>4 DEF Here, Alike
<1>8. events \subseteq events' /\ events' \cap Marks \subseteq events
      /\ "refused" \in events'
  BY DEF Marks
<1> QED
  BY <1>1, <1>3, <1>5, <1>6, <1>7, <1>8, HereKeeps DEF Stage, InSecio, Gone

LEMMA ProposalRefusedKeeps ==
  ASSUME IInv, NEW l \in Conns, ProposalRefused(l)
  PROVE  Keeps
<1>1. listener[l].pc \in InSecio
  BY DEF ProposalRefused, InHandshake, InSecio
<1>2. listener[l].conn = l
  BY <1>1, Shaking DEF IInv
<1>3. /\ conn[l].in # <<>> /\ conn' = Took(l) /\ Goto(l, "leave")
      /\ events' = events \cup {"refused"} /\ UNCHANGED <<sess, peer, dialer, slow, fault>>
  BY <1>2 DEF ProposalRefused, Gets
<1> QED
  BY <1>1, <1>3, RefusedKeeps

LEMMA HandshakeExchangeKeeps ==
  ASSUME IInv, NEW l \in Conns, HandshakeExchange(l)
  PROVE  Keeps
<1> USE DEF IInv
<1>1. /\ Owned(l) /\ listener[l].sess = l /\ listener[l].conn = l /\ listener[l].pc = "exchange"
  BY Shaking DEF HandshakeExchange, InHandshake, InSecio
<1>2. /\ Exchanging(l) /\ conn[l].state # "none"
  BY <1>1, ShakingStage DEF Owned
<1>3. /\ {"exchange", "nonce", "ms"} \subseteq Messages /\ "secio" \in Layers /\ "nonce" \in Steps
      /\ "signature" \in Checks
  BY DEF Messages, Layers, Steps, Checks
<1>4. PICK ok \in BOOLEAN :
        /\ conn' = (IF ok THEN Ack(Write(Passed(l, "signature"), l, "nonce"), l, "secio")
                    ELSE Took(l))
        /\ conn[l].in # <<>> /\ Goto(l, IF ok THEN "nonce" ELSE "leave")
        /\ events' = (IF ok THEN events ELSE events \cup {"refused"})
        /\ UNCHANGED <<sess, peer, dialer, slow, fault>>
  BY <1>1 DEF HandshakeExchange, Gets
<1>5. CASE ~ok
  BY <1>1, <1>4, <1>5, RefusedKeeps DEF InSecio
<1>6. CASE ok
  <2>1. /\ conn' = Ack(Write(Passed(l, "signature"), l, "nonce"), l, "secio")
        /\ Goto(l, "nonce") /\ events' = events
    BY <1>4, <1>6
  <2>2. /\ listener' \in [Conns -> [pc : Steps, sess : 0 .. MaxConns, conn : 0 .. MaxConns,
                                   temp : BOOLEAN]]
        /\ \A b \in Conns \ {l} : listener'[b] = listener[b]
        /\ listener'[l].pc = "nonce" /\ listener'[l].conn = l
        /\ listener'[l].sess = listener[l].sess /\ listener'[l].temp = listener[l].temp
    BY <1>1, <1>3, <2>1, GotoFacts
  <2>5. PICK w : w = Write(Passed(l, "signature"), l, "nonce")
    OBVIOUS
  <2>6. /\ w \in [Conns -> ConnType] /\ \A b \in Conns \ {l} : w[b] = conn[b]
        /\ Alike(w[l], conn[l]) /\ w[l].verified = conn[l].verified \cup {"signature"}
        /\ w[l].ack = conn[l].ack
        /\ w[l].in = IF conn[l].state = "open" THEN Tail(conn[l].in) \o Reply(l, "nonce")
                     ELSE Tail(conn[l].in)
    BY <1>3, <1>4, <2>5, PassedWrite
  <2>7. /\ conn' \in [Conns -> ConnType] /\ \A b \in Conns \ {l} : conn'[b] = conn[b]
        /\ Alike(conn'[l], conn[l]) /\ conn'[l].verified = conn[l].verified \cup {"signature"}
        /\ conn'[l].ack = conn[l].ack \cup {"secio"}
        /\ conn'[l].in = IF conn[l].state = "open" THEN Tail(conn[l].in) \o Reply(l, "nonce")
                         ELSE Tail(conn[l].in)
    BY <1>3, <2>1, <2>5, <2>6, AckFacts DEF Alike
  <2>8. Types'
    BY <1>4, <2>2, <2>7 DEF Types
  <2>9. /\ Due(l, <<"exchange", "nonce">>) /\ conn[l].ack = {"multi"} /\ conn[l].verified = {}
        /\ sess[l].conn = l => sess[l].top = "secio"
    BY <1>2 DEF Exchanging, At, Top, Proper
  <2>10. /\ <<"exchange", "nonce">> \in Seq(Messages) /\ LastMs(l) \in Seq(Messages)
         /\ Tail(<<"exchange", "nonce">>) = <<"nonce">> /\ Reply(l, "nonce") = LastMs(l)
    BY <1>3, Lists, StageLists, Replies
  <2>11. /\ conn'[l].state = conn[l].state /\ conn'[l].accepted = conn[l].accepted
         /\ conn'[l].asks = conn[l].asks
    BY <2>7 DEF Alike
  <2>12. IsDue(conn'[l].state, conn'[l].in, <<"nonce">> \o LastMs(l))
    <3>1. conn'[l].in = IF conn[l].state = "open" THEN Tail(conn[l].in) \o LastMs(l)
                        ELSE Tail(conn[l].in)
      BY <2>7, <2>10, Zenon
    <3>2. IsDue(conn'[l].state, conn'[l].in, Tail(<<"exchange", "nonce">>) \o LastMs(l))
      BY <1>2, <1>4, <2>9, <2>10, <2>11, <3>1, DueNext, Zenon
    <3> QED
      BY <2>10, <3>2, Zenon
  <2>13. At(l, {"secio"}, "nonce", {"multi", "secio"}, {"signature"})'
    <3>1. conn'[l].verified = {"signature"} /\ conn'[l].ack = {"multi", "secio"}
      BY <2>7, <2>9
    <3> QED
      BY <1>4, <2>2, <2>9, <3>1, AtNext
  <2>14. Comparing(l)'
    BY <2>11, <2>12, <2>13 DEF Comparing, Due, LastMs
  <2>15. Here(l)
    BY <1>4, <2>2, <2>7 DEF Here, Alike
  <2> QED
    BY <1>1, <1>4, <2>1, <2>2, <2>8, <2>14, <2>15, HereKeeps DEF Stage, Gone
<1> QED
  BY <1>5, <1>6

LEMMA HandshakeNonceKeeps ==
  ASSUME IInv, NEW l \in Conns, HandshakeNonce(l)
  PROVE  Keeps
<1> USE DEF IInv
<1>1. /\ Owned(l) /\ listener[l].sess = l /\ listener[l].conn = l /\ listener[l].pc = "nonce"
  BY Shaking DEF HandshakeNonce, InHandshake, InSecio
<1>2. /\ Comparing(l) /\ conn[l].state # "none"
  BY <1>1, ShakingStage DEF Owned
<1>3. "read" \in Steps /\ "nonce" \in Checks
  BY DEF Steps, Checks
<1>4. PICK ok \in BOOLEAN :
        /\ conn' = (IF ok THEN Passed(l, "nonce") ELSE Took(l))
        /\ conn[l].in # <<>> /\ Goto(l, IF ok THEN "read" ELSE "leave")
        /\ events' = (IF ok THEN events ELSE events \cup {"refused"})
        /\ UNCHANGED <<sess, peer, dialer, slow, fault>>
  BY <1>1 DEF HandshakeNonce, Gets
<1>5. CASE ~ok
  BY <1>1, <1>4, <1>5, RefusedKeeps DEF InSecio
<1>6. CASE ok
  <2>1. /\ conn' = Passed(l, "nonce")
        /\ Goto(l, "read") /\ events' = events
    BY <1>4, <1>6
  <2>2. /\ listener' \in [Conns -> [pc : Steps, sess : 0 .. MaxConns, conn : 0 .. MaxConns,
                                   temp : BOOLEAN]]
        /\ \A b \in Conns \ {l} : listener'[b] = listener[b]
        /\ listener'[l].pc = "read" /\ listener'[l].sess = listener[l].sess
        /\ listener'[l].temp = listener[l].temp
    BY <1>3, <2>1, GotoFacts
  <2>4. /\ conn' \in [Conns -> ConnType] /\ \A b \in Conns \ {l} : conn'[b] = conn[b]
        /\ Alike(conn'[l], conn[l]) /\ conn'[l].verified = conn[l].verified \cup {"nonce"}
        /\ conn'[l].ack = conn[l].ack /\ conn'[l].in = Tail(conn[l].in)
    BY <1>3, <1>4, <2>1, PassedFacts
  <2>5. Types'
    BY <1>4, <2>2, <2>4 DEF Types
  <2>6. /\ Due(l, <<"nonce">> \o LastMs(l)) /\ conn[l].ack = {"multi", "secio"}
        /\ conn[l].verified = {"signature"} /\ (sess[l].conn = l => sess[l].top = "secio")
    BY <1>2 DEF Comparing, At, Top, Proper
  <2>7. /\ <<"nonce">> \o LastMs(l) \in Seq(Messages) /\ LastMs(l) \in Seq(Messages)
        /\ Tail(<<"nonce">> \o LastMs(l)) = LastMs(l)
    BY StageLists
  <2>8. /\ conn'[l].state = conn[l].state /\ conn'[l].accepted = conn[l].accepted
        /\ conn'[l].asks = conn[l].asks
    BY <2>4 DEF Alike
  <2>9. IsDue(conn'[l].state, conn'[l].in, LastMs(l))
    <3>1. IsDue(conn'[l].state, conn'[l].in, Tail(<<"nonce">> \o LastMs(l)))
      BY <1>2, <1>4, <2>4, <2>6, <2>7, <2>8, DueRead, Zenon
    <3> QED
      BY <2>7, <3>1, Zenon
  <2>10. At(l, {"secio"}, "read", {"multi", "secio"}, Checks)'
    <3>1. conn'[l].verified = Checks
      BY <2>4, <2>6, NotChecks
    <3> QED
      BY <1>4, <2>2, <2>4, <2>6, <3>1, AtNext
  <2>11. Secured(l)'
    BY <2>8, <2>9, <2>10 DEF Secured, Due, LastMs
  <2>12. Here(l)
    BY <1>4, <2>2, <2>4 DEF Here, Alike
  <2> QED
    BY <1>1, <1>4, <2>1, <2>2, <2>5, <2>11, <2>12, HereKeeps DEF Stage, Gone, InSecio
<1> QED
  BY <1>5, <1>6

\* A read of the handshake fails for a cause.
LEMMA GetsNothingFacts ==
  ASSUME IInv, NEW l \in Conns, listener[l].pc \in InSecio, GetsNothing(l)
  PROVE  /\ ~Innocent' /\ events \subseteq events' /\ slow' \in 0 .. MaxSlow
         /\ events' \cap Marks \subseteq events
         /\ events' \subseteq events \cup {"slow"}
<1> USE DEF IInv
<1>1. Owned(l) /\ listener[l].conn = l
  BY Shaking
<1>2. CASE conn[l].in = <<>>
  <2>1. slow' = slow /\ events' = events
    BY <1>1, <1>2 DEF GetsNothing
  <2>2. Proposing(l) \/ Exchanging(l) \/ Comparing(l)
    BY <1>1, ShakingStage DEF Owned, InSecio
  <2>3. conn[l].state = "closed"
    <3>1. <<"propose", "exchange">> # <<>> /\ <<"exchange", "nonce">> # <<>>
          /\ <<"nonce">> \o LastMs(l) # <<>>
      BY Lists, StageLists DEF Messages
    <3> QED
      BY <1>2, <2>2, <3>1 DEF Proposing, Exchanging, Comparing, Due, IsDue
  <2>4. ~Innocent
    BY <1>1, <2>3, OpenInPeace DEF InSecio, Gone
  <2> QED
    BY <2>1, <2>4 DEF Innocent, Types
<1>3. CASE conn[l].in # <<>>
  <2>1. slow < MaxSlow /\ slow' = slow + 1 /\ events' = events \cup {"slow"}
    BY <1>1, <1>3 DEF GetsNothing
  <2>2. slow' \in 0 .. MaxSlow
    BY <2>1, ConnectionAssumption DEF Types
  <2> QED
    BY <2>1, <2>2 DEF Innocent, Causes, Marks
<1> QED
  BY <1>2, <1>3

LEMMA HandshakeFailsKeeps ==
  ASSUME IInv, NEW l \in Conns, HandshakeFails(l)
  PROVE  Keeps
<1> USE DEF IInv
<1>1. /\ listener[l].pc \in InSecio /\ Goto(l, "leave")
      /\ UNCHANGED <<sess, conn, peer, dialer, fault>>
      /\ \/ GetsNothing(l)
         \/ conn[listener[l].conn].state = "closed" /\ UNCHANGED <<slow, events>>
  BY DEF HandshakeFails, InHandshake, InSecio
<1>2. Owned(l) /\ listener[l].sess = l /\ listener[l].conn = l
  BY <1>1, Shaking
<1>3. "leave" \in Steps
  BY DEF Steps
<1>4. /\ listener' \in [Conns -> [pc : Steps, sess : 0 .. MaxConns, conn : 0 .. MaxConns,
                                 temp : BOOLEAN]]
      /\ \A b \in Conns \ {l} : listener'[b] = listener[b]
      /\ listener'[l].pc = "leave" /\ listener'[l].sess = listener[l].sess
      /\ listener'[l].temp = listener[l].temp
  BY <1>1, <1>3, GotoFacts
<1>5. /\ ~Innocent' /\ events \subseteq events' /\ slow' \in 0 .. MaxSlow
      /\ events' \cap Marks \subseteq events
  <2>1. CASE GetsNothing(l)
    BY <1>1, <2>1, GetsNothingFacts
  <2>2. CASE conn[l].state = "closed" /\ UNCHANGED <<slow, events>>
    <3>1. ~Innocent
      BY <1>1, <1>2, <2>2, OpenInPeace DEF InSecio, Gone
    <3> QED
      BY <2>2, <3>1 DEF Innocent, Types
  <2> QED
    BY <1>1, <1>2, <2>1, <2>2
<1>6. Types'
  BY <1>1, <1>4, <1>5 DEF Types
<1>7. Left(l)'
  BY <1>1, <1>2, <1>4, LeftInSecio
<1>8. Here(l)
  BY <1>1, <1>4 DEF Here
<1> QED
  BY <1>1, <1>2, <1>4, <1>5, <1>6, <1>7, <1>8, HereKeeps DEF Stage, InSecio, Gone

-----------------------------------------------------------------------------
(* Steps that free a session.                                               *)

\* A session is freed, and a socket may be closed with it.
LEMMA FreeFrame ==
  ASSUME Types, Places, NEW s \in Conns, sess[s].state # "none",
         NEW ss, ss = Freed(s), NEW cn, cn = Dropped(s)
  PROVE  /\ ss \in [Conns -> SessType] /\ cn \in [Conns -> ConnType]
         /\ \A x \in Conns :
              /\ ss[x].top = sess[x].top /\ ss[x].conn = sess[x].conn
              /\ ss[x].host = sess[x].host
              /\ ss[x].state = IF x = s THEN "freed" ELSE sess[x].state
              /\ cn[x].in = conn[x].in /\ cn[x].ack = conn[x].ack
              /\ cn[x].verified = conn[x].verified /\ cn[x].accepted = conn[x].accepted
              /\ cn[x].owner = conn[x].owner /\ cn[x].agreed = conn[x].agreed
              /\ cn[x].asks = conn[x].asks
              /\ cn[x].state \in {conn[x].state, "closed"}
              /\ (conn[x].state = "none" \/ x # sess[s].conn) => cn[x] = conn[x]
<1>1. Owned(s) /\ sess[s].conn \in Conns /\ conn[sess[s].conn].state # "none"
  BY SessionOwned DEF Owned
<1> DEFINE c == sess[s].conn
<1>2. /\ ss \in [Conns -> SessType] /\ \A b \in Conns \ {s} : ss[b] = sess[b]
      /\ ss[s] = [sess[s] EXCEPT !.state = "freed"]
  BY FreedFacts
<1>3. /\ cn \in [Conns -> ConnType] /\ \A b \in Conns \ {c} : cn[b] = conn[b]
      /\ cn[c] \in {conn[c], [conn[c] EXCEPT !.state = "closed"]}
  BY <1>1, DroppedFacts
<1>4. \A x \in Conns : /\ ss[x].top = sess[x].top /\ ss[x].conn = sess[x].conn
                       /\ ss[x].host = sess[x].host
                       /\ ss[x].state = IF x = s THEN "freed" ELSE sess[x].state
  BY <1>2, ConnFields DEF SessType
<1>5. conn[c] \in ConnType
  BY <1>1, ConnFields
<1>6. /\ cn[c].in = conn[c].in /\ cn[c].ack = conn[c].ack
      /\ cn[c].verified = conn[c].verified /\ cn[c].accepted = conn[c].accepted
      /\ cn[c].owner = conn[c].owner /\ cn[c].agreed = conn[c].agreed
      /\ cn[c].asks = conn[c].asks
      /\ cn[c].state \in {conn[c].state, "closed"}
  BY <1>3, <1>5 DEF ConnType
<1> QED
  BY <1>1, <1>2, <1>3, <1>4, <1>6

\* A fault, or a wait that fails, on what stays as it is.
LEMMA HarmKeeps ==
  ASSUME IInv, UNCHANGED <<sess, conn, peer, listener, dialer>>, slow' \in 0 .. MaxSlow,
         fault' \in {"none", "null", "freed", "twice"}, events \subseteq events', ~Innocent',
         events' \cap Marks # {} => fault' # "none"
  PROVE  Keeps
<1> USE DEF IInv
<1>1. Types'
  BY DEF Types
<1>2. \A c \in Conns : Stage(c)' <=> Stage(c)
  BY DEF Stage, Greeting, MultiUp, Asked, Proposing, Exchanging, Comparing, Secured, Multi2Up,
         YamuxAsked, YamuxUp, Left, At, Top, Proper, Due, LastMs
<1>3. Places'
  BY <1>2 DEF Places, Unused, Owned, Stray, Proper
<1>4. Dials'
  BY DEF Dials, Stays, Waiting, IsFreed, Proper
<1>5. Known' /\ Redials'
  BY DEF Known, IsFreed, Redials
<1>6. Orderly' /\ Errors'
  BY DEF Orderly, Errors
<1>7. Grown
  BY DEF Grown, Unasked
<1> QED
  BY <1>1, <1>3, <1>4, <1>5, <1>6, <1>7 DEF Keeps

LEMMA HandshakeGarbledKeeps ==
  ASSUME IInv, NEW l \in Conns, HandshakeGarbled(l)
  PROVE  Keeps
<1>1. /\ fault' \in {"twice", "freed"} /\ events' = events \cup {"garbled"}
      /\ UNCHANGED <<sess, conn, peer, listener, dialer, slow>>
  BY DEF HandshakeGarbled
<1>2. slow' \in 0 .. MaxSlow
  BY <1>1 DEF IInv, Types
<1>3. ~Innocent'
  BY <1>1 DEF Innocent, Causes
<1> QED
  BY <1>1, <1>2, <1>3, HarmKeeps

LEMMA ExchangeFailsKeeps ==
  ASSUME IInv, NEW l \in Conns, ExchangeFails(l)
  PROVE  Keeps
<1> USE DEF IInv
<1> DEFINE s == IF listener[l].temp THEN listener[l].sess ELSE peer.sess
<1>1. /\ listener[l].pc = "exchange" /\ listener[l].pc \in InSecio /\ GetsNothing(l)
      /\ dialer' = dialer /\ Up
  BY DEF ExchangeFails, InHandshake, InSecio
<1>2. Owned(l) /\ listener[l].sess = l /\ listener[l].conn = l
  BY <1>1, Shaking
<1>3. /\ ~Innocent' /\ events \subseteq events' /\ slow' \in 0 .. MaxSlow
      /\ events' \cap Marks \subseteq events
  BY <1>1, GetsNothingFacts
<1>4. CASE IsFreed(s)
  <2>1. fault' = "freed" /\ UNCHANGED <<sess, conn, peer, listener>>
    BY <1>4 DEF ExchangeFails
  <2> QED
    BY <1>1, <1>3, <2>1, HarmKeeps
<1>5. CASE ~IsFreed(s)
  <2>1. /\ sess' = IF s = 0 THEN sess ELSE Freed(s)
        /\ conn' = IF s = 0 THEN conn ELSE Dropped(s)
        /\ peer' = IF listener[l].temp THEN peer ELSE [peer EXCEPT !.sess = 0, !.connected = FALSE]
        /\ Goto(l, "leave") /\ fault' = fault
    BY <1>5 DEF ExchangeFails
  <2>2. /\ s # 0 => s \in Conns /\ sess[s].state # "none"
        /\ 0 \notin Conns
    BY <1>2 DEF Owned, Known, Types, Conns
  <2> HIDE DEF s
  <2>3. "leave" \in Steps
    BY DEF Steps
  <2>4. /\ listener' \in [Conns -> [pc : Steps, sess : 0 .. MaxConns, conn : 0 .. MaxConns,
                                   temp : BOOLEAN]]
        /\ \A b \in Conns \ {l} : listener'[b] = listener[b]
        /\ listener'[l].pc = "leave" /\ listener'[l].sess = listener[l].sess
        /\ listener'[l].temp = listener[l].temp
    BY <2>1, <2>3, GotoFacts
  <2>5. /\ sess' \in [Conns -> SessType] /\ conn' \in [Conns -> ConnType]
        /\ \A x \in Conns :
              /\ sess'[x].top = sess[x].top /\ sess'[x].conn = sess[x].conn
              /\ sess'[x].host = sess[x].host
              /\ sess'[x].state = IF x = s THEN "freed" ELSE sess[x].state
              /\ conn'[x].in = conn[x].in /\ conn'[x].ack = conn[x].ack
              /\ conn'[x].verified = conn[x].verified /\ conn'[x].accepted = conn[x].accepted
              /\ conn'[x].owner = conn[x].owner /\ conn'[x].agreed = conn[x].agreed
              /\ conn'[x].asks = conn[x].asks
              /\ conn'[x].state \in {conn[x].state, "closed"}
              /\ conn[x].state = "none" => conn'[x] = conn[x]
    <3>1. CASE s = 0
      BY <2>1, <3>1 DEF Types, Conns
    <3>2. CASE s # 0
      BY <2>1, <2>2, <3>2, FreeFrame
    <3> QED
      BY <3>1, <3>2
  <2>6. Types'
    <3>1. peer' \in [known : BOOLEAN, sess : 0 .. MaxConns, connected : BOOLEAN]
      <4>1. [peer EXCEPT !.sess = 0, !.connected = FALSE]
              \in [known : BOOLEAN, sess : 0 .. MaxConns, connected : BOOLEAN]
        <5>1. 0 \in 0 .. MaxConns
          BY ConnectionAssumption
        <5>2. peer \in [known : BOOLEAN, sess : 0 .. MaxConns, connected : BOOLEAN]
          BY DEF Types
        <5> QED
          BY <5>1, <5>2
      <4> QED
        BY <2>1, <4>1 DEF Types
    <3> QED
      BY <1>1, <1>3, <2>1, <2>4, <2>5, <3>1 DEF Types
  <2>7. \A x \in Conns : Kept(x)
    BY <2>2, <2>5 DEF Kept
  <2>8. \A x \in Conns \ {l} : Still(x)
    BY <2>4, <2>5 DEF Still
  <2>9. Owned(l)'
    <3>1. Left(l)'
      BY <1>1, <1>2, <2>4, <2>5, LeftInSecio
    <3>2. listener'[l].pc \notin InSecio /\ listener'[l].sess = l
      BY <1>2, <2>4 DEF InSecio
    <3> QED
      BY <1>2, <2>7, <3>1, <3>2 DEF Owned, Kept, Proper, Stage
  <2>10. Places'
    BY <2>7, <2>8, <2>9, PlacesKept
  <2>11. Dials'
    <3> SUFFICES ASSUME NEW d \in Dialers, Waiting(d)'
                 PROVE  Stays(d)'
      BY DEF Dials, Stays
    <3>1. Waiting(d) /\ Stays(d) /\ dialer'[d] = dialer[d]
      BY <1>1 DEF Waiting, Dials
    <3>2. PICK t \in Conns : t = dialer[d].sess /\ sess[t].state # "none"
      BY <3>1 DEF Stays
    <3>3. sess[t].conn \in Conns /\ t # 0
      BY <2>2, <3>2, SessionOwned DEF Owned
    <3>4. /\ sess'[t].state # "none" /\ sess'[t].conn = sess[t].conn
          /\ conn'[sess[t].conn].accepted = conn[sess[t].conn].accepted /\ conn'[t].ack = conn[t].ack
      BY <2>5, <3>2, <3>3
    <3>5. IsFreed(t)' \/ t = peer'.sess
      <4>1. CASE IsFreed(t)
        BY <2>5, <3>3, <4>1 DEF IsFreed
      <4>2. CASE t = peer.sess /\ listener[l].temp
        BY <2>1, <4>2
      <4>3. CASE t = peer.sess /\ ~listener[l].temp
        <5>1. t = s
          BY <4>3 DEF s
        <5> QED
          BY <2>5, <3>3, <5>1 DEF IsFreed
      <4> QED
        BY <3>1, <3>2, <4>1, <4>2, <4>3 DEF Stays
    <3>6. /\ dialer[d].pc = "multi" => ~conn[sess[t].conn].accepted
          /\ dialer[d].pc = "joined" /\ Proper(t) => "yamux" \in conn[t].ack
      BY <3>1, <3>2 DEF Stays
    <3>7. Proper(t)' <=> Proper(t)
      BY <3>4 DEF Proper
    <3> QED
      BY <3>1, <3>2, <3>4, <3>5, <3>6, <3>7 DEF Stays
  <2>12. Known'
    <3>1. \A c \in Conns : conn'[c].agreed /\ (listener'[c].temp => "copied" \in events')
      BY <1>3, <2>4, <2>5 DEF Known
    <3>2. CASE listener[l].temp
      <4>1. "copied" \in events' /\ peer' = peer
        BY <1>3, <2>1, <3>2 DEF Known
      <4>2. peer.sess # 0 => peer.sess \in Conns
        BY DEF Types, Conns
      <4> QED
        BY <2>5, <3>1, <4>1, <4>2 DEF Known
    <3>3. CASE ~listener[l].temp
      <4>1. peer'.sess = 0
        BY <2>1, <3>3 DEF Types
      <4> QED
        BY <3>1, <4>1 DEF Known
    <3> QED
      BY <3>2, <3>3
  <2>13. Redials'
    BY <1>3, <2>7, RedialsKept
  <2>14. Orderly' /\ Errors'
    BY <1>1, <1>3, <2>1 DEF Orderly, Errors
  <2>15. Grown
    BY <2>5 DEF Grown, Unasked
  <2> QED
    BY <2>6, <2>10, <2>11, <2>12, <2>13, <2>14, <2>15 DEF Keeps
<1> QED
  BY <1>4, <1>5

\* Whoever leads, both ends choose the same.
LEMMA SelectAlike ==
  ASSUME NEW p \in Proposals
  PROVE  SelectBest(p.order, Supported, p.offer) = RemoteAlg(p)
<1>1. p.order = -1 \/ p.order = 1
  BY ConnectionAssumption
<1>2. CASE p.order = 1
  <2>1. p.order > 0 /\ ~(-p.order > 0)
    BY <1>2
  <2> QED
    BY <2>1 DEF RemoteAlg, SelectBest
<1>3. CASE p.order = -1
  <2>1. ~(p.order > 0) /\ -p.order > 0
    BY <1>3
  <2> QED
    BY <2>1 DEF RemoteAlg, SelectBest
<1> QED
  BY <1>1, <1>2, <1>3

\* The session that another one of the same peer replaces.
LEMMA ReplacedFacts ==
  ASSUME IInv, NEW l \in Conns, Owned(l), listener[l].sess = l, Replaces(l)
  PROVE  /\ peer.sess \in Conns /\ peer.sess # l /\ sess[peer.sess].state # "none"
         /\ sess[peer.sess].conn # l
<1> USE DEF IInv
<1>1. peer.sess \in Conns /\ peer.sess # l
  BY DEF Replaces, Types, Conns
<1>2. sess[peer.sess].state # "none" /\ 0 \notin Conns
  BY <1>1 DEF Known, Conns
<1>3. Owned(peer.sess) /\ conn[l].owner = l
  BY <1>1, <1>2, SessionOwned DEF Owned
<1> QED
  BY <1>1, <1>2, <1>3 DEF Owned, Proper

LEMMA HandshakeProposeKeeps ==
  ASSUME IInv, NEW l \in Conns, HandshakePropose(l)
  PROVE  Keeps
<1> USE DEF IInv
<1>1. /\ listener[l].pc = "propose" /\ Up /\ ~IsFreed(listener[l].sess)
      /\ listener[l].pc \in InSecio
  BY DEF HandshakePropose, InHandshake, InSecio
<1>2. Owned(l) /\ listener[l].sess = l /\ listener[l].conn = l /\ l # 0
  BY <1>1, Shaking DEF Conns
<1>3. Proposing(l) /\ conn[l].in # <<>> /\ conn[l].state # "none" /\ ~IsFreed(l)
  BY <1>1, <1>2, ShakingStage DEF HandshakePropose, Gets, Owned
<1>4. CASE Replaces(l) /\ IsFreed(peer.sess)
  <2>1. Fail("freed")
    BY <1>4 DEF HandshakePropose
  <2>2. ~Innocent
    BY <1>2, <1>4, ReplacedFacts DEF Orderly, Peaceful, Unharmed, IsFreed
  <2> QED
    BY <2>1, <2>2, FailKeeps
<1>5. CASE ~(Replaces(l) /\ IsFreed(peer.sess))
  <2>1. PICK p \in Proposals :
          LET alg == SelectBest(p.order, Supported, p.offer)
              base == IF Replaces(l) THEN Dropped(peer.sess) ELSE conn
              cn == [base EXCEPT ![l].in = Tail(@), ![l].agreed = alg = RemoteAlg(p)]
          IN
          /\ peer' = PeerWith(l)
          /\ sess' = IF Replaces(l) THEN Freed(peer.sess) ELSE sess
          /\ conn' = IF alg = "none" THEN cn ELSE Write(cn, l, "exchange")
          /\ listener' = [listener EXCEPT ![l].pc = IF alg = "none" THEN "leave" ELSE "exchange",
                                          ![l].temp = ~peer.known]
          /\ events' = events \cup (IF Replaces(l) THEN {"replaced"} ELSE {})
                               \cup (IF peer.known THEN {} ELSE {"copied"})
                               \cup (IF alg = "none" THEN {"refused"} ELSE {})
          /\ UNCHANGED <<dialer, slow, fault>>
    BY <1>2, <1>5 DEF HandshakePropose
  <2> DEFINE alg == SelectBest(p.order, Supported, p.offer)
             base == IF Replaces(l) THEN Dropped(peer.sess) ELSE conn
             cn == [base EXCEPT ![l].in = Tail(@), ![l].agreed = alg = RemoteAlg(p)]
             pc == IF alg = "none" THEN "leave" ELSE "exchange"
  <2>2. alg = RemoteAlg(p)
    BY SelectAlike
  <2>3. /\ peer' = PeerWith(l)
        /\ sess' = IF Replaces(l) THEN Freed(peer.sess) ELSE sess
        /\ conn' = IF alg = "none" THEN cn ELSE Write(cn, l, "exchange")
        /\ listener' = [listener EXCEPT ![l].pc = pc, ![l].temp = ~peer.known]
        /\ UNCHANGED <<dialer, slow, fault>>
    BY <2>1
  <2>4. events' = events \cup (IF Replaces(l) THEN {"replaced"} ELSE {})
                         \cup (IF peer.known THEN {} ELSE {"copied"})
                         \cup (IF alg = "none" THEN {"refused"} ELSE {})
    BY <2>1
  <2> HIDE DEF alg
  <2>5. /\ sess' \in [Conns -> SessType] /\ base \in [Conns -> ConnType]
        /\ \A x \in Conns :
              /\ sess'[x].top = sess[x].top /\ sess'[x].conn = sess[x].conn
              /\ sess'[x].host = sess[x].host
              /\ sess'[x].state = IF Replaces(l) /\ x = peer.sess THEN "freed" ELSE sess[x].state
              /\ base[x].in = conn[x].in /\ base[x].ack = conn[x].ack
              /\ base[x].verified = conn[x].verified /\ base[x].accepted = conn[x].accepted
              /\ base[x].owner = conn[x].owner /\ base[x].agreed = conn[x].agreed
              /\ base[x].asks = conn[x].asks
              /\ base[x].state \in {conn[x].state, "closed"}
              /\ (conn[x].state = "none" \/ x = l) => base[x] = conn[x]
    <3>1. CASE Replaces(l)
      <4>1. /\ peer.sess \in Conns /\ sess[peer.sess].state # "none" /\ l # sess[peer.sess].conn
        BY <1>2, <3>1, ReplacedFacts
      <4>2. sess' = Freed(peer.sess) /\ base = Dropped(peer.sess)
        BY <2>3, <3>1
      <4> HIDE DEF base
      <4> QED
        BY <3>1, <4>1, <4>2, FreeFrame
    <3>2. CASE ~Replaces(l)
      BY <2>3, <3>2 DEF Types
    <3> QED
      BY <3>1, <3>2
  <2> HIDE DEF base
  <2>6. /\ cn \in [Conns -> ConnType] /\ \A b \in Conns \ {l} : cn[b] = base[b]
        /\ Alike(cn[l], conn[l]) /\ cn[l].verified = conn[l].verified
        /\ cn[l].ack = conn[l].ack /\ cn[l].in = Tail(conn[l].in) /\ cn[l].agreed = TRUE
    <3>1. base[l] = conn[l] /\ conn[l] \in ConnType /\ conn[l].agreed = TRUE
      BY <2>5, ConnFields DEF Known
    <3>2. Tail(conn[l].in) \in Seq(Messages)
      BY <1>3, ConnFields
    <3>3. [conn[l] EXCEPT !.in = Tail(conn[l].in), !.agreed = TRUE] \in ConnType
      BY <3>1, <3>2 DEF ConnType
    <3>4. cn = [base EXCEPT ![l] = [base[l] EXCEPT !.in = Tail(base[l].in), !.agreed = TRUE]]
      BY <2>2, <2>5, ZenonT(60)
    <3>5. /\ cn[l] = [conn[l] EXCEPT !.in = Tail(conn[l].in), !.agreed = TRUE]
          /\ cn \in [Conns -> ConnType] /\ \A b \in Conns \ {l} : cn[b] = base[b]
      BY <2>5, <3>1, <3>3, <3>4
    <3> QED
      BY <3>1, <3>5 DEF Alike, ConnType
  <2> HIDE DEF cn
  <2>7. "exchange" \in Messages /\ "nonce" \in Messages /\ Reply(l, "exchange") = <<"nonce">>
    BY Replies DEF Messages
  <2>8. /\ conn' \in [Conns -> ConnType] /\ \A b \in Conns \ {l} : conn'[b] = base[b]
        /\ Alike(conn'[l], conn[l]) /\ conn'[l].verified = conn[l].verified
        /\ conn'[l].ack = conn[l].ack
        /\ conn'[l].in = IF alg # "none" /\ conn[l].state = "open"
                           THEN Tail(conn[l].in) \o <<"nonce">> ELSE Tail(conn[l].in)
    <3>1. CASE alg = "none"
      BY <2>3, <2>6, <3>1
    <3>2. CASE alg # "none"
      <4>1. conn' = Write(cn, l, "exchange")
        BY <2>3, <3>2
      <4> QED
        BY <2>6, <2>7, <3>2, <4>1, WriteFacts DEF Alike
    <3> QED
      BY <3>1, <3>2
  <2>9. /\ listener' \in [Conns -> [pc : Steps, sess : 0 .. MaxConns, conn : 0 .. MaxConns,
                                   temp : BOOLEAN]]
        /\ \A b \in Conns \ {l} : listener'[b] = listener[b]
        /\ listener'[l].pc = pc /\ listener'[l].sess = l /\ listener'[l].conn = l
        /\ listener'[l].temp = ~peer.known
    <3>1. listener[l] \in [pc : Steps, sess : 0 .. MaxConns, conn : 0 .. MaxConns, temp : BOOLEAN]
          /\ peer.known \in BOOLEAN /\ pc \in Steps
      BY DEF Types, Steps
    <3> HIDE DEF pc
    <3>2. [listener[l] EXCEPT !.pc = pc, !.temp = ~peer.known]
            \in [pc : Steps, sess : 0 .. MaxConns, conn : 0 .. MaxConns, temp : BOOLEAN]
      BY <3>1
    <3>3. listener' = [listener EXCEPT ![l] = [listener[l] EXCEPT !.pc = pc, !.temp = ~peer.known]]
      BY <2>3
    <3>4. /\ listener'[l] = [listener[l] EXCEPT !.pc = pc, !.temp = ~peer.known]
          /\ \A b \in Conns \ {l} : listener'[b] = listener[b]
          /\ listener' \in [Conns -> [pc : Steps, sess : 0 .. MaxConns, conn : 0 .. MaxConns,
                                      temp : BOOLEAN]]
      BY <3>2, <3>3 DEF Types
    <3> QED
      BY <1>2, <3>1, <3>4
  <2>10. /\ peer' \in [known : BOOLEAN, sess : 0 .. MaxConns, connected : BOOLEAN]
         /\ peer'.known = TRUE /\ peer'.sess = l
    BY <1>2, <2>3 DEF PeerWith, Types
  <2>11. Types'
    BY <2>3, <2>5, <2>8, <2>9, <2>10 DEF Types
  <2>12. /\ \A x \in Conns : Kept(x)
         /\ \A x \in Conns : conn'[x].accepted = conn[x].accepted /\ conn'[x].ack = conn[x].ack
                             /\ conn'[x].agreed = conn[x].agreed /\ conn'[x].asks = conn[x].asks
         /\ \A x \in Conns \ {l} : conn'[x].verified = conn[x].verified
                                   /\ conn'[x].in = conn[x].in
    <3>1. Replaces(l) => sess[peer.sess].state # "none"
      BY <1>2, ReplacedFacts
    <3> QED
      BY <1>3, <2>5, <2>8, <3>1 DEF Kept, Alike
  <2>13. \A x \in Conns \ {l} : Still(x)
    BY <2>5, <2>8, <2>9, <2>12 DEF Still
  <2>14. /\ Due(l, <<"propose", "exchange">>) /\ conn[l].ack = {"multi"}
         /\ conn[l].verified = {} /\ (sess[l].conn = l => sess[l].top = "secio")
    BY <1>3 DEF Proposing, At, Top, Proper
  <2>15. /\ <<"propose", "exchange">> \in Seq(Messages) /\ <<"exchange">> \in Seq(Messages)
         /\ <<"nonce">> \in Seq(Messages) /\ Tail(<<"propose", "exchange">>) = <<"exchange">>
         /\ <<"exchange">> \o <<"nonce">> = <<"exchange", "nonce">> /\ Len(<<"exchange">>) = 1
    BY Lists DEF Messages
  <2>16. conn'[l].state = conn[l].state
    BY <2>8 DEF Alike
  <2>17. Stage(l)'
    <3>1. CASE alg = "none"
      <4>1. IsDue(conn'[l].state, conn'[l].in, <<"exchange">>)
        BY <1>3, <2>8, <2>14, <2>15, <2>16, <3>1, DueRead
      <4>2. conn'[l].in \in Seq(Messages)
        BY <2>8 DEF ConnType
      <4>3. Len(conn'[l].in) <= Len(<<"exchange">>)
        BY <2>15, <4>1, <4>2, DueShort
      <4>4. Len(conn'[l].in) <= 2
        BY <2>15, <4>2, <4>3
      <4>5. Left(l)'
        BY <2>5, <2>8, <2>9, <2>14, <3>1, <4>4, NotChecks DEF Left, Gone, Top, Proper
      <4> QED
        BY <4>5 DEF Stage
    <3>2. CASE alg # "none"
      <4>1. IsDue(conn'[l].state, conn'[l].in, <<"exchange", "nonce">>)
        <5>1. conn'[l].in = IF conn[l].state = "open" THEN Tail(conn[l].in) \o <<"nonce">>
                            ELSE Tail(conn[l].in)
          BY <2>8, <3>2
        <5>2. IsDue(conn'[l].state, conn'[l].in, Tail(<<"propose", "exchange">>) \o <<"nonce">>)
          BY <1>3, <2>14, <2>15, <2>16, <5>1, DueNext
        <5> QED
          BY <2>15, <5>2
      <4>2. At(l, {"secio"}, "exchange", {"multi"}, {})'
        <5>1. /\ sess'[l].conn = l => sess'[l].top \in {"secio"}
              /\ listener'[l].pc = "exchange" /\ conn'[l].ack = {"multi"} /\ conn'[l].verified = {}
          BY <2>5, <2>8, <2>9, <2>14, <3>2
        <5> QED
          BY <5>1, AtNext
      <4>3. Exchanging(l)'
        BY <4>1, <4>2 DEF Exchanging, Due
      <4> QED
        BY <4>3 DEF Stage
    <3> QED
      BY <3>1, <3>2
  <2>18. Owned(l)'
    BY <1>2, <2>9, <2>12, <2>17 DEF Owned, Kept, Proper
  <2>19. Places'
    BY <2>12, <2>13, <2>18, PlacesKept
  <2>20. /\ events \subseteq events'
         /\ events' \cap Marks \subseteq events
         /\ Replaces(l) => "replaced" \in events'
         /\ ~peer.known => "copied" \in events'
         /\ alg = "none" => "refused" \in events'
    BY <2>4 DEF Marks
  <2>21. ASSUME NEW d \in Dialers, Waiting(d), NEW t \in Conns, t = dialer[d].sess
         PROVE  /\ Replaces(l) => sess'[t].state = "freed"
                /\ ~Replaces(l) => t = l \/ sess'[t].state = "freed"
    <3>1. IsFreed(t) \/ t = peer.sess
      BY <2>21 DEF Dials, Stays
    <3>2. t # 0
      BY DEF Conns
    <3>3. t = peer.sess /\ ~Replaces(l) => t = l
      BY <1>2, <3>2 DEF Known, Replaces, Types
    <3> QED
      BY <2>5, <3>1, <3>3 DEF IsFreed
  <2>22. Dials'
    <3> SUFFICES ASSUME NEW d \in Dialers, Waiting(d)'
                 PROVE  Stays(d)'
      BY DEF Dials, Stays
    <3>1. Waiting(d) /\ Stays(d) /\ dialer'[d] = dialer[d]
      BY <2>3 DEF Waiting, Dials
    <3>2. PICK t \in Conns : t = dialer[d].sess /\ sess[t].state # "none"
      BY <3>1 DEF Stays
    <3>3. sess[t].conn \in Conns /\ t # 0
      BY <3>2, SessionOwned DEF Owned, Conns
    <3>4. /\ sess'[t].state # "none" /\ sess'[t].conn = sess[t].conn
          /\ conn'[sess[t].conn].accepted = conn[sess[t].conn].accepted /\ conn'[t].ack = conn[t].ack
      BY <2>5, <2>12, <3>2, <3>3
    <3>5. IsFreed(t)' \/ t = peer'.sess
      BY <2>10, <2>21, <3>1, <3>2, <3>3 DEF IsFreed
    <3>6. /\ dialer[d].pc = "multi" => ~conn[sess[t].conn].accepted
          /\ dialer[d].pc = "joined" /\ Proper(t) => "yamux" \in conn[t].ack
      BY <3>1, <3>2 DEF Stays
    <3>7. Proper(t)' <=> Proper(t)
      BY <3>4 DEF Proper
    <3> QED
      BY <3>1, <3>2, <3>4, <3>5, <3>6, <3>7 DEF Stays
  <2>23. Known'
    <3>1. ASSUME NEW c \in Conns
          PROVE  conn'[c].agreed /\ (listener'[c].temp => "copied" \in events')
      <4>1. conn'[c].agreed /\ (listener[c].temp => "copied" \in events')
        BY <2>12, <2>20 DEF Known
      <4>2. CASE c = l
        BY <2>9, <2>20, <4>1, <4>2
      <4>3. CASE c # l
        BY <2>9, <4>1, <4>3
      <4> QED
        BY <4>2, <4>3
    <3>2. sess'[l].state # "none" /\ ~IsFreed(l)'
      <4>1. ~(Replaces(l) /\ l = peer.sess)
        BY <1>2, ReplacedFacts
      <4> QED
        BY <1>2, <1>3, <2>5, <4>1 DEF Owned, IsFreed
    <3>3. sess'[peer'.sess].state # "none" /\ ~IsFreed(l)' /\ peer'.sess = l
      BY <2>10, <3>2
    <3>4. ~IsFreed(peer.sess)'
      BY <3>3 DEF IsFreed
    <3> QED
      BY <2>10, <3>1, <3>3, <3>4 DEF Known
  <2>24. Redials'
    BY <2>12, <2>20, RedialsKept
  <2>25. Orderly'
    <3> SUFFICES ASSUME Innocent'
                 PROVE  Peaceful'
      BY DEF Orderly
    <3>1. Innocent /\ Peaceful /\ ~Replaces(l)
      <4>1. Innocent /\ "replaced" \notin events'
        BY <2>20 DEF Innocent, Causes
      <4> QED
        BY <2>20, <4>1 DEF Orderly
    <3>2. ASSUME NEW x \in Conns
          PROVE  Unharmed(x)'
      <4>1. Unharmed(x) /\ sess'[x].state = sess[x].state /\ sess'[x].host = sess[x].host
        BY <2>5, <3>1 DEF Peaceful
      <4>2. conn'[x].state = conn[x].state
        BY <2>8, <2>16, <3>1 DEF base
      <4>3. CASE x = l
        BY <1>1, <2>9, <4>1, <4>2, <4>3 DEF Unharmed, Gone
      <4>4. CASE x # l
        BY <2>9, <4>1, <4>2, <4>4 DEF Unharmed
      <4> QED
        BY <4>3, <4>4
    <3>3. ASSUME NEW d \in Dialers, Waiting(d)'
          PROVE  Progress(d)'
      <4>1. Waiting(d) /\ dialer'[d] = dialer[d]
        BY <2>3, <3>3 DEF Waiting
      <4>2. PICK t \in Conns : t = dialer[d].sess /\ sess[t].state = "live"
        BY <3>1, <4>1, DialsInPeace
      <4>3. sess'[t].state # "freed"
        BY <3>1, <2>5, <4>2
      <4>4. t = l
        BY <2>21, <3>1, <4>1, <4>2, <4>3
      <4>5. Progress(d)
        BY <3>1, <4>1 DEF Peaceful
      <4>6. listener'[l].pc \in Gone => "refused" \in events'
        BY <2>9, <2>20 DEF Gone
      <4>7. /\ ~conn[l].accepted /\ (dialer[d].pc = "multi" <=> sess[l].top \in {"raw", "multi"})
            /\ dialer[d].pc \in {"type", "secio", "multi2"} => sess[l].top # "yamux"
            /\ dialer[d].pc = "multi2" => "secio" \in conn[l].ack
            /\ dialer[d].pc = "yamux" => sess[l].top = "yamux"
        BY <4>2, <4>4, <4>5 DEF Progress
      <4> QED
        BY <2>5, <2>10, <2>12, <4>1, <4>2, <4>4, <4>6, <4>7 DEF Progress
    <3>4. fault' = "none" /\ dialer' = dialer
      BY <2>3, <3>1 DEF Peaceful
    <3>5. \A d \in Dialers : dialer'[d].pc # "idle" => peer'.sess # 0
      BY <1>2, <2>10
    <3>6. \A d, e \in Dialers : dialer'[d].pc # "idle" /\ dialer'[e].pc # "idle" => d = e
      BY <3>1, <3>4 DEF Peaceful
    <3> QED
      BY <3>2, <3>3, <3>4, <3>5, <3>6 DEF Peaceful
  <2>26. Errors'
    BY <2>3, <2>20 DEF Errors
  <2>27. Grown
    BY <2>12 DEF Grown, Unasked
  <2> QED
    BY <2>11, <2>19, <2>22, <2>23, <2>24, <2>25, <2>26, <2>27 DEF Keeps
<1> QED
  BY <1>4, <1>5

-----------------------------------------------------------------------------
(* Steps of a thread that dials.                                            *)

\* The session a thread waits on, unless it is freed.
LEMMA WaitsOn ==
  ASSUME IInv, NEW d \in Dialers, Waiting(d), ~IsFreed(dialer[d].sess)
  PROVE  /\ dialer[d].sess \in Conns /\ dialer[d].sess = peer.sess
         /\ Owned(dialer[d].sess) /\ OnConn(d) = sess[dialer[d].sess].conn
BY SessionOwned DEF IInv, Dials, Stays, OnConn

\* A connection whose session has moved to one without layers has none ready.
LEMMA ReadyOnOwn ==
  ASSUME IInv, NEW s \in Conns, Owned(s), conn[sess[s].conn].ack # {}
  PROVE  Proper(s)
<1> USE DEF IInv
<1>1. CASE conn[sess[s].conn].owner = 0
  <2>1. sess[s].conn \in Conns
    BY DEF Owned
  <2>2. Unused(sess[s].conn) \/ Stray(sess[s].conn)
    BY <1>1, <2>1 DEF Places, Owned, Conns
  <2> QED
    BY <2>2 DEF Unused, Stray, NoConn
<1> QED
  BY <1>1 DEF Owned

\* A step of a thread that dials, on its own session.
LEMMA DialHere ==
  ASSUME IInv, NEW d \in Dialers, Waiting(d), NEW s \in Conns, s = dialer[d].sess,
         s = peer.sess, Owned(s),
         NEW k \in Waits \ {"idle", "failed", "multi"},
         dialer' \in [Dialers -> [pc : Waits, sess : 0 .. MaxConns]],
         dialer'[d].pc = k, dialer'[d].sess = s,
         \A e \in Dialers \ {d} : dialer'[e] = dialer[e],
         UNCHANGED <<peer, listener, slow, fault, events>>,
         conn' \in [Conns -> ConnType], sess' \in [Conns -> SessType],
         \A b \in Conns \ {s} : conn'[b] = conn[b] /\ sess'[b] = sess[b],
         Alike(conn'[s], conn[s]), conn'[s].ack = conn[s].ack,
         sess'[s].conn = sess[s].conn, sess'[s].state = sess[s].state,
         sess'[s].host = sess[s].host, Stage(s)',
         k = "joined" /\ Proper(s) => "yamux" \in conn[s].ack,
         Innocent => Progress(d)'
  PROVE  Keeps
<1> USE DEF IInv
<1>1. Types'
  BY DEF Types
<1>2. Here(s)
  BY DEF Here, Alike
<1>3. conn[s].state # "none"
  BY DEF Owned
<1>4. /\ \A x \in Conns : Kept(x)
      /\ \A x \in Conns \ {s} : Still(x) /\ sess'[x].host = sess[x].host
      /\ \A x \in Conns :
           /\ sess'[x].state = sess[x].state /\ conn'[x].state = conn[x].state
           /\ conn'[x].accepted = conn[x].accepted /\ conn[x].ack \subseteq conn'[x].ack
           /\ conn'[x].asks = conn[x].asks
           /\ conn'[x].agreed = conn[x].agreed /\ listener'[x].temp = listener[x].temp
  BY <1>2, <1>3, HereFrame
<1>5. Owned(s)'
  <2>1. listener'[s].pc \in InSecio => listener'[s].conn = s
    BY DEF Owned
  <2> QED
    BY <1>2, <2>1, HereOwned
<1>6. Places'
  BY <1>4, <1>5, PlacesKept
<1>7. Dials'
  <2> SUFFICES ASSUME NEW e \in Dialers, Waiting(e)'
               PROVE  Stays(e)'
    BY DEF Dials, Stays
  <2>1. CASE e = d
    <3>1. /\ sess'[s].state # "none" /\ peer'.sess = s /\ sess'[s].conn = sess[s].conn
      BY DEF Owned
    <3>2. k = "joined" /\ Proper(s)' => "yamux" \in conn'[s].ack
      BY <3>1 DEF Proper
    <3> QED
      BY <2>1, <3>1, <3>2 DEF Stays
  <2>2. CASE e # d
    <3>1. Waiting(e) /\ Stays(e) /\ dialer'[e] = dialer[e]
      BY <2>2 DEF Waiting, Dials
    <3>2. PICK t \in Conns : t = dialer[e].sess /\ sess[t].state # "none"
      BY <3>1 DEF Stays
    <3>3. sess[t].conn \in Conns
      BY <3>2, SessionOwned DEF Owned
    <3>4. /\ sess'[t].state = sess[t].state /\ sess'[t].conn = sess[t].conn
          /\ conn'[sess[t].conn].accepted = conn[sess[t].conn].accepted
          /\ conn[t].ack \subseteq conn'[t].ack
      BY <1>4, <3>2, <3>3 DEF Kept
    <3>5. (IsFreed(t)' <=> IsFreed(t)) /\ (Proper(t)' <=> Proper(t))
      BY <3>4 DEF IsFreed, Proper
    <3>6. /\ IsFreed(t) \/ t = peer.sess
          /\ dialer[e].pc = "multi" => ~conn[sess[t].conn].accepted
          /\ dialer[e].pc = "joined" /\ Proper(t) => "yamux" \in conn[t].ack
      BY <3>1, <3>2 DEF Stays
    <3> QED
      BY <3>1, <3>2, <3>4, <3>5, <3>6 DEF Stays
  <2> QED
    BY <2>1, <2>2
<1>8. Known'
  BY <1>4, KnownKept
<1>9. Redials'
  BY <1>4, RedialsKept
<1>10. Orderly'
  <2> SUFFICES ASSUME Innocent'
               PROVE  Peaceful'
    BY DEF Orderly
  <2>1. Innocent /\ Peaceful
    BY DEF Innocent, Orderly
  <2>2. fault' = "none" /\ dialer[d].pc # "idle" /\ peer'.sess # 0
    BY <2>1 DEF Peaceful, Waiting, Conns
  <2>3. ASSUME NEW x \in Conns
        PROVE  Unharmed(x)'
    <3>1. sess'[x].host = sess[x].host /\ listener'[x] = listener[x]
      BY <1>4
    <3> QED
      BY <1>4, <2>1, <3>1 DEF Peaceful, Unharmed
  <2>4. ASSUME NEW e \in Dialers, e # d
        PROVE  dialer'[e].pc = "idle"
    BY <2>1, <2>2, <2>4 DEF Peaceful
  <2>5. \A e \in Dialers : Waiting(e)' => Progress(e)'
    BY <2>1, <2>4 DEF Waiting
  <2> QED
    BY <2>2, <2>3, <2>4, <2>5 DEF Peaceful
<1>11. Errors'
  BY DEF Errors
<1>12. Grown
  BY <1>4 DEF Grown, Unasked
<1> QED
  BY <1>1, <1>6, <1>7, <1>8, <1>9, <1>10, <1>11, <1>12 DEF Keeps

\* A step of such a thread that only looks.
LEMMA DialLooks ==
  ASSUME IInv, NEW d \in Dialers, Waiting(d), NEW s \in Conns, s = dialer[d].sess,
         s = peer.sess, Owned(s),
         NEW k \in Waits \ {"idle", "failed", "multi"},
         dialer' \in [Dialers -> [pc : Waits, sess : 0 .. MaxConns]],
         dialer'[d].pc = k, dialer'[d].sess = s,
         \A e \in Dialers \ {d} : dialer'[e] = dialer[e],
         UNCHANGED <<sess, conn, peer, listener, slow, fault, events>>,
         k = "joined" /\ Proper(s) => "yamux" \in conn[s].ack,
         Innocent => Progress(d)'
  PROVE  Keeps
<1> USE DEF IInv
<1>1. Still(s) /\ conn[s].state # "none"
  BY DEF Still, Owned
<1>2. Stage(s)'
  BY <1>1, StageStays DEF Owned
<1>3. conn' \in [Conns -> ConnType] /\ sess' \in [Conns -> SessType]
  BY DEF Types
<1>4. Alike(conn'[s], conn[s])
  BY DEF Alike
<1> QED
  BY <1>2, <1>3, <1>4, DialHere

\* The next wait of a thread, on the session of its peer.
LEMMA AwaitFacts ==
  ASSUME Types, NEW d \in Dialers, NEW k \in Waits, NEW s \in Conns,
         \/ dialer' = [dialer EXCEPT ![d] = [pc |-> k, sess |-> s]]
         \/ dialer' = [dialer EXCEPT ![d].pc = k] /\ s = dialer[d].sess
  PROVE  /\ dialer' \in [Dialers -> [pc : Waits, sess : 0 .. MaxConns]]
         /\ dialer'[d].pc = k /\ dialer'[d].sess = s
         /\ \A e \in Dialers \ {d} : dialer'[e] = dialer[e]
<1>1. s \in 0 .. MaxConns /\ dialer[d] \in [pc : Waits, sess : 0 .. MaxConns]
      /\ dialer \in [Dialers -> [pc : Waits, sess : 0 .. MaxConns]]
  BY DEF Conns, Types
<1>2. [pc |-> k, sess |-> s] \in [pc : Waits, sess : 0 .. MaxConns]
  BY <1>1
<1>3. CASE dialer' = [dialer EXCEPT ![d] = [pc |-> k, sess |-> s]]
  BY <1>1, <1>2, <1>3
<1>4. CASE dialer' = [dialer EXCEPT ![d].pc = k] /\ s = dialer[d].sess
  <2>1. dialer' = [dialer EXCEPT ![d] = [dialer[d] EXCEPT !.pc = k]]
    BY <1>4
  <2>2. [dialer[d] EXCEPT !.pc = k] \in [pc : Waits, sess : 0 .. MaxConns]
    BY <1>1
  <2>3. dialer'[d] = [dialer[d] EXCEPT !.pc = k]
    BY <1>1, <2>1
  <2> QED
    BY <1>1, <1>4, <2>1, <2>2, <2>3
<1> QED
  BY <1>3, <1>4

LEMMA DialerTypeKeeps ==
  ASSUME IInv, NEW d \in Dialers, DialerType(d)
  PROVE  Keeps
<1>1. /\ Waiting(d) /\ ~IsFreed(dialer[d].sess) /\ dialer[d].pc = "type"
      /\ dialer' = [dialer EXCEPT ![d].pc = "secio"]
      /\ UNCHANGED <<sess, conn, peer, listener, slow, fault, events>>
  BY DEF DialerType, Ready, Waiting
<1>2. PICK s \in Conns : s = dialer[d].sess /\ s = peer.sess /\ Owned(s)
  BY <1>1, WaitsOn
<1>3. "secio" \in Waits \ {"idle", "failed", "multi"}
  BY DEF Waits
<1>4. /\ dialer' \in [Dialers -> [pc : Waits, sess : 0 .. MaxConns]]
      /\ dialer'[d].pc = "secio" /\ dialer'[d].sess = s
      /\ \A e \in Dialers \ {d} : dialer'[e] = dialer[e]
  BY <1>1, <1>2, <1>3, AwaitFacts DEF IInv
<1>5. Innocent => Progress(d)'
  <2> SUFFICES ASSUME Innocent
               PROVE  Progress(d)'
    OBVIOUS
  <2>1. Progress(d)
    BY <1>1 DEF IInv, Orderly, Peaceful
  <2> QED
    BY <1>1, <1>2, <1>4, <2>1 DEF Progress
<1> QED
  BY <1>1, <1>2, <1>3, <1>4, <1>5, DialLooks

LEMMA DialerSecioKeeps ==
  ASSUME IInv, NEW d \in Dialers, DialerSecio(d)
  PROVE  Keeps
<1>1. /\ Waiting(d) /\ ~IsFreed(dialer[d].sess) /\ dialer[d].pc = "secio"
      /\ dialer' = [dialer EXCEPT ![d] = [pc |-> "multi2", sess |-> peer.sess]]
      /\ "secio" \in conn[OnConn(d)].ack
      /\ UNCHANGED <<sess, conn, peer, listener, slow, fault, events>>
  BY DEF DialerSecio, Ready, Waiting, Await
<1>2. PICK s \in Conns : s = dialer[d].sess /\ s = peer.sess /\ Owned(s) /\ OnConn(d) = sess[s].conn
  BY <1>1, WaitsOn
<1>3. "multi2" \in Waits \ {"idle", "failed", "multi"}
  BY DEF Waits
<1>4. /\ dialer' \in [Dialers -> [pc : Waits, sess : 0 .. MaxConns]]
      /\ dialer'[d].pc = "multi2" /\ dialer'[d].sess = s
      /\ \A e \in Dialers \ {d} : dialer'[e] = dialer[e]
  BY <1>1, <1>2, <1>3, AwaitFacts DEF IInv
<1>5. Proper(s)
  BY <1>1, <1>2, ReadyOnOwn
<1>6. "secio" \in conn[s].ack
  BY <1>1, <1>2, <1>5 DEF Proper
<1>7. Innocent => Progress(d)'
  <2> SUFFICES ASSUME Innocent
               PROVE  Progress(d)'
    OBVIOUS
  <2>1. Progress(d)
    BY <1>1 DEF IInv, Orderly, Peaceful
  <2> QED
    BY <1>1, <1>2, <1>4, <1>6, <2>1 DEF Progress
<1> QED
  BY <1>1, <1>2, <1>3, <1>4, <1>7, DialLooks

LEMMA DialerJoinedKeeps ==
  ASSUME IInv, NEW d \in Dialers, DialerJoined(d)
  PROVE  Keeps
<1>1. /\ Waiting(d) /\ ~IsFreed(dialer[d].sess) /\ dialer[d].pc = "yamux"
      /\ dialer' = [dialer EXCEPT ![d].pc = "joined"]
      /\ "yamux" \in conn[OnConn(d)].ack
      /\ UNCHANGED <<sess, conn, peer, listener, slow, fault, events>>
  BY DEF DialerJoined, Ready, Waiting, IsReady
<1>2. PICK s \in Conns : s = dialer[d].sess /\ s = peer.sess /\ Owned(s) /\ OnConn(d) = sess[s].conn
  BY <1>1, WaitsOn
<1>3. "joined" \in Waits \ {"idle", "failed", "multi"}
  BY DEF Waits
<1>4. /\ dialer' \in [Dialers -> [pc : Waits, sess : 0 .. MaxConns]]
      /\ dialer'[d].pc = "joined" /\ dialer'[d].sess = s
      /\ \A e \in Dialers \ {d} : dialer'[e] = dialer[e]
  BY <1>1, <1>2, <1>3, AwaitFacts DEF IInv
<1>5. Proper(s) => "yamux" \in conn[s].ack
  BY <1>1, <1>2 DEF Proper
<1>6. Innocent => Progress(d)'
  <2> SUFFICES ASSUME Innocent
               PROVE  Progress(d)'
    OBVIOUS
  <2>1. Progress(d)
    BY <1>1 DEF IInv, Orderly, Peaceful
  <2> QED
    BY <1>1, <1>2, <1>4, <2>1 DEF Progress
<1> QED
  BY <1>1, <1>2, <1>3, <1>4, <1>5, <1>6, DialLooks

\* A wait that runs out.
LEMMA DialerTimeoutKeeps ==
  ASSUME IInv, NEW d \in Dialers, DialerTimeout(d)
  PROVE  Keeps
<1> USE DEF IInv
<1>1. /\ Waiting(d) /\ dialer' = [dialer EXCEPT ![d].pc = "failed"]
      /\ UNCHANGED <<sess, conn, peer, listener, fault>>
      /\ \/ slow' = slow /\ events' \subseteq events \cup {"missed"}
         \/ slow < MaxSlow /\ slow' = slow + 1 /\ events' = events \cup {"slow"}
      /\ events \subseteq events'
  <2>1. /\ dialer[d].pc \in {"multi", "type", "secio", "multi2", "yamux"}
        /\ dialer' = [dialer EXCEPT ![d].pc = "failed"]
        /\ UNCHANGED <<sess, conn, peer, listener, fault>>
        /\ slow' = slow \/ (slow < MaxSlow /\ slow' = slow + 1)
        /\ events' = events \cup IF slow' # slow THEN {"slow"} ELSE
                 IF dialer[d].pc = "type" /\ "secio" \in conn[OnConn(d)].ack
                   THEN {"missed"} ELSE {}
    BY DEF DialerTimeout, Dialling
  <2>2. slow \in Nat
    BY DEF Types
  <2> QED
    BY <2>1, <2>2 DEF Waiting
<1>2. /\ dialer' \in [Dialers -> [pc : Waits, sess : 0 .. MaxConns]]
      /\ dialer'[d].pc = "failed" /\ \A e \in Dialers \ {d} : dialer'[e] = dialer[e]
  <2>1. dialer[d] \in [pc : Waits, sess : 0 .. MaxConns] /\ "failed" \in Waits
    BY DEF Types, Waits
  <2>2. [dialer[d] EXCEPT !.pc = "failed"] \in [pc : Waits, sess : 0 .. MaxConns]
    BY <2>1
  <2>3. dialer' = [dialer EXCEPT ![d] = [dialer[d] EXCEPT !.pc = "failed"]]
    BY <1>1
  <2> QED
    BY <2>1, <2>2, <2>3 DEF Types
<1>3. slow' \in 0 .. MaxSlow
  BY <1>1, ConnectionAssumption DEF Types
<1>4. Types'
  BY <1>1, <1>2, <1>3 DEF Types
<1>5. \A c \in Conns : Stage(c)' <=> Stage(c)
  BY <1>1 DEF Stage, Greeting, MultiUp, Asked, Proposing, Exchanging, Comparing, Secured, Multi2Up,
         YamuxAsked, YamuxUp, Left, At, Top, Proper, Due, LastMs
<1>6. Places'
  BY <1>1, <1>5 DEF Places, Unused, Owned, Stray, Proper
<1>7. Dials'
  <2> SUFFICES ASSUME NEW e \in Dialers, Waiting(e)'
               PROVE  Stays(e)'
    BY DEF Dials, Stays
  <2>1. e # d /\ dialer'[e] = dialer[e]
    BY <1>2 DEF Waiting
  <2>2. Waiting(e) /\ Stays(e)
    BY <2>1 DEF Dials, Waiting
  <2> QED
    BY <1>1, <2>1, <2>2 DEF Stays, Proper, IsFreed
<1>8. Known' /\ Redials'
  BY <1>1 DEF Known, IsFreed, Redials
<1>9. Orderly'
  <2> SUFFICES ASSUME Innocent'
               PROVE  Peaceful'
    BY DEF Orderly
  <2>1. Innocent /\ Peaceful
    BY <1>1 DEF Innocent, Orderly
  <2>2. \A x \in Conns : Unharmed(x)'
    BY <1>1, <2>1 DEF Peaceful, Unharmed
  <2>3. peer'.sess # 0 /\ fault' = "none"
    BY <1>1, <2>1 DEF Peaceful, Waiting
  <2>4. ASSUME NEW e \in Dialers, dialer'[e].pc # "idle"
        PROVE  e = d
    BY <1>1, <1>2, <2>1, <2>4 DEF Peaceful, Waiting
  <2>5. \A e \in Dialers : Waiting(e)' => Progress(e)'
    BY <1>2, <2>4 DEF Waiting
  <2> QED
    BY <2>2, <2>3, <2>4, <2>5 DEF Peaceful
<1>10. Errors'
  BY <1>1 DEF Errors, Marks
<1>11. Grown
  BY <1>1 DEF Grown, Unasked
<1> QED
  BY <1>4, <1>6, <1>7, <1>8, <1>9, <1>10, <1>11 DEF Keeps

LEMMA DialerLostKeeps ==
  ASSUME IInv, NEW d \in Dialers, DialerLost(d)
  PROVE  Keeps
<1>1. /\ Waiting(d) /\ (Fail("freed") \/ Fail("null"))
      /\ (IsFreed(dialer[d].sess) \/ peer.sess = 0)
  BY DEF DialerLost, Dialling, Waiting
<1>2. ASSUME Innocent
      PROVE  FALSE
  <2>1. PICK s \in Conns : s = dialer[d].sess /\ sess[s].state = "live" /\ Progress(d)
    BY <1>1, <1>2, DialsInPeace
  <2> QED
    BY <1>1, <2>1 DEF Progress, IsFreed, Conns
<1> QED
  BY <1>1, <1>2, FailKeeps

\* What is due when a thread has written without reading.
LEMMA DueWrite ==
  ASSUME Types, NEW c \in Conns, conn[c].state # "none",
         NEW q \in Seq(Messages), Due(c, q), NEW r \in Seq(Messages),
         conn'[c].state = conn[c].state,
         conn'[c].in = IF conn[c].state = "open" THEN conn[c].in \o r ELSE conn[c].in
  PROVE  IsDue(conn'[c].state, conn'[c].in, q \o r)
<1>1. conn[c].in \in Seq(Messages) /\ conn[c].state \in {"open", "closed"}
  BY ConnFields
<1>2. IsDue(conn[c].state, conn[c].in, q)
  BY DEF Due
<1> QED
  BY <1>1, <1>2, DueMore

LEMMA DialerMultistreamKeeps ==
  ASSUME IInv, NEW d \in Dialers, DialerMultistream(d)
  PROVE  Keeps
<1> USE DEF IInv
<1>1. /\ Waiting(d) /\ ~IsFreed(dialer[d].sess) /\ dialer[d].pc = "multi"
      /\ sess[dialer[d].sess].top = "multi" /\ "multi" \in conn[OnConn(d)].ack
      /\ sess' = Upgrade(OnConn(d), "secio") /\ conn' = Write(conn, OnConn(d), "secio")
      /\ dialer' = [dialer EXCEPT ![d] = [pc |-> "type", sess |-> peer.sess]]
      /\ UNCHANGED <<peer, listener, slow, fault, events>>
  BY DEF DialerMultistream, Ready, Waiting, Await, IsReady, Topmost
<1>2. PICK s \in Conns : s = dialer[d].sess /\ s = peer.sess /\ Owned(s) /\ OnConn(d) = sess[s].conn
  BY <1>1, WaitsOn
<1>3. "type" \in Waits \ {"idle", "failed", "multi"} /\ "secio" \in Messages /\ "secio" \in Layers
  BY DEF Waits, Messages, Layers
<1>4. /\ dialer' \in [Dialers -> [pc : Waits, sess : 0 .. MaxConns]]
      /\ dialer'[d].pc = "type" /\ dialer'[d].sess = s
      /\ \A e \in Dialers \ {d} : dialer'[e] = dialer[e]
  BY <1>1, <1>2, <1>3, AwaitFacts
<1>5. Proper(s) /\ OnConn(d) = s
  BY <1>1, <1>2, ReadyOnOwn DEF Proper
<1>6. ~conn[s].accepted /\ conn[s].state # "none" /\ conn[s].owner = s
  BY <1>1, <1>2, <1>5 DEF Dials, Stays, Owned
<1>7. MultiUp(s)
  BY <1>1, <1>2, <1>5, <1>6 DEF Owned, Stage, Greeting, Asked, Proposing, Exchanging, Comparing,
     Secured, Multi2Up, YamuxAsked, YamuxUp, Left, At, Top
<1>8. /\ sess' \in [Conns -> SessType] /\ \A b \in Conns \ {s} : sess'[b] = sess[b]
      /\ sess'[s].top = "secio" /\ sess'[s].conn = s /\ sess'[s].host = sess[s].host
      /\ sess'[s].state = sess[s].state
  BY <1>1, <1>3, <1>5, <1>6, TopFacts
<1>9. /\ conn' \in [Conns -> ConnType] /\ \A b \in Conns \ {s} : conn'[b] = conn[b]
      /\ Alike(conn'[s], conn[s]) /\ conn'[s].verified = conn[s].verified
      /\ conn'[s].ack = conn[s].ack
      /\ conn'[s].in = IF conn[s].state = "open" THEN conn[s].in \o Reply(s, "secio") ELSE conn[s].in
  BY <1>1, <1>3, <1>5, WriteFacts, ConnFields
<1>10. Reply(s, "secio") = <<"secio", "propose">>
  BY <1>6, Replies
<1>11. Due(s, <<>>) /\ conn[s].ack = {"multi"} /\ conn[s].verified = {} /\ listener[s].pc = "read"
  BY <1>6, <1>7 DEF MultiUp, At
<1>12. /\ <<>> \in Seq(Messages) /\ <<"secio", "propose">> \in Seq(Messages)
       /\ <<>> \o <<"secio", "propose">> = <<"secio", "propose">>
  BY Lists DEF Messages
<1>13. conn'[s].state = conn[s].state /\ conn'[s].accepted = conn[s].accepted
  BY <1>9 DEF Alike
<1>14. IsDue(conn'[s].state, conn'[s].in, <<>> \o <<"secio", "propose">>)
  BY <1>6, <1>9, <1>10, <1>11, <1>12, <1>13, DueWrite
<1>15. Stage(s)'
  <2>1. At(s, {"secio"}, "read", {"multi"}, {})'
    BY <1>1, <1>8, <1>9, <1>11, AtNext
  <2>2. Asked(s)'
    BY <1>6, <1>12, <1>13, <1>14, <2>1 DEF Asked, Due
  <2> QED
    BY <2>2 DEF Stage
<1>16. Innocent => Progress(d)'
  <2> SUFFICES ASSUME Innocent
               PROVE  Progress(d)'
    OBVIOUS
  <2>1. Progress(d)
    BY <1>1 DEF Orderly, Peaceful
  <2> QED
    BY <1>1, <1>2, <1>4, <1>6, <1>8, <1>11, <1>13, <2>1 DEF Progress, Gone
<1>17. sess'[s].conn = sess[s].conn
  BY <1>5, <1>8 DEF Proper
<1> QED
  BY <1>1, <1>2, <1>3, <1>4, <1>8, <1>9, <1>15, <1>16, <1>17, DialHere

LEMMA DialerYamuxKeeps ==
  ASSUME IInv, NEW d \in Dialers, DialerYamux(d)
  PROVE  Keeps
<1> USE DEF IInv
<1>1. /\ Waiting(d) /\ ~IsFreed(dialer[d].sess) /\ dialer[d].pc = "multi2"
      /\ sess[dialer[d].sess].top = "multi2" /\ "multi2" \in conn[OnConn(d)].ack
      /\ sess' = Upgrade(OnConn(d), "yamux") /\ conn' = Write(conn, OnConn(d), "yamux")
      /\ dialer' = [dialer EXCEPT ![d] = [pc |-> "yamux", sess |-> peer.sess]]
      /\ UNCHANGED <<peer, listener, slow, fault, events>>
  BY DEF DialerYamux, Ready, Waiting, Await, IsReady, Topmost
<1>2. PICK s \in Conns : s = dialer[d].sess /\ s = peer.sess /\ Owned(s) /\ OnConn(d) = sess[s].conn
  BY <1>1, WaitsOn
<1>3. "yamux" \in Waits \ {"idle", "failed", "multi"} /\ "yamux" \in Messages /\ "yamux" \in Layers
  BY DEF Waits, Messages, Layers
<1>4. /\ dialer' \in [Dialers -> [pc : Waits, sess : 0 .. MaxConns]]
      /\ dialer'[d].pc = "yamux" /\ dialer'[d].sess = s
      /\ \A e \in Dialers \ {d} : dialer'[e] = dialer[e]
  BY <1>1, <1>2, <1>3, AwaitFacts
<1>5. Proper(s) /\ OnConn(d) = s
  BY <1>1, <1>2, ReadyOnOwn DEF Proper
<1>6. conn[s].state # "none" /\ conn[s].owner = s
  BY <1>2 DEF Owned
<1>7. Multi2Up(s) \/ (Left(s) /\ conn[s].verified = Checks)
  <2>1. Multi2Up(s) \/ Left(s)
    BY <1>1, <1>2, <1>5 DEF Owned, Stage, Greeting, MultiUp, Asked, Proposing, Exchanging, Comparing,
       Secured, YamuxAsked, YamuxUp, At, Top
  <2>2. Left(s) => conn[s].verified = Checks
    BY <1>1, <1>2, <1>5 DEF Left, Top
  <2> QED
    BY <2>1, <2>2
<1>8. /\ sess' \in [Conns -> SessType] /\ \A b \in Conns \ {s} : sess'[b] = sess[b]
      /\ sess'[s].top = "yamux" /\ sess'[s].conn = s /\ sess'[s].host = sess[s].host
      /\ sess'[s].state = sess[s].state
  BY <1>1, <1>3, <1>5, <1>6, TopFacts
<1>9. /\ conn' \in [Conns -> ConnType] /\ \A b \in Conns \ {s} : conn'[b] = conn[b]
      /\ Alike(conn'[s], conn[s]) /\ conn'[s].verified = conn[s].verified
      /\ conn'[s].ack = conn[s].ack
      /\ conn'[s].in = IF conn[s].state = "open" THEN conn[s].in \o Reply(s, "yamux") ELSE conn[s].in
  BY <1>1, <1>3, <1>5, WriteFacts DEF Types
<1>10. Reply(s, "yamux") = IF conn[s].accepted THEN <<>> ELSE <<"yamux">>
  BY Replies
<1>11. /\ <<>> \in Seq(Messages) /\ <<"yamux">> \in Seq(Messages) /\ <<>> \o <<"yamux">> = <<"yamux">>
       /\ <<"yamux">> \o <<>> = <<"yamux">> /\ <<>> \o <<>> = <<>>
       /\ Len(<<>>) = 0 /\ Len(<<"yamux">>) = 1
  BY <1>3, Lists
<1>12. conn'[s].state = conn[s].state
  BY <1>9 DEF Alike
<1>13. Stage(s)'
  <2>1. CASE Multi2Up(s)
    <3>1. conn[s].ack = {"multi", "secio", "multi2"} /\ conn[s].verified = Checks /\ listener[s].pc = "read"
      BY <2>1 DEF Multi2Up, At
    <3>2. IsDue(conn'[s].state, conn'[s].in, <<"yamux">>)
      <4>1. CASE conn[s].accepted
        <5>1. Due(s, <<"yamux">>) /\ Reply(s, "yamux") = <<>>
          BY <1>10, <2>1, <4>1 DEF Multi2Up
        <5>2. IsDue(conn'[s].state, conn'[s].in, <<"yamux">> \o <<>>)
          BY <1>6, <1>9, <1>11, <1>12, <5>1, DueWrite
        <5> QED
          BY <1>11, <5>2
      <4>2. CASE ~conn[s].accepted
        <5>1. Due(s, <<>>) /\ Reply(s, "yamux") = <<"yamux">>
          BY <1>10, <2>1, <4>2 DEF Multi2Up
        <5>2. IsDue(conn'[s].state, conn'[s].in, <<>> \o <<"yamux">>)
          BY <1>6, <1>9, <1>11, <1>12, <5>1, DueWrite
        <5> QED
          BY <1>11, <5>2
      <4> QED
        BY <4>1, <4>2
    <3>3. At(s, {"yamux"}, "read", {"multi", "secio", "multi2"}, Checks)'
      BY <1>1, <1>8, <1>9, <3>1, AtNext
    <3>4. YamuxAsked(s)'
      BY <3>2, <3>3 DEF YamuxAsked, Due
    <3> QED
      BY <3>4 DEF Stage
  <2>2. CASE Left(s) /\ conn[s].verified = Checks
    <3>1. conn[s].in = <<>> /\ listener[s].pc \in Gone /\ {"multi", "secio"} \subseteq conn[s].ack
      BY <1>1, <1>2, <1>5, <2>2 DEF Left
    <3>2. conn'[s].in = <<>> \/ conn'[s].in = <<"yamux">>
      <4>1. CASE conn[s].accepted
        <5>1. Reply(s, "yamux") = <<>>
          BY <1>10, <4>1
        <5> QED
          BY <1>9, <1>11, <3>1, <5>1
      <4>2. CASE ~conn[s].accepted
        <5>1. Reply(s, "yamux") = <<"yamux">>
          BY <1>10, <4>2
        <5> QED
          BY <1>9, <1>11, <3>1, <5>1
      <4> QED
        BY <4>1, <4>2
    <3>3. Len(conn'[s].in) <= 2
      <4>1. CASE conn'[s].in = <<>>
        BY <1>11, <4>1
      <4>2. CASE conn'[s].in = <<"yamux">>
        BY <1>11, <4>2
      <4> QED
        BY <3>2, <4>1, <4>2
    <3>4. Left(s)'
      BY <1>1, <1>8, <1>9, <2>2, <3>1, <3>3 DEF Left, Top
    <3> QED
      BY <3>4 DEF Stage
  <2> QED
    BY <1>7, <2>1, <2>2
<1>14. Innocent => Progress(d)'
  <2> SUFFICES ASSUME Innocent
               PROVE  Progress(d)'
    OBVIOUS
  <2>1. Progress(d)
    BY <1>1 DEF Orderly, Peaceful
  <2>2. ~conn'[s].accepted
    BY <1>2, <1>9, <2>1 DEF Progress, Alike
  <2> QED
    BY <1>1, <1>2, <1>4, <1>8, <2>1, <2>2 DEF Progress
<1>15. sess'[s].conn = sess[s].conn
  BY <1>5, <1>8 DEF Proper
<1> QED
  BY <1>1, <1>2, <1>3, <1>4, <1>8, <1>9, <1>13, <1>14, <1>15, DialHere

-----------------------------------------------------------------------------
(* New connections.                                                         *)

\* The stage of a connection whose session moves to another one.
LEMMA StageMoved ==
  ASSUME NEW b \in Conns, Stage(b), conn'[b] = conn[b], listener'[b] = listener[b], ~Proper(b)'
  PROVE  Stage(b)'
<1>1. Greeting(b) => Greeting(b)'
  BY DEF Greeting, At, Top, Due
<1>2. (MultiUp(b) => MultiUp(b)') /\ (Asked(b) => Asked(b)')
  BY DEF MultiUp, Asked, At, Top, Due
<1>3. (Proposing(b) => Proposing(b)') /\ (Exchanging(b) => Exchanging(b)')
  BY DEF Proposing, Exchanging, At, Top, Due
<1>4. (Comparing(b) => Comparing(b)') /\ (Secured(b) => Secured(b)')
  BY DEF Comparing, Secured, At, Top, Due, LastMs
<1>5. Multi2Up(b) => Multi2Up(b)'
  BY DEF Multi2Up, At, Top, Due
<1>6. (YamuxAsked(b) => YamuxAsked(b)') /\ (YamuxUp(b) => YamuxUp(b)')
  BY DEF YamuxAsked, YamuxUp, At, Top, Due
<1>7. Left(b) => Left(b)'
  BY DEF Left, Top
<1> QED
  BY <1>1, <1>2, <1>3, <1>4, <1>5, <1>6, <1>7 DEF Stage

\* A new connection c disturbs no other; it may take the session of one.
LEMMA OthersPlaced ==
  ASSUME Types, Places, NEW c \in Conns, conn[c].state = "none", conn'[c].state # "none",
         \A b \in Conns \ {c} :
           /\ conn'[b] = conn[b] /\ listener'[b] = listener[b]
           /\ \/ sess'[b] = sess[b]
              \/ sess[b].state # "none" /\ sess'[b].state # "none"
                 /\ sess'[b].conn = c /\ conn'[c].owner = 0,
         NEW b \in Conns \ {c}
  PROVE  (Unused(b) \/ Owned(b) \/ Stray(b))'
<1>1. \A x \in Conns : sess[x].state # "none" => x # c
  BY DEF Places, Unused, Owned, Stray
<1>2. CASE Unused(b)
  <2>1. sess'[b] = sess[b]
    BY <1>2 DEF Unused
  <2>2. Unused(b)'
    BY <1>2, <2>1 DEF Unused
  <2> QED
    BY <2>2
<1>3. CASE Owned(b)
  <2>1. sess[b].conn \in Conns \ {c} /\ conn'[sess[b].conn] = conn[sess[b].conn]
    BY <1>3 DEF Owned
  <2>2. conn'[b].owner = b /\ conn'[b].state # "none" /\ listener'[b].sess = b
        /\ (listener'[b].pc \in InSecio => listener'[b].conn = b)
    BY <1>3 DEF Owned
  <2>3. CASE sess'[b] = sess[b]
    <3>1. Still(b)
      BY <2>3 DEF Still
    <3>2. Stage(b)'
      BY <1>3, <2>3, <3>1, StageStays DEF Owned
    <3>3. Owned(b)'
      BY <1>3, <2>1, <2>2, <2>3, <3>2 DEF Owned, Proper
    <3> QED
      BY <3>3
  <2>4. CASE sess'[b].state # "none" /\ sess'[b].conn = c /\ conn'[c].owner = 0
    <3>1. ~Proper(b)'
      BY <2>4 DEF Proper
    <3>2. Stage(b)'
      BY <1>3, <3>1, StageMoved DEF Owned
    <3>3. Owned(b)'
      BY <2>2, <2>4, <3>2 DEF Owned
    <3> QED
      BY <3>3
  <2> QED
    BY <2>3, <2>4
<1>4. CASE Stray(b)
  <2>1. PICK s \in Conns : s = listener[b].sess /\ sess[s].state # "none" /\ conn[s].owner = s
                           /\ ~Proper(s)
    BY <1>4 DEF Stray
  <2>2. s # c /\ conn'[s] = conn[s] /\ sess'[s].state # "none" /\ ~Proper(s)'
    BY <1>1, <2>1 DEF Proper
  <2>3. sess[b].state = "none" /\ sess'[b] = sess[b]
    BY <1>4 DEF Stray
  <2>4. Stray(b)'
    BY <1>4, <2>1, <2>2, <2>3 DEF Stray
  <2> QED
    BY <2>4
<1> QED
  BY <1>2, <1>3, <1>4 DEF Places

\* A new connection, and its thread.
LEMMA OpenedFacts ==
  ASSUME Types, NEW c \in Conns, NEW owner \in 0 .. MaxConns, NEW q \in Seq(Messages),
         NEW asks \in BOOLEAN, conn' = [conn EXCEPT ![c] = Opened(owner, FALSE, asks, q)]
  PROVE  /\ conn' \in [Conns -> ConnType] /\ \A b \in Conns \ {c} : conn'[b] = conn[b]
         /\ conn'[c].state = "open" /\ conn'[c].owner = owner /\ conn'[c].accepted = FALSE
         /\ conn'[c].in = q /\ conn'[c].ack = {} /\ conn'[c].verified = {}
         /\ conn'[c].agreed = TRUE
<1>1. PICK r : r = Opened(owner, FALSE, asks, q)
  OBVIOUS
<1>2. /\ r \in ConnType /\ r.state = "open" /\ r.owner = owner /\ r.accepted = FALSE
      /\ r.in = q /\ r.ack = {} /\ r.verified = {} /\ r.agreed = TRUE
  BY <1>1 DEF Opened, NoConn, ConnType
<1>3. conn' = [conn EXCEPT ![c] = r]
  BY <1>1
<1>4. conn'[c] = r /\ conn' \in [Conns -> ConnType] /\ \A b \in Conns \ {c} : conn'[b] = conn[b]
  <2>1. conn \in [Conns -> ConnType] /\ c \in Conns
    BY DEF Types
  <2>2. r \in ConnType
    BY <1>2
  <2>3. conn' \in [Conns -> ConnType]
    BY <1>3, <2>1, <2>2
  <2>4. conn'[c] = r
    BY <1>3, <2>1
  <2>5. ASSUME NEW b \in Conns \ {c}
        PROVE  conn'[b] = conn[b]
    BY <1>3, <2>1, <2>5
  <2> QED
    BY <2>3, <2>4, <2>5
<1> QED
  BY <1>2, <1>4

LEMMA FreshListener ==
  ASSUME Types, NEW c \in Conns, NEW s \in Conns, NEW ls, ls = Listening(c, s)
  PROVE  /\ ls \in [Conns -> [pc : Steps, sess : 0 .. MaxConns, conn : 0 .. MaxConns,
                              temp : BOOLEAN]]
         /\ \A b \in Conns \ {c} : ls[b] = listener[b]
         /\ ls[c].pc = "read" /\ ls[c].sess = s /\ ls[c].temp = listener[c].temp
<1>1. listener[c] \in [pc : Steps, sess : 0 .. MaxConns, conn : 0 .. MaxConns, temp : BOOLEAN]
      /\ s \in 0 .. MaxConns /\ "read" \in Steps
  BY DEF Types, Conns, Steps
<1>2. [listener[c] EXCEPT !.pc = "read", !.sess = s]
        \in [pc : Steps, sess : 0 .. MaxConns, conn : 0 .. MaxConns, temp : BOOLEAN]
  BY <1>1
<1>3. ls = [listener EXCEPT ![c] = [listener[c] EXCEPT !.pc = "read", !.sess = s]]
  BY DEF Listening
<1>4. /\ ls[c] = [listener[c] EXCEPT !.pc = "read", !.sess = s]
      /\ \A b \in Conns \ {c} : ls[b] = listener[b]
      /\ ls \in [Conns -> [pc : Steps, sess : 0 .. MaxConns, conn : 0 .. MaxConns, temp : BOOLEAN]]
  BY <1>2, <1>3 DEF Types
<1> QED
  BY <1>1, <1>4

\* The dials that go on when connection c is new.
LEMMA DialsBeside ==
  ASSUME IInv, NEW c \in Conns, conn[c].state = "none",
         \A b \in Conns \ {c} : conn'[b] = conn[b] /\ sess'[b] = sess[b],
         NEW e \in Dialers, Waiting(e), dialer'[e] = dialer[e],
         peer.sess # 0 => peer'.sess = peer.sess
  PROVE  Stays(e)'
<1> USE DEF IInv
<1>1. PICK t \in Conns : t = dialer[e].sess /\ sess[t].state # "none" /\ (IsFreed(t) \/ t = peer.sess)
  BY DEF Dials, Stays
<1>2. Owned(t) /\ t # c /\ sess[t].conn # c /\ sess[t].conn \in Conns /\ t # 0
  BY <1>1, SessionOwned DEF Owned, Conns
<1>3. /\ sess'[t] = sess[t] /\ conn'[t] = conn[t] /\ conn'[sess[t].conn] = conn[sess[t].conn]
  BY <1>2
<1>4. /\ dialer[e].pc = "multi" => ~conn[sess[t].conn].accepted
      /\ dialer[e].pc = "joined" /\ Proper(t) => "yamux" \in conn[t].ack
  BY <1>1 DEF Dials, Stays
<1>5. (IsFreed(t)' <=> IsFreed(t)) /\ (Proper(t)' <=> Proper(t))
  BY <1>3 DEF IsFreed, Proper
<1>6. IsFreed(t) \/ t = peer'.sess
  BY <1>1, <1>2
<1> QED
  BY <1>1, <1>3, <1>4, <1>5, <1>6 DEF Stays

\* What a new connection and its session are in place of.
LEMMA FreeFacts ==
  ASSUME IInv, NEW c \in Conns, Free(c)
  PROVE  /\ conn[c].state = "none" /\ sess[c].state = "none" /\ listener[c].pc = "none"
         /\ c # 0 /\ c \in 0 .. MaxConns
BY DEF IInv, Free, Places, Unused, Owned, Stray, Conns

LEMMA OpenedGrows ==
  ASSUME IInv, NEW c \in Conns, Free(c), \A b \in Conns \ {c} : conn'[b] = conn[b]
  PROVE  Grown
<1>1. conn[c] = NoConn
  BY DEF IInv, Places, Free, Unused, Owned, Stray
<1>2. ~Unasked(c)
  BY <1>1 DEF Unasked, NoConn
<1> QED
  BY <1>2 DEF Grown, Unasked

LEMMA DialFreshKeeps ==
  ASSUME IInv, NEW d \in Dialers, NEW c \in Conns, NEW asks \in BOOLEAN,
         Free(c), peer.known, peer.sess = 0, Up,
         sess' = [sess EXCEPT ![c] = [state |-> "live", conn |-> c, top |-> "raw", host |-> "set"]],
         conn' = [conn EXCEPT ![c] = Opened(c, FALSE, asks, <<"ms">>)],
         peer' = [peer EXCEPT !.sess = c, !.connected = FALSE],
         listener' = Listening(c, c),
         dialer' = [dialer EXCEPT ![d] = [pc |-> "multi", sess |-> c]],
         UNCHANGED <<slow, fault, events>>
  PROVE  Keeps
<1> USE DEF IInv
<1>1. /\ conn[c].state = "none" /\ sess[c].state = "none" /\ listener[c].pc = "none"
      /\ c # 0 /\ c \in 0 .. MaxConns
  BY FreeFacts
<1>2. /\ "raw" \in Layers /\ "read" \in Steps /\ "multi" \in Waits
      /\ <<"ms">> \in Seq(Messages)
  BY Lists DEF Layers, Steps, Waits, Messages
<1>3. /\ sess' \in [Conns -> SessType] /\ \A b \in Conns \ {c} : sess'[b] = sess[b]
      /\ sess'[c].state = "live" /\ sess'[c].conn = c /\ sess'[c].top = "raw"
      /\ sess'[c].host = "set"
  <2>1. [state |-> "live", conn |-> c, top |-> "raw", host |-> "set"] \in SessType
    BY <1>1, <1>2 DEF SessType
  <2> QED
    BY <2>1 DEF Types
<1>4. /\ conn' \in [Conns -> ConnType] /\ \A b \in Conns \ {c} : conn'[b] = conn[b]
      /\ conn'[c].state = "open" /\ conn'[c].owner = c /\ conn'[c].accepted = FALSE
      /\ conn'[c].in = <<"ms">> /\ conn'[c].ack = {} /\ conn'[c].verified = {}
      /\ conn'[c].agreed = TRUE
  BY <1>1, <1>2, OpenedFacts
<1>5. /\ listener' \in [Conns -> [pc : Steps, sess : 0 .. MaxConns, conn : 0 .. MaxConns,
                                 temp : BOOLEAN]]
      /\ \A b \in Conns \ {c} : listener'[b] = listener[b]
      /\ listener'[c].pc = "read" /\ listener'[c].sess = c /\ listener'[c].temp = listener[c].temp
  BY FreshListener
<1>6. /\ dialer' \in [Dialers -> [pc : Waits, sess : 0 .. MaxConns]]
      /\ dialer'[d].pc = "multi" /\ dialer'[d].sess = c
      /\ \A e \in Dialers \ {d} : dialer'[e] = dialer[e]
  BY <1>2, AwaitFacts
<1>7. /\ peer' \in [known : BOOLEAN, sess : 0 .. MaxConns, connected : BOOLEAN]
      /\ peer'.sess = c /\ peer'.known
  BY <1>1 DEF Types
<1>8. Types'
  BY <1>3, <1>4, <1>5, <1>6, <1>7 DEF Types
<1>9. Owned(c)'
  <2>1. At(c, {"raw"}, "read", {}, {})'
    BY <1>3, <1>4, <1>5, AtNext
  <2>2. Due(c, <<"ms">>)'
    BY <1>4 DEF Due, IsDue
  <2>3. Greeting(c)'
    BY <1>4, <2>1, <2>2 DEF Greeting
  <2> QED
    BY <1>3, <1>4, <1>5, <2>3 DEF Owned, Stage, Proper, InSecio
<1>10. Places'
  <2>1. \A b \in Conns \ {c} : (Unused(b) \/ Owned(b) \/ Stray(b))'
    <3>1. Types /\ Places /\ conn[c].state = "none" /\ conn'[c].state # "none"
      BY <1>1, <1>4
    <3>2. ASSUME NEW b \in Conns \ {c}
          PROVE  conn'[b] = conn[b] /\ listener'[b] = listener[b] /\ sess'[b] = sess[b]
      BY <1>3, <1>4, <1>5, <3>2
    <3> QED
      BY <3>1, <3>2, OthersPlaced
  <2> QED
    BY <1>9, <2>1 DEF Places
<1>11. Dials'
  <2>1. ASSUME NEW e \in Dialers, e # d
        PROVE  Stays(e)'
    <3>1. CASE Waiting(e)
      BY <1>1, <1>3, <1>4, <1>6, <2>1, <3>1, DialsBeside
    <3>2. CASE ~Waiting(e)
      BY <1>6, <2>1, <3>2 DEF Stays, Waiting
    <3> QED
      BY <3>1, <3>2
  <2>2. Stays(d)'
    BY <1>3, <1>4, <1>6, <1>7, ZenonT(60) DEF Stays
  <2> QED
    BY <2>1, <2>2 DEF Dials
<1>12. Known'
  <2>1. ASSUME NEW b \in Conns
        PROVE  conn'[b].agreed /\ (listener'[b].temp => "copied" \in events')
    <3>1. conn[b].agreed /\ (listener[b].temp => "copied" \in events)
      BY DEF Known
    <3> QED
      BY <1>4, <1>5, <3>1
  <2>2. sess'[peer'.sess].state = "live"
    BY <1>3, <1>7
  <2>3. ~IsFreed(peer.sess)'
    BY <2>2 DEF IsFreed
  <2> QED
    BY <1>7, <2>1, <2>2, <2>3 DEF Known
<1>13. Redials'
  BY <1>1, <1>4 DEF Redials
<1>14. Orderly'
  <2> SUFFICES ASSUME Innocent'
               PROVE  Peaceful'
    BY DEF Orderly
  <2>1. Innocent /\ Peaceful
    BY DEF Innocent, Orderly
  <2>2. \A e \in Dialers : dialer[e].pc = "idle"
    BY <2>1 DEF Peaceful
  <2>3. \A e \in Dialers : dialer'[e].pc # "idle" => e = d
    BY <1>6, <2>2
  <2>4. ASSUME NEW x \in Conns
        PROVE  Unharmed(x)'
    <3>1. CASE x = c
      BY <1>3, <1>4, <1>5, <3>1 DEF Unharmed
    <3>2. CASE x # c
      BY <1>3, <1>4, <1>5, <2>1, <3>2 DEF Peaceful, Unharmed
    <3> QED
      BY <3>1, <3>2
  <2>5. Progress(d)'
    BY <1>3, <1>4, <1>5, <1>6, <1>7 DEF Progress, Gone
  <2>6. fault' = "none" /\ peer'.sess # 0
    BY <1>1, <1>7 DEF Up
  <2> QED
    BY <2>3, <2>4, <2>5, <2>6 DEF Peaceful, Waiting
<1>15. Errors'
  BY DEF Errors
<1>16. Grown
  BY <1>4, OpenedGrows
<1> QED
  BY <1>8, <1>10, <1>11, <1>12, <1>13, <1>14, <1>15, <1>16 DEF Keeps

\* The session of an earlier dial moves to the new connection.
LEMMA DialAgainKeeps ==
  ASSUME IInv, NEW d \in Dialers, NEW c \in Conns, NEW asks \in BOOLEAN, NEW s \in Conns,
         Free(c), peer.known,
         s = peer.sess, ~IsFreed(s),
         sess' = [sess EXCEPT ![s] = [state |-> "live", conn |-> c, top |-> "raw", host |-> "set"]],
         conn' = [conn EXCEPT ![c] = Opened(0, FALSE, asks, <<"ms">>)],
         peer' = [peer EXCEPT !.sess = s, !.connected = FALSE],
         listener' = Listening(c, s),
         dialer' = [dialer EXCEPT ![d] = [pc |-> "multi", sess |-> s]],
         events' = events \cup {"redialled"},
         UNCHANGED <<slow, fault>>
  PROVE  Keeps
<1> USE DEF IInv
<1>1. /\ conn[c].state = "none" /\ sess[c].state = "none" /\ listener[c].pc = "none"
      /\ c # 0 /\ c \in 0 .. MaxConns /\ 0 \in 0 .. MaxConns
  BY FreeFacts, ConnectionAssumption
<1>2. s # 0 /\ s \in 0 .. MaxConns /\ sess[s].state # "none" /\ s # c /\ Owned(s)
  <2>1. s # 0 /\ s \in 0 .. MaxConns
    BY DEF Conns
  <2>2. sess[s].state # "none"
    BY <2>1 DEF Known
  <2> QED
    BY <1>1, <2>1, <2>2, SessionOwned
<1>3. /\ "raw" \in Layers /\ "read" \in Steps /\ "multi" \in Waits
      /\ <<"ms">> \in Seq(Messages)
  BY Lists DEF Layers, Steps, Waits, Messages
<1>4. /\ sess' \in [Conns -> SessType] /\ \A b \in Conns \ {s} : sess'[b] = sess[b]
      /\ sess'[s].state = "live" /\ sess'[s].conn = c
  <2>1. [state |-> "live", conn |-> c, top |-> "raw", host |-> "set"] \in SessType
    BY <1>1, <1>3 DEF SessType
  <2> QED
    BY <2>1 DEF Types
<1>5. /\ conn' \in [Conns -> ConnType] /\ \A b \in Conns \ {c} : conn'[b] = conn[b]
      /\ conn'[c].state = "open" /\ conn'[c].owner = 0 /\ conn'[c].accepted = FALSE
      /\ conn'[c].in = <<"ms">> /\ conn'[c].ack = {} /\ conn'[c].verified = {}
      /\ conn'[c].agreed = TRUE
  BY <1>1, <1>3, OpenedFacts
<1>6. /\ listener' \in [Conns -> [pc : Steps, sess : 0 .. MaxConns, conn : 0 .. MaxConns,
                                 temp : BOOLEAN]]
      /\ \A b \in Conns \ {c} : listener'[b] = listener[b]
      /\ listener'[c].pc = "read" /\ listener'[c].sess = s /\ listener'[c].temp = listener[c].temp
  BY FreshListener
<1>7. /\ dialer' \in [Dialers -> [pc : Waits, sess : 0 .. MaxConns]]
      /\ dialer'[d].pc = "multi" /\ dialer'[d].sess = s
      /\ \A e \in Dialers \ {d} : dialer'[e] = dialer[e]
  BY <1>3, AwaitFacts
<1>8. /\ peer' \in [known : BOOLEAN, sess : 0 .. MaxConns, connected : BOOLEAN]
      /\ peer'.sess = s /\ peer'.known
  BY <1>2 DEF Types
<1>9. Types'
  BY <1>4, <1>5, <1>6, <1>7, <1>8 DEF Types
<1>10. Stray(c)'
  <2>1. sess'[c].state = "none" /\ sess'[s].state # "none"
    BY <1>1, <1>2, <1>4
  <2>2. conn'[s].owner = s /\ ~Proper(s)'
    BY <1>2, <1>4, <1>5 DEF Owned, Proper
  <2> QED
    BY <1>5, <1>6, <2>1, <2>2 DEF Stray
<1>11. Places'
  <2>1. \A b \in Conns \ {c} :
           /\ conn'[b] = conn[b] /\ listener'[b] = listener[b]
           /\ \/ sess'[b] = sess[b]
              \/ sess[b].state # "none" /\ sess'[b].state # "none"
                 /\ sess'[b].conn = c /\ conn'[c].owner = 0
    BY <1>2, <1>4, <1>5, <1>6
  <2>2. conn'[c].state # "none"
    BY <1>5
  <2>3. \A b \in Conns \ {c} : (Unused(b) \/ Owned(b) \/ Stray(b))'
    BY <1>1, <2>1, <2>2, OthersPlaced
  <2> QED
    BY <1>10, <2>3 DEF Places
<1>12. Dials'
  <2>1. ASSUME NEW e \in Dialers, e # d, Waiting(e)
        PROVE  Stays(e)'
    <3>1. PICK t \in Conns : t = dialer[e].sess /\ sess[t].state # "none" /\ (IsFreed(t) \/ t = peer.sess)
      BY <2>1 DEF Dials, Stays
    <3>2. dialer'[e] = dialer[e]
      BY <1>7, <2>1
    <3>3. CASE t = s
      <4>1. sess'[t].state # "none" /\ t = peer'.sess /\ ~conn'[sess'[t].conn].accepted /\ ~Proper(t)'
        BY <1>2, <1>4, <1>5, <1>8, <3>3 DEF Proper
      <4> QED
        BY <3>1, <3>2, <4>1 DEF Stays
    <3>4. CASE t # s
      <4>1. Owned(t) /\ t # c /\ sess[t].conn # c /\ sess[t].conn \in Conns
        BY <1>1, <3>1, SessionOwned DEF Owned
      <4>2. sess'[t] = sess[t] /\ conn'[t] = conn[t] /\ conn'[sess[t].conn] = conn[sess[t].conn]
        BY <1>4, <1>5, <3>4, <4>1
      <4>3. /\ dialer[e].pc = "multi" => ~conn[sess[t].conn].accepted
            /\ dialer[e].pc = "joined" /\ Proper(t) => "yamux" \in conn[t].ack
        BY <2>1, <3>1 DEF Dials, Stays
      <4>4. IsFreed(t)' /\ (Proper(t)' <=> Proper(t))
        BY <3>1, <3>4, <4>2 DEF IsFreed, Proper
      <4> QED
        BY <3>1, <3>2, <4>2, <4>3, <4>4 DEF Stays
    <3> QED
      BY <3>3, <3>4
  <2>2. ASSUME NEW e \in Dialers, e # d, ~Waiting(e)
        PROVE  Stays(e)'
    BY <1>7, <2>2 DEF Stays, Waiting
  <2>3. Stays(d)'
    BY <1>4, <1>5, <1>7, <1>8 DEF Stays
  <2> QED
    BY <2>1, <2>2, <2>3 DEF Dials
<1>13. Known'
  <2>1. ASSUME NEW b \in Conns
        PROVE  conn'[b].agreed /\ (listener'[b].temp => "copied" \in events')
    <3>1. conn[b].agreed /\ (listener[b].temp => "copied" \in events)
      BY DEF Known
    <3> QED
      BY <1>5, <1>6, <3>1, ZenonT(60)
  <2>2. sess'[peer'.sess].state = "live"
    BY <1>4, <1>8
  <2>3. ~IsFreed(peer.sess)'
    BY <2>2 DEF IsFreed
  <2> QED
    BY <1>8, <2>1, <2>2, <2>3 DEF Known
<1>14. Redials' /\ Orderly' /\ Errors'
  <2>1. "redialled" \in events' /\ events' \cap Marks \subseteq events
    BY DEF Marks
  <2> QED
    BY <2>1 DEF Redials, Orderly, Errors, Innocent, Causes
<1>15. Grown
  BY <1>5, OpenedGrows
<1> QED
  BY <1>9, <1>11, <1>12, <1>13, <1>14, <1>15 DEF Keeps

LEMMA DialKeeps ==
  ASSUME IInv, NEW d \in Dialers, Dial(d)
  PROVE  Keeps
<1>1. PICK c \in Conns, asks \in BOOLEAN :
        /\ Up /\ Free(c) /\ peer.known
        /\ IF IsFreed(peer.sess) THEN Fail("freed")
           ELSE LET s == IF peer.sess = 0 THEN c ELSE peer.sess IN
                /\ sess' = [sess EXCEPT ![s] =
                     [state |-> "live", conn |-> c, top |-> "raw", host |-> "set"]]
                /\ conn' = [conn EXCEPT ![c] = Opened(DialOwner(c), FALSE, asks, <<"ms">>)]
                /\ peer' = [peer EXCEPT !.sess = s, !.connected = FALSE]
                /\ listener' = Listening(c, s)
                /\ dialer' = [dialer EXCEPT ![d] = [pc |-> "multi", sess |-> s]]
                /\ events' = IF peer.sess = 0 THEN events ELSE events \cup {"redialled"}
                /\ UNCHANGED <<slow, fault>>
  BY DEF Dial
<1>2. peer.sess = 0 \/ peer.sess \in Conns
  BY DEF IInv, Types, Conns
<1>3. CASE IsFreed(peer.sess)
  <2>1. Fail("freed") /\ peer.sess \in Conns
    BY <1>1, <1>2, <1>3 DEF IsFreed
  <2>2. ~Innocent
    BY <1>3, <2>1 DEF IInv, Orderly, Peaceful, Unharmed, IsFreed
  <2> QED
    BY <2>1, <2>2, FailKeeps
<1>4. CASE ~IsFreed(peer.sess) /\ peer.sess = 0
  BY <1>1, <1>4, DialFreshKeeps DEF DialOwner
<1>5. CASE ~IsFreed(peer.sess) /\ peer.sess # 0
  <2>1. peer.sess \in Conns
    BY <1>2, <1>5
  <2> QED
    BY <1>1, <1>5, <2>1, DialAgainKeeps DEF DialOwner
<1> QED
  BY <1>3, <1>4, <1>5

LEMMA AcceptKeeps ==
  ASSUME IInv, Accept
  PROVE  Keeps
<1> USE DEF IInv
<1>1. PICK c \in Conns, ok \in BOOLEAN :
        /\ Up /\ Free(c)
        /\ conn' = [conn EXCEPT ![c] = [Opened(c, TRUE, TRUE, <<>>) EXCEPT
               !.state = IF ok THEN "open" ELSE "closed",
               !.in = IF ok THEN <<"ms", "secio">> ELSE <<>>]]
        /\ sess' = [sess EXCEPT ![c] = [state |-> "live", conn |-> c, top |-> "multi", host |-> "set"]]
        /\ listener' = [Listening(c, c) EXCEPT ![c].pc = IF ok THEN "read" ELSE "leave"]
        /\ UNCHANGED <<peer, dialer, slow, fault, events>>
  BY DEF Accept
<1> DEFINE state == IF ok THEN "open" ELSE "closed"
           q == IF ok THEN <<"ms", "secio">> ELSE <<>>
           pc == IF ok THEN "read" ELSE "leave"
<1>2. /\ conn[c].state = "none" /\ sess[c].state = "none" /\ listener[c].pc = "none"
      /\ c # 0 /\ c \in 0 .. MaxConns
  BY <1>1, FreeFacts
<1>3. /\ "multi" \in Layers /\ pc \in Steps /\ state \in {"open", "closed"}
      /\ <<"ms", "secio">> \in Seq(Messages) /\ <<>> \in Seq(Messages) /\ Len(<<>>) = 0
  BY Lists DEF Layers, Steps, Messages
<1>4. q \in Seq(Messages)
  BY <1>3
<1>5. /\ conn' = [conn EXCEPT ![c] = [Opened(c, TRUE, TRUE, <<>>) EXCEPT !.state = state, !.in = q]]
      /\ sess' = [sess EXCEPT ![c] = [state |-> "live", conn |-> c, top |-> "multi", host |-> "set"]]
      /\ listener' = [Listening(c, c) EXCEPT ![c].pc = pc]
      /\ UNCHANGED <<peer, dialer, slow, fault, events>>
  BY <1>1
<1>6. /\ ok => state = "open" /\ q = <<"ms", "secio">> /\ pc = "read"
      /\ ~ok => state = "closed" /\ q = <<>> /\ pc = "leave"
  OBVIOUS
<1> HIDE DEF state, q, pc
<1>7. /\ conn' \in [Conns -> ConnType] /\ \A b \in Conns \ {c} : conn'[b] = conn[b]
      /\ conn'[c].state = state /\ conn'[c].owner = c /\ conn'[c].accepted = TRUE
      /\ conn'[c].in = q /\ conn'[c].ack = {} /\ conn'[c].verified = {}
      /\ conn'[c].agreed = TRUE
  <2>1. PICK r : r = Opened(c, TRUE, TRUE, <<>>)
    OBVIOUS
  <2>2. /\ r \in ConnType /\ r.owner = c /\ r.accepted = TRUE /\ r.ack = {}
        /\ r.verified = {} /\ r.agreed = TRUE
    BY <1>2, <1>3, <2>1 DEF Opened, NoConn, ConnType
  <2>3. PICK t : t = [r EXCEPT !.state = state, !.in = q]
    OBVIOUS
  <2>4. /\ t \in ConnType /\ t.state = state /\ t.owner = c /\ t.accepted = TRUE /\ t.ack = {}
        /\ t.verified = {} /\ t.agreed = TRUE /\ t.in = q
    BY <1>3, <1>4, <2>2, <2>3 DEF ConnType
  <2>5. conn' = [conn EXCEPT ![c] = t]
    BY <1>5, <2>1, <2>3
  <2>6. conn'[c] = t /\ conn' \in [Conns -> ConnType] /\ \A b \in Conns \ {c} : conn'[b] = conn[b]
    BY <2>4, <2>5 DEF Types
  <2> QED
    BY <2>4, <2>6
<1>8. /\ sess' \in [Conns -> SessType] /\ \A b \in Conns \ {c} : sess'[b] = sess[b]
      /\ sess'[c].state = "live" /\ sess'[c].conn = c /\ sess'[c].top = "multi"
      /\ sess'[c].host = "set"
  <2>1. [state |-> "live", conn |-> c, top |-> "multi", host |-> "set"] \in SessType
    BY <1>2, <1>3 DEF SessType
  <2> QED
    BY <1>5, <2>1 DEF Types
<1>9. /\ listener' \in [Conns -> [pc : Steps, sess : 0 .. MaxConns, conn : 0 .. MaxConns,
                                 temp : BOOLEAN]]
      /\ \A b \in Conns \ {c} : listener'[b] = listener[b]
      /\ listener'[c].pc = pc /\ listener'[c].sess = c /\ listener'[c].temp = listener[c].temp
  <2>1. PICK ls : ls = Listening(c, c)
    OBVIOUS
  <2>2. /\ ls \in [Conns -> [pc : Steps, sess : 0 .. MaxConns, conn : 0 .. MaxConns,
                             temp : BOOLEAN]]
        /\ \A b \in Conns \ {c} : ls[b] = listener[b]
        /\ ls[c].sess = c /\ ls[c].temp = listener[c].temp
    BY <2>1, FreshListener
  <2>3. listener' = [ls EXCEPT ![c] = [ls[c] EXCEPT !.pc = pc]]
    BY <1>5, <2>1
  <2>4. [ls[c] EXCEPT !.pc = pc]
          \in [pc : Steps, sess : 0 .. MaxConns, conn : 0 .. MaxConns, temp : BOOLEAN]
    BY <1>3, <2>2
  <2>5. /\ listener'[c] = [ls[c] EXCEPT !.pc = pc]
        /\ \A b \in Conns \ {c} : listener'[b] = ls[b]
        /\ listener' \in [Conns -> [pc : Steps, sess : 0 .. MaxConns, conn : 0 .. MaxConns,
                                    temp : BOOLEAN]]
    BY <2>2, <2>3, <2>4
  <2>6. ls[c] \in [pc : Steps, sess : 0 .. MaxConns, conn : 0 .. MaxConns, temp : BOOLEAN]
    BY <2>2
  <2> QED
    BY <2>2, <2>5, <2>6
<1>10. Types'
  BY <1>5, <1>7, <1>8, <1>9 DEF Types
<1>11. Owned(c)'
  <2>1. Stage(c)'
    <3>1. CASE ok
      <4>1. At(c, {"multi"}, "read", {}, {})'
        BY <1>6, <1>7, <1>8, <1>9, <3>1, AtNext
      <4>2. Due(c, <<"ms", "secio">>)'
        BY <1>6, <1>7, <3>1 DEF Due, IsDue
      <4>3. Greeting(c)'
        BY <1>7, <4>1, <4>2 DEF Greeting
      <4> QED
        BY <4>3 DEF Stage
    <3>2. CASE ~ok
      <4>1. Len(conn'[c].in) <= 2
        BY <1>3, <1>6, <1>7, <3>2
      <4>2. Left(c)'
        BY <1>6, <1>7, <1>8, <1>9, <3>2, <4>1, NotChecks DEF Left, Gone, Top
      <4> QED
        BY <4>2 DEF Stage
    <3> QED
      BY <3>1, <3>2
  <2>2. listener'[c].pc \notin InSecio
    BY <1>6, <1>9 DEF InSecio
  <2> QED
    BY <1>3, <1>7, <1>8, <1>9, <2>1, <2>2 DEF Owned, Proper
<1>12. Places'
  <2>1. conn'[c].state # "none"
    BY <1>3, <1>7
  <2>2. \A b \in Conns \ {c} : (Unused(b) \/ Owned(b) \/ Stray(b))'
    BY <1>2, <1>7, <1>8, <1>9, <2>1, OthersPlaced
  <2> QED
    BY <1>11, <2>2 DEF Places
<1>13. Dials'
  <2>1. ASSUME NEW e \in Dialers, Waiting(e)
        PROVE  Stays(e)'
    BY <1>2, <1>5, <1>7, <1>8, <2>1, DialsBeside
  <2>2. ASSUME NEW e \in Dialers, ~Waiting(e)
        PROVE  Stays(e)'
    BY <1>5, <2>2 DEF Stays, Waiting
  <2> QED
    BY <2>1, <2>2 DEF Dials
<1>14. Known'
  <2>1. ASSUME NEW b \in Conns
        PROVE  conn'[b].agreed /\ (listener'[b].temp => "copied" \in events')
    <3>1. conn[b].agreed /\ (listener[b].temp => "copied" \in events)
      BY DEF Known
    <3>2. CASE b = c
      BY <1>5, <1>7, <1>9, <3>1, <3>2
    <3>3. CASE b # c
      BY <1>5, <1>7, <1>9, <3>1, <3>3
    <3> QED
      BY <3>2, <3>3
  <2>2. peer.sess # 0 => peer.sess \in Conns \ {c}
    BY <1>2 DEF Types, Conns, Known
  <2> QED
    BY <1>5, <1>8, <2>1, <2>2 DEF Known, IsFreed
<1>15. Redials'
  BY <1>2, <1>5, <1>7 DEF Redials
<1>16. Orderly'
  <2> SUFFICES ASSUME Innocent'
               PROVE  Peaceful'
    BY DEF Orderly
  <2>1. Innocent /\ Peaceful
    BY <1>5 DEF Innocent, Orderly
  <2>2. ASSUME NEW x \in Conns
        PROVE  Unharmed(x)'
    <3>1. CASE x = c
      BY <1>6, <1>7, <1>8, <1>9, <3>1 DEF Unharmed, Gone
    <3>2. CASE x # c
      BY <1>7, <1>8, <1>9, <2>1, <3>2 DEF Peaceful, Unharmed
    <3> QED
      BY <3>1, <3>2
  <2>3. ASSUME NEW e \in Dialers, Waiting(e)'
        PROVE  Progress(e)'
    <3>1. Waiting(e) /\ dialer' = dialer /\ peer' = peer /\ events' = events
      BY <1>5, <2>3 DEF Waiting
    <3>2. PICK t \in Conns : t = dialer[e].sess /\ sess[t].state = "live"
      BY <2>1, <3>1, DialsInPeace
    <3>3. t # c /\ Progress(e)
      BY <1>2, <2>1, <3>1, <3>2 DEF Peaceful
    <3>4. conn'[t] = conn[t] /\ sess'[t] = sess[t] /\ listener'[t] = listener[t]
      BY <1>7, <1>8, <1>9, <3>3
    <3> QED
      BY <3>1, <3>2, <3>3, <3>4 DEF Progress
  <2> QED
    BY <1>5, <2>1, <2>2, <2>3 DEF Peaceful
<1>17. Errors'
  BY <1>5 DEF Errors
<1>18. Grown
  BY <1>1, <1>7, OpenedGrows
<1> QED
  BY <1>10, <1>12, <1>13, <1>14, <1>15, <1>16, <1>17, <1>18 DEF Keeps

-----------------------------------------------------------------------------
(* The rest of the node, and the network.                                   *)

LEMMA EnginePeekKeeps ==
  ASSUME IInv, EnginePeek
  PROVE  Keeps
<1> USE DEF IInv
<1>1. /\ peer.sess # 0 /\ sess' = Freed(peer.sess) /\ conn' = Dropped(peer.sess)
      /\ peer' = [peer EXCEPT !.sess = 0, !.connected = FALSE] /\ fault' = "null"
      /\ events' = events \cup {"errored"} /\ UNCHANGED <<listener, dialer, slow>>
  BY DEF EnginePeek
<1>2. PICK s \in Conns : s = peer.sess /\ sess[s].state # "none"
  BY <1>1 DEF Known, Types, Conns
<1>3. /\ sess' \in [Conns -> SessType] /\ conn' \in [Conns -> ConnType]
      /\ \A x \in Conns :
           /\ sess'[x].top = sess[x].top /\ sess'[x].conn = sess[x].conn
           /\ sess'[x].host = sess[x].host
           /\ sess'[x].state = IF x = s THEN "freed" ELSE sess[x].state
           /\ conn'[x].in = conn[x].in /\ conn'[x].ack = conn[x].ack
           /\ conn'[x].verified = conn[x].verified /\ conn'[x].accepted = conn[x].accepted
           /\ conn'[x].owner = conn[x].owner /\ conn'[x].agreed = conn[x].agreed
           /\ conn'[x].asks = conn[x].asks
           /\ conn'[x].state \in {conn[x].state, "closed"}
           /\ conn[x].state = "none" => conn'[x] = conn[x]
  BY <1>1, <1>2, FreeFrame
<1>4. /\ peer' \in [known : BOOLEAN, sess : 0 .. MaxConns, connected : BOOLEAN]
      /\ peer'.sess = 0
  <2>1. 0 \in 0 .. MaxConns
    BY ConnectionAssumption
  <2>2. peer \in [known : BOOLEAN, sess : 0 .. MaxConns, connected : BOOLEAN]
    BY DEF Types
  <2> QED
    BY <1>1, <2>1, <2>2
<1>5. Types'
  BY <1>1, <1>3, <1>4 DEF Types
<1>6. (\A x \in Conns : Kept(x)) /\ (\A x \in Conns : Still(x))
  BY <1>1, <1>2, <1>3 DEF Kept, Still
<1>7. Owned(s)'
  <2>1. Owned(s) /\ conn[s].state # "none"
    BY <1>2, SessionOwned DEF Owned
  <2>2. Stage(s)'
    BY <1>3, <1>6, <2>1, StageStays DEF Owned
  <2>3. listener'[s] = listener[s]
    BY <1>1
  <2> QED
    BY <1>6, <2>1, <2>2, <2>3 DEF Owned, Kept, Proper
<1>8. Places'
  BY <1>6, <1>7, PlacesKept
<1>9. Dials'
  <2> SUFFICES ASSUME NEW e \in Dialers, Waiting(e)'
               PROVE  Stays(e)'
    BY DEF Dials, Stays
  <2>1. Waiting(e) /\ dialer' = dialer
    BY <1>1 DEF Waiting
  <2>2. PICK t \in Conns : t = dialer[e].sess /\ sess[t].state # "none" /\ (IsFreed(t) \/ t = s)
    BY <1>2, <2>1 DEF Dials, Stays
  <2>3. sess[t].conn \in Conns /\ t # 0
    BY <2>2, SessionOwned DEF Owned, Conns
  <2>4. /\ sess'[t].state = "freed" /\ sess'[t].conn = sess[t].conn
        /\ conn'[sess[t].conn].accepted = conn[sess[t].conn].accepted /\ conn'[t].ack = conn[t].ack
    BY <1>3, <2>2, <2>3 DEF IsFreed
  <2>5. IsFreed(t)' /\ (Proper(t)' <=> Proper(t))
    BY <2>3, <2>4 DEF IsFreed, Proper
  <2>6. /\ dialer[e].pc = "multi" => ~conn[sess[t].conn].accepted
        /\ dialer[e].pc = "joined" /\ Proper(t) => "yamux" \in conn[t].ack
    BY <2>1, <2>2 DEF Dials, Stays
  <2> QED
    BY <2>1, <2>2, <2>4, <2>5, <2>6 DEF Stays
<1>10. Known'
  BY <1>1, <1>3, <1>4 DEF Known
<1>11. Redials'
  BY <1>1, <1>6, RedialsKept
<1>12. Orderly' /\ Errors'
  BY <1>1 DEF Orderly, Errors, Innocent, Causes
<1>13. Grown
  BY <1>3 DEF Grown, Unasked
<1> QED
  BY <1>5, <1>8, <1>9, <1>10, <1>11, <1>12, <1>13 DEF Keeps

LEMMA BreakKeeps ==
  ASSUME IInv, NEW c \in Conns, Break(c)
  PROVE  Keeps
<1> USE DEF IInv
<1>1. /\ conn[c].state = "open" /\ conn' = [conn EXCEPT ![c].state = "closed"]
      /\ events' = events \cup {"broken"}
      /\ UNCHANGED <<sess, peer, listener, dialer, slow, fault>>
  BY DEF Break
<1>2. conn[c] \in ConnType /\ conn \in [Conns -> ConnType]
  BY ConnFields
<1>3. PICK r : r = [conn[c] EXCEPT !.state = "closed"]
  OBVIOUS
<1>4. /\ r \in ConnType /\ r.state = "closed" /\ r.in = conn[c].in /\ r.ack = conn[c].ack
      /\ r.verified = conn[c].verified /\ r.accepted = conn[c].accepted
      /\ r.owner = conn[c].owner /\ r.agreed = conn[c].agreed /\ r.asks = conn[c].asks
  BY <1>2, <1>3 DEF ConnType
<1>5. conn' = [conn EXCEPT ![c] = r]
  BY <1>1, <1>3
<1>6. conn'[c] = r /\ conn' \in [Conns -> ConnType] /\ \A b \in Conns \ {c} : conn'[b] = conn[b]
  BY <1>2, <1>4, <1>5
<1>7. Types'
  BY <1>1, <1>6 DEF Types
<1>8. \A x \in Conns : Kept(x) /\ Still(x)
  BY <1>1, <1>4, <1>6 DEF Kept, Still
<1>9. (Unused(c) \/ Owned(c) \/ Stray(c))'
  <2>1. CASE Owned(c)
    <3>1. Stage(c)'
      BY <1>1, <1>8, <2>1, StageStays DEF Owned
    <3>2. Owned(c)'
      BY <1>1, <1>8, <2>1, <3>1 DEF Owned, Kept, Proper
    <3> QED
      BY <3>2
  <2>2. CASE Stray(c)
    <3>1. PICK s \in Conns : s = listener[c].sess /\ sess[s].state # "none" /\ conn[s].owner = s
                             /\ ~Proper(s)
      BY <2>2 DEF Stray
    <3>2. conn'[s].owner = s /\ ~Proper(s)'
      BY <1>1, <1>8, <3>1 DEF Kept, Proper
    <3>3. Stray(c)'
      BY <1>1, <1>4, <1>6, <2>2, <3>1, <3>2 DEF Stray
    <3> QED
      BY <3>3
  <2> QED
    BY <1>1, <2>1, <2>2 DEF Places, Unused
<1>10. Places'
  BY <1>8, <1>9, PlacesKept
<1>11. \A x \in Conns : /\ conn'[x].accepted = conn[x].accepted /\ conn[x].ack \subseteq conn'[x].ack
                        /\ conn'[x].asks = conn[x].asks
                        /\ conn'[x].agreed = conn[x].agreed
  BY <1>4, <1>6
<1>12. Dials'
  BY <1>1, <1>8, <1>11, DialsKept
<1>13. Known'
  BY <1>1, <1>8, <1>11, KnownKept
<1>14. Redials'
  BY <1>1, <1>8, RedialsKept
<1>15. Orderly' /\ Errors'
  BY <1>1 DEF Orderly, Errors, Innocent, Causes, Marks
<1>16. Grown
  BY <1>11 DEF Grown, Unasked
<1> QED
  BY <1>7, <1>10, <1>12, <1>13, <1>14, <1>15, <1>16 DEF Keeps

-----------------------------------------------------------------------------
(* The invariant.                                                           *)

LEMMA InitInv ==
  ASSUME Init
  PROVE  IInv
<1>1. /\ sess = [s \in Conns |-> NoSession] /\ conn = [c \in Conns |-> NoConn]
      /\ peer \in [known : BOOLEAN, sess : {0}, connected : {FALSE}]
      /\ listener = [c \in Conns |-> [pc |-> "none", sess |-> 0, conn |-> 0, temp |-> FALSE]]
      /\ dialer = [d \in Dialers |-> [pc |-> "idle", sess |-> 0]]
      /\ slow = 0 /\ fault = "none" /\ events = {}
  BY DEF Init
<1>2. 0 \in 0 .. MaxConns /\ 0 \in 0 .. MaxSlow
  BY ConnectionAssumption
<1>3. NoSession \in SessType
  BY <1>2 DEF NoSession, SessType, Layers
<1>4. NoConn \in ConnType
  BY <1>2, Lists DEF NoConn, ConnType
<1>5. [pc |-> "none", sess |-> 0, conn |-> 0, temp |-> FALSE]
        \in [pc : Steps, sess : 0 .. MaxConns, conn : 0 .. MaxConns, temp : BOOLEAN]
  BY <1>2 DEF Steps
<1>6. [pc |-> "idle", sess |-> 0] \in [pc : Waits, sess : 0 .. MaxConns]
  BY <1>2 DEF Waits
<1>7. Types
  BY <1>1, <1>2, <1>3, <1>4, <1>5, <1>6 DEF Types
<1>8. \A c \in Conns : /\ conn[c] = NoConn /\ conn[c].state = "none" /\ conn[c].agreed
                       /\ sess[c].state = "none" /\ sess[c].host = "none"
                       /\ listener[c].pc = "none" /\ ~listener[c].temp
  BY <1>1 DEF NoConn, NoSession
<1>9. \A d \in Dialers : dialer[d].pc = "idle"
  BY <1>1
<1>10. Places
  BY <1>8 DEF Places, Unused
<1>11. Dials
  BY <1>9 DEF Dials, Stays, Waiting
<1>12. peer.sess = 0 /\ Known
  BY <1>1, <1>8 DEF Known
<1>13. Redials
  BY <1>8 DEF Redials
<1>14. Orderly
  BY <1>1, <1>8, <1>9 DEF Orderly, Peaceful, Unharmed, Waiting
<1>15. Errors
  BY <1>1 DEF Errors
<1> QED
  BY <1>7, <1>10, <1>11, <1>12, <1>13, <1>14, <1>15 DEF IInv

LEMMA StutterKeeps ==
  ASSUME IInv, UNCHANGED vars
  PROVE  Keeps
<1> USE DEF IInv, vars
<1>1. \A c \in Conns : Stage(c)' <=> Stage(c)
  BY DEF Stage, Greeting, MultiUp, Asked, Proposing, Exchanging, Comparing, Secured, Multi2Up,
         YamuxAsked, YamuxUp, Left, At, Top, Proper, Due, LastMs
<1>2. Types' /\ Places'
  BY <1>1 DEF Types, Places, Unused, Owned, Stray, Proper
<1>3. Dials'
  BY DEF Dials, Stays, Waiting, IsFreed, Proper
<1>4. Known' /\ Redials' /\ Errors'
  BY DEF Known, IsFreed, Redials, Errors
<1>5. Orderly'
  BY DEF Orderly, Innocent, Peaceful, Unharmed, Waiting, Progress
<1>6. Grown
  BY DEF Grown, Unasked
<1> QED
  BY <1>2, <1>3, <1>4, <1>5, <1>6 DEF Keeps

\* Every step keeps the invariant.
LEMMA NextKeeps ==
  ASSUME IInv, [Next]_vars
  PROVE  Keeps
<1>1. ASSUME NEW d \in Dialers, DialerStep(d)
      PROVE  Keeps
  BY <1>1, DialerMultistreamKeeps, DialerTypeKeeps, DialerSecioKeeps, DialerYamuxKeeps,
     DialerJoinedKeeps, DialerTimeoutKeeps, DialerLostKeeps DEF DialerStep
<1>2. ASSUME NEW d \in Dialers, Dial(d)
      PROVE  Keeps
  BY <1>2, DialKeeps
<1>3. CASE Accept
  BY <1>3, AcceptKeeps
<1>4. ASSUME NEW l \in Conns, ListenerStep(l)
      PROVE  Keeps
  BY <1>4, MultistreamKeeps, SecioKeeps, YamuxKeeps, ListenerEofKeeps, ListenerLeaveKeeps,
     ListenerLostKeeps, HandshakeProposeKeeps, HandshakeExchangeKeeps, HandshakeNonceKeeps,
     HandshakeFailsKeeps, ExchangeFailsKeeps, HandshakeLostKeeps, ProposalRefusedKeeps,
     HandshakeGarbledKeeps DEF ListenerStep
<1>5. ASSUME NEW l \in Conns, ListenerTimeout(l)
      PROVE  Keeps
  BY <1>5, ListenerTimeoutKeeps
<1>6. ASSUME NEW c \in Conns, Break(c)
      PROVE  Keeps
  BY <1>6, BreakKeeps
<1>7. CASE EnginePeek
  BY <1>7, EnginePeekKeeps
<1>8. CASE UNCHANGED vars
  BY <1>8, StutterKeeps
<1> QED
  BY <1>1, <1>2, <1>3, <1>4, <1>5, <1>6, <1>7, <1>8 DEF Next


\* The stages, the owners and what the dials have seen hold in every state that
\* the threads of the node and the remote can reach together.
THEOREM Invariance == Spec => []IInv
<1>1. Init => IInv
  BY InitInv
<1>2. IInv /\ [Next]_vars => IInv'
  BY NextKeeps DEF Keeps
<1> QED
  BY <1>1, <1>2, PTL DEF Spec

-----------------------------------------------------------------------------
(* What follows from the invariant.                                         *)

\* At no stage are more than two messages due, and layers come in order.
LEMMA StageBounds ==
  ASSUME Types, NEW c \in Conns, Stage(c)
  PROVE  /\ Len(conn[c].in) <= 2
         /\ "multi2" \in conn[c].ack => {"multi", "secio"} \subseteq conn[c].ack
<1>1. ASSUME NEW q \in Seq(Messages), Due(c, q), Len(q) <= 2
      PROVE  Len(conn[c].in) <= 2
  <2>1. conn[c].in \in Seq(Messages) /\ IsDue(conn[c].state, conn[c].in, q)
    BY <1>1, ConnFields DEF Due
  <2>2. Len(conn[c].in) <= Len(q)
    BY <2>1, DueShort
  <2> QED
    BY <1>1, <2>1, <2>2
<1>2. ASSUME NEW q \in {<<>>, <<"ms">>, <<"secio">>, <<"yamux">>, <<"ms", "secio">>,
                        <<"secio", "propose">>, <<"propose", "exchange">>, <<"exchange", "nonce">>}
      PROVE  Len(q) <= 2
  <2>1. CASE q = <<>>
    BY <2>1, Lists
  <2>2. ASSUME NEW a \in Messages, q = <<a>>
        PROVE  Len(q) <= 2
    BY <2>2, Lists
  <2>3. ASSUME NEW a \in Messages, NEW b \in Messages, q = <<a, b>>
        PROVE  Len(q) <= 2
    BY <2>3, Lists
  <2> QED
    BY <2>1, <2>2, <2>3 DEF Messages
<1>3. /\ LastMs(c) \in Seq(Messages) /\ Len(LastMs(c)) <= 2
      /\ <<"nonce">> \o LastMs(c) \in Seq(Messages) /\ Len(<<"nonce">> \o LastMs(c)) <= 2
  BY StageLists, ShortLists
<1>4. Len(conn[c].in) <= 2
  <2>1. CASE Greeting(c)
    BY <1>1, <1>2, <2>1, StageLists DEF Greeting
  <2>2. CASE MultiUp(c) \/ Asked(c) \/ Proposing(c) \/ Exchanging(c)
    BY <1>1, <1>2, <2>2, StageLists DEF MultiUp, Asked, Proposing, Exchanging
  <2>3. CASE Comparing(c)
    BY <1>1, <1>3, <2>3 DEF Comparing
  <2>4. CASE Secured(c)
    BY <1>1, <1>3, <2>4 DEF Secured
  <2>5. CASE Multi2Up(c) \/ YamuxAsked(c) \/ YamuxUp(c)
    BY <1>1, <1>2, <2>5, StageLists DEF Multi2Up, YamuxAsked, YamuxUp
  <2>6. CASE Left(c)
    BY <2>6 DEF Left
  <2> QED
    BY <2>1, <2>2, <2>3, <2>4, <2>5, <2>6 DEF Stage
<1>5. "multi2" \in conn[c].ack => {"multi", "secio"} \subseteq conn[c].ack
  BY DEF Stage, Greeting, MultiUp, Asked, Proposing, Exchanging, Comparing, Secured, Multi2Up,
         YamuxAsked, YamuxUp, Left, At
<1> QED
  BY <1>4, <1>5

LEMMA InvType ==
  ASSUME IInv
  PROVE  TypeOK
<1> SUFFICES ASSUME NEW c \in Conns
             PROVE  /\ conn[c].owner \in {0, c} /\ Len(conn[c].in) <= 2
                    /\ "multi2" \in conn[c].ack => {"multi", "secio"} \subseteq conn[c].ack
  BY DEF IInv, TypeOK
<1>1. CASE Unused(c)
  <2>1. conn[c].owner = 0 /\ conn[c].in = <<>> /\ conn[c].ack = {}
    BY <1>1 DEF Unused, NoConn
  <2> QED
    BY <2>1, Lists
<1>2. CASE Owned(c)
  BY <1>2, StageBounds DEF Owned, IInv
<1>3. CASE Stray(c)
  <2>1. conn[c].owner = 0 /\ conn[c].in = <<"ms">> /\ conn[c].ack = {}
    BY <1>3 DEF Stray
  <2> QED
    BY <2>1, Lists DEF Messages
<1> QED
  BY <1>1, <1>2, <1>3 DEF IInv, Places

\* A thread acknowledges yamux only on a connection whose handshake is over.
LEMMA InvJoined ==
  ASSUME IInv
  PROVE  JoinedIsVerified
<1>1. \A c \in Conns : conn[c].agreed
  BY DEF IInv, Known
<1>2. ASSUME NEW d \in Dialers, dialer[d].pc = "joined", ~IsFreed(dialer[d].sess),
             "redialled" \notin events
      PROVE  "secio" \in conn[OnConn(d)].ack /\ conn[OnConn(d)].verified = Checks
  <2>1. PICK s \in Conns : s = dialer[d].sess /\ sess[s].state # "none"
    BY <1>2 DEF IInv, Dials, Stays, Waiting
  <2>2. Owned(s)
    BY <2>1, SessionOwned DEF IInv
  <2>3. Proper(s) /\ Stage(s)
    BY <1>2, <2>2, Straight DEF IInv, Owned
  <2>4. "yamux" \in conn[s].ack
    BY <1>2, <2>1, <2>3 DEF IInv, Dials, Stays, Waiting
  <2>5. YamuxUp(s) \/ (Left(s) /\ conn[s].verified = Checks)
    BY <2>3, <2>4 DEF Stage, Greeting, MultiUp, Asked, Proposing, Exchanging, Comparing, Secured,
         Multi2Up, YamuxAsked, Left, At
  <2>6. "secio" \in conn[s].ack /\ conn[s].verified = Checks
    BY <2>5 DEF YamuxUp, Left, At
  <2>7. OnConn(d) = s
    BY <2>1, <2>3 DEF OnConn, Proper
  <2> QED
    BY <2>6, <2>7
<1> QED
  BY <1>1, <1>2 DEF JoinedIsVerified

LEMMA InvFault ==
  ASSUME IInv
  PROVE  FaultHasCause
<1>1. TypeOK
  BY InvType
<1>2. fault # "none" => events \cap Causes # {}
  BY DEF IInv, Orderly, Innocent, Peaceful
<1>3. peer.sess # 0 /\ "copied" \notin events => ~IsFreed(peer.sess)
  BY DEF IInv, Known
<1> QED
  BY <1>1, <1>2, <1>3 DEF FaultHasCause, Causes

-----------------------------------------------------------------------------
(* Why a dial fails.                                                        *)

Excuses == {"slow", "broken", "refused", "redialled", "replaced", "missed"}

\* Where nothing is left to read, a layer is up.
LEMMA QuietStage ==
  ASSUME Types, NEW s \in Conns, ~Unasked(s), Stage(s), Proper(s), listener[s].pc = "read",
         conn[s].state = "open", conn[s].in = <<>>, ~conn[s].accepted
  PROVE  \/ sess[s].top = "multi" /\ "multi" \in conn[s].ack
         \/ sess[s].top = "multi2" /\ {"secio", "multi2"} \subseteq conn[s].ack
         \/ sess[s].top = "yamux" /\ "yamux" \in conn[s].ack
<1>1. \A q : Due(s, q) => q = <<>>
  BY DEF Due, IsDue
<1>2. Secured(s) => LastMs(s) = <<"ms">>
  BY DEF Secured, At, Unasked, LastMs
<1>3. \A a, b \in Messages : <<a>> # <<>> /\ <<a, b>> # <<>>
  BY Lists
<1>4. ~Greeting(s) /\ ~Asked(s) /\ ~Secured(s) /\ ~YamuxAsked(s)
  BY <1>1, <1>2, <1>3 DEF Greeting, Asked, Secured, YamuxAsked, Messages
<1>5. MultiUp(s) \/ Multi2Up(s) \/ YamuxUp(s)
  BY <1>4 DEF Stage, Proposing, Exchanging, Comparing, Left, At, Gone
<1> QED
  BY <1>5 DEF MultiUp, Multi2Up, YamuxUp, At, Top

\* A wait that ends has an excuse.  It found nothing to do for any thread, and
\* what the remote has sent was read: the layer waited for is there.
LEMMA TimeoutExcused ==
  ASSUME IInv, NEW d \in Dialers, DialerTimeout(d)
  PROVE  events' \cap Excuses # {} \/ \E c \in Conns : Unasked(c)
<1> SUFFICES ASSUME events' \cap Excuses = {}, \A c \in Conns : ~Unasked(c)
             PROVE  FALSE
  OBVIOUS
<1> USE DEF IInv
<1>1. /\ fault = "none" /\ ~Awaited(d)
      /\ dialer[d].pc \in {"multi", "type", "secio", "multi2", "yamux"} /\ events \subseteq events'
  BY DEF DialerTimeout, Up, Dialling
<1>2. slow' = slow
  BY DEF DialerTimeout, Excuses
<1>3. Quiet /\ ~(dialer[d].pc = "type" /\ "secio" \in conn[OnConn(d)].ack)
  <2>1. slow \in Nat
    BY DEF Types
  <2> QED
    BY <1>2, <2>1 DEF DialerTimeout, Excuses
<1>4. Innocent /\ "refused" \notin events
  BY <1>1 DEF Innocent, Causes, Excuses, Errors, Marks
<1>5. PICK s \in Conns : /\ s = dialer[d].sess /\ Owned(s) /\ Proper(s) /\ ~conn[s].accepted
                         /\ sess[s].state = "live" /\ Progress(d)
  <2>1. Waiting(d)
    BY <1>1 DEF Waiting
  <2> QED
    BY <1>4, <2>1, DialsInPeace
<1>6. listener[s].pc \notin Gone
  BY <1>4, <1>5 DEF Progress
<1>7. Stage(s) /\ listener[s].sess = s /\ sess[s].conn = s /\ conn[s].state = "open"
  BY <1>4, <1>5, <1>6, OpenInPeace DEF Owned, Proper
<1>8. listener[s].pc # "none"
  BY <1>7 DEF Stage, Greeting, MultiUp, Asked, Proposing, Exchanging, Comparing, Secured, Multi2Up,
         YamuxAsked, YamuxUp, Left, At, Gone
<1>9. listener[s].pc = "read" /\ conn[s].in = <<>>
  BY <1>3, <1>5, <1>6, <1>7, <1>8 DEF Quiet, Gone
<1>10. \/ sess[s].top = "multi" /\ "multi" \in conn[s].ack
       \/ sess[s].top = "multi2" /\ {"secio", "multi2"} \subseteq conn[s].ack
       \/ sess[s].top = "yamux" /\ "yamux" \in conn[s].ack
  BY <1>5, <1>7, <1>9, QuietStage
<1>11. /\ dialer[d].pc = "multi" <=> sess[s].top \in {"raw", "multi"}
       /\ dialer[d].pc \in {"type", "secio", "multi2"} => sess[s].top # "yamux"
       /\ dialer[d].pc = "yamux" => sess[s].top = "yamux"
  BY <1>5 DEF Progress
<1>12. OnConn(d) = s /\ Topmost(d) = sess[s].top
  BY <1>5, <1>7 DEF OnConn, Topmost
<1>13. Awaited(d)
  BY <1>1, <1>3, <1>10, <1>11, <1>12 DEF Awaited, IsReady
<1> QED
  BY <1>1, <1>13

\* No other step makes a dial fail, and what happened stays known.
LEMMA FailsByTimeout ==
  ASSUME Types, [Next]_vars, NEW d \in Dialers, dialer'[d].pc = "failed"
  PROVE  /\ dialer[d].pc = "failed" \/ DialerTimeout(d)
         /\ events \subseteq events'
<1>1. ASSUME NEW k
      PROVE  Fail(k) => UNCHANGED <<dialer, events>>
  BY DEF Fail
<1>2. ASSUME NEW e \in Dialers, NEW k, NEW s, k # "failed",
             \/ dialer' = [dialer EXCEPT ![e] = [pc |-> k, sess |-> s]]
             \/ dialer' = [dialer EXCEPT ![e].pc = k]
      PROVE  dialer[d].pc = "failed"
  <2>1. dialer \in [Dialers -> [pc : Waits, sess : 0 .. MaxConns]]
    BY DEF Types
  <2>2. dialer[e] \in [pc : Waits, sess : 0 .. MaxConns]
    BY <2>1
  <2>3. dialer'[e].pc = k
    BY <1>2, <2>1, <2>2
  <2>4. d # e => dialer'[d] = dialer[d]
    BY <1>2, <2>1
  <2> QED
    BY <1>2, <2>3, <2>4
<1>3. ASSUME NEW e \in Dialers, DialerStep(e)
      PROVE  (dialer[d].pc = "failed" \/ DialerTimeout(d)) /\ events \subseteq events'
  <2>1. CASE DialerMultistream(e)
    BY <1>2, <2>1 DEF DialerMultistream, Await
  <2>2. CASE DialerType(e)
    BY <1>2, <2>2 DEF DialerType
  <2>3. CASE DialerSecio(e)
    BY <1>2, <2>3 DEF DialerSecio, Await
  <2>4. CASE DialerYamux(e)
    BY <1>2, <2>4 DEF DialerYamux, Await
  <2>5. CASE DialerJoined(e)
    BY <1>2, <2>5 DEF DialerJoined
  <2>6. CASE DialerTimeout(e)
    <3>1. d # e => dialer'[d] = dialer[d]
      BY <2>6 DEF DialerTimeout, Types
    <3> QED
      BY <2>6, <3>1 DEF DialerTimeout
  <2>7. CASE DialerLost(e)
    BY <1>1, <2>7 DEF DialerLost
  <2> QED
    BY <1>3, <2>1, <2>2, <2>3, <2>4, <2>5, <2>6, <2>7 DEF DialerStep
<1>4. ASSUME NEW e \in Dialers, Dial(e)
      PROVE  dialer[d].pc = "failed" /\ events \subseteq events'
  <2>1. CASE IsFreed(peer.sess)
    BY <1>1, <1>4, <2>1 DEF Dial
  <2>2. CASE ~IsFreed(peer.sess)
    <3>1. /\ events \subseteq events'
          /\ \E s : dialer' = [dialer EXCEPT ![e] = [pc |-> "multi", sess |-> s]]
      BY <1>4, <2>2 DEF Dial
    <3> QED
      BY <1>2, <3>1
  <2> QED
    BY <2>1, <2>2
<1>5. CASE Accept
  BY <1>5 DEF Accept
<1>6. ASSUME NEW l \in Conns, ListenerStep(l)
      PROVE  UNCHANGED dialer /\ events \subseteq events'
  <2>1. CASE HandleMultistream(l)
    BY <2>1 DEF HandleMultistream
  <2>2. CASE HandleSecio(l) \/ HandleYamux(l)
    BY <2>2 DEF HandleSecio, HandleYamux
  <2>3. CASE ListenerEof(l) \/ HandshakeExchange(l) \/ ProposalRefused(l) \/ HandshakeGarbled(l)
    BY <2>3 DEF ListenerEof, HandshakeExchange, ProposalRefused, HandshakeGarbled
  <2>4. CASE ListenerLeave(l)
    BY <1>1, <2>4 DEF ListenerLeave
  <2>5. CASE ListenerLost(l) \/ HandshakeLost(l)
    BY <1>1, <2>5 DEF ListenerLost, HandshakeLost
  <2>6. CASE HandshakePropose(l)
    BY <1>1, <2>6 DEF HandshakePropose
  <2>7. CASE HandshakeNonce(l)
    BY <2>7 DEF HandshakeNonce
  <2>8. CASE HandshakeFails(l) \/ ExchangeFails(l)
    BY <2>8 DEF HandshakeFails, ExchangeFails, GetsNothing
  <2> QED
    BY <1>6, <2>1, <2>2, <2>3, <2>4, <2>5, <2>6, <2>7, <2>8 DEF ListenerStep
<1>7. ASSUME NEW l \in Conns, ListenerTimeout(l)
      PROVE  UNCHANGED <<dialer, events>>
  BY <1>7 DEF ListenerTimeout
<1>8. CASE EnginePeek \/ \E c \in Conns : Break(c)
  BY <1>8 DEF EnginePeek, Break
<1>9. CASE UNCHANGED vars
  BY <1>9 DEF vars
<1> QED
  BY <1>3, <1>4, <1>5, <1>6, <1>7, <1>8, <1>9 DEF Next
-----------------------------------------------------------------------------
(* Theorems.                                                                *)

\* There is one session and one socket per connection, layers are acknowledged
\* from the bottom up and no more than two messages of the remote wait to be read.
THEOREM TypeCorrect == Spec => []TypeOK
<1>1. IInv => TypeOK
  BY InvType
<1> QED
  BY <1>1, Invariance, PTL

\* libp2p_conn_dialer_join_swarm returns a session only when secio's handshake is
\* over: the remote's signature was verified and the nonce was the right one, though
\* libp2p_secio_ready looks at the status alone; and libp2p_secio_select_best takes
\* the same at both ends.
THEOREM JoinedVerified == Spec => []JoinedIsVerified
<1>1. IInv => JoinedIsVerified
  BY InvJoined
<1> QED
  BY <1>1, Invariance, PTL

\* The threads that dial, listen and peek use memory that is missing or freed only
\* after a dial with an old session, a second connection of the peer, a wait that
\* ended early, a connection that broke, a message of the handshake that could not
\* be decoded, or an error seen by bitswap.
THEOREM FaultCaused == Spec => []FaultHasCause
<1>1. IInv => FaultHasCause
  BY InvFault
<1> QED
  BY <1>1, Invariance, PTL

\* A wait of libp2p_conn_dialer_join_swarm runs out only for one of the causes that
\* DialFailsForCause names.  One of them is a remote that does not ask for
\* multistream once secio is up, which dialer.c:136 takes for granted: nobody then
\* puts multistream on top of secio.
THEOREM DialFailureCaused == Spec => []DialFailsForCause
<1>1. Init => DialFailsForCause
  BY DEF Init, DialFailsForCause
<1>2. ASSUME IInv, DialFailsForCause, [Next]_vars
      PROVE  DialFailsForCause'
  <2>1. Grown
    BY <1>2, NextKeeps DEF Keeps
  <2> SUFFICES ASSUME NEW d \in Dialers, dialer'[d].pc = "failed"
               PROVE  events' \cap Excuses # {} \/ \E c \in Conns : Unasked(c)'
    BY DEF DialFailsForCause, Excuses
  <2>2. events \subseteq events' /\ (dialer[d].pc = "failed" \/ DialerTimeout(d))
    BY <1>2, FailsByTimeout DEF IInv
  <2>3. events' \cap Excuses # {} \/ \E c \in Conns : Unasked(c)
    <3>1. CASE dialer[d].pc = "failed"
      BY <1>2, <2>2, <3>1 DEF DialFailsForCause, Excuses
    <3>2. CASE DialerTimeout(d)
      BY <1>2, <3>2, TimeoutExcused
    <3> QED
      BY <2>2, <3>1, <3>2
  <2> QED
    BY <2>1, <2>3 DEF Grown
<1>3. IInv /\ DialFailsForCause /\ [Next]_vars => DialFailsForCause'
  BY <1>2
<1> QED
  BY <1>1, <1>3, Invariance, PTL DEF Spec
=============================================================================
