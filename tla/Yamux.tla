------------------------------- MODULE Yamux -------------------------------
(***************************************************************************)
(* The yamux multiplexer of libp2p (yamux/yamux.c, session.c, stream.c) at *)
(* one end of a connection that has negotiated it.  The thread that reads  *)
(* the network decodes frames; for a data frame it fills the buffer of the *)
(* channel and starts a thread that reads messages from that buffer,       *)
(* unless the channel says one is running.  The peer is external: it may   *)
(* send any frame of FrameSet at any time.                                 *)
(*                                                                         *)
(* The bytes of a stream are tokens 1, 2, 3, ...: an odd token is the      *)
(* length prefix of a multistream message, the next one is its body.       *)
(***************************************************************************)
EXTENDS Naturals, Sequences, FiniteSets

CONSTANTS
  AmServer,   \* am_server of the YamuxContext
  Backlog,    \* accept_backlog of the configuration
  Ids,        \* the stream ids that occur
  Readers,    \* threads that yamux_read_method may run in
  MaxFrames,  \* bound on the frames the peer sends
  MaxWrites   \* bound on what the local protocols open and write

ASSUME YamuxAssumption ==
  /\ AmServer \in BOOLEAN
  /\ Backlog \in Nat
  /\ Ids \subseteq Nat \ {0}
  /\ MaxFrames \in Nat
  /\ MaxWrites \in Nat

VARIABLES
  slots,     \* session->streams, one record per stream up to cap_streams
  nextid,    \* session->nextid
  closed,    \* session->closed
  life,      \* "up", "closed" (libp2p_yamux_close) or "crashed"
  thread,    \* per reader: its place in yamux_read_method
  sent,      \* history: the flags of the frames written, per stream id
  told,      \* the number of tokens the peer has sent, per stream id
  frames,    \* frames received so far
  writes,    \* local operations so far
  mixed,     \* history: libp2p_yamux_get_next_id was used
  torn,      \* history: streams on which a message was put together wrongly
  excused,   \* history: streams that had two readers, a read that timed out,
             \* or a payload that was refused
  late       \* history: streams that got a payload while the reader was leaving

session == <<slots, nextid, closed, life>>
history == <<sent, mixed, torn, excused, late>>
bounds  == <<told, frames, writes>>
vars    == <<session, thread, history, bounds>>

Flags == {"nil", "syn", "ack", "fin", "rst"}

\* A frame: stream id 0 is the session itself; size counts the tokens of a
\* data frame.
FrameSet ==
  [type : {"ping", "goaway"}, flags : {"syn", "ack"}, id : {0}, size : {0}]
    \cup [type : {"window"}, flags : Flags, id : Ids, size : {0}]
    \cup [type : {"data"}, flags : Flags, id : Ids, size : 1 .. 2]

Idle == [pc |-> "none", slot |-> 0, want |-> 0]

Slot(id, state) ==
  [id |-> id, live |-> TRUE, state |-> state, buf |-> <<>>, running |-> FALSE]

Init ==
  /\ slots = <<>>
  /\ nextid = IF AmServer THEN 2 ELSE 1
  /\ closed = FALSE
  /\ life = "up"
  /\ thread = [r \in Readers |-> Idle]
  /\ sent = [i \in Ids |-> <<>>]
  /\ told = [i \in Ids |-> 0]
  /\ frames = 0
  /\ writes = 0
  /\ mixed = FALSE
  /\ torn = {}
  /\ excused = {}
  /\ late = {}
-----------------------------------------------------------------------------
(* Writing.                                                                 *)

\* Mutant: the state of the channel is not advanced.
GetFlagsForgets(state) ==
  CASE state = "inited"   -> [flag |-> "syn", next |-> "inited"]
    [] state = "syn_recv" -> [flag |-> "ack", next |-> "syn_recv"]
    [] OTHER              -> [flag |-> "nil", next |-> state]

\* get_flags: the first frame on a stream we open carries SYN, the first one
\* on a stream the peer opened carries ACK.  The channel remembers it.
GetFlags(state) ==
  CASE state = "inited"   -> [flag |-> "syn", next |-> "syn_sent"]
    [] state = "syn_recv" -> [flag |-> "ack", next |-> "est"]
    [] OTHER              -> [flag |-> "nil", next |-> state]

\* yamux_channel_new finds room for a stream: no entry of the array is ever
\* dead while the session lives, so it is the next one, if the array is not
\* full.
HasRoom == Len(slots) < Backlog

\* join_swarm opens a channel and negotiates multistream on it, which writes
\* the protocol id as the first frame.
OpenChannel ==
  /\ life = "up" /\ writes < MaxWrites
  /\ nextid \in Ids
  /\ nextid' = nextid + 2
  /\ IF HasRoom
       THEN LET g == GetFlags("inited")
            IN /\ slots' = Append(slots, Slot(nextid, g.next))
               /\ sent' = [sent EXCEPT ![nextid] = Append(@, g.flag)]
       ELSE UNCHANGED <<slots, sent>>
  /\ writes' = writes + 1
  /\ UNCHANGED <<closed, life, thread, mixed, torn, excused, late, told, frames>>

\* libp2p_yamux_write on a channel.
WriteChannel(s) ==
  /\ life = "up" /\ writes < MaxWrites
  /\ LET g == GetFlags(slots[s].state)
     IN /\ slots' = [slots EXCEPT ![s].state = g.next]
        /\ sent' = [sent EXCEPT ![slots[s].id] = Append(@, g.flag)]
  /\ writes' = writes + 1
  /\ UNCHANGED <<nextid, closed, life, thread, mixed, torn, excused, late, told, frames>>

\* libp2p_yamux_get_next_id: the id is made to fit our side, and the counter
\* is left at the id after it.
NextId == IF (nextid % 2 = 1) = AmServer THEN nextid + 1 ELSE nextid

\* libp2p_yamux_write on the default stream of the session (bitswap and the
\* routing messages): a fresh id, no flags, and no stream is made.
WriteSession ==
  /\ life = "up" /\ writes < MaxWrites
  /\ NextId \in Ids
  /\ nextid' = NextId + 1
  /\ sent' = [sent EXCEPT ![NextId] = Append(@, "nil")]
  /\ mixed' = TRUE
  /\ writes' = writes + 1
  /\ UNCHANGED <<slots, closed, life, thread, torn, excused, late, told, frames>>

\* libp2p_yamux_close: go away, then close what is below.
CloseYamux ==
  /\ life = "up"
  /\ life' = "closed"
  /\ UNCHANGED <<slots, nextid, closed, thread, history, bounds>>
-----------------------------------------------------------------------------
(* Reading: yamux_decode and yamux_stream_process.                          *)

Reading(s) == {r \in Readers : thread[r].pc # "none" /\ thread[r].slot = s}

\* The peer's next tokens on a stream.
Payload(f) == [k \in 1 .. f.size |-> told[f.id] + k]

\* threadsafe_buffer_write.
Fill(s, tokens) == [slots EXCEPT ![s].buf = @ \o tokens]

\* Threads not running yet.
Idlers == {r \in Readers : thread[r] = Idle}

\* Mutant: a thread is started for every payload.
NotifyAlways(s) ==
  /\ Idlers # {}
  /\ LET r == CHOOSE r \in Idlers : TRUE IN
     thread' = [thread EXCEPT ![r] = [pc |-> "start", slot |-> s, want |-> 0]]
  /\ UNCHANGED <<late, excused>>

\* libp2p_yamux_notify_child_stream_has_data starts a thread if read_running
\* is not set.  A reader about to clear the flag will not look again (see
\* late).
Notify(s) ==
  IF slots[s].running
    THEN /\ late' = IF \A r \in Reading(s) : thread[r].pc = "exit"
                      THEN late \cup {slots[s].id} ELSE late
         /\ UNCHANGED <<thread, excused>>
    ELSE /\ Idlers # {}
         /\ LET r == CHOOSE r \in Idlers : TRUE IN
            thread' = [thread EXCEPT ![r] = [pc |-> "start", slot |-> s, want |-> 0]]
         /\ excused' = IF Reading(s) # {} THEN excused \cup {slots[s].id} ELSE excused
         /\ UNCHANGED late

\* The peer's tokens are counted whether they are kept or not.
Told(f) == told' = [told EXCEPT ![f.id] = @ + f.size]

\* No channel gets the payload: it is lost with the frame (-EPROTO) or, of a SYN
\* with an id of our own side, returned to the listening thread as a message.
NoChannel(f) ==
  /\ Told(f)
  /\ excused' = IF f.size > 0 THEN excused \cup {f.id} ELSE excused
  /\ UNCHANGED <<slots, life, sent>>

\* yamux_stream_process: only a payload has an effect here.
Process(s, f) ==
  IF f.size = 0
    THEN UNCHANGED <<slots, thread, excused, late>>
    ELSE slots' = Fill(s, Payload(f)) /\ Notify(s)

\* A frame of the session: go_away closes it.  A ping is answered (the answer is
\* no frame of a stream), the answer to a ping refused: there is no pong_fn.
DecodeSession(f) ==
  /\ f.id = 0
  /\ closed' = (closed \/ f.type = "goaway")
  /\ UNCHANGED <<slots, nextid, life, thread, sent, mixed, torn, excused, late, told>>

\* The streams yamux_decode does not skip.  The first one that has the id of
\* the frame is taken.
Matches(id) == {s \in DOMAIN slots : slots[s].live /\ slots[s].id = id}
FirstMatch(id) == CHOOSE s \in Matches(id) : \A t \in Matches(id) : s <= t

\* RST and FIN close the stream (the FIN is not answered: the channel context
\* looked up for it is always NULL) and go on with the payload.
DecodeClose(f) ==
  /\ f.flags \in {"fin", "rst"}
  /\ LET s == FirstMatch(f.id)
     IN IF f.size = 0
          THEN /\ slots' = [slots EXCEPT ![s].live = FALSE]
               /\ UNCHANGED <<thread, excused, late>>
          ELSE /\ slots' = [Fill(s, Payload(f)) EXCEPT ![s].live = FALSE]
               /\ Notify(s)
  /\ Told(f)
  /\ UNCHANGED <<nextid, closed, life, sent, mixed, torn>>

\* Without flags the payload goes to the channel.
DecodePlain(f) ==
  /\ f.flags = "nil"
  /\ Process(FirstMatch(f.id), f)
  /\ Told(f)
  /\ UNCHANGED <<nextid, closed, life, sent, mixed, torn>>

\* An ACK is a protocol error, as the state it is compared with is the one of
\* the session's stream and SYN is noted in the channel; so is a second SYN.
DecodeRefuse(f) ==
  /\ f.flags \in {"ack", "syn"}
  /\ NoChannel(f)
  /\ UNCHANGED <<nextid, closed, thread, mixed, torn, late>>

\* Mutant: any new id is taken for a stream of the peer.
TheirsAny(id) == id \in Ids

\* Stream ids of the peer: odd from a client, even from a server.
Theirs(id) == (id % 2 = 1) = AmServer

\* A SYN on an unknown stream.  With a payload it ends the process: the payload
\* is given to a stream that has no channel yet.  Otherwise the channel is
\* made, the window update answered with ACK, and multistream negotiated on it.
\* The id is used as an index of the array of streams: behind its end the read
\* may fault, or be harmless as all it reads is overwritten.
DecodeSyn(f) ==
  /\ f.flags = "syn"
  /\ IF ~Theirs(f.id) \/ ~HasRoom
       THEN NoChannel(f)
       ELSE IF f.size > 0
         THEN life' = "crashed" /\ UNCHANGED <<slots, sent, told, excused>>
         ELSE \/ /\ f.id >= Backlog
                 /\ life' = "crashed"
                 /\ UNCHANGED <<slots, sent, told, excused>>
              \/ LET update == GetFlags("syn_recv")
                     multi  == GetFlags(update.next)
                 IN /\ slots' = Append(slots, Slot(f.id, multi.next))
                    /\ sent' = [sent EXCEPT ![f.id] = @ \o <<update.flag, multi.flag>>]
                    /\ told' = [told EXCEPT ![f.id] = 0]
                    /\ UNCHANGED <<life, excused>>
  /\ UNCHANGED <<nextid, closed, thread, mixed, torn, late>>

\* Everything else on an unknown stream is refused.
DecodeUnknown(f) ==
  /\ f.flags # "syn"
  /\ NoChannel(f)
  /\ UNCHANGED <<nextid, closed, thread, mixed, torn, late>>

Receive(f) ==
  /\ life = "up" /\ frames < MaxFrames
  /\ frames' = frames + 1
  /\ UNCHANGED writes
  /\ \/ DecodeSession(f)
     \/ /\ f.id # 0 /\ Matches(f.id) # {}
        /\ DecodeClose(f) \/ DecodePlain(f) \/ DecodeRefuse(f)
     \/ /\ f.id # 0 /\ Matches(f.id) = {}
        /\ DecodeSyn(f) \/ DecodeUnknown(f)
-----------------------------------------------------------------------------
(* yamux_read_method, with the multistream read of the channel's child.     *)

Goto(r, step) == thread' = [thread EXCEPT ![r].pc = step]

ReaderStart(r) ==
  /\ thread[r].pc = "start"
  /\ slots' = [slots EXCEPT ![thread[r].slot].running = TRUE]
  /\ Goto(r, "test")
  /\ UNCHANGED <<nextid, closed, life, history, bounds>>

\* Mutant: a reader leaves after one message.
ReaderTestOnce(r) ==
  /\ thread[r].pc = "test"
  /\ Goto(r, IF slots[thread[r].slot].buf = <<>> \/ thread[r].want # 0 THEN "exit" ELSE "len")
  /\ UNCHANGED <<session, history, bounds>>

ReaderTest(r) ==
  /\ thread[r].pc = "test"
  /\ Goto(r, IF slots[thread[r].slot].buf = <<>> THEN "exit" ELSE "len")
  /\ UNCHANGED <<session, history, bounds>>

\* threadsafe_buffer_read of one token.
Take(s) == [slots EXCEPT ![s].buf = Tail(@)]

\* The length prefix is read, and the body that must follow it noted.
ReaderLen(r) ==
  LET s == thread[r].slot IN
  /\ thread[r].pc = "len"
  /\ slots[s].buf # <<>>
  /\ thread' = [thread EXCEPT ![r].pc = "body", ![r].want = Head(slots[s].buf) + 1]
  /\ torn' = IF Head(slots[s].buf) % 2 = 0 THEN torn \cup {slots[s].id} ELSE torn
  /\ slots' = Take(s)
  /\ UNCHANGED <<nextid, closed, life, sent, mixed, excused, late, bounds>>

\* The body is read, the message given to its protocol.
ReaderBody(r) ==
  LET s == thread[r].slot IN
  /\ thread[r].pc = "body"
  /\ slots[s].buf # <<>>
  /\ Goto(r, "test")
  /\ torn' = IF Head(slots[s].buf) # thread[r].want THEN torn \cup {slots[s].id} ELSE torn
  /\ slots' = Take(s)
  /\ UNCHANGED <<nextid, closed, life, sent, mixed, excused, late, bounds>>

\* libp2p_yamux_channel_read_raw waits for what is not there, then returns
\* without it; what was read of the message is dropped.
ReaderTimeout(r) ==
  LET s == thread[r].slot IN
  /\ thread[r].pc \in {"len", "body"}
  /\ slots[s].buf = <<>>
  /\ Goto(r, "test")
  /\ excused' = IF thread[r].pc = "body" THEN excused \cup {slots[s].id} ELSE excused
  /\ UNCHANGED <<session, sent, mixed, torn, late, bounds>>

ReaderExit(r) ==
  /\ thread[r].pc = "exit"
  /\ slots' = [slots EXCEPT ![thread[r].slot].running = FALSE]
  /\ thread' = [thread EXCEPT ![r] = Idle]
  /\ UNCHANGED <<nextid, closed, life, history, bounds>>

ReaderStep(r) ==
  /\ life # "crashed"
  /\ \/ ReaderStart(r) \/ ReaderTest(r) \/ ReaderLen(r)
     \/ ReaderBody(r) \/ ReaderTimeout(r) \/ ReaderExit(r)
-----------------------------------------------------------------------------
Next ==
  \/ OpenChannel \/ WriteSession \/ CloseYamux
  \/ \E s \in DOMAIN slots : WriteChannel(s)
  \/ \E f \in FrameSet : Receive(f)
  \/ \E r \in Readers : ReaderStep(r)

Spec == Init /\ [][Next]_vars

\* A thread that can run does.
LiveSpec == Spec /\ \A r \in Readers : WF_vars(ReaderStep(r))
-----------------------------------------------------------------------------
(* Properties.                                                              *)

ThreadStates ==
  [pc : {"none", "start", "test", "len", "body", "exit"}, slot : 0 .. Backlog, want : Nat]

\* The array of streams is not overrun (yamux_channel_new writes at its end).
TypeOK ==
  /\ Len(slots) <= Backlog
  /\ \A s \in DOMAIN slots :
       /\ slots[s].id \in Ids
       /\ slots[s].state \in {"inited", "syn_sent", "syn_recv", "est"}
       /\ slots[s].buf \in Seq(Nat)
       /\ slots[s].live \in BOOLEAN /\ slots[s].running \in BOOLEAN
  /\ nextid \in Nat /\ frames \in Nat /\ writes \in Nat
  /\ closed \in BOOLEAN /\ mixed \in BOOLEAN
  /\ life \in {"up", "closed", "crashed"}
  /\ thread \in [Readers -> ThreadStates]
  /\ sent \in [Ids -> Seq(Flags)]
  /\ told \in [Ids -> Nat]
  /\ torn \subseteq Ids /\ excused \subseteq Ids /\ late \subseteq Ids

\* Ids of the two sides never meet, so a frame has one stream it can be for,
\* whatever the peer opens, closes and opens again; as long as
\* libp2p_yamux_get_next_id, which leaves the counter on the other side's
\* parity, has not been used (yamux.c:394 against stream.c:40).
IdsApart ==
  TypeOK /\ (~mixed =>
    /\ \A s, t \in DOMAIN slots :
         slots[s].live /\ slots[t].live /\ slots[s].id = slots[t].id => s = t
    /\ \A s \in DOMAIN slots : slots[s].state = "syn_sent" => ~Theirs(slots[s].id))

\* Each stream is announced (SYN) or accepted (ACK) once, on its first frame,
\* however many frames the protocols above write.
AnnouncedOnce ==
  \A i \in Ids : Cardinality({k \in DOMAIN sent[i] : sent[i][k] # "nil"})
                  = Cardinality({s \in DOMAIN slots : slots[s].id = i})

\* The buffer of a channel keeps the order of the peer's bytes while the network
\* thread fills it and readers empty it.  A message is put together from the
\* wrong bytes only if two readers ran on the channel (read_running is set by the
\* thread, not by who starts it), a body came after the time-out, or a payload was
\* refused; with the ids of the two sides apart.
BytesInOrder ==
  /\ \A s \in DOMAIN slots : \A k \in 1 .. Len(slots[s].buf) - 1 :
       slots[s].buf[k] < slots[s].buf[k + 1]
  /\ ~mixed => torn \subseteq excused

\* What is in a buffer is read, unless it came after the last reader had found
\* the buffer empty and before it cleared read_running.
Drained ==
  \A i \in Ids :
    (\E s \in DOMAIN slots : slots[s].id = i /\ slots[s].buf # <<>>)
      ~> (i \in late \/ life = "crashed"
          \/ \A s \in DOMAIN slots : slots[s].id = i => slots[s].buf = <<>>)
=============================================================================
