----------------------------- MODULE YamuxProofs -----------------------------
(* Theorems about the multiplexer (module Yamux), for any backlog, any ids,   *)
(* any number of readers and any sequence of frames of the peer.              *)
EXTENDS Yamux, FiniteSetTheorems, SequenceTheorems, TLAPS

(***************************************************************************)
(* The inductive invariant                                                 *)
(***************************************************************************)
SlotRecords ==
  [id : Ids, live : BOOLEAN, state : {"syn_sent", "est"}, buf : Seq(Nat), running : BOOLEAN]

\* The table of streams.  A stream is written to as soon as it is made, so it is
\* never left in the states that carry a flag.
SlotsOK == slots \in Seq(SlotRecords) /\ Len(slots) <= Backlog

\* The rest of the state.
RestOK ==
  /\ nextid \in Nat /\ frames \in Nat /\ writes \in Nat
  /\ closed \in BOOLEAN /\ mixed \in BOOLEAN
  /\ life \in {"up", "closed", "crashed"}
  /\ thread \in [Readers -> ThreadStates]
  /\ sent \in [Ids -> Seq(Flags)]
  /\ told \in [Ids -> Nat]
  /\ torn \subseteq Ids /\ excused \subseteq Ids /\ late \subseteq Ids

\* A reader reads a stream that is there.
ReadersOK == \A r \in Readers : thread[r].pc # "none" => thread[r].slot \in 1..Len(slots)

Types == SlotsOK /\ RestOK /\ ReadersOK

\* Until libp2p_yamux_get_next_id is used, nextid has our parity and is above
\* every id we have used.
Sides ==
  ~mixed =>
    /\ ~Theirs(nextid)
    /\ \A s \in 1..Len(slots) :
         IF slots[s].state = "syn_sent" THEN ~Theirs(slots[s].id) /\ slots[s].id < nextid
         ELSE Theirs(slots[s].id)
    /\ \A s, t \in 1..Len(slots) :
         slots[s].live /\ slots[t].live /\ slots[s].id = slots[t].id => s = t

\* Buffers hold increasing tokens, and an open stream none the peer has not sent.
Ordered ==
  \A s \in 1..Len(slots) :
    /\ \A k \in 1..(Len(slots[s].buf) - 1) : slots[s].buf[k] < slots[s].buf[k + 1]
    /\ slots[s].live => \A k \in 1..Len(slots[s].buf) : slots[s].buf[k] <= told[slots[s].id]

\* The token a reader of stream s gets next.
NextToken(s) == IF slots[s].buf = <<>> THEN told[slots[s].id] + 1 ELSE slots[s].buf[1]

\* A stream without an excuse has one reader at most, lost no token, and its next
\* one is the body the reader waits for, or else a length.
InStep(s) ==
  /\ \A q, r \in Reading(s) : q = r
  /\ \A k \in 1..(Len(slots[s].buf) - 1) : slots[s].buf[k + 1] = slots[s].buf[k] + 1
  /\ slots[s].live /\ slots[s].buf # <<>> => slots[s].buf[Len(slots[s].buf)] = told[slots[s].id]
  /\ slots[s].live \/ slots[s].buf # <<>> =>
       /\ \A r \in Reading(s) : thread[r].pc = "body" =>
            thread[r].want = NextToken(s) /\ NextToken(s) % 2 = 0
       /\ (\A r \in Reading(s) : thread[r].pc # "body") => NextToken(s) % 2 = 1

Streams ==
  ~mixed =>
    /\ torn \subseteq excused
    /\ \A i \in Ids \ excused : (\A s \in 1..Len(slots) : slots[s].id # i) => told[i] = 0
    /\ \A s \in 1..Len(slots) : slots[s].id \notin excused => InStep(s)

IInv == Types /\ Sides /\ Ordered /\ Streams /\ AnnouncedOnce

-----------------------------------------------------------------------------
(* What the steps do to the table of streams.                               *)

\* A stream is added at the end of the table.
Grown(i, st) ==
  /\ slots' \in Seq(SlotRecords)
  /\ Len(slots') = Len(slots) + 1
  /\ Len(slots') <= Backlog
  /\ \A t \in 1..Len(slots) : slots'[t] = slots[t]
  /\ LET e == slots'[Len(slots) + 1]
     IN  e.id = i /\ e.live /\ e.state = st /\ e.buf = <<>>

\* Stream s is changed, not its id and its state.
Edited(s, tokens) ==
  /\ slots' \in Seq(SlotRecords)
  /\ Len(slots') = Len(slots)
  /\ \A t \in 1..Len(slots) : t # s => slots'[t] = slots[t]
  /\ slots'[s].id = slots[s].id /\ slots'[s].state = slots[s].state
  /\ slots'[s].live => slots[s].live
  /\ slots'[s].buf = tokens

LEMMA SlotFields ==
  ASSUME SlotsOK, NEW s \in 1..Len(slots)
  PROVE  /\ slots[s] \in SlotRecords
         /\ slots[s].id \in Ids /\ slots[s].buf \in Seq(Nat)
         /\ slots[s].state \in {"syn_sent", "est"}
         /\ slots[s].live \in BOOLEAN /\ slots[s].running \in BOOLEAN
<1>1. slots[s] \in SlotRecords
  BY DEF SlotsOK
<1>2. QED
  BY <1>1 DEF SlotRecords

\* One record of the table is replaced.
LEMMA EditSlot ==
  ASSUME SlotsOK, NEW s \in 1..Len(slots), NEW e \in SlotRecords, slots' = [slots EXCEPT ![s] = e],
         e.id = slots[s].id, e.state = slots[s].state, e.live => slots[s].live
  PROVE  Edited(s, e.buf)
BY DEF Edited, SlotsOK

LEMMA GrowSlots ==
  ASSUME SlotsOK, HasRoom, NEW i \in Ids, NEW st \in {"syn_sent", "est"},
         slots' = Append(slots, Slot(i, st))
  PROVE  Grown(i, st)
<1>1. PICK e : e = Slot(i, st)
  OBVIOUS
<1>2. <<>> \in Seq(Nat)
  OBVIOUS
<1>3. e \in SlotRecords
  BY <1>1, <1>2, Zenon DEF Slot, SlotRecords
<1>4. e.id = i /\ e.live /\ e.state = st /\ e.buf = <<>>
  BY <1>1 DEF Slot
<1>5. slots' = Append(slots, e) /\ slots \in Seq(SlotRecords) /\ Len(slots) < Backlog /\ Backlog \in Nat
  BY <1>1, YamuxAssumption DEF SlotsOK, HasRoom
<1>6. QED
  BY <1>3, <1>4, <1>5 DEF Grown

LEMMA OpenEffect ==
  ASSUME Types, OpenChannel
  PROVE  /\ nextid \in Ids /\ nextid' = nextid + 2
         /\ \/ /\ Grown(nextid, "syn_sent")
               /\ sent' = [sent EXCEPT ![nextid] = Append(@, "syn")]
            \/ UNCHANGED <<slots, sent>>
         /\ UNCHANGED <<closed, life, thread, mixed, torn, excused, late, told, frames>>
         /\ writes' = writes + 1
<1>1. GetFlags("inited") = [flag |-> "syn", next |-> "syn_sent"]
  BY DEF GetFlags
<1>2. CASE ~HasRoom
  BY <1>2 DEF OpenChannel
<1>3. CASE HasRoom
  <2>1. /\ slots' = Append(slots, Slot(nextid, GetFlags("inited").next))
        /\ sent' = [sent EXCEPT ![nextid] = Append(@, GetFlags("inited").flag)]
        /\ nextid \in Ids
    BY <1>3 DEF OpenChannel
  <2>2. GetFlags("inited").flag = "syn" /\ GetFlags("inited").next = "syn_sent"
    BY <1>1
  <2>3. slots' = Append(slots, Slot(nextid, "syn_sent")) /\ sent' = [sent EXCEPT ![nextid] = Append(@, "syn")]
    BY <2>1, <2>2, Zenon
  <2>4. Grown(nextid, "syn_sent")
    BY <1>3, <2>1, <2>3, GrowSlots DEF Types
  <2>5. QED
    BY <2>3, <2>4 DEF OpenChannel
<1>4. QED
  BY <1>2, <1>3

LEMMA WriteEffect ==
  ASSUME Types, NEW s \in DOMAIN slots, WriteChannel(s)
  PROVE  /\ s \in 1..Len(slots)
         /\ Edited(s, slots[s].buf) /\ slots'[s].live = slots[s].live
         /\ sent' = [sent EXCEPT ![slots[s].id] = Append(@, "nil")]
         /\ UNCHANGED <<nextid, closed, life, thread, mixed, torn, excused, late, told, frames>>
         /\ writes' = writes + 1
<1>1. s \in 1..Len(slots)
  BY DEF Types, SlotsOK
<1>2. PICK st : st = slots[s].state
  OBVIOUS
<1>3. slots[s] \in SlotRecords /\ st \in {"syn_sent", "est"}
  BY <1>1, <1>2, SlotFields DEF Types
<1>4. GetFlags(st) = [flag |-> "nil", next |-> st]
  BY <1>3 DEF GetFlags
<1>5. GetFlags(st).flag = "nil" /\ GetFlags(st).next = st
  BY <1>4
<1>6. /\ slots' = [slots EXCEPT ![s].state = GetFlags(st).next]
      /\ sent' = [sent EXCEPT ![slots[s].id] = Append(@, GetFlags(st).flag)]
  BY <1>2 DEF WriteChannel
<1>7. PICK e : e = [slots[s] EXCEPT !.state = st]
  OBVIOUS
<1>8. e \in SlotRecords /\ e.id = slots[s].id /\ e.state = st /\ e.live = slots[s].live /\ e.buf = slots[s].buf
  BY <1>3, <1>7 DEF SlotRecords
<1>9. slots' = [slots EXCEPT ![s] = e]
  BY <1>5, <1>6, <1>7
<1>10. Edited(s, slots[s].buf)
  BY <1>1, <1>2, <1>8, <1>9, EditSlot DEF Types
<1>11. slots'[s] = e
  BY <1>1, <1>9 DEF Types, SlotsOK
<1>12. QED
  BY <1>1, <1>5, <1>6, <1>8, <1>10, <1>11 DEF WriteChannel

LEMMA FrameFacts ==
  ASSUME NEW f \in FrameSet
  PROVE  /\ f.id \in Ids \cup {0} /\ f.size \in 0..2 /\ f.flags \in Flags
         /\ f.id = 0 => f.size = 0
BY YamuxAssumption DEF FrameSet, Flags

\* A set of numbers that is not empty has a least element.
LEMMA LeastNumber ==
    ASSUME NEW T, T \subseteq Nat, T # {}
    PROVE  \E x \in T : \A y \in T : x <= y
<1>1. IsWellFoundedOn(OpToRel(<, Nat), Nat)
  BY NatLessThanWellFounded, Zenon
<1>2. PICK R : R = OpToRel(<, Nat)
  BY Zenon
<1>3. IsWellFoundedOn(R, Nat)
  BY <1>1, <1>2, Zenon
<1>4. \A y, x \in Nat : y < x => <<y, x>> \in R
  BY <1>2, Zenon DEF OpToRel
<1>5. \E x \in T : \A y \in T : ~(<<y, x>> \in R)
  BY <1>3, WFMin, Zenon
<1>6. PICK x \in T : \A y \in T : ~(<<y, x>> \in R)
  BY <1>5, Zenon
<1>7. \A y \in T : x \in Nat /\ y \in Nat /\ ~(y < x)
  BY <1>4, <1>6, Zenon
<1>8. \A y \in T : x <= y
  BY <1>7
<1>9. QED
  BY <1>8

\* The stream yamux_decode takes is open and has the id of the frame.
LEMMA MatchFacts ==
  ASSUME Types, NEW i \in Ids, Matches(i) # {}
  PROVE  /\ FirstMatch(i) \in 1..Len(slots)
         /\ slots[FirstMatch(i)].live /\ slots[FirstMatch(i)].id = i
<1>1. Matches(i) \subseteq 1..Len(slots) /\ Len(slots) \in Nat
  BY DEF Matches, Types, SlotsOK
<1>2. \E s \in Matches(i) : \A t \in Matches(i) : s <= t
  <2>1. Matches(i) \subseteq Nat
    BY <1>1
  <2>2. QED
    BY <2>1, LeastNumber
<1>3. FirstMatch(i) \in Matches(i)
  BY <1>2, Zenon DEF FirstMatch
<1>4. QED
  BY <1>1, <1>3, Zenon DEF Matches

\* The payload of a frame: the peer's next tokens, in their order.
LEMMA PayloadFacts ==
  ASSUME Types, NEW f \in FrameSet, f.id \in Ids
  PROVE  /\ Payload(f) \in Seq(Nat) /\ Len(Payload(f)) = f.size
         /\ \A k \in 1..f.size : Payload(f)[k] = told[f.id] + k
         /\ told[f.id] \in Nat /\ f.size \in Nat
<1>1. told[f.id] \in Nat /\ f.size \in Nat
  <2>1. f.size \in 0..2 /\ told \in [Ids -> Nat]
    BY FrameFacts, Zenon DEF Types, RestOK
  <2>2. QED
    BY <2>1
<1>2. QED
  BY <1>1 DEF Payload

\* The four things a frame can lead to.
Ignored == UNCHANGED <<slots, thread, sent, told, excused, late>>

Delivered(s, f) ==
  /\ s \in 1..Len(slots) /\ slots[s].live /\ slots[s].id = f.id
  /\ Edited(s, slots[s].buf \o Payload(f))
  /\ told' = [told EXCEPT ![f.id] = @ + f.size]
  /\ sent' = sent
  /\ IF f.size = 0 THEN UNCHANGED <<thread, excused, late>> ELSE Notify(s)

Refused(f) ==
  /\ told' = [told EXCEPT ![f.id] = @ + f.size]
  /\ excused' = IF f.size > 0 THEN excused \cup {f.id} ELSE excused
  /\ UNCHANGED <<slots, thread, sent, late>>

Accepted(f) ==
  /\ Theirs(f.id) /\ Matches(f.id) = {}
  /\ Grown(f.id, "est")
  /\ sent' = [sent EXCEPT ![f.id] = @ \o <<"ack", "nil">>]
  /\ told' = [told EXCEPT ![f.id] = 0]
  /\ UNCHANGED <<thread, excused, late>>

\* What the decoding of a frame leads to.
Outcome(f) ==
  /\ \/ Ignored
     \/ f.id \in Ids /\ Refused(f)
     \/ f.id \in Ids /\ Accepted(f)
     \/ f.id \in Ids /\ \E s \in 1..Len(slots) : Delivered(s, f)
  /\ UNCHANGED <<nextid, mixed, torn>>
  /\ closed' \in BOOLEAN /\ life' \in {life, "crashed"}

LEMMA FillEffect ==
  ASSUME Types, NEW f \in FrameSet, f.id \in Ids, NEW s \in 1..Len(slots), slots[s].live,
         NEW alive \in BOOLEAN,
         slots' = [slots EXCEPT ![s] = [slots[s] EXCEPT !.buf = slots[s].buf \o Payload(f), !.live = alive]]
  PROVE  Edited(s, slots[s].buf \o Payload(f))
<1>1. slots[s] \in SlotRecords /\ slots[s].buf \in Seq(Nat)
  BY SlotFields DEF Types
<1>2. PICK b : b = slots[s].buf \o Payload(f)
  OBVIOUS
<1>3. b \in Seq(Nat)
  BY <1>1, <1>2, PayloadFacts
<1>4. PICK e : e = [slots[s] EXCEPT !.buf = b, !.live = alive]
  OBVIOUS
<1>5. e \in SlotRecords /\ e.id = slots[s].id /\ e.state = slots[s].state /\ e.buf = b
  BY <1>1, <1>3, <1>4 DEF SlotRecords
<1>6. slots' = [slots EXCEPT ![s] = e]
  BY <1>2, <1>4, Zenon
<1>7. Edited(s, e.buf)
  BY <1>5, <1>6, EditSlot DEF Types
<1>8. QED
  BY <1>2, <1>5, <1>7, Zenon

LEMMA RefuseOutcome ==
  ASSUME Types, NEW f \in FrameSet, f.id \in Ids, NoChannel(f),
         UNCHANGED <<nextid, closed, thread, mixed, torn, late>>
  PROVE  Outcome(f)
<1>1. Refused(f)
  BY Zenon DEF NoChannel, Told, Refused
<1>2. closed' \in BOOLEAN /\ life' = life /\ UNCHANGED <<nextid, mixed, torn>>
  BY DEF Types, RestOK, NoChannel
<1>3. QED
  BY <1>1, <1>2, Zenon DEF Outcome

LEMMA DeliverOutcome ==
  ASSUME Types, NEW f \in FrameSet, f.id \in Ids, NEW s \in 1..Len(slots), slots[s].live,
         slots[s].id = f.id, Told(f), f.size = 0 => UNCHANGED <<thread, excused, late>>,
         f.size # 0 => Notify(s), UNCHANGED <<nextid, closed, life, sent, mixed, torn>>,
         Edited(s, slots[s].buf \o Payload(f))
  PROVE  Outcome(f)
<1>1. sent' = sent
  OBVIOUS
<1>2. Delivered(s, f)
  BY <1>1, Zenon DEF Delivered, Told
<1>3. closed' \in BOOLEAN /\ life' = life /\ UNCHANGED <<nextid, mixed, torn>>
  BY DEF Types, RestOK
<1>4. QED
  BY <1>2, <1>3, Zenon DEF Outcome

LEMMA CloseOutcome ==
  ASSUME Types, NEW f \in FrameSet, f.id \in Ids, Matches(f.id) # {}, DecodeClose(f)
  PROVE  Outcome(f)
<1>1. PICK s \in 1..Len(slots) : s = FirstMatch(f.id) /\ slots[s].live /\ slots[s].id = f.id
  BY MatchFacts
<1>2. slots[s] \in SlotRecords /\ slots[s].buf \in Seq(Nat)
  BY SlotFields DEF Types
<1>3. Edited(s, slots[s].buf \o Payload(f))
  <2>1. CASE f.size = 0
    <3>1. slots' = [slots EXCEPT ![s].live = FALSE]
      BY <1>1, <2>1 DEF DecodeClose
    <3>2. PICK e : e = [slots[s] EXCEPT !.live = FALSE]
      OBVIOUS
    <3>3. e \in SlotRecords /\ e.id = slots[s].id /\ e.state = slots[s].state /\ e.buf = slots[s].buf
          /\ e.live = FALSE
      BY <1>2, <3>2 DEF SlotRecords
    <3>4. slots' = [slots EXCEPT ![s] = e]
      BY <3>1, <3>2
    <3>5. Edited(s, e.buf)
      BY <3>3, <3>4, EditSlot DEF Types
    <3>6. slots[s].buf \o Payload(f) = slots[s].buf
      BY <1>2, <2>1, PayloadFacts
    <3>7. QED
      BY <3>3, <3>5, <3>6, Zenon
  <2>2. CASE f.size # 0
    <3>1. slots' = [Fill(s, Payload(f)) EXCEPT ![s].live = FALSE]
      BY <1>1, <2>2 DEF DecodeClose
    <3>2. PICK b : b = slots[s].buf \o Payload(f)
      OBVIOUS
    <3>3. Fill(s, Payload(f)) = [slots EXCEPT ![s] = [slots[s] EXCEPT !.buf = b]]
      BY <3>2 DEF Fill
    <3>4. slots \in [1..Len(slots) -> SlotRecords]
      BY DEF Types, SlotsOK
    <3>5. slots' = [slots EXCEPT ![s] = [slots[s] EXCEPT !.buf = b, !.live = FALSE]]
      BY <3>1, <3>3, <3>4
    <3>6. QED
      BY <1>1, <3>2, <3>5, FillEffect
  <2>3. QED
    BY <2>1, <2>2
<1>4. /\ Told(f) /\ UNCHANGED <<nextid, closed, life, sent, mixed, torn>>
      /\ f.size = 0 => UNCHANGED <<thread, excused, late>>
      /\ f.size # 0 => Notify(s)
  BY <1>1, Zenon DEF DecodeClose
<1>5. QED
  BY <1>1, <1>3, <1>4, DeliverOutcome, Zenon

LEMMA PlainOutcome ==
  ASSUME Types, NEW f \in FrameSet, f.id \in Ids, Matches(f.id) # {}, DecodePlain(f)
  PROVE  Outcome(f)
<1>1. PICK s \in 1..Len(slots) : s = FirstMatch(f.id) /\ slots[s].live /\ slots[s].id = f.id
  BY MatchFacts
<1>2. slots[s] \in SlotRecords /\ slots[s].buf \in Seq(Nat) /\ slots \in [1..Len(slots) -> SlotRecords]
  BY SlotFields DEF Types, SlotsOK
<1>3. Edited(s, slots[s].buf \o Payload(f))
  <2>1. CASE f.size = 0
    <3>1. slots' = slots
      BY <2>1 DEF DecodePlain, Process
    <3>2. slots' = [slots EXCEPT ![s] = slots[s]]
      BY <1>2, <3>1
    <3>3. Edited(s, slots[s].buf)
      BY <1>2, <3>2, EditSlot DEF Types
    <3>4. slots[s].buf \o Payload(f) = slots[s].buf
      BY <1>2, <2>1, PayloadFacts
    <3>5. QED
      BY <3>3, <3>4, Zenon
  <2>2. CASE f.size # 0
    <3>1. slots' = Fill(s, Payload(f))
      BY <1>1, <2>2 DEF DecodePlain, Process
    <3>2. PICK b : b = slots[s].buf \o Payload(f)
      OBVIOUS
    <3>3. Fill(s, Payload(f)) = [slots EXCEPT ![s] = [slots[s] EXCEPT !.buf = b]]
      BY <3>2 DEF Fill
    <3>4. [slots[s] EXCEPT !.buf = b, !.live = TRUE] = [slots[s] EXCEPT !.buf = b]
      BY <1>1, <1>2 DEF SlotRecords
    <3>5. slots' = [slots EXCEPT ![s] = [slots[s] EXCEPT !.buf = b, !.live = TRUE]]
      BY <3>1, <3>3, <3>4, Zenon
    <3>6. QED
      BY <1>1, <3>2, <3>5, FillEffect
  <2>3. QED
    BY <2>1, <2>2
<1>4. /\ Told(f) /\ UNCHANGED <<nextid, closed, life, sent, mixed, torn>>
      /\ f.size = 0 => UNCHANGED <<thread, excused, late>>
      /\ f.size # 0 => Notify(s)
  BY <1>1, Zenon DEF DecodePlain, Process
<1>5. QED
  BY <1>1, <1>3, <1>4, DeliverOutcome, Zenon

LEMMA SynOutcome ==
  ASSUME Types, NEW f \in FrameSet, f.id \in Ids, Matches(f.id) = {}, DecodeSyn(f)
  PROVE  Outcome(f)
<1>1. UNCHANGED <<nextid, closed, thread, mixed, torn, late>>
  BY DEF DecodeSyn
<1>2. closed' \in BOOLEAN
  BY <1>1 DEF Types, RestOK
<1>3. CASE ~Theirs(f.id) \/ ~HasRoom
  <2>1. NoChannel(f)
    BY <1>3, Zenon DEF DecodeSyn
  <2>2. QED
    BY <1>1, <2>1, RefuseOutcome, Zenon
<1>4. CASE Theirs(f.id) /\ HasRoom /\ life' = "crashed" /\ UNCHANGED <<slots, sent, told, excused>>
  <2>1. life' = "crashed" /\ UNCHANGED <<slots, sent, told, excused>>
    BY <1>4
  <2>2. Ignored /\ UNCHANGED <<nextid, mixed, torn>>
    BY <1>1, <2>1 DEF Ignored
  <2>3. life' \in {life, "crashed"}
    BY <2>1
  <2>4. QED
    BY <1>2, <2>2, <2>3, Zenon DEF Outcome
<1>5. CASE Theirs(f.id) /\ HasRoom /\ ~(life' = "crashed" /\ UNCHANGED <<slots, sent, told, excused>>)
  <2>1. GetFlags("syn_recv") = [flag |-> "ack", next |-> "est"]
    BY DEF GetFlags
  <2>2. GetFlags("est") = [flag |-> "nil", next |-> "est"]
    BY DEF GetFlags
  <2>3. /\ GetFlags("syn_recv").next = "est" /\ GetFlags("syn_recv").flag = "ack"
        /\ GetFlags("est").next = "est" /\ GetFlags("est").flag = "nil"
    BY <2>1, <2>2
  <2>4. /\ slots' = Append(slots, Slot(f.id, GetFlags(GetFlags("syn_recv").next).next))
        /\ sent' = [sent EXCEPT ![f.id] =
                      @ \o <<GetFlags("syn_recv").flag, GetFlags(GetFlags("syn_recv").next).flag>>]
        /\ told' = [told EXCEPT ![f.id] = 0]
        /\ UNCHANGED <<life, excused>>
    BY <1>5, Zenon DEF DecodeSyn
  <2>5. /\ slots' = Append(slots, Slot(f.id, "est"))
        /\ sent' = [sent EXCEPT ![f.id] = @ \o <<"ack", "nil">>]
    BY <2>3, <2>4, Zenon
  <2>6. Grown(f.id, "est")
    BY <1>5, <2>5, GrowSlots DEF Types
  <2>7. UNCHANGED <<thread, excused, late>> /\ life' \in {life, "crashed"} /\ UNCHANGED <<nextid, mixed, torn>>
    BY <1>1, <2>4
  <2>8. Accepted(f)
    BY <1>5, <2>4, <2>5, <2>6, <2>7, Zenon DEF Accepted
  <2>9. QED
    BY <1>2, <2>7, <2>8, Zenon DEF Outcome
<1>6. QED
  BY <1>3, <1>4, <1>5

LEMMA ReceiveEffect ==
  ASSUME Types, NEW f \in FrameSet, Receive(f)
  PROVE  Outcome(f) /\ writes' = writes /\ frames' = frames + 1
<1>1. closed \in BOOLEAN
  BY DEF Types, RestOK
<1>2. CASE DecodeSession(f)
  <2>1. Ignored /\ UNCHANGED <<nextid, mixed, torn>> /\ life' = life
    BY <1>2 DEF DecodeSession, Ignored
  <2>2. closed' \in BOOLEAN
    BY <1>1, <1>2, Zenon DEF DecodeSession
  <2>3. Outcome(f)
    BY <2>1, <2>2, Zenon DEF Outcome
  <2>4. QED
    BY <2>3 DEF Receive
<1>3. ASSUME f.id # 0 PROVE f.id \in Ids
  BY <1>3, FrameFacts
<1>4. ASSUME DecodeUnknown(f) \/ DecodeRefuse(f), f.id # 0 PROVE Outcome(f)
  <2>1. NoChannel(f) /\ UNCHANGED <<nextid, closed, thread, mixed, torn, late>>
    BY <1>4, Zenon DEF DecodeUnknown, DecodeRefuse
  <2>2. QED
    BY <1>3, <1>4, <2>1, RefuseOutcome, Zenon
<1>5. CASE f.id # 0 /\ Matches(f.id) # {} /\ (DecodeClose(f) \/ DecodePlain(f) \/ DecodeRefuse(f))
  <2>1. Outcome(f)
    BY <1>3, <1>4, <1>5, CloseOutcome, PlainOutcome, Zenon
  <2>2. QED
    BY <2>1 DEF Receive
<1>6. CASE f.id # 0 /\ Matches(f.id) = {} /\ (DecodeSyn(f) \/ DecodeUnknown(f))
  <2>1. Outcome(f)
    BY <1>3, <1>4, <1>6, SynOutcome, Zenon
  <2>2. QED
    BY <2>1 DEF Receive
<1>7. QED
  BY <1>2, <1>5, <1>6, Zenon DEF Receive
-----------------------------------------------------------------------------
(* What a reader does.                                                      *)

\* Reader r goes on, without having read anything.
Moved(r) ==
  LET s == thread[r].slot IN
  /\ Edited(s, slots[s].buf)
  /\ thread[r].pc # "body" /\ thread'[r].pc # "body"
  /\ UNCHANGED <<torn, excused>>

\* It reads one token.
Read(r) ==
  LET s == thread[r].slot IN
  /\ slots[s].buf # <<>>
  /\ Edited(s, Tail(slots[s].buf))
  /\ \/ /\ thread[r].pc = "len" /\ thread'[r].pc = "body"
        /\ thread'[r].want = slots[s].buf[1] + 1
        /\ torn' = IF slots[s].buf[1] % 2 = 0 THEN torn \cup {slots[s].id} ELSE torn
     \/ /\ thread[r].pc = "body" /\ thread'[r].pc = "test"
        /\ torn' = IF slots[s].buf[1] # thread[r].want THEN torn \cup {slots[s].id} ELSE torn
  /\ excused' = excused

\* It gives up waiting for a body.
GaveUp(r) ==
  LET s == thread[r].slot IN
  /\ Edited(s, slots[s].buf)
  /\ thread'[r].pc = "test"
  /\ excused' = excused \cup {slots[s].id}
  /\ torn' = torn

\* Only the place of reader r changes, and it does not change its stream.
OnlyReader(r) ==
  /\ thread' \in [Readers -> ThreadStates]
  /\ \A q \in Readers : q # r => thread'[q] = thread[q]
  /\ thread'[r].pc # "none" => thread'[r].slot = thread[r].slot

LEMMA ReaderAt ==
  ASSUME Types, NEW r \in Readers, thread[r].pc # "none"
  PROVE  /\ thread[r].slot \in 1..Len(slots)
         /\ slots[thread[r].slot] \in SlotRecords /\ slots[thread[r].slot].buf \in Seq(Nat)
         /\ slots \in [1..Len(slots) -> SlotRecords]
         /\ thread[r] \in ThreadStates
<1>1. thread[r].slot \in 1..Len(slots) /\ SlotsOK
  BY DEF Types, ReadersOK
<1>2. QED
  BY <1>1, SlotFields DEF Types, SlotsOK, RestOK

LEMMA OneReader ==
  ASSUME Types, NEW r \in Readers, NEW w \in ThreadStates, thread' = [thread EXCEPT ![r] = w],
         w.pc # "none" => w.slot = thread[r].slot
  PROVE  OnlyReader(r) /\ thread'[r] = w
BY DEF Types, RestOK, OnlyReader

LEMMA GotoEffect ==
  ASSUME Types, NEW r \in Readers, thread[r].pc # "none",
         NEW step \in {"test", "len", "exit"}, Goto(r, step)
  PROVE  OnlyReader(r) /\ thread'[r].pc = step
<1>1. PICK w : w = [thread[r] EXCEPT !.pc = step]
  OBVIOUS
<1>2. w \in ThreadStates /\ w.pc = step /\ w.slot = thread[r].slot
  BY <1>1, ReaderAt DEF ThreadStates
<1>3. thread' = [thread EXCEPT ![r] = w]
  BY <1>1 DEF Goto
<1>4. QED
  BY <1>2, <1>3, OneReader

\* The stream of the reader keeps its bytes.
LEMMA SameBytes ==
  ASSUME Types, NEW s \in 1..Len(slots), NEW run \in BOOLEAN, slots' = [slots EXCEPT ![s].running = run]
  PROVE  Edited(s, slots[s].buf) /\ slots'[s].live = slots[s].live
<1>1. slots[s] \in SlotRecords /\ slots \in [1..Len(slots) -> SlotRecords]
  BY SlotFields DEF Types, SlotsOK
<1>2. PICK e : e = [slots[s] EXCEPT !.running = run]
  OBVIOUS
<1>3. e \in SlotRecords /\ e.id = slots[s].id /\ e.state = slots[s].state /\ e.live = slots[s].live
      /\ e.buf = slots[s].buf
  BY <1>1, <1>2 DEF SlotRecords
<1>4. slots' = [slots EXCEPT ![s] = e]
  BY <1>2
<1>5. Edited(s, e.buf)
  BY <1>3, <1>4, EditSlot DEF Types
<1>6. slots'[s] = e
  BY <1>1, <1>4
<1>7. QED
  BY <1>3, <1>5, <1>6, Zenon

LEMMA NoBytes ==
  ASSUME Types, NEW s \in 1..Len(slots), slots' = slots
  PROVE  Edited(s, slots[s].buf) /\ slots'[s].live = slots[s].live
BY DEF Types, SlotsOK, Edited

LEMMA TakeEffect ==
  ASSUME Types, NEW s \in 1..Len(slots), slots[s].buf # <<>>, slots' = Take(s)
  PROVE  Edited(s, Tail(slots[s].buf)) /\ slots'[s].live = slots[s].live
<1>1. slots[s] \in SlotRecords /\ slots \in [1..Len(slots) -> SlotRecords] /\ slots[s].buf \in Seq(Nat)
  BY SlotFields DEF Types, SlotsOK
<1>2. PICK b : b = Tail(slots[s].buf)
  OBVIOUS
<1>3. b \in Seq(Nat)
  BY <1>1, <1>2
<1>4. PICK e : e = [slots[s] EXCEPT !.buf = b]
  OBVIOUS
<1>5. e \in SlotRecords /\ e.id = slots[s].id /\ e.state = slots[s].state /\ e.live = slots[s].live
      /\ e.buf = b
  BY <1>1, <1>3, <1>4 DEF SlotRecords
<1>6. slots' = [slots EXCEPT ![s] = e]
  BY <1>2, <1>4 DEF Take
<1>7. Edited(s, e.buf)
  BY <1>5, <1>6, EditSlot DEF Types
<1>8. slots'[s] = e
  BY <1>1, <1>6
<1>9. QED
  BY <1>2, <1>5, <1>7, <1>8, Zenon

LEMMA ReaderEffect ==
  ASSUME Types, NEW r \in Readers, ReaderStep(r)
  PROVE  /\ thread[r].pc # "none" /\ thread[r].slot \in 1..Len(slots)
         /\ OnlyReader(r)
         /\ Moved(r) \/ Read(r) \/ GaveUp(r)
         /\ slots'[thread[r].slot].live = slots[thread[r].slot].live
         /\ UNCHANGED <<nextid, closed, life, sent, mixed, late, told, frames, writes>>
<1> DEFINE s == thread[r].slot
<1>1. thread[r].pc # "none"
  BY DEF ReaderStep, ReaderStart, ReaderTest, ReaderLen, ReaderBody, ReaderTimeout, ReaderExit
<1>2. /\ s \in 1..Len(slots) /\ slots[s] \in SlotRecords /\ slots[s].buf \in Seq(Nat)
      /\ thread[r] \in ThreadStates
  BY <1>1, ReaderAt
<1>3. UNCHANGED <<nextid, closed, life, sent, mixed, late, told, frames, writes>>
  BY DEF ReaderStep, ReaderStart, ReaderTest, ReaderLen, ReaderBody, ReaderTimeout, ReaderExit,
         session, history, bounds
<1> HIDE DEF s
<1>4. CASE ReaderStart(r)
  <2>1. /\ slots' = [slots EXCEPT ![s].running = TRUE] /\ Goto(r, "test") /\ thread[r].pc = "start"
        /\ UNCHANGED <<torn, excused>>
    BY <1>4 DEF ReaderStart, history, s
  <2>2. Edited(s, slots[s].buf) /\ slots'[s].live = slots[s].live
    BY <1>2, <2>1, SameBytes
  <2>3. OnlyReader(r) /\ thread'[r].pc = "test"
    BY <1>1, <2>1, GotoEffect
  <2>4. Moved(r)
    BY <2>1, <2>2, <2>3 DEF Moved, s
  <2>5. QED
    BY <1>1, <1>2, <1>3, <2>2, <2>3, <2>4, Zenon DEF s
<1>5. CASE ReaderTest(r)
  <2>1. /\ slots' = slots /\ thread[r].pc = "test" /\ UNCHANGED <<torn, excused>>
        /\ \E step \in {"exit", "len"} : Goto(r, step)
    BY <1>5 DEF ReaderTest, history, session
  <2>2. Edited(s, slots[s].buf) /\ slots'[s].live = slots[s].live
    BY <1>2, <2>1, NoBytes
  <2>3. OnlyReader(r) /\ thread'[r].pc \in {"exit", "len"}
    BY <1>1, <2>1, GotoEffect
  <2>4. Moved(r)
    BY <2>1, <2>2, <2>3 DEF Moved, s
  <2>5. QED
    BY <1>1, <1>2, <1>3, <2>2, <2>3, <2>4, Zenon DEF s
<1>6. CASE ReaderLen(r)
  <2>1. /\ thread[r].pc = "len" /\ slots[s].buf # <<>> /\ slots' = Take(s)
        /\ thread' = [thread EXCEPT ![r].pc = "body", ![r].want = Head(slots[s].buf) + 1]
        /\ torn' = IF Head(slots[s].buf) % 2 = 0 THEN torn \cup {slots[s].id} ELSE torn
        /\ excused' = excused
    BY <1>6, Zenon DEF ReaderLen, s
  <2>2. Head(slots[s].buf) = slots[s].buf[1] /\ slots[s].buf[1] \in Nat
    BY <1>2, <2>1
  <2>3. Edited(s, Tail(slots[s].buf)) /\ slots'[s].live = slots[s].live
    BY <1>2, <2>1, TakeEffect
  <2>4. PICK n : n = slots[s].buf[1] + 1
    OBVIOUS
  <2>5. PICK w : w = [thread[r] EXCEPT !.pc = "body", !.want = n]
    OBVIOUS
  <2>6. n \in Nat
    BY <2>2, <2>4
  <2>7. w \in ThreadStates /\ w.pc = "body" /\ w.slot = thread[r].slot /\ w.want = n
    BY <1>2, <2>5, <2>6 DEF ThreadStates
  <2>8. thread \in [Readers -> ThreadStates]
    BY DEF Types, RestOK
  <2>9. thread' = [thread EXCEPT ![r].pc = "body", ![r].want = n]
    BY <2>1, <2>2, <2>4, Zenon
  <2>10. thread' = [thread EXCEPT ![r] = w]
    BY <2>5, <2>8, <2>9
  <2>11. OnlyReader(r) /\ thread'[r] = w
    BY <2>7, <2>10, OneReader
  <2>12. Read(r)
    <3>1. thread'[r].pc = "body" /\ thread'[r].want = slots[s].buf[1] + 1
      BY <2>4, <2>7, <2>11, Zenon
    <3>2. torn' = IF slots[s].buf[1] % 2 = 0 THEN torn \cup {slots[s].id} ELSE torn
      BY <2>1, <2>2, Zenon
    <3>3. QED
      BY <2>1, <2>3, <3>1, <3>2, Zenon DEF Read, s
  <2>13. QED
    BY <1>1, <1>2, <1>3, <2>3, <2>11, <2>12, Zenon DEF s
<1>7. CASE ReaderBody(r)
  <2>1. /\ thread[r].pc = "body" /\ slots[s].buf # <<>> /\ slots' = Take(s)
        /\ Goto(r, "test")
        /\ torn' = IF Head(slots[s].buf) # thread[r].want THEN torn \cup {slots[s].id} ELSE torn
        /\ excused' = excused
    BY <1>7, Zenon DEF ReaderBody, s
  <2>2. Head(slots[s].buf) = slots[s].buf[1]
    BY <1>2, <2>1
  <2>3. Edited(s, Tail(slots[s].buf)) /\ slots'[s].live = slots[s].live
    BY <1>2, <2>1, TakeEffect
  <2>4. OnlyReader(r) /\ thread'[r].pc = "test"
    BY <1>1, <2>1, GotoEffect
  <2>5. Read(r)
    <3>1. torn' = IF slots[s].buf[1] # thread[r].want THEN torn \cup {slots[s].id} ELSE torn
      BY <2>1, <2>2, Zenon
    <3>2. QED
      BY <2>1, <2>3, <2>4, <3>1, Zenon DEF Read, s
  <2>6. QED
    BY <1>1, <1>2, <1>3, <2>3, <2>4, <2>5, Zenon DEF s
<1>8. CASE ReaderTimeout(r)
  <2>1. /\ thread[r].pc \in {"len", "body"} /\ slots' = slots /\ Goto(r, "test") /\ torn' = torn
        /\ excused' = IF thread[r].pc = "body" THEN excused \cup {slots[s].id} ELSE excused
    BY <1>8 DEF ReaderTimeout, session, s
  <2>2. Edited(s, slots[s].buf) /\ slots'[s].live = slots[s].live
    BY <1>2, <2>1, NoBytes
  <2>3. OnlyReader(r) /\ thread'[r].pc = "test"
    BY <1>1, <2>1, GotoEffect
  <2>4. CASE thread[r].pc = "len"
    <3>1. Moved(r)
      BY <2>1, <2>2, <2>3, <2>4 DEF Moved, s
    <3>2. QED
      BY <1>1, <1>2, <1>3, <2>2, <2>3, <3>1, Zenon DEF s
  <2>5. CASE thread[r].pc = "body"
    <3>1. GaveUp(r)
      BY <2>1, <2>2, <2>3, <2>5 DEF GaveUp, s
    <3>2. QED
      BY <1>1, <1>2, <1>3, <2>2, <2>3, <3>1, Zenon DEF s
  <2>6. QED
    BY <2>1, <2>4, <2>5
<1>9. CASE ReaderExit(r)
  <2>1. /\ slots' = [slots EXCEPT ![s].running = FALSE] /\ thread[r].pc = "exit"
        /\ thread' = [thread EXCEPT ![r] = Idle]
        /\ UNCHANGED <<torn, excused>>
    BY <1>9 DEF ReaderExit, history, s
  <2>2. Edited(s, slots[s].buf) /\ slots'[s].live = slots[s].live
    BY <1>2, <2>1, SameBytes
  <2>3. PICK w : w = Idle
    OBVIOUS
  <2>4. w \in ThreadStates /\ w.pc = "none"
    BY <2>3, YamuxAssumption DEF Idle, ThreadStates
  <2>5. OnlyReader(r) /\ thread'[r] = w
    BY <2>1, <2>3, <2>4, OneReader
  <2>6. Moved(r)
    BY <2>1, <2>2, <2>4, <2>5 DEF Moved, s
  <2>7. QED
    BY <1>1, <1>2, <1>3, <2>2, <2>5, <2>6, Zenon DEF s
<1>10. QED
  BY <1>4, <1>5, <1>6, <1>7, <1>8, <1>9 DEF ReaderStep

\* A payload wakes a reader up, if the stream says that it has none.
Woken(s) ==
  \E r \in Readers :
    /\ thread[r].pc = "none" /\ thread'[r].pc = "start" /\ thread'[r].slot = s
    /\ \A q \in Readers : q # r => thread'[q] = thread[q]
    /\ Reading(s) # {} => slots[s].id \in excused'

LEMMA NotifyEffect ==
  ASSUME Types, NEW s \in 1..Len(slots), Notify(s)
  PROVE  /\ thread' \in [Readers -> ThreadStates]
         /\ late' \subseteq Ids /\ excused' \subseteq Ids /\ excused \subseteq excused'
         /\ thread' = thread \/ Woken(s)
<1>1. /\ thread \in [Readers -> ThreadStates] /\ slots[s].id \in Ids
      /\ late \subseteq Ids /\ excused \subseteq Ids
  BY SlotFields DEF Types, RestOK
<1>2. CASE slots[s].running
  <2>1. UNCHANGED <<thread, excused>> /\ late' \in {late, late \cup {slots[s].id}}
    BY <1>2 DEF Notify
  <2>2. QED
    BY <1>1, <2>1
<1>3. CASE ~slots[s].running
  <2>1. /\ Idlers # {}
        /\ thread' = [thread EXCEPT ![CHOOSE r \in Idlers : TRUE] = [pc |-> "start", slot |-> s, want |-> 0]]
        /\ excused' = IF Reading(s) # {} THEN excused \cup {slots[s].id} ELSE excused
        /\ late' = late
    BY <1>3, Zenon DEF Notify
  <2>2. PICK r : r = CHOOSE q \in Idlers : TRUE
    OBVIOUS
  <2>3. r \in Readers /\ thread[r] = Idle
    BY <2>1, <2>2, Zenon DEF Idlers
  <2>4. PICK w : w = [pc |-> "start", slot |-> s, want |-> 0]
    OBVIOUS
  <2>5. w \in ThreadStates /\ w.pc = "start" /\ w.slot = s /\ thread[r].pc = "none"
    <3>1. s \in 0..Backlog
      BY YamuxAssumption DEF Types, SlotsOK
    <3>2. QED
      BY <2>3, <2>4, <3>1 DEF ThreadStates, Idle
  <2>6. thread' = [thread EXCEPT ![r] = w]
    BY <2>1, <2>2, <2>4, Zenon
  <2>7. thread' \in [Readers -> ThreadStates] /\ thread'[r] = w /\ \A q \in Readers : q # r => thread'[q] = thread[q]
    BY <1>1, <2>3, <2>5, <2>6
  <2>8. Reading(s) # {} => slots[s].id \in excused'
    BY <2>1
  <2>9. Woken(s)
    BY <2>3, <2>5, <2>7, <2>8 DEF Woken
  <2>10. QED
    BY <1>1, <2>1, <2>7, <2>9
<1>4. QED
  BY <1>2, <1>3

-----------------------------------------------------------------------------
(* The types.                                                               *)

LEMMA SlotsNext ==
  ASSUME Types,
         \/ slots' = slots
         \/ \E s \in 1..Len(slots), b \in Seq(Nat) : Edited(s, b)
         \/ \E i \in Ids, st \in {"syn_sent", "est"} : Grown(i, st)
  PROVE  SlotsOK' /\ Len(slots) <= Len(slots') /\ Len(slots) \in Nat /\ Len(slots') \in Nat
BY DEF Types, SlotsOK, Edited, Grown

LEMMA TypesStep ==
  ASSUME Types, [Next]_vars
  PROVE  Types' /\ Len(slots) <= Len(slots')
<1>1. /\ nextid \in Nat /\ frames \in Nat /\ writes \in Nat
      /\ closed \in BOOLEAN /\ mixed \in BOOLEAN
      /\ life \in {"up", "closed", "crashed"}
      /\ thread \in [Readers -> ThreadStates]
      /\ sent \in [Ids -> Seq(Flags)]
      /\ told \in [Ids -> Nat]
      /\ torn \subseteq Ids /\ excused \subseteq Ids /\ late \subseteq Ids
  BY DEF Types, RestOK
<1>2. \A r \in Readers : thread[r].pc # "none" => thread[r].slot \in 1..Len(slots)
  BY DEF Types, ReadersOK
<1>3. {"nil", "syn", "ack"} \subseteq Flags
  BY DEF Flags
<1>4. ASSUME SlotsOK', Len(slots) <= Len(slots'), Len(slots) \in Nat, Len(slots') \in Nat, thread' = thread
      PROVE  ReadersOK'
  BY <1>2, <1>4 DEF ReadersOK
<1>5. CASE OpenChannel
  <2>1. /\ nextid \in Ids /\ nextid' = nextid + 2
        /\ \/ /\ Grown(nextid, "syn_sent")
              /\ sent' = [sent EXCEPT ![nextid] = Append(@, "syn")]
           \/ UNCHANGED <<slots, sent>>
        /\ UNCHANGED <<closed, life, thread, mixed, torn, excused, late, told, frames>>
        /\ writes' = writes + 1
    BY <1>5, OpenEffect
  <2>2. SlotsOK' /\ Len(slots) <= Len(slots') /\ Len(slots) \in Nat /\ Len(slots') \in Nat
    BY <2>1, SlotsNext
  <2>3. sent' \in [Ids -> Seq(Flags)]
    <3>1. Append(sent[nextid], "syn") \in Seq(Flags)
      BY <1>1, <1>3, <2>1
    <3>2. QED
      BY <1>1, <2>1, <3>1
  <2>4. RestOK'
    BY <1>1, <2>1, <2>3 DEF RestOK
  <2>5. QED
    BY <1>4, <2>1, <2>2, <2>4 DEF Types
<1>6. CASE WriteSession
  <2>1. /\ NextId \in Ids /\ nextid' = NextId + 1 /\ sent' = [sent EXCEPT ![NextId] = Append(@, "nil")]
        /\ mixed' = TRUE /\ writes' = writes + 1
        /\ UNCHANGED <<slots, closed, life, thread, torn, excused, late, told, frames>>
    BY <1>6 DEF WriteSession
  <2>2. SlotsOK' /\ Len(slots) <= Len(slots') /\ Len(slots) \in Nat /\ Len(slots') \in Nat
    BY <2>1, SlotsNext
  <2>3. sent' \in [Ids -> Seq(Flags)]
    BY <1>1, <1>3, <2>1
  <2>4. nextid' \in Nat
    BY <2>1, YamuxAssumption
  <2>5. RestOK'
    BY <1>1, <2>1, <2>3, <2>4 DEF RestOK
  <2>6. QED
    BY <1>4, <2>1, <2>2, <2>5 DEF Types
<1>7. CASE CloseYamux \/ UNCHANGED vars
  <2>1. /\ UNCHANGED <<slots, nextid, closed, thread, sent, mixed, torn, excused, late, told, frames, writes>>
        /\ life' \in {life, "closed"}
    BY <1>7 DEF CloseYamux, vars, session, history, bounds
  <2>2. SlotsOK' /\ Len(slots) <= Len(slots') /\ Len(slots) \in Nat /\ Len(slots') \in Nat
    BY <2>1, SlotsNext
  <2>3. RestOK'
    BY <1>1, <2>1 DEF RestOK
  <2>4. QED
    BY <1>4, <2>1, <2>2, <2>3 DEF Types
<1>8. ASSUME NEW s \in DOMAIN slots, WriteChannel(s)
      PROVE  Types' /\ Len(slots) <= Len(slots')
  <2>1. /\ s \in 1..Len(slots) /\ Edited(s, slots[s].buf)
        /\ sent' = [sent EXCEPT ![slots[s].id] = Append(@, "nil")]
        /\ UNCHANGED <<nextid, closed, life, thread, mixed, torn, excused, late, told, frames>>
        /\ writes' = writes + 1
    BY <1>8, WriteEffect
  <2>2. slots[s].id \in Ids /\ slots[s].buf \in Seq(Nat)
    BY <2>1, SlotFields DEF Types
  <2>3. SlotsOK' /\ Len(slots) <= Len(slots') /\ Len(slots) \in Nat /\ Len(slots') \in Nat
    BY <2>1, <2>2, SlotsNext
  <2>4. sent' \in [Ids -> Seq(Flags)]
    BY <1>1, <1>3, <2>1, <2>2
  <2>5. RestOK'
    BY <1>1, <2>1, <2>4 DEF RestOK
  <2>6. QED
    BY <1>4, <2>1, <2>3, <2>5 DEF Types
<1>9. ASSUME NEW f \in FrameSet, Receive(f)
      PROVE  Types' /\ Len(slots) <= Len(slots')
  <2>1. Outcome(f) /\ writes' = writes /\ frames' = frames + 1
    BY <1>9, ReceiveEffect
  <2>2. UNCHANGED <<nextid, mixed, torn>> /\ closed' \in BOOLEAN /\ life' \in {life, "crashed"}
    BY <2>1 DEF Outcome
  <2>3. f.size \in Nat
    BY FrameFacts
  <2>4. ASSUME SlotsOK', ReadersOK', thread' \in [Readers -> ThreadStates], sent' \in [Ids -> Seq(Flags)],
               told' \in [Ids -> Nat], excused' \subseteq Ids, late' \subseteq Ids
        PROVE  Types'
    BY <1>1, <2>1, <2>2, <2>4 DEF Types, RestOK
  <2>5. CASE Ignored
    <3>1. UNCHANGED <<slots, thread, sent, told, excused, late>>
      BY <2>5 DEF Ignored
    <3>2. SlotsOK' /\ Len(slots) <= Len(slots') /\ Len(slots) \in Nat /\ Len(slots') \in Nat
      BY <3>1, SlotsNext
    <3>3. QED
      BY <1>1, <1>4, <2>4, <3>1, <3>2
  <2>6. CASE f.id \in Ids /\ Refused(f)
    <3>1. /\ told' = [told EXCEPT ![f.id] = @ + f.size] /\ excused' \subseteq excused \cup {f.id}
          /\ UNCHANGED <<slots, thread, sent, late>>
      BY <2>6 DEF Refused
    <3>2. SlotsOK' /\ Len(slots) <= Len(slots') /\ Len(slots) \in Nat /\ Len(slots') \in Nat
      BY <3>1, SlotsNext
    <3>3. told' \in [Ids -> Nat] /\ excused' \subseteq Ids
      BY <1>1, <2>3, <2>6, <3>1
    <3>4. QED
      BY <1>1, <1>4, <2>4, <3>1, <3>2, <3>3
  <2>7. CASE f.id \in Ids /\ Accepted(f)
    <3>1. /\ Grown(f.id, "est") /\ sent' = [sent EXCEPT ![f.id] = @ \o <<"ack", "nil">>]
          /\ told' = [told EXCEPT ![f.id] = 0] /\ UNCHANGED <<thread, excused, late>>
      BY <2>7 DEF Accepted
    <3>2. SlotsOK' /\ Len(slots) <= Len(slots') /\ Len(slots) \in Nat /\ Len(slots') \in Nat
      BY <2>7, <3>1, SlotsNext
    <3>3. told' \in [Ids -> Nat]
      BY <1>1, <2>7, <3>1
    <3>4. sent' \in [Ids -> Seq(Flags)]
      <4>1. <<"ack", "nil">> \in Seq(Flags)
        BY <1>3
      <4>2. sent[f.id] \o <<"ack", "nil">> \in Seq(Flags)
        BY <1>1, <2>7, <4>1
      <4>3. QED
        BY <1>1, <3>1, <4>2
    <3>5. QED
      BY <1>1, <1>4, <2>4, <3>1, <3>2, <3>3, <3>4
  <2>8. ASSUME f.id \in Ids, NEW s \in 1..Len(slots), Delivered(s, f)
        PROVE  Types' /\ Len(slots) <= Len(slots')
    <3>1. /\ Edited(s, slots[s].buf \o Payload(f)) /\ told' = [told EXCEPT ![f.id] = @ + f.size]
          /\ sent' = sent
          /\ IF f.size = 0 THEN UNCHANGED <<thread, excused, late>> ELSE Notify(s)
      BY <2>8 DEF Delivered
    <3>2. slots[s].buf \o Payload(f) \in Seq(Nat)
      BY <2>8, SlotFields, PayloadFacts DEF Types
    <3>3. SlotsOK' /\ Len(slots) <= Len(slots') /\ Len(slots) \in Nat /\ Len(slots') \in Nat
      BY <3>1, <3>2, SlotsNext
    <3>4. told' \in [Ids -> Nat]
      BY <1>1, <2>3, <2>8, <3>1
    <3>5. CASE f.size = 0
      BY <1>1, <1>4, <2>4, <3>1, <3>3, <3>4, <3>5
    <3>6. CASE f.size # 0
      <4>1. /\ thread' \in [Readers -> ThreadStates]
            /\ late' \subseteq Ids /\ excused' \subseteq Ids
            /\ thread' = thread \/ Woken(s)
        BY <3>1, <3>6, NotifyEffect
      <4>2. ReadersOK'
        <5>1. CASE thread' = thread
          BY <1>4, <3>3, <5>1
        <5>2. CASE Woken(s)
          <6>1. \A q \in Readers : thread'[q] = thread[q] \/ thread'[q].slot = s
            BY <5>2 DEF Woken
          <6>2. SUFFICES ASSUME NEW q \in Readers, thread'[q].pc # "none"
                         PROVE  thread'[q].slot \in 1..Len(slots')
            BY DEF ReadersOK
          <6>3. thread'[q].slot \in 1..Len(slots)
            BY <1>2, <6>1, <6>2
          <6>4. QED
            BY <3>3, <6>3
        <5>3. QED
          BY <4>1, <5>1, <5>2
      <4>3. QED
        BY <1>1, <2>4, <3>1, <3>3, <3>4, <4>1, <4>2
    <3>7. QED
      BY <3>5, <3>6
  <2>9. QED
    BY <2>1, <2>5, <2>6, <2>7, <2>8 DEF Outcome
<1>10. ASSUME NEW r \in Readers, ReaderStep(r)
       PROVE  Types' /\ Len(slots) <= Len(slots')
  <2>1. /\ thread[r].pc # "none" /\ thread[r].slot \in 1..Len(slots)
        /\ OnlyReader(r)
        /\ Moved(r) \/ Read(r) \/ GaveUp(r)
        /\ UNCHANGED <<nextid, closed, life, sent, mixed, late, told, frames, writes>>
    BY <1>10, ReaderEffect
  <2>2. PICK s : s = thread[r].slot
    OBVIOUS
  <2>3. s \in 1..Len(slots) /\ slots[s].id \in Ids /\ slots[s].buf \in Seq(Nat)
    BY <2>1, <2>2, SlotFields DEF Types
  <2>4. /\ torn' \subseteq torn \cup {slots[s].id} /\ excused' \subseteq excused \cup {slots[s].id}
        /\ Edited(s, slots[s].buf) \/ (slots[s].buf # <<>> /\ Edited(s, Tail(slots[s].buf)))
    <3>1. CASE Moved(r)
      BY <2>2, <3>1 DEF Moved
    <3>2. CASE Read(r)
      BY <2>2, <3>2 DEF Read
    <3>3. CASE GaveUp(r)
      BY <2>2, <3>3 DEF GaveUp
    <3>4. QED
      BY <2>1, <3>1, <3>2, <3>3
  <2>5. SlotsOK' /\ Len(slots) <= Len(slots') /\ Len(slots) \in Nat /\ Len(slots') \in Nat
    <3>1. slots[s].buf # <<>> => Tail(slots[s].buf) \in Seq(Nat)
      BY <2>3
    <3>2. QED
      BY <2>3, <2>4, <3>1, SlotsNext
  <2>6. RestOK'
    BY <1>1, <2>1, <2>3, <2>4 DEF RestOK, OnlyReader
  <2>7. ReadersOK'
    <3>1. SUFFICES ASSUME NEW q \in Readers, thread'[q].pc # "none"
                   PROVE  thread'[q].slot \in 1..Len(slots')
      BY DEF ReadersOK
    <3>2. thread'[q].slot \in 1..Len(slots)
      BY <1>2, <2>1, <3>1 DEF OnlyReader
    <3>3. QED
      BY <2>5, <3>2
  <2>8. QED
    BY <2>5, <2>6, <2>7 DEF Types
<1>11. QED
  BY <1>5, <1>6, <1>7, <1>8, <1>9, <1>10 DEF Next

-----------------------------------------------------------------------------
(* The ids of the two sides.                                                *)

\* A stream of the table after a step that changed one or none of them.
LEMMA EditedSlots ==
  ASSUME Types, NEW s \in 1..Len(slots), NEW b, Edited(s, b)
  PROVE  /\ 1..Len(slots') = 1..Len(slots)
         /\ \A t \in 1..Len(slots) :
              /\ slots'[t].id = slots[t].id /\ slots'[t].state = slots[t].state
              /\ slots'[t].live => slots[t].live
              /\ t # s => slots'[t] = slots[t]
         /\ slots'[s].buf = b
<1>1. Len(slots') = Len(slots)
  BY DEF Edited
<1>2. QED
  BY <1>1 DEF Edited

LEMMA SidesKept ==
  ASSUME Types, Sides, UNCHANGED <<nextid, mixed>>, 1..Len(slots') = 1..Len(slots),
         \A t \in 1..Len(slots) :
           /\ slots'[t].id = slots[t].id /\ slots'[t].state = slots[t].state
           /\ slots'[t].live => slots[t].live
  PROVE  Sides'
<1>1. Theirs(nextid)' = Theirs(nextid) /\ \A t \in 1..Len(slots) : Theirs(slots[t].id)' = Theirs(slots[t].id)
  BY Zenon DEF Theirs
<1>2. QED
  BY <1>1 DEF Sides

\* Two numbers apart have one parity.
LEMMA NextParity ==
  ASSUME NEW n \in Nat
  PROVE  Theirs(n + 2) = Theirs(n)
<1>1. ((n + 2) % 2 = 1) = (n % 2 = 1)
  OBVIOUS
<1>2. QED
  BY <1>1, Zenon DEF Theirs

LEMMA SidesGrown ==
  ASSUME Types, Sides, ~mixed, mixed' = mixed, NEW i \in Ids, NEW st \in {"syn_sent", "est"}, Grown(i, st),
         nextid' \in Nat, nextid' >= nextid, ~Theirs(nextid'),
         \A t \in 1..Len(slots) : ~(slots[t].live /\ slots[t].id = i),
         IF st = "syn_sent" THEN ~Theirs(i) /\ i < nextid' ELSE Theirs(i)
  PROVE  Sides'
<1> DEFINE n == Len(slots) + 1
<1>1. /\ Len(slots) \in Nat /\ Len(slots') = n /\ nextid \in Nat /\ i \in Nat
      /\ \A t \in 1..Len(slots) : slots[t].id \in Nat
  <2>1. \A t \in 1..Len(slots) : slots[t].id \in Nat
    BY SlotFields, YamuxAssumption DEF Types
  <2>2. QED
    BY <2>1, YamuxAssumption DEF Types, SlotsOK, Grown, RestOK
<1>2. /\ \A t \in 1..Len(slots) : slots'[t] = slots[t]
      /\ slots'[n].id = i /\ slots'[n].state = st
  BY DEF Grown
<1> HIDE DEF n
<1>3. \A t \in 1..Len(slots') : t \in 1..Len(slots) \/ t = n
  BY <1>1 DEF n
<1>4. \A t \in 1..Len(slots') :
        IF slots'[t].state = "syn_sent" THEN ~Theirs(slots'[t].id) /\ slots'[t].id < nextid' ELSE Theirs(slots'[t].id)
  <2>1. TAKE t \in 1..Len(slots')
  <2>2. CASE t = n
    BY <1>2, <2>2, Zenon
  <2>3. CASE t \in 1..Len(slots)
    <3>1. IF slots[t].state = "syn_sent" THEN ~Theirs(slots[t].id) /\ slots[t].id < nextid ELSE Theirs(slots[t].id)
      BY <2>3, Zenon DEF Sides
    <3>2. slots[t].id < nextid => slots[t].id < nextid'
      BY <1>1, <2>3
    <3>3. QED
      BY <1>2, <2>3, <3>1, <3>2, Zenon
  <2>4. QED
    BY <1>3, <2>2, <2>3
<1>5. \A s, t \in 1..Len(slots') :
        slots'[s].live /\ slots'[t].live /\ slots'[s].id = slots'[t].id => s = t
  <2>1. \A s, t \in 1..Len(slots) :
          slots[s].live /\ slots[t].live /\ slots[s].id = slots[t].id => s = t
    BY DEF Sides
  <2>2. SUFFICES ASSUME NEW s \in 1..Len(slots'), NEW t \in 1..Len(slots'),
                        slots'[s].live, slots'[t].live, slots'[s].id = slots'[t].id
                 PROVE  s = t
    BY Zenon
  <2>3. CASE s = n \/ t = n
    BY <1>2, <1>3, <2>2, <2>3, Zenon
  <2>4. CASE s \in 1..Len(slots) /\ t \in 1..Len(slots)
    BY <1>2, <2>1, <2>2, <2>4, Zenon
  <2>5. QED
    BY <1>3, <2>3, <2>4, Zenon
<1>6. QED
  BY <1>4, <1>5, Zenon DEF Sides, Theirs

LEMMA SidesStep ==
  ASSUME Types, Sides, [Next]_vars
  PROVE  Sides'
<1>1. CASE mixed'
  BY <1>1 DEF Sides
<1>2. CASE ~mixed'
  <2>1. ASSUME slots' = slots, UNCHANGED <<nextid, mixed>> PROVE Sides'
    BY <2>1, SidesKept
  <2>2. CASE OpenChannel
    <3>1. /\ nextid \in Ids /\ nextid' = nextid + 2
          /\ Grown(nextid, "syn_sent") \/ slots' = slots
          /\ mixed' = mixed
      BY <2>2, OpenEffect
    <3>2. nextid \in Nat /\ nextid' \in Nat /\ nextid' >= nextid /\ nextid < nextid'
      BY <3>1 DEF Types, RestOK
    <3>3. ~mixed /\ ~Theirs(nextid) /\ ~Theirs(nextid')
      <4>1. ~mixed
        BY <1>2, <3>1
      <4>2. ~Theirs(nextid)
        BY <4>1 DEF Sides
      <4>3. Theirs(nextid + 2) = Theirs(nextid)
        BY <3>2, NextParity
      <4>4. QED
        BY <3>1, <4>1, <4>2, <4>3, Zenon
    <3>4. CASE Grown(nextid, "syn_sent")
      <4>1. \A t \in 1..Len(slots) : ~(slots[t].live /\ slots[t].id = nextid)
        <5>1. SUFFICES ASSUME NEW t \in 1..Len(slots), slots[t].id = nextid PROVE FALSE
          OBVIOUS
        <5>2. IF slots[t].state = "syn_sent" THEN ~Theirs(slots[t].id) /\ slots[t].id < nextid ELSE Theirs(slots[t].id)
          BY <3>3, Zenon DEF Sides
        <5>3. slots[t].id < nextid
          BY <3>3, <5>1, <5>2, Zenon
        <5>4. QED
          BY <3>2, <5>1, <5>3
      <4>2. QED
        BY <3>1, <3>2, <3>3, <3>4, <4>1, SidesGrown
    <3>5. CASE slots' = slots
      <4>1. Theirs(nextid)' = Theirs(nextid') /\ \A t \in 1..Len(slots) : Theirs(slots[t].id)' = Theirs(slots[t].id)
        BY <3>5, Zenon DEF Theirs
      <4>2. ~Theirs(nextid)'
        BY <3>3, <4>1
      <4>3. \A t \in 1..Len(slots) : slots[t].id \in Nat
        BY SlotFields, YamuxAssumption DEF Types
      <4>4. \A t \in 1..Len(slots) :
              IF slots[t].state = "syn_sent" THEN ~Theirs(slots[t].id) /\ slots[t].id < nextid ELSE Theirs(slots[t].id)
        BY <3>3, Zenon DEF Sides
      <4>5. \A t \in 1..Len(slots) : slots[t].id < nextid => slots[t].id < nextid'
        BY <3>2, <4>3
      <4>6. \A t \in 1..Len(slots) :
              IF slots[t].state = "syn_sent" THEN ~Theirs(slots[t].id)' /\ slots[t].id < nextid' ELSE Theirs(slots[t].id)'
        BY <4>1, <4>4, <4>5, Zenon
      <4>7. \A s, t \in 1..Len(slots) :
              slots[s].live /\ slots[t].live /\ slots[s].id = slots[t].id => s = t
        BY <3>3 DEF Sides
      <4>8. QED
        BY <3>5, <4>2, <4>6, <4>7, Zenon DEF Sides
    <3>6. QED
      BY <3>1, <3>4, <3>5
  <2>3. CASE WriteSession
    BY <1>2, <2>3 DEF WriteSession
  <2>4. CASE CloseYamux \/ UNCHANGED vars
    BY <2>1, <2>4 DEF CloseYamux, vars, session, history, bounds
  <2>5. ASSUME NEW s \in DOMAIN slots, WriteChannel(s) PROVE Sides'
    <3>1. s \in 1..Len(slots) /\ Edited(s, slots[s].buf) /\ UNCHANGED <<nextid, mixed>>
      BY <2>5, WriteEffect
    <3>2. QED
      BY <3>1, EditedSlots, SidesKept
  <2>6. ASSUME NEW f \in FrameSet, Receive(f) PROVE Sides'
    <3>1. Outcome(f)
      BY <2>6, ReceiveEffect
    <3>2. UNCHANGED <<nextid, mixed>>
      BY <3>1 DEF Outcome
    <3>3. CASE Ignored \/ Refused(f)
      BY <2>1, <3>2, <3>3 DEF Ignored, Refused
    <3>4. CASE f.id \in Ids /\ Accepted(f)
      <4>1. Theirs(f.id) /\ Matches(f.id) = {} /\ Grown(f.id, "est")
        BY <3>4 DEF Accepted
      <4>2. nextid' \in Nat /\ nextid' >= nextid
        BY <3>2 DEF Types, RestOK
      <4>3. ~mixed /\ ~Theirs(nextid')
        <5>1. ~mixed
          BY <1>2, <3>2
        <5>2. ~Theirs(nextid)
          BY <5>1 DEF Sides
        <5>3. QED
          BY <3>2, <5>1, <5>2
      <4>4. \A t \in 1..Len(slots) : ~(slots[t].live /\ slots[t].id = f.id)
        <5>1. \A t \in DOMAIN slots : ~(slots[t].live /\ slots[t].id = f.id)
          BY <4>1, Zenon DEF Matches
        <5>2. DOMAIN slots = 1..Len(slots)
          BY DEF Types, SlotsOK
        <5>3. QED
          BY <5>1, <5>2, Zenon
      <4>5. QED
        BY <3>2, <3>4, <4>1, <4>2, <4>3, <4>4, SidesGrown
    <3>5. ASSUME NEW s \in 1..Len(slots), Delivered(s, f) PROVE Sides'
      <4>1. Edited(s, slots[s].buf \o Payload(f))
        BY <3>5 DEF Delivered
      <4>2. QED
        BY <3>2, <4>1, EditedSlots, SidesKept
    <3>6. QED
      BY <3>1, <3>3, <3>4, <3>5 DEF Outcome
  <2>7. ASSUME NEW r \in Readers, ReaderStep(r) PROVE Sides'
    <3>1. /\ thread[r].slot \in 1..Len(slots)
          /\ Moved(r) \/ Read(r) \/ GaveUp(r)
          /\ UNCHANGED <<nextid, mixed>>
      BY <2>7, ReaderEffect
    <3>2. \E b : Edited(thread[r].slot, b)
      BY <3>1, Zenon DEF Moved, Read, GaveUp
    <3>3. QED
      BY <3>1, <3>2, EditedSlots, SidesKept
  <2>8. QED
    BY <2>2, <2>3, <2>4, <2>5, <2>6, <2>7 DEF Next
<1>3. QED
  BY <1>1, <1>2

-----------------------------------------------------------------------------
(* The order of the tokens.                                                 *)

\* The tokens of a buffer ascend, and lie below those the peer will send.
Ascending(b) == \A k \in 1..(Len(b) - 1) : b[k] < b[k + 1]

Below(b, n) == \A k \in 1..Len(b) : b[k] <= n

LEMMA JoinAscends ==
  ASSUME NEW b \in Seq(Nat), NEW c \in Seq(Nat), NEW n \in Nat, NEW m \in Nat, Ascending(b), Below(b, n),
         Len(c) = m, \A k \in 1..m : c[k] = n + k
  PROVE  Ascending(b \o c) /\ Below(b \o c, n + m)
<1>1. /\ b \o c \in Seq(Nat) /\ Len(b \o c) = Len(b) + m /\ Len(b) \in Nat
      /\ \A k \in 1..Len(b) : (b \o c)[k] = b[k]
      /\ \A k \in (Len(b) + 1)..(Len(b) + m) : (b \o c)[k] = n + (k - Len(b))
  <2>1. /\ b \o c \in Seq(Nat) /\ Len(b \o c) = Len(b) + Len(c)
        /\ \A k \in 1..(Len(b) + Len(c)) : (b \o c)[k] = IF k <= Len(b) THEN b[k] ELSE c[k - Len(b)]
    BY ConcatProperties
  <2>2. Len(b) \in Nat
    OBVIOUS
  <2>3. ASSUME NEW k \in (Len(b) + 1)..(Len(b) + m) PROVE (b \o c)[k] = n + (k - Len(b))
    <3>1. k - Len(b) \in 1..m /\ k \in 1..(Len(b) + Len(c)) /\ ~(k <= Len(b))
      BY <2>2
    <3>2. (b \o c)[k] = c[k - Len(b)]
      BY <2>1, <3>1
    <3>3. QED
      BY <3>1, <3>2
  <2>4. ASSUME NEW k \in 1..Len(b) PROVE (b \o c)[k] = b[k]
    BY <2>1, <2>2
  <2>5. QED
    BY <2>1, <2>2, <2>3, <2>4
<1>2. PICK d : d = b \o c
  OBVIOUS
<1>3. Ascending(d)
  <2>1. SUFFICES ASSUME NEW k \in 1..(Len(b) + m - 1) PROVE d[k] < d[k + 1]
    BY <1>1, <1>2 DEF Ascending
  <2>2. CASE k < Len(b)
    <3>1. k \in 1..(Len(b) - 1) /\ k \in 1..Len(b) /\ k + 1 \in 1..Len(b)
      BY <1>1, <2>2
    <3>2. d[k] = b[k] /\ d[k + 1] = b[k + 1]
      BY <1>1, <1>2, <3>1
    <3>3. QED
      BY <3>1, <3>2 DEF Ascending
  <2>3. CASE k = Len(b)
    <3>1. k \in 1..Len(b) /\ k + 1 \in (Len(b) + 1)..(Len(b) + m)
      BY <1>1, <2>3
    <3>2. d[k] = b[k] /\ d[k + 1] = n + 1 /\ b[k] <= n /\ b[k] \in Nat
      BY <1>1, <1>2, <2>3, <3>1 DEF Below
    <3>3. QED
      BY <3>2
  <2>4. CASE k > Len(b)
    <3>1. k \in (Len(b) + 1)..(Len(b) + m) /\ k + 1 \in (Len(b) + 1)..(Len(b) + m)
      BY <1>1, <2>4
    <3>2. d[k] = n + (k - Len(b)) /\ d[k + 1] = n + (k + 1 - Len(b))
      BY <1>1, <1>2, <3>1
    <3>3. QED
      BY <1>1, <3>2
  <2>5. QED
    BY <1>1, <2>2, <2>3, <2>4
<1>4. Below(d, n + m)
  <2>1. SUFFICES ASSUME NEW k \in 1..(Len(b) + m) PROVE d[k] <= n + m
    BY <1>1, <1>2 DEF Below
  <2>2. CASE k \in 1..Len(b)
    BY <1>1, <1>2, <2>2 DEF Below
  <2>3. CASE k \in (Len(b) + 1)..(Len(b) + m)
    BY <1>1, <1>2, <2>3
  <2>4. QED
    BY <1>1, <2>2, <2>3
<1>5. QED
  BY <1>2, <1>3, <1>4

LEMMA BelowMore ==
  ASSUME NEW b \in Seq(Nat), NEW m \in Nat, NEW n \in Nat, m <= n
  PROVE  Below(b, m) => Below(b, n)
BY DEF Below

LEMMA TailAscends ==
  ASSUME NEW b \in Seq(Nat), b # <<>>, Ascending(b)
  PROVE  Ascending(Tail(b)) /\ \A n \in Nat : Below(b, n) => Below(Tail(b), n)
<1>1. Len(Tail(b)) = Len(b) - 1 /\ Len(b) \in Nat /\ \A k \in 1..(Len(b) - 1) : Tail(b)[k] = b[k + 1]
  OBVIOUS
<1>2. PICK d : d = Tail(b)
  OBVIOUS
<1>3. Ascending(d)
  BY <1>1, <1>2 DEF Ascending
<1>4. \A n \in Nat : Below(b, n) => Below(d, n)
  BY <1>1, <1>2 DEF Below
<1>5. QED
  BY <1>2, <1>3, <1>4

LEMMA OrderedAt ==
  Ordered <=> \A s \in 1..Len(slots) :
                Ascending(slots[s].buf) /\ (slots[s].live => Below(slots[s].buf, told[slots[s].id]))
BY DEF Ordered, Ascending, Below

\* The streams other than s keep their order when told only grows.
LEMMA OrderedEdit ==
  ASSUME Types, Ordered, NEW s \in 1..Len(slots), NEW b \in Seq(Nat), Edited(s, b),
         told' \in [Ids -> Nat], \A i \in Ids : told[i] <= told'[i],
         Ascending(b), slots[s].live => Below(b, told'[slots[s].id])
  PROVE  Ordered'
<1>1. /\ 1..Len(slots') = 1..Len(slots)
      /\ \A t \in 1..Len(slots) :
           /\ slots'[t].id = slots[t].id
           /\ slots'[t].live => slots[t].live
           /\ t # s => slots'[t] = slots[t]
      /\ slots'[s].buf = b
  BY EditedSlots
<1>2. \A t \in 1..Len(slots) :
        Ascending(slots[t].buf) /\ (slots[t].live => Below(slots[t].buf, told[slots[t].id]))
  BY OrderedAt
<1>3. SUFFICES ASSUME NEW t \in 1..Len(slots)
               PROVE  Ascending(slots'[t].buf) /\ (slots'[t].live => Below(slots'[t].buf, told'[slots'[t].id]))
  BY <1>1 DEF Ordered, Ascending, Below
<1>4. CASE t = s
  BY <1>1, <1>4, Zenon
<1>5. CASE t # s
  <2>1. slots'[t] = slots[t]
    BY <1>1, <1>5
  <2>2. /\ slots[t].id \in Ids /\ slots[t].buf \in Seq(Nat)
        /\ told[slots[t].id] \in Nat /\ told'[slots[t].id] \in Nat
    <3>1. slots[t].id \in Ids /\ slots[t].buf \in Seq(Nat) /\ told \in [Ids -> Nat]
      BY SlotFields, Zenon DEF Types, RestOK
    <3>2. QED
      BY <3>1
  <2>3. Below(slots[t].buf, told[slots[t].id]) => Below(slots[t].buf, told'[slots[t].id])
    <3>1. PICK u \in Seq(Nat), m \in Nat, n \in Nat :
            u = slots[t].buf /\ m = told[slots[t].id] /\ n = told'[slots[t].id] /\ m <= n
      BY <2>2
    <3>2. Below(u, m) => Below(u, n)
      BY <3>1, BelowMore
    <3>3. QED
      BY <3>1, <3>2, Zenon
  <2>4. QED
    BY <1>2, <2>1, <2>3, Zenon
<1>6. QED
  BY <1>4, <1>5

LEMMA OrderedGrow ==
  ASSUME Types, Ordered, NEW i \in Ids, NEW st, Grown(i, st),
         told' \in [Ids -> Nat],
         \A t \in 1..Len(slots) : slots[t].live => told'[slots[t].id] = told[slots[t].id]
  PROVE  Ordered'
<1>1. /\ \A t \in 1..Len(slots') : t \in 1..Len(slots) \/ t = Len(slots) + 1
      /\ \A t \in 1..Len(slots) : slots'[t] = slots[t]
      /\ slots'[Len(slots) + 1].buf = <<>>
  BY DEF Grown, Types, SlotsOK
<1>2. \A t \in 1..Len(slots) :
        Ascending(slots[t].buf) /\ (slots[t].live => Below(slots[t].buf, told[slots[t].id]))
  BY OrderedAt
<1>3. \A n : Ascending(<<>>) /\ Below(<<>>, n)
  BY DEF Ascending, Below
<1>4. \A t \in 1..Len(slots') :
        Ascending(slots'[t].buf) /\ (slots'[t].live => Below(slots'[t].buf, told'[slots'[t].id]))
  <2>1. TAKE t \in 1..Len(slots')
  <2>2. CASE t = Len(slots) + 1
    BY <1>1, <1>3, <2>2, Zenon
  <2>3. CASE t \in 1..Len(slots)
    BY <1>1, <1>2, <2>3, Zenon
  <2>4. QED
    BY <1>1, <2>2, <2>3, Zenon
<1>5. QED
  BY <1>4 DEF Ordered, Ascending, Below

LEMMA OrderedStep ==
  ASSUME Types, Ordered, [Next]_vars
  PROVE  Ordered'
<1>1. told \in [Ids -> Nat] /\ \A i \in Ids : told[i] <= told[i]
  BY DEF Types, RestOK
<1>2. \A t \in 1..Len(slots) :
        /\ Ascending(slots[t].buf) /\ (slots[t].live => Below(slots[t].buf, told[slots[t].id]))
        /\ slots[t].buf \in Seq(Nat) /\ slots[t].id \in Ids /\ told[slots[t].id] \in Nat
  <2>1. \A t \in 1..Len(slots) :
          Ascending(slots[t].buf) /\ (slots[t].live => Below(slots[t].buf, told[slots[t].id]))
    BY OrderedAt
  <2>2. \A t \in 1..Len(slots) : slots[t].buf \in Seq(Nat) /\ slots[t].id \in Ids
    BY SlotFields DEF Types
  <2>3. QED
    BY <1>1, <2>1, <2>2
<1>3. ASSUME UNCHANGED <<slots, told>> PROVE Ordered'
  BY <1>3 DEF Ordered
<1>4. CASE OpenChannel
  <2>1. nextid \in Ids /\ (Grown(nextid, "syn_sent") \/ slots' = slots) /\ told' = told
    BY <1>4, OpenEffect
  <2>2. QED
    BY <1>1, <1>3, <2>1, OrderedGrow
<1>5. CASE WriteSession \/ CloseYamux \/ UNCHANGED vars
  BY <1>3, <1>5 DEF WriteSession, CloseYamux, vars, session, history, bounds
<1>6. ASSUME NEW s \in DOMAIN slots, WriteChannel(s) PROVE Ordered'
  <2>1. s \in 1..Len(slots) /\ Edited(s, slots[s].buf) /\ told' = told
    BY <1>6, WriteEffect
  <2>2. QED
    BY <1>1, <1>2, <2>1, OrderedEdit
<1>7. ASSUME NEW f \in FrameSet, Receive(f) PROVE Ordered'
  <2>1. Outcome(f)
    BY <1>7, ReceiveEffect
  <2>2. f.size \in Nat
    BY FrameFacts
  <2>3. ASSUME f.id \in Ids, told' = [told EXCEPT ![f.id] = @ + f.size]
        PROVE  /\ told' \in [Ids -> Nat] /\ (\A i \in Ids : told[i] <= told'[i])
               /\ told'[f.id] = told[f.id] + f.size
    BY <1>1, <2>2, <2>3
  <2>4. CASE Ignored
    BY <1>3, <2>4 DEF Ignored
  <2>5. CASE f.id \in Ids /\ Refused(f)
    <3>1. told' \in [Ids -> Nat] /\ (\A i \in Ids : told[i] <= told'[i]) /\ slots' = slots
      BY <2>3, <2>5 DEF Refused
    <3>2. ASSUME NEW t \in 1..Len(slots)
          PROVE  Below(slots[t].buf, told[slots[t].id]) => Below(slots[t].buf, told'[slots[t].id])
      BY <1>2, <3>1 DEF Below
    <3>3. \A t \in 1..Len(slots) :
            Ascending(slots[t].buf) /\ (slots[t].live => Below(slots[t].buf, told'[slots[t].id]))
      BY <1>2, <3>2
    <3>4. QED
      BY <3>1, <3>3 DEF Ordered, Ascending, Below
  <2>6. CASE f.id \in Ids /\ Accepted(f)
    <3>1. Matches(f.id) = {} /\ Grown(f.id, "est") /\ told' = [told EXCEPT ![f.id] = 0]
      BY <2>6 DEF Accepted
    <3>2. told' \in [Ids -> Nat]
      BY <1>1, <2>6, <3>1
    <3>3. \A t \in 1..Len(slots) : slots[t].live => slots[t].id # f.id
      BY <3>1 DEF Matches, Types, SlotsOK
    <3>4. \A t \in 1..Len(slots) : slots[t].live => told'[slots[t].id] = told[slots[t].id]
      BY <1>1, <1>2, <3>1, <3>3
    <3>5. QED
      BY <2>6, <3>1, <3>2, <3>4, OrderedGrow
  <2>7. ASSUME f.id \in Ids, NEW s \in 1..Len(slots), Delivered(s, f) PROVE Ordered'
    <3>1. /\ slots[s].live /\ slots[s].id = f.id /\ Edited(s, slots[s].buf \o Payload(f))
          /\ told' = [told EXCEPT ![f.id] = @ + f.size]
      BY <2>7 DEF Delivered
    <3>2. /\ told' \in [Ids -> Nat] /\ (\A i \in Ids : told[i] <= told'[i])
          /\ told'[f.id] = told[f.id] + f.size
      BY <2>3, <2>7, <3>1
    <3>3. /\ Payload(f) \in Seq(Nat) /\ Len(Payload(f)) = f.size
          /\ \A k \in 1..f.size : Payload(f)[k] = told[f.id] + k
          /\ told[f.id] \in Nat
      BY <2>7, PayloadFacts
    <3>4. /\ Ascending(slots[s].buf \o Payload(f))
          /\ Below(slots[s].buf \o Payload(f), told[f.id] + f.size)
      BY <1>2, <2>2, <3>1, <3>3, JoinAscends
    <3>5. slots[s].buf \o Payload(f) \in Seq(Nat)
      BY <1>2, <3>3
    <3>6. QED
      BY <3>1, <3>2, <3>4, <3>5, OrderedEdit
  <2>8. QED
    BY <2>1, <2>4, <2>5, <2>6, <2>7 DEF Outcome
<1>8. ASSUME NEW r \in Readers, ReaderStep(r) PROVE Ordered'
  <2>1. /\ thread[r].slot \in 1..Len(slots)
        /\ Moved(r) \/ Read(r) \/ GaveUp(r)
        /\ told' = told
    BY <1>8, ReaderEffect
  <2>2. PICK s \in 1..Len(slots) : s = thread[r].slot
    BY <2>1
  <2>3. CASE Moved(r) \/ GaveUp(r)
    <3>1. Edited(s, slots[s].buf)
      BY <2>2, <2>3 DEF Moved, GaveUp
    <3>2. QED
      BY <1>1, <1>2, <2>1, <3>1, OrderedEdit
  <2>4. CASE Read(r)
    <3>1. slots[s].buf # <<>> /\ Edited(s, Tail(slots[s].buf))
      BY <2>2, <2>4 DEF Read
    <3>2. /\ Ascending(Tail(slots[s].buf))
          /\ slots[s].live => Below(Tail(slots[s].buf), told[slots[s].id])
      BY <1>2, <3>1, TailAscends
    <3>3. Tail(slots[s].buf) \in Seq(Nat)
      BY <1>2, <3>1
    <3>4. QED
      BY <1>1, <2>1, <3>1, <3>2, <3>3, OrderedEdit
  <2>5. QED
    BY <2>1, <2>3, <2>4
<1>9. QED
  BY <1>4, <1>5, <1>6, <1>7, <1>8 DEF Next

-----------------------------------------------------------------------------
(* No token is lost or taken out of its place.                              *)

\* The tokens of a buffer leave no gap, and the last one is n, if there is one.
Consecutive(b) == \A k \in 1..(Len(b) - 1) : b[k + 1] = b[k] + 1

Ends(b, n) == b # <<>> => b[Len(b)] = n

\* The token that is read next, when the peer has sent n of them.
FirstToken(b, n) == IF b = <<>> THEN n + 1 ELSE b[1]

LEMMA JoinConsecutive ==
  ASSUME NEW b \in Seq(Nat), NEW c \in Seq(Nat), NEW n \in Nat, NEW m \in Nat, Consecutive(b), Ends(b, n),
         Len(c) = m, \A k \in 1..m : c[k] = n + k
  PROVE  Consecutive(b \o c) /\ Ends(b \o c, n + m) /\ FirstToken(b \o c, n + m) = FirstToken(b, n)
<1>1. /\ b \o c \in Seq(Nat) /\ Len(b \o c) = Len(b) + Len(c)
      /\ \A k \in 1..(Len(b) + Len(c)) : (b \o c)[k] = IF k <= Len(b) THEN b[k] ELSE c[k - Len(b)]
  BY ConcatProperties
<1>2. Len(b) \in Nat /\ (b = <<>> <=> Len(b) = 0)
  OBVIOUS
<1>3. ASSUME NEW k \in (Len(b) + 1)..(Len(b) + m) PROVE (b \o c)[k] = n + (k - Len(b))
  <2>1. k - Len(b) \in 1..m /\ k \in 1..(Len(b) + Len(c)) /\ ~(k <= Len(b))
    BY <1>2
  <2>2. (b \o c)[k] = c[k - Len(b)]
    BY <1>1, <2>1
  <2>3. QED
    BY <2>1, <2>2
<1>4. ASSUME NEW k \in 1..Len(b) PROVE (b \o c)[k] = b[k]
  BY <1>1, <1>2
<1>5. PICK d : d = b \o c
  OBVIOUS
<1>6. d \in Seq(Nat) /\ Len(d) = Len(b) + m /\ (d = <<>> <=> Len(d) = 0)
  BY <1>1, <1>5
<1>7. Consecutive(d)
  <2>1. SUFFICES ASSUME NEW k \in 1..(Len(b) + m - 1) PROVE d[k + 1] = d[k] + 1
    BY <1>6 DEF Consecutive
  <2>2. CASE k < Len(b)
    <3>1. k \in 1..(Len(b) - 1) /\ k \in 1..Len(b) /\ k + 1 \in 1..Len(b)
      BY <1>2, <2>2
    <3>2. d[k] = b[k] /\ d[k + 1] = b[k + 1]
      BY <1>4, <1>5, <3>1
    <3>3. QED
      BY <3>1, <3>2 DEF Consecutive
  <2>3. CASE k = Len(b)
    <3>1. k \in 1..Len(b) /\ k + 1 \in (Len(b) + 1)..(Len(b) + m)
      BY <1>2, <2>3
    <3>2. d[k] = b[k] /\ b[k] = n
      BY <1>2, <1>4, <1>5, <2>3, <3>1 DEF Ends
    <3>3. d[k + 1] = n + 1
      BY <1>2, <1>3, <1>5, <2>3, <3>1
    <3>4. QED
      BY <3>2, <3>3
  <2>4. CASE k > Len(b)
    <3>1. k \in (Len(b) + 1)..(Len(b) + m) /\ k + 1 \in (Len(b) + 1)..(Len(b) + m)
      BY <1>2, <2>4
    <3>2. d[k] = n + (k - Len(b)) /\ d[k + 1] = n + (k + 1 - Len(b))
      BY <1>3, <1>5, <3>1
    <3>3. QED
      BY <1>2, <3>2
  <2>5. QED
    BY <1>2, <2>2, <2>3, <2>4
<1>8. Ends(d, n + m) /\ FirstToken(d, n + m) = FirstToken(b, n)
  <2>1. CASE m = 0
    <3>1. Len(d) = Len(b) /\ \A k \in 1..Len(b) : d[k] = b[k]
      BY <1>2, <1>4, <1>5, <1>6, <2>1
    <3>2. Len(b) = 0 \/ (1 \in 1..Len(b) /\ Len(b) \in 1..Len(b))
      BY <1>2
    <3>3. QED
      BY <1>2, <1>6, <2>1, <3>1, <3>2 DEF Ends, FirstToken
  <2>2. CASE m # 0
    <3>1. Len(b) + m \in (Len(b) + 1)..(Len(b) + m) /\ d # <<>>
      BY <1>2, <1>6, <2>2
    <3>2. d[Len(d)] = n + m
      BY <1>2, <1>3, <1>5, <1>6, <3>1
    <3>3. CASE b = <<>>
      <4>1. 1 \in (Len(b) + 1)..(Len(b) + m) /\ Len(b) = 0
        BY <1>2, <2>2, <3>3
      <4>2. d[1] = n + 1
        BY <1>3, <1>5, <4>1
      <4>3. QED
        BY <3>1, <3>2, <3>3, <4>2 DEF Ends, FirstToken
    <3>4. CASE b # <<>>
      <4>1. 1 \in 1..Len(b)
        BY <1>2, <3>4
      <4>2. d[1] = b[1]
        BY <1>4, <1>5, <4>1
      <4>3. QED
        BY <3>1, <3>2, <3>4, <4>2 DEF Ends, FirstToken
    <3>5. QED
      BY <3>3, <3>4
  <2>3. QED
    BY <2>1, <2>2
<1>9. QED
  BY <1>5, <1>7, <1>8

LEMMA TailConsecutive ==
  ASSUME NEW b \in Seq(Nat), b # <<>>, Consecutive(b), NEW n \in Nat
  PROVE  /\ Consecutive(Tail(b)) /\ (Ends(b, n) => Ends(Tail(b), n))
         /\ Ends(b, n) \/ Tail(b) # <<>> => FirstToken(Tail(b), n) = b[1] + 1
         /\ FirstToken(b, n) = b[1] /\ b[1] \in Nat
<1>1. Len(Tail(b)) = Len(b) - 1 /\ Len(b) \in Nat /\ Len(b) > 0 /\ \A k \in 1..(Len(b) - 1) : Tail(b)[k] = b[k + 1]
  OBVIOUS
<1>2. PICK d \in Seq(Nat) : d = Tail(b)
  <2>1. Tail(b) \in Seq(Nat)
    OBVIOUS
  <2>2. QED
    BY <2>1
<1>3. d = <<>> <=> Len(d) = 0
  OBVIOUS
<1>4. Consecutive(d)
  BY <1>1, <1>2 DEF Consecutive
<1>5. Ends(b, n) => Ends(d, n)
  <2>1. SUFFICES ASSUME b[Len(b)] = n, d # <<>> PROVE d[Len(d)] = n
    BY DEF Ends
  <2>2. Len(b) - 1 \in 1..(Len(b) - 1)
    BY <1>1, <1>2, <1>3, <2>1
  <2>3. QED
    BY <1>1, <1>2, <2>1, <2>2
<1>6. Ends(b, n) \/ d # <<>> => FirstToken(d, n) = b[1] + 1
  <2>1. CASE d = <<>>
    <3>1. Len(b) = 1
      BY <1>1, <1>2, <1>3, <2>1
    <3>2. QED
      BY <2>1, <3>1 DEF Ends, FirstToken
  <2>2. CASE d # <<>>
    <3>1. 1 \in 1..(Len(b) - 1)
      BY <1>1, <1>2, <1>3, <2>2
    <3>2. d[1] = b[2] /\ b[2] = b[1] + 1
      BY <1>1, <1>2, <3>1 DEF Consecutive
    <3>3. QED
      BY <2>2, <3>2 DEF FirstToken
  <2>3. QED
    BY <2>1, <2>2
<1>7. FirstToken(b, n) = b[1] /\ b[1] \in Nat
  BY <1>1 DEF FirstToken
<1>8. QED
  BY <1>2, <1>4, <1>5, <1>6, <1>7

\* Reader q waits for a body on stream s.
InBody(s) == {q \in Readers : thread[q].pc = "body" /\ thread[q].slot = s}

\* What InStep says of a stream with buffer b, n tokens of which were sent.
Fine(alive, b, n, readers, waiting, wants) ==
  /\ \A q, r \in readers : q = r
  /\ Consecutive(b) /\ (alive => Ends(b, n))
  /\ alive \/ b # <<>> =>
       /\ \A r \in waiting : wants[r].want = FirstToken(b, n) /\ FirstToken(b, n) % 2 = 0
       /\ waiting = {} => FirstToken(b, n) % 2 = 1

LEMMA InStepIsFine ==
  ASSUME NEW s
  PROVE  /\ InStep(s) <=> Fine(slots[s].live, slots[s].buf, told[slots[s].id], Reading(s), InBody(s), thread)
         /\ InStep(s)' <=> Fine(slots'[s].live, slots'[s].buf, told'[slots'[s].id], Reading(s)', InBody(s)', thread')
<1>1. /\ (\A r \in Reading(s) : thread[r].pc # "body") <=> InBody(s) = {}
      /\ (\A r \in Reading(s)' : thread'[r].pc # "body") <=> InBody(s)' = {}
  BY DEF Reading, InBody
<1>2. /\ NextToken(s) = FirstToken(slots[s].buf, told[slots[s].id])
      /\ NextToken(s)' = FirstToken(slots'[s].buf, told'[slots'[s].id])
  BY DEF NextToken, FirstToken
<1>3. /\ \A q : q \in InBody(s) <=> q \in Reading(s) /\ thread[q].pc = "body"
      /\ \A q : q \in InBody(s)' <=> q \in Reading(s)' /\ thread'[q].pc = "body"
  BY DEF Reading, InBody
<1>4. InStep(s) <=> Fine(slots[s].live, slots[s].buf, told[slots[s].id], Reading(s), InBody(s), thread)
  BY <1>1, <1>2, <1>3, Zenon DEF InStep, Fine, Consecutive, Ends
<1>5. InStep(s)' <=> Fine(slots'[s].live, slots'[s].buf, told'[slots'[s].id], Reading(s)', InBody(s)', thread')
  BY <1>1, <1>2, <1>3, Zenon DEF InStep, Fine, Consecutive, Ends
<1>6. QED
  BY <1>4, <1>5

\* A stream whose bytes and whose reader do not change stays in step.
LEMMA InStepKept ==
  ASSUME Types, NEW t \in 1..Len(slots), InStep(t), slots'[t].id = slots[t].id, slots'[t].buf = slots[t].buf,
         slots'[t].live => slots[t].live /\ told'[slots[t].id] = told[slots[t].id],
         Reading(t)' \subseteq Reading(t), InBody(t)' = InBody(t),
         \A q \in InBody(t) : thread'[q].want = thread[q].want
  PROVE  InStep(t)'
<1>1. Fine(slots[t].live, slots[t].buf, told[slots[t].id], Reading(t), InBody(t), thread)
  BY InStepIsFine
<1>2. slots'[t].live \/ slots'[t].buf # <<>> =>
        /\ slots[t].live \/ slots[t].buf # <<>>
        /\ FirstToken(slots'[t].buf, told'[slots'[t].id]) = FirstToken(slots[t].buf, told[slots[t].id])
  BY Zenon DEF FirstToken
<1>3. slots'[t].live => Ends(slots'[t].buf, told'[slots'[t].id])
  BY <1>1, Zenon DEF Fine
<1>4. Consecutive(slots'[t].buf) /\ \A q, r \in Reading(t)' : q = r
  BY <1>1, Zenon DEF Fine
<1>5. slots'[t].live \/ slots'[t].buf # <<>> =>
        /\ \A r \in InBody(t)' : /\ thread'[r].want = FirstToken(slots'[t].buf, told'[slots'[t].id])
                                 /\ FirstToken(slots'[t].buf, told'[slots'[t].id]) % 2 = 0
        /\ InBody(t)' = {} => FirstToken(slots'[t].buf, told'[slots'[t].id]) % 2 = 1
  BY <1>1, <1>2, Zenon DEF Fine
<1>6. Fine(slots'[t].live, slots'[t].buf, told'[slots'[t].id], Reading(t)', InBody(t)', thread')
  BY <1>3, <1>4, <1>5, Zenon DEF Fine
<1>7. QED
  BY <1>6, InStepIsFine

\* A new stream is in step.
LEMMA InStepNew ==
  ASSUME Types, NEW i \in Ids, NEW st, Grown(i, st), thread' = thread, told'[i] = 0,
         NEW n, n = Len(slots) + 1
  PROVE  InStep(n)'
<1>1. slots'[n].id = i /\ slots'[n].buf = <<>>
  BY DEF Grown
<1>2. \A r \in Readers : thread'[r].pc # "none" => thread'[r].slot # n
  BY DEF Types, ReadersOK, SlotsOK
<1>3. Reading(n)' = {}
  BY <1>2, Zenon DEF Reading
<1>4. InBody(n)' = {}
  BY <1>2 DEF InBody
<1>5. FirstToken(slots'[n].buf, told'[slots'[n].id]) % 2 = 1
  BY <1>1 DEF FirstToken
<1>6. Consecutive(slots'[n].buf) /\ Ends(slots'[n].buf, told'[slots'[n].id])
  BY <1>1 DEF Consecutive, Ends
<1>7. Fine(slots'[n].live, slots'[n].buf, told'[slots'[n].id], Reading(n)', InBody(n)', thread')
  BY <1>3, <1>4, <1>5, <1>6, Zenon DEF Fine
<1>8. QED
  BY <1>7, InStepIsFine, Zenon

\* So is a stream that gets a payload, whose reader may have been woken up.
LEMMA InStepDelivered ==
  ASSUME Types, NEW f \in FrameSet, f.id \in Ids, NEW s \in 1..Len(slots), Delivered(s, f), InStep(s),
         f.id \notin excused'
  PROVE  InStep(s)'
<1>1. /\ slots[s].live /\ slots[s].id = f.id
      /\ Edited(s, slots[s].buf \o Payload(f))
      /\ told' = [told EXCEPT ![f.id] = @ + f.size]
      /\ IF f.size = 0 THEN UNCHANGED <<thread, excused, late>> ELSE Notify(s)
  BY DEF Delivered
<1>2. /\ Payload(f) \in Seq(Nat) /\ Len(Payload(f)) = f.size
      /\ \A k \in 1..f.size : Payload(f)[k] = told[f.id] + k
      /\ told[f.id] \in Nat /\ f.size \in Nat
  BY PayloadFacts
<1>3. Fine(slots[s].live, slots[s].buf, told[f.id], Reading(s), InBody(s), thread)
  BY <1>1, InStepIsFine, Zenon
<1>4. slots[s].buf \in Seq(Nat)
  BY SlotFields DEF Types
<1>5. PICK b : b = slots[s].buf \o Payload(f)
  OBVIOUS
<1>6. PICK n : n = told[f.id] + f.size
  OBVIOUS
<1>7. told'[f.id] = n /\ slots'[s].buf = b /\ slots'[s].id = f.id
  BY <1>1, <1>5, <1>6 DEF Types, RestOK, Edited
<1>8. Consecutive(b) /\ Ends(b, n) /\ FirstToken(b, n) = FirstToken(slots[s].buf, told[f.id])
  <2>1. Consecutive(slots[s].buf) /\ Ends(slots[s].buf, told[f.id])
    BY <1>1, <1>3, Zenon DEF Fine
  <2>2. QED
    BY <1>2, <1>4, <1>5, <1>6, <2>1, JoinConsecutive
<1>9. /\ \A r \in InBody(s) : thread[r].want = FirstToken(b, n) /\ FirstToken(b, n) % 2 = 0
      /\ InBody(s) = {} => FirstToken(b, n) % 2 = 1
      /\ \A q, r \in Reading(s) : q = r
  BY <1>1, <1>3, <1>8, Zenon DEF Fine
<1>10. /\ \A q, r \in Reading(s)' : q = r
       /\ InBody(s)' = InBody(s) /\ \A r \in InBody(s) : thread'[r] = thread[r]
  <2>1. CASE thread' = thread
    BY <1>9, <2>1 DEF Reading, InBody
  <2>2. CASE Woken(s)
    <3>1. PICK r \in Readers :
            /\ thread[r].pc = "none" /\ thread'[r].pc = "start" /\ thread'[r].slot = s
            /\ \A q \in Readers : q # r => thread'[q] = thread[q]
            /\ Reading(s) # {} => slots[s].id \in excused'
      BY <2>2, Zenon DEF Woken
    <3>2. Reading(s) = {}
      BY <1>1, <3>1
    <3>3. \A q \in Reading(s)' : q = r
      BY <3>1, <3>2 DEF Reading
    <3>4. InBody(s) = {} /\ InBody(s)' = {}
      BY <3>1, <3>2 DEF Reading, InBody
    <3>5. QED
      BY <3>3, <3>4, Zenon
  <2>3. QED
    BY <1>1, <2>1, <2>2, NotifyEffect
<1>11. Fine(slots'[s].live, b, n, Reading(s)', InBody(s)', thread')
  BY <1>8, <1>9, <1>10, Zenon DEF Fine
<1>12. QED
  BY <1>7, <1>11, InStepIsFine, Zenon

\* And one whose reader takes a token: it is the one the reader expects.
LEMMA InStepRead ==
  ASSUME Types, NEW r \in Readers, thread[r].pc # "none", NEW s \in 1..Len(slots), s = thread[r].slot,
         OnlyReader(r), Read(r), slots'[s].live = slots[s].live, told' = told, InStep(s)
  PROVE  InStep(s)' /\ torn' = torn
<1>1. s = thread[r].slot
  OBVIOUS
<1>2. PICK b \in Seq(Nat) : b = slots[s].buf
  BY SlotFields DEF Types
<1>3. PICK n \in Nat : n = told[slots[s].id]
  BY SlotFields DEF Types, RestOK
<1>4. /\ b # <<>> /\ slots'[s].buf = Tail(b) /\ slots'[s].id = slots[s].id
      /\ slots'[s].live = slots[s].live /\ told'[slots'[s].id] = n
  BY <1>1, <1>2, <1>3 DEF Read, Edited
<1>5. /\ \/ /\ thread[r].pc = "len" /\ thread'[r].pc = "body"
            /\ thread'[r].want = b[1] + 1
            /\ torn' = IF b[1] % 2 = 0 THEN torn \cup {slots[s].id} ELSE torn
         \/ /\ thread[r].pc = "body" /\ thread'[r].pc = "test"
            /\ torn' = IF b[1] # thread[r].want THEN torn \cup {slots[s].id} ELSE torn
  BY <1>1, <1>2, Zenon DEF Read
<1>6. Fine(slots[s].live, b, n, Reading(s), InBody(s), thread)
  BY <1>1, <1>2, <1>3, InStepIsFine, Zenon
<1>7. /\ \A q \in Readers : q # r => thread'[q] = thread[q]
      /\ thread'[r].pc # "none" => thread'[r].slot = s
  BY <1>1, Zenon DEF OnlyReader
<1>8. r \in Reading(s) /\ \A q \in Reading(s) : q = r
  BY <1>1, <1>6 DEF Reading, Fine
<1>9. \A q \in Reading(s)' : q = r
  BY <1>7, <1>8 DEF Reading
<1>10. \A q \in Readers : thread[q].pc = "body" /\ thread[q].slot = s => q = r
  BY <1>8 DEF Reading
<1>11. \A q \in Readers : thread'[q].pc = "body" /\ thread'[q].slot = s => q = r
  BY <1>7, <1>10, Zenon
<1>12. PICK d : d = Tail(b)
  OBVIOUS
<1>13. /\ Consecutive(d) /\ (slots[s].live => Ends(d, n))
       /\ slots[s].live \/ d # <<>> => FirstToken(d, n) = b[1] + 1
       /\ FirstToken(b, n) = b[1] /\ b[1] \in Nat
  <2>1. Consecutive(b) /\ (slots[s].live => Ends(b, n))
    BY <1>6, Zenon DEF Fine
  <2>2. QED
    BY <1>4, <1>12, <2>1, TailConsecutive
<1>14. /\ \A q \in InBody(s) : thread[q].want = b[1] /\ b[1] % 2 = 0
       /\ InBody(s) = {} => b[1] % 2 = 1
  BY <1>4, <1>6, <1>13, Zenon DEF Fine
<1>15. CASE thread[r].pc = "len"
  <2>1. InBody(s) = {}
    BY <1>10, <1>15 DEF InBody
  <2>2. b[1] % 2 = 1 /\ (b[1] + 1) % 2 = 0
    BY <1>13, <1>14, <2>1
  <2>3. torn' = torn /\ thread'[r].pc = "body" /\ thread'[r].want = b[1] + 1
    BY <1>5, <1>15, <2>2
  <2>4. r \in InBody(s)' /\ \A q \in InBody(s)' : q = r
    BY <1>7, <1>11, <2>3 DEF InBody
  <2>5. Fine(slots[s].live, d, n, Reading(s)', InBody(s)', thread')
    <3>1. slots[s].live \/ d # <<>> => FirstToken(d, n) % 2 = 0
      BY <1>13, <2>2
    <3>2. slots[s].live \/ d # <<>> => \A q \in InBody(s)' : thread'[q].want = FirstToken(d, n)
      BY <1>13, <2>3, <2>4, Zenon
    <3>3. \A p, q \in Reading(s)' : p = q
      BY <1>9, Zenon
    <3>4. InBody(s)' # {}
      BY <2>4
    <3>5. QED
      BY <1>13, <3>1, <3>2, <3>3, <3>4, Zenon DEF Fine
  <2>6. InStep(s)'
    BY <1>4, <1>12, <2>5, InStepIsFine, Zenon
  <2>7. QED
    BY <1>1, <2>3, <2>6
<1>16. CASE thread[r].pc = "body"
  <2>1. r \in InBody(s)
    BY <1>1, <1>16 DEF InBody
  <2>2. thread[r].want = b[1] /\ b[1] % 2 = 0 /\ (b[1] + 1) % 2 = 1
    <3>1. thread[r].want = b[1] /\ b[1] % 2 = 0 /\ b[1] \in Nat
      BY <1>13, <1>14, <2>1, Zenon
    <3>2. \A m \in Nat : m % 2 = 0 => (m + 1) % 2 = 1
      OBVIOUS
    <3>3. QED
      BY <3>1, <3>2
  <2>3. torn' = torn /\ thread'[r].pc = "test"
    BY <1>5, <1>16, <2>2
  <2>4. InBody(s)' = {}
    BY <1>11, <2>3 DEF InBody
  <2>5. Fine(slots[s].live, d, n, Reading(s)', InBody(s)', thread')
    <3>1. slots[s].live \/ d # <<>> => FirstToken(d, n) % 2 = 1
      BY <1>13, <2>2
    <3>2. \A p, q \in Reading(s)' : p = q
      BY <1>9, Zenon
    <3>3. QED
      BY <1>13, <2>4, <3>1, <3>2, Zenon DEF Fine
  <2>6. InStep(s)'
    BY <1>4, <1>12, <2>5, InStepIsFine, Zenon
  <2>7. QED
    BY <1>1, <2>3, <2>6
<1>17. QED
  BY <1>5, <1>15, <1>16

LEMMA StreamsStep ==
  ASSUME Types, Sides, Streams, Types', [Next]_vars
  PROVE  Streams'
<1>1. SUFFICES ASSUME ~mixed' PROVE Streams'
  BY DEF Streams
<1>2. ASSUME mixed' = mixed
      PROVE  /\ torn \subseteq excused
             /\ \A i \in Ids \ excused : (\A s \in 1..Len(slots) : slots[s].id # i) => told[i] = 0
             /\ \A s \in 1..Len(slots) : slots[s].id \notin excused => InStep(s)
  BY <1>1, <1>2 DEF Streams
<1>3. ASSUME mixed' = mixed
      PROVE  \A s, t \in 1..Len(slots) :
               slots[s].live /\ slots[t].live /\ slots[s].id = slots[t].id => s = t
  BY <1>1, <1>3 DEF Sides
<1>4. ASSUME torn' \subseteq excused',
             \A i \in Ids : i \notin excused' /\ (\A s \in 1..Len(slots') : slots'[s].id # i) => told'[i] = 0,
             \A s \in 1..Len(slots') : slots'[s].id \notin excused' => InStep(s)'
      PROVE  Streams'
  BY <1>4 DEF Streams
<1>5. \A t \in 1..Len(slots) : slots[t].id \in Ids
  BY SlotFields DEF Types
<1>6. told \in [Ids -> Nat]
  BY DEF Types, RestOK
\* The streams that a step leaves alone.
<1>7. ASSUME thread' = thread, NEW t
      PROVE  Reading(t)' = Reading(t) /\ InBody(t)' = InBody(t)
  BY <1>7, Zenon DEF Reading, InBody
<1>8. ASSUME NEW t \in 1..Len(slots), InStep(t), slots'[t] = slots[t], thread' = thread,
             slots'[t].live => told'[slots[t].id] = told[slots[t].id]
      PROVE  InStep(t)'
  BY <1>7, <1>8, InStepKept
<1>9. ASSUME UNCHANGED <<slots, thread, told, torn, excused, mixed>>
      PROVE  Streams'
  <2>1. slots' = slots /\ thread' = thread /\ told' = told /\ torn' = torn /\ excused' = excused /\ mixed' = mixed
    BY <1>9
  <2>2. \A t \in 1..Len(slots) : slots[t].id \notin excused => InStep(t)'
    BY <1>2, <1>8, <2>1
  <2>3. QED
    BY <1>2, <1>4, <2>1, <2>2
<1>10. CASE OpenChannel
  <2>1. /\ nextid \in Ids
        /\ Grown(nextid, "syn_sent") \/ slots' = slots
        /\ UNCHANGED <<thread, mixed, torn, excused, told>>
    BY <1>10, OpenEffect
  <2>2. CASE slots' = slots
    BY <1>9, <2>1, <2>2
  <2>3. CASE Grown(nextid, "syn_sent")
    <3>1. PICK n : n = Len(slots) + 1
      OBVIOUS
    <3>2. /\ \A t \in 1..Len(slots') : t \in 1..Len(slots) \/ t = n
          /\ \A t \in 1..Len(slots) : t \in 1..Len(slots') /\ slots'[t] = slots[t]
          /\ slots'[n].id = nextid
      BY <2>3, <3>1 DEF Grown, Types, SlotsOK
    <3>3. \A s \in 1..Len(slots) : slots[s].id # nextid
      <4>1. SUFFICES ASSUME NEW t \in 1..Len(slots), slots[t].id = nextid PROVE FALSE
        OBVIOUS
      <4>2. ~Theirs(nextid) /\ IF slots[t].state = "syn_sent" THEN ~Theirs(slots[t].id) /\ slots[t].id < nextid ELSE Theirs(slots[t].id)
        BY <1>1, <2>1, Zenon DEF Sides
      <4>3. slots[t].id < nextid
        BY <4>1, <4>2, Zenon
      <4>4. nextid \in Nat
        BY DEF Types, RestOK
      <4>5. QED
        BY <4>1, <4>3, <4>4
    <3>4. nextid \notin excused => InStep(n)'
      <4>1. ASSUME nextid \notin excused PROVE told'[nextid] = 0
        BY <1>2, <2>1, <3>3, <4>1
      <4>2. QED
        BY <2>1, <2>3, <3>1, <4>1, InStepNew
    <3>5. \A t \in 1..Len(slots) : slots[t].id \notin excused => InStep(t)'
      BY <1>2, <1>8, <2>1, <3>2
    <3>6. torn' \subseteq excused'
      BY <1>2, <2>1
    <3>7. \A i \in Ids : i \notin excused' /\ (\A s \in 1..Len(slots') : slots'[s].id # i) => told'[i] = 0
      BY <1>2, <2>1, <3>2
    <3>8. \A s \in 1..Len(slots') : slots'[s].id \notin excused' => InStep(s)'
      BY <2>1, <3>2, <3>4, <3>5
    <3>9. QED
      BY <1>4, <3>6, <3>7, <3>8
  <2>4. QED
    BY <2>1, <2>2, <2>3
<1>11. CASE WriteSession
  BY <1>1, <1>11 DEF WriteSession
<1>12. CASE CloseYamux \/ UNCHANGED vars
  BY <1>9, <1>12 DEF CloseYamux, vars, session, history, bounds
<1>13. ASSUME NEW s \in DOMAIN slots, WriteChannel(s) PROVE Streams'
  <2>1. /\ s \in 1..Len(slots) /\ Edited(s, slots[s].buf)
        /\ UNCHANGED <<thread, mixed, torn, excused, told>>
    BY <1>13, WriteEffect
  <2>2. /\ 1..Len(slots') = 1..Len(slots)
        /\ \A t \in 1..Len(slots) :
             /\ slots'[t].id = slots[t].id
             /\ slots'[t].live => slots[t].live
             /\ slots'[t].buf = slots[t].buf
    BY <2>1, EditedSlots
  <2>3. \A t \in 1..Len(slots) : slots[t].id \notin excused => InStep(t)'
    <3>1. TAKE t \in 1..Len(slots)
    <3>2. HAVE slots[t].id \notin excused
    <3>3. InStep(t)
      BY <1>2, <2>1, <3>2
    <3>4. QED
      BY <1>7, <2>1, <2>2, <3>3, InStepKept
  <2>4. torn' \subseteq excused'
    BY <1>2, <2>1
  <2>5. \A i \in Ids : i \notin excused' /\ (\A t \in 1..Len(slots') : slots'[t].id # i) => told'[i] = 0
    BY <1>2, <2>1, <2>2
  <2>6. QED
    BY <1>4, <2>1, <2>2, <2>3, <2>4, <2>5
<1>14. ASSUME NEW f \in FrameSet, Receive(f) PROVE Streams'
  <2>1. Outcome(f)
    BY <1>14, ReceiveEffect
  <2>2. UNCHANGED <<mixed, torn>>
    BY <2>1 DEF Outcome
  <2>3. f.size \in Nat
    BY FrameFacts
  <2>4. CASE Ignored
    BY <1>9, <2>2, <2>4 DEF Ignored
  <2>5. CASE f.id \in Ids /\ Refused(f)
    <3>1. /\ told' = [told EXCEPT ![f.id] = @ + f.size]
          /\ excused' = IF f.size > 0 THEN excused \cup {f.id} ELSE excused
          /\ UNCHANGED <<slots, thread>>
      BY <2>5 DEF Refused
    <3>2. excused \subseteq excused' /\ \A i \in Ids : i \notin excused' => told'[i] = told[i]
      BY <1>6, <2>3, <2>5, <3>1
    <3>3. torn' \subseteq excused'
      BY <1>2, <2>2, <3>2
    <3>4. \A t \in 1..Len(slots') : slots'[t].id \notin excused' => InStep(t)'
      BY <1>2, <1>5, <1>8, <2>2, <3>1, <3>2
    <3>5. \A i \in Ids : i \notin excused' /\ (\A t \in 1..Len(slots') : slots'[t].id # i) => told'[i] = 0
      BY <1>2, <2>2, <3>1, <3>2
    <3>6. QED
      BY <1>4, <3>3, <3>4, <3>5
  <2>6. CASE f.id \in Ids /\ Accepted(f)
    <3>1. /\ Matches(f.id) = {} /\ Grown(f.id, "est") /\ told' = [told EXCEPT ![f.id] = 0]
          /\ UNCHANGED <<thread, excused>>
      BY <2>6 DEF Accepted
    <3>2. PICK n : n = Len(slots) + 1
      OBVIOUS
    <3>3. /\ \A t \in 1..Len(slots') : t \in 1..Len(slots) \/ t = n
          /\ \A t \in 1..Len(slots) : t \in 1..Len(slots') /\ slots'[t] = slots[t]
          /\ n \in 1..Len(slots') /\ slots'[n].id = f.id
      BY <3>1, <3>2 DEF Grown, Types, SlotsOK
    <3>4. told'[f.id] = 0 /\ \A i \in Ids : i # f.id => told'[i] = told[i]
      BY <1>6, <2>6, <3>1
    <3>5. InStep(n)'
      BY <2>6, <3>1, <3>2, <3>4, InStepNew
    <3>6. \A t \in 1..Len(slots) : slots[t].live => slots[t].id # f.id
      BY <3>1 DEF Matches, Types, SlotsOK
    <3>7. \A t \in 1..Len(slots) : slots[t].id \notin excused => InStep(t)'
      BY <1>2, <1>5, <1>8, <2>2, <3>1, <3>3, <3>4, <3>6
    <3>8. torn' \subseteq excused'
      BY <1>2, <2>2, <3>1
    <3>9. \A t \in 1..Len(slots') : slots'[t].id \notin excused' => InStep(t)'
      BY <3>1, <3>3, <3>5, <3>7
    <3>10. \A i \in Ids : i \notin excused' /\ (\A t \in 1..Len(slots') : slots'[t].id # i) => told'[i] = 0
      BY <1>2, <2>2, <3>1, <3>3, <3>4
    <3>11. QED
      BY <1>4, <3>8, <3>9, <3>10
  <2>7. ASSUME f.id \in Ids, NEW s \in 1..Len(slots), Delivered(s, f) PROVE Streams'
    <3>1. /\ slots[s].live /\ slots[s].id = f.id
          /\ Edited(s, slots[s].buf \o Payload(f))
          /\ told' = [told EXCEPT ![f.id] = @ + f.size]
          /\ IF f.size = 0 THEN UNCHANGED <<thread, excused, late>> ELSE Notify(s)
      BY <2>7 DEF Delivered
    <3>2. /\ 1..Len(slots') = 1..Len(slots)
          /\ \A t \in 1..Len(slots) : slots'[t].id = slots[t].id /\ (t # s => slots'[t] = slots[t])
      BY <3>1, EditedSlots
    <3>3. excused \subseteq excused' /\ (thread' = thread \/ Woken(s))
      BY <3>1, NotifyEffect
    <3>4. ASSUME NEW t \in 1..Len(slots), t # s
          PROVE  Reading(t)' = Reading(t) /\ InBody(t)' = InBody(t) /\ \A q \in InBody(t) : thread'[q] = thread[q]
      <4>1. CASE thread' = thread
        BY <1>7, <4>1, Zenon
      <4>2. CASE Woken(s)
        <5>1. PICK r \in Readers :
                /\ thread[r].pc = "none" /\ thread'[r].pc = "start" /\ thread'[r].slot = s
                /\ \A q \in Readers : q # r => thread'[q] = thread[q]
          BY <4>2, Zenon DEF Woken
        <5>2. Reading(t)' = Reading(t)
          BY <3>4, <5>1 DEF Reading
        <5>3. InBody(t)' = InBody(t)
          BY <3>4, <5>1 DEF InBody
        <5>4. \A q \in InBody(t) : thread'[q] = thread[q]
          BY <5>1 DEF InBody
        <5>5. QED
          BY <5>2, <5>3, <5>4
      <4>3. QED
        BY <3>3, <4>1, <4>2
    <3>5. \A i \in Ids : i # f.id => told'[i] = told[i]
      BY <1>6, <3>1
    <3>6. ASSUME NEW t \in 1..Len(slots), slots[t].id \notin excused' PROVE InStep(t)'
      <4>1. InStep(t)
        BY <1>2, <2>2, <3>3, <3>6
      <4>2. CASE t = s
        BY <2>7, <3>1, <3>6, <4>1, <4>2, InStepDelivered
      <4>3. CASE t # s
        <5>1. slots'[t] = slots[t]
          BY <3>2, <4>3
        <5>2. slots[t].live => told'[slots[t].id] = told[slots[t].id]
          BY <1>3, <1>5, <2>2, <3>1, <3>5, <4>3
        <5>3. Reading(t)' = Reading(t) /\ InBody(t)' = InBody(t) /\ \A q \in InBody(t) : thread'[q] = thread[q]
          BY <3>4, <4>3
        <5>4. QED
          BY <4>1, <5>1, <5>2, <5>3, InStepKept
      <4>4. QED
        BY <4>2, <4>3
    <3>7. torn' \subseteq excused'
      BY <1>2, <2>2, <3>3
    <3>8. \A i \in Ids : i \notin excused' /\ (\A t \in 1..Len(slots') : slots'[t].id # i) => told'[i] = 0
      BY <1>2, <2>2, <3>1, <3>2, <3>3, <3>5
    <3>9. QED
      BY <1>4, <3>2, <3>6, <3>7, <3>8
  <2>8. QED
    BY <2>1, <2>4, <2>5, <2>6, <2>7 DEF Outcome
<1>15. ASSUME NEW r \in Readers, ReaderStep(r) PROVE Streams'
  <2>1. /\ thread[r].pc # "none" /\ thread[r].slot \in 1..Len(slots)
        /\ OnlyReader(r)
        /\ Moved(r) \/ Read(r) \/ GaveUp(r)
        /\ slots'[thread[r].slot].live = slots[thread[r].slot].live
        /\ UNCHANGED <<mixed, told>>
    BY <1>15, ReaderEffect
  <2>2. PICK s \in 1..Len(slots) : s = thread[r].slot
    BY <2>1
  <2>3. PICK b : Edited(s, b)
    BY <2>1, <2>2, Zenon DEF Moved, Read, GaveUp
  <2>4. /\ 1..Len(slots') = 1..Len(slots)
        /\ \A t \in 1..Len(slots) : slots'[t].id = slots[t].id /\ (t # s => slots'[t] = slots[t])
    BY <2>3, EditedSlots
  <2>5. /\ \A q \in Readers : q # r => thread'[q] = thread[q]
        /\ thread'[r].pc # "none" => thread'[r].slot = s
    BY <2>1, <2>2, Zenon DEF OnlyReader
  <2>6. ASSUME NEW t \in 1..Len(slots), t # s, InStep(t) PROVE InStep(t)'
    <3>1. Reading(t)' = Reading(t)
      BY <2>2, <2>5, <2>6 DEF Reading
    <3>2. InBody(t)' = InBody(t)
      BY <2>2, <2>5, <2>6 DEF InBody
    <3>3. \A q \in InBody(t) : thread'[q] = thread[q]
      BY <2>2, <2>5, <2>6 DEF InBody
    <3>4. QED
      BY <2>1, <2>4, <2>6, <3>1, <3>2, <3>3, InStepKept
  <2>7. excused \subseteq excused'
    BY <2>1, Zenon DEF Moved, Read, GaveUp
  <2>8. slots[s].id \in excused' \/ (InStep(s)' /\ torn' = torn)
    <3>1. CASE slots[s].id \in excused
      BY <2>7, <3>1
    <3>2. CASE slots[s].id \notin excused /\ Read(r)
      BY <1>2, <2>1, <2>2, <3>2, InStepRead
    <3>3. CASE GaveUp(r)
      BY <2>2, <3>3 DEF GaveUp
    <3>4. CASE slots[s].id \notin excused /\ Moved(r)
      <4>1. /\ Edited(s, slots[s].buf) /\ thread[r].pc # "body" /\ thread'[r].pc # "body" /\ torn' = torn
        BY <2>2, <3>4 DEF Moved
      <4>2. Reading(s)' \subseteq Reading(s)
        BY <2>1, <2>2, <2>5 DEF Reading
      <4>3. InBody(s)' = InBody(s)
        BY <2>5, <4>1 DEF InBody
      <4>4. \A q \in InBody(s) : thread'[q] = thread[q]
        BY <2>5, <4>1 DEF InBody
      <4>5. InStep(s) /\ slots'[s].buf = slots[s].buf /\ slots'[s].live = slots[s].live
        BY <1>2, <2>1, <2>2, <3>4, <4>1 DEF Edited
      <4>6. InStep(s)'
        BY <2>1, <2>4, <4>2, <4>3, <4>4, <4>5, InStepKept
      <4>7. QED
        BY <4>1, <4>6
    <3>5. QED
      BY <2>1, <3>1, <3>2, <3>3, <3>4
  <2>9. torn' \subseteq torn \cup {slots[s].id}
    BY <2>1, <2>2 DEF Moved, Read, GaveUp
  <2>10. torn' \subseteq excused'
    BY <1>2, <2>1, <2>7, <2>8, <2>9
  <2>11. \A t \in 1..Len(slots') : slots'[t].id \notin excused' => InStep(t)'
    BY <1>2, <2>1, <2>4, <2>6, <2>7, <2>8
  <2>12. \A i \in Ids : i \notin excused' /\ (\A t \in 1..Len(slots') : slots'[t].id # i) => told'[i] = 0
    BY <1>2, <2>1, <2>4, <2>7
  <2>13. QED
    BY <1>4, <2>10, <2>11, <2>12
<1>16. QED
  BY <1>10, <1>11, <1>12, <1>13, <1>14, <1>15 DEF Next

-----------------------------------------------------------------------------
(* Streams are announced once.                                              *)

\* The frames with a flag on stream id i, and the streams made with that id.
Marks(i) == {k \in DOMAIN sent[i] : sent[i][k] # "nil"}

Uses(i) == {s \in DOMAIN slots : slots[s].id = i}

\* One more of each.
LEMMA OneMore ==
  ASSUME Types, NEW i \in Ids, Cardinality(Marks(i)) = Cardinality(Uses(i)),
         NEW k, k \notin Marks(i), Marks(i)' = Marks(i) \cup {k},
         NEW n, n \notin Uses(i), Uses(i)' = Uses(i) \cup {n}
  PROVE  Cardinality(Marks(i)') = Cardinality(Uses(i)')
<1>1. Marks(i) \subseteq 1..Len(sent[i]) /\ Uses(i) \subseteq 1..Len(slots)
  BY DEF Marks, Uses, Types, RestOK, SlotsOK
<1>2. Len(sent[i]) \in Nat /\ Len(slots) \in Nat
  BY DEF Types, RestOK, SlotsOK
<1>3. IsFiniteSet(1..Len(sent[i])) /\ IsFiniteSet(1..Len(slots))
  BY <1>2, FS_Interval
<1>4. IsFiniteSet(Marks(i)) /\ IsFiniteSet(Uses(i))
  BY <1>1, <1>3, FS_Subset, Zenon
<1>5. /\ Cardinality(Marks(i) \cup {k}) = Cardinality(Marks(i)) + 1
      /\ Cardinality(Uses(i) \cup {n}) = Cardinality(Uses(i)) + 1
  BY <1>4, FS_AddElement
<1>6. QED
  BY <1>5, Zenon

\* A frame without a flag.
LEMMA PlainMarks ==
  ASSUME Types, NEW j \in Ids, sent' = [sent EXCEPT ![j] = Append(@, "nil")], NEW i \in Ids
  PROVE  Marks(i)' = Marks(i)
<1>1. sent \in [Ids -> Seq(Flags)]
  BY DEF Types, RestOK
<1>2. CASE i # j
  <2>1. sent'[i] = sent[i]
    BY <1>1, <1>2
  <2>2. QED
    BY <2>1, Zenon DEF Marks
<1>3. CASE i = j
  <2>1. PICK w \in Seq(Flags) : w = sent[i]
    BY <1>1
  <2>2. sent'[i] = Append(w, "nil")
    BY <1>1, <1>3, <2>1
  <2>3. /\ DOMAIN Append(w, "nil") = DOMAIN w \cup {Len(w) + 1} /\ DOMAIN w = 1..Len(w)
        /\ Append(w, "nil")[Len(w) + 1] = "nil"
        /\ \A k \in DOMAIN w : Append(w, "nil")[k] = w[k]
    OBVIOUS
  <2>4. QED
    BY <2>1, <2>2, <2>3 DEF Marks
<1>4. QED
  BY <1>2, <1>3

\* A stream is opened with a SYN or accepted with an ACK.
LEMMA FlagMarks ==
  ASSUME Types, NEW j \in Ids, NEW flag \in Flags \ {"nil"},
         \/ sent' = [sent EXCEPT ![j] = Append(@, flag)]
         \/ sent' = [sent EXCEPT ![j] = @ \o <<flag, "nil">>],
         NEW i \in Ids
  PROVE  IF i = j THEN \E k : k \notin Marks(i) /\ Marks(i)' = Marks(i) \cup {k} ELSE Marks(i)' = Marks(i)
<1>1. sent \in [Ids -> Seq(Flags)]
  BY DEF Types, RestOK
<1>2. CASE i # j
  <2>1. sent'[i] = sent[i]
    BY <1>1, <1>2
  <2>2. Marks(i)' = Marks(i)
    BY <2>1, Zenon DEF Marks
  <2>3. QED
    BY <1>2, <2>2
<1>3. CASE i = j
  <2>1. PICK w \in Seq(Flags) : w = sent[i]
    BY <1>1
  <2>2. PICK v : v = sent'[i]
    OBVIOUS
  <2>3. PICK n : n = Len(w) + 1
    OBVIOUS
  <2>4. Len(w) \in Nat /\ DOMAIN w = 1..Len(w) /\ n \in Nat /\ n \notin 1..Len(w)
    BY <2>3
  <2>5. /\ \A k \in 1..Len(w) : k \in DOMAIN v /\ v[k] = w[k]
        /\ n \in DOMAIN v /\ v[n] = flag
        /\ \A k \in DOMAIN v : k \in 1..Len(w) \/ k = n \/ v[k] = "nil"
    <3>1. CASE sent' = [sent EXCEPT ![j] = Append(@, flag)]
      <4>1. v = Append(w, flag)
        BY <1>1, <1>3, <2>1, <2>2, <3>1
      <4>2. QED
        BY <2>3, <4>1
    <3>2. CASE sent' = [sent EXCEPT ![j] = @ \o <<flag, "nil">>]
      <4>1. PICK c \in Seq(Flags) : c = <<flag, "nil">> /\ Len(c) = 2 /\ c[1] = flag /\ c[2] = "nil"
        <5>1. "nil" \in Flags /\ flag \in Flags
          BY DEF Flags
        <5>2. PICK c : c = <<flag, "nil">>
          OBVIOUS
        <5>3. c \in Seq(Flags)
          BY <5>1, <5>2
        <5>4. Len(c) = 2 /\ c[1] = flag /\ c[2] = "nil"
          BY <5>2
        <5>5. QED
          BY <5>2, <5>3, <5>4, Zenon
      <4>2. v = w \o c
        BY <1>1, <1>3, <2>1, <2>2, <3>2, <4>1
      <4>3. /\ v \in Seq(Flags) /\ Len(v) = Len(w) + 2
            /\ \A k \in 1..(Len(w) + 2) : v[k] = IF k <= Len(w) THEN w[k] ELSE c[k - Len(w)]
        BY <4>1, <4>2, ConcatProperties
      <4>4. DOMAIN v = 1..(Len(w) + 2)
        BY <4>3
      <4>5. v[n] = c[1] /\ n \in 1..(Len(w) + 2)
        <5>1. n \in 1..(Len(w) + 2) /\ ~(n <= Len(w)) /\ n - Len(w) = 1
          BY <2>3, <2>4
        <5>2. QED
          BY <4>3, <5>1
      <4>6. v[n + 1] = c[2]
        <5>1. PICK m : m = n + 1
          OBVIOUS
        <5>2. m \in 1..(Len(w) + 2) /\ ~(m <= Len(w)) /\ m - Len(w) = 2
          BY <2>3, <2>4, <5>1
        <5>3. v[m] = c[m - Len(w)]
          BY <4>3, <5>2, Zenon
        <5>4. QED
          BY <5>1, <5>2, <5>3, Zenon
      <4>7. \A k \in 1..(Len(w) + 2) : k \in 1..Len(w) \/ k = n \/ k = n + 1
        BY <2>3, <2>4
      <4>8. \A k \in 1..Len(w) : k \in 1..(Len(w) + 2) /\ k <= Len(w)
        BY <2>4
      <4>9. \A k \in 1..Len(w) : k \in DOMAIN v /\ v[k] = w[k]
        BY <4>3, <4>4, <4>8
      <4>10. QED
        BY <4>1, <4>4, <4>5, <4>6, <4>7, <4>9
    <3>3. QED
      BY <3>1, <3>2
  <2>6. Marks(i)' = Marks(i) \cup {n}
    <3>1. Marks(i) = {k \in DOMAIN w : w[k] # "nil"} /\ Marks(i)' = {k \in DOMAIN v : v[k] # "nil"}
      BY <2>1, <2>2, Zenon DEF Marks
    <3>2. QED
      BY <2>4, <2>5, <3>1
  <2>7. n \notin Marks(i)
    BY <2>1, <2>4 DEF Marks
  <2>8. QED
    BY <1>3, <2>6, <2>7
<1>4. QED
  BY <1>2, <1>3

LEMMA EditUses ==
  ASSUME Types, NEW s \in 1..Len(slots), NEW b, Edited(s, b), NEW i
  PROVE  Uses(i)' = Uses(i)
<1>1. /\ 1..Len(slots') = 1..Len(slots)
      /\ \A t \in 1..Len(slots) : slots'[t].id = slots[t].id
  BY EditedSlots
<1>2. DOMAIN slots = 1..Len(slots) /\ DOMAIN slots' = 1..Len(slots')
  BY DEF Types, SlotsOK, Edited
<1>3. QED
  BY <1>1, <1>2, Zenon DEF Uses

LEMMA GrowUses ==
  ASSUME Types, NEW j \in Ids, NEW st, Grown(j, st), NEW i \in Ids
  PROVE  IF i = j THEN \E n : n \notin Uses(i) /\ Uses(i)' = Uses(i) \cup {n} ELSE Uses(i)' = Uses(i)
<1>1. PICK n : n = Len(slots) + 1
  OBVIOUS
<1>2. /\ DOMAIN slots' = DOMAIN slots \cup {n} /\ n \notin DOMAIN slots
      /\ \A t \in DOMAIN slots : slots'[t] = slots[t]
      /\ slots'[n].id = j
  BY <1>1 DEF Types, SlotsOK, Grown
<1>3. n \notin Uses(i)
  BY <1>2 DEF Uses
<1>4. CASE i = j
  <2>1. Uses(i)' = Uses(i) \cup {n}
    BY <1>2, <1>4 DEF Uses
  <2>2. QED
    BY <1>3, <1>4, <2>1
<1>5. CASE i # j
  <2>1. Uses(i)' = Uses(i)
    BY <1>2, <1>5 DEF Uses
  <2>2. QED
    BY <1>5, <2>1
<1>6. QED
  BY <1>4, <1>5

LEMMA AnnouncedStep ==
  ASSUME Types, AnnouncedOnce, [Next]_vars
  PROVE  AnnouncedOnce'
<1>1. \A i \in Ids : Cardinality(Marks(i)) = Cardinality(Uses(i))
  BY Zenon DEF AnnouncedOnce, Marks, Uses
<1>2. SUFFICES ASSUME NEW i \in Ids PROVE Cardinality(Marks(i)') = Cardinality(Uses(i)')
  BY Zenon DEF AnnouncedOnce, Marks, Uses
<1>3. ASSUME sent' = sent PROVE Marks(i)' = Marks(i)
  BY <1>3, Zenon DEF Marks
<1>4. ASSUME slots' = slots PROVE Uses(i)' = Uses(i)
  BY <1>4, Zenon DEF Uses
<1>5. CASE OpenChannel
  <2>1. /\ nextid \in Ids
        /\ \/ Grown(nextid, "syn_sent") /\ sent' = [sent EXCEPT ![nextid] = Append(@, "syn")]
           \/ slots' = slots /\ sent' = sent
    BY <1>5, OpenEffect
  <2>2. CASE slots' = slots /\ sent' = sent
    BY <1>1, <1>3, <1>4, <2>2, Zenon
  <2>3. CASE Grown(nextid, "syn_sent") /\ sent' = [sent EXCEPT ![nextid] = Append(@, "syn")]
    <3>1. IF i = nextid THEN \E n : n \notin Uses(i) /\ Uses(i)' = Uses(i) \cup {n} ELSE Uses(i)' = Uses(i)
      BY <2>1, <2>3, GrowUses
    <3>2. "syn" \in Flags \ {"nil"}
      BY DEF Flags
    <3>3. IF i = nextid THEN \E k : k \notin Marks(i) /\ Marks(i)' = Marks(i) \cup {k} ELSE Marks(i)' = Marks(i)
      BY <2>1, <2>3, <3>2, FlagMarks
    <3>4. QED
      BY <1>1, <3>1, <3>3, OneMore, Zenon
  <2>4. QED
    BY <2>1, <2>2, <2>3
<1>6. CASE WriteSession
  <2>1. NextId \in Ids /\ sent' = [sent EXCEPT ![NextId] = Append(@, "nil")] /\ slots' = slots
    BY <1>6 DEF WriteSession
  <2>2. Marks(i)' = Marks(i)
    BY <2>1, PlainMarks
  <2>3. QED
    BY <1>1, <1>4, <2>1, <2>2, Zenon
<1>7. CASE CloseYamux \/ UNCHANGED vars
  <2>1. slots' = slots /\ sent' = sent
    BY <1>7 DEF CloseYamux, vars, session, history, bounds
  <2>2. QED
    BY <1>1, <1>3, <1>4, <2>1, Zenon
<1>8. ASSUME NEW s \in DOMAIN slots, WriteChannel(s) PROVE Cardinality(Marks(i)') = Cardinality(Uses(i)')
  <2>1. /\ s \in 1..Len(slots) /\ Edited(s, slots[s].buf)
        /\ sent' = [sent EXCEPT ![slots[s].id] = Append(@, "nil")]
    BY <1>8, WriteEffect
  <2>2. slots[s].id \in Ids
    BY <2>1, SlotFields DEF Types
  <2>3. Marks(i)' = Marks(i)
    BY <2>1, <2>2, PlainMarks
  <2>4. Uses(i)' = Uses(i)
    BY <2>1, EditUses
  <2>5. QED
    BY <1>1, <2>3, <2>4, Zenon
<1>9. ASSUME NEW f \in FrameSet, Receive(f) PROVE Cardinality(Marks(i)') = Cardinality(Uses(i)')
  <2>1. Outcome(f)
    BY <1>9, ReceiveEffect
  <2>2. CASE Ignored \/ Refused(f)
    <3>1. slots' = slots /\ sent' = sent
      BY <2>2 DEF Ignored, Refused
    <3>2. QED
      BY <1>1, <1>3, <1>4, <3>1, Zenon
  <2>3. CASE f.id \in Ids /\ Accepted(f)
    <3>1. Grown(f.id, "est") /\ sent' = [sent EXCEPT ![f.id] = @ \o <<"ack", "nil">>]
      BY <2>3 DEF Accepted
    <3>2. IF i = f.id THEN \E n : n \notin Uses(i) /\ Uses(i)' = Uses(i) \cup {n} ELSE Uses(i)' = Uses(i)
      BY <2>3, <3>1, GrowUses
    <3>3. "ack" \in Flags \ {"nil"}
      BY DEF Flags
    <3>4. IF i = f.id THEN \E k : k \notin Marks(i) /\ Marks(i)' = Marks(i) \cup {k} ELSE Marks(i)' = Marks(i)
      BY <2>3, <3>1, <3>3, FlagMarks
    <3>5. QED
      BY <1>1, <3>2, <3>4, OneMore, Zenon
  <2>4. ASSUME NEW s \in 1..Len(slots), Delivered(s, f) PROVE Cardinality(Marks(i)') = Cardinality(Uses(i)')
    <3>1. Edited(s, slots[s].buf \o Payload(f)) /\ sent' = sent
      BY <2>4 DEF Delivered
    <3>2. Uses(i)' = Uses(i)
      BY <3>1, EditUses
    <3>3. QED
      BY <1>1, <1>3, <3>1, <3>2, Zenon
  <2>5. QED
    BY <2>1, <2>2, <2>3, <2>4 DEF Outcome
<1>10. ASSUME NEW r \in Readers, ReaderStep(r) PROVE Cardinality(Marks(i)') = Cardinality(Uses(i)')
  <2>1. /\ thread[r].slot \in 1..Len(slots)
        /\ Moved(r) \/ Read(r) \/ GaveUp(r)
        /\ sent' = sent
    BY <1>10, ReaderEffect
  <2>2. \E b : Edited(thread[r].slot, b)
    BY <2>1, Zenon DEF Moved, Read, GaveUp
  <2>3. Uses(i)' = Uses(i)
    BY <2>1, <2>2, EditUses
  <2>4. QED
    BY <1>1, <1>3, <2>1, <2>3, Zenon
<1>11. QED
  BY <1>5, <1>6, <1>7, <1>8, <1>9, <1>10 DEF Next

-----------------------------------------------------------------------------
(* The theorems.                                                            *)

LEMMA InitIInv ==
  ASSUME Init
  PROVE  IInv
<1>1. slots = <<>> /\ Len(slots) = 0
  BY DEF Init
<1>2. Types
  <2>1. SlotsOK
    BY <1>1, YamuxAssumption DEF SlotsOK
  <2>2. thread \in [Readers -> ThreadStates] /\ \A r \in Readers : thread[r].pc = "none"
    <3>1. Idle \in ThreadStates /\ Idle.pc = "none"
      BY YamuxAssumption DEF Idle, ThreadStates
    <3>2. QED
      BY <3>1 DEF Init
  <2>3. sent \in [Ids -> Seq(Flags)]
    BY DEF Init
  <2>4. RestOK
    BY <2>2, <2>3 DEF Init, RestOK
  <2>5. QED
    BY <2>1, <2>2, <2>4 DEF Types, ReadersOK
<1>3. Sides
  <2>1. ~Theirs(nextid)
    BY YamuxAssumption DEF Init, Theirs
  <2>2. QED
    BY <1>1, <2>1 DEF Sides
<1>4. Ordered
  BY <1>1 DEF Ordered
<1>5. Streams
  BY <1>1 DEF Init, Streams
<1>6. AnnouncedOnce
  <2>1. ASSUME NEW i \in Ids PROVE Marks(i) = {} /\ Uses(i) = {}
    BY <1>1 DEF Init, Marks, Uses
  <2>2. \A i \in Ids : Cardinality(Marks(i)) = Cardinality(Uses(i))
    BY <2>1
  <2>3. QED
    BY <2>2, Zenon DEF AnnouncedOnce, Marks, Uses
<1>7. QED
  BY <1>2, <1>3, <1>4, <1>5, <1>6 DEF IInv

\* The inductive invariant.
THEOREM Invariance == Spec => []IInv
<1>1. Init => IInv
  BY InitIInv
<1>2. IInv /\ [Next]_vars => IInv'
  <2>1. SUFFICES ASSUME IInv, [Next]_vars PROVE IInv'
    OBVIOUS
  <2>2. Types /\ Sides /\ Ordered /\ Streams /\ AnnouncedOnce
    BY <2>1 DEF IInv
  <2>3. Types'
    BY <2>1, <2>2, TypesStep
  <2>4. Sides' /\ Ordered' /\ AnnouncedOnce'
    BY <2>1, <2>2, SidesStep, OrderedStep, AnnouncedStep
  <2>5. Streams'
    BY <2>1, <2>2, <2>3, StreamsStep
  <2>6. QED
    BY <2>3, <2>4, <2>5 DEF IInv
<1>3. QED
  BY <1>1, <1>2, PTL DEF Spec

LEMMA TypesGiveTypeOK ==
  ASSUME Types
  PROVE  TypeOK
<1>1. DOMAIN slots = 1..Len(slots) /\ Len(slots) <= Backlog
  BY DEF Types, SlotsOK
<1>2. \A s \in DOMAIN slots :
        /\ slots[s].id \in Ids
        /\ slots[s].state \in {"inited", "syn_sent", "syn_recv", "est"}
        /\ slots[s].buf \in Seq(Nat)
        /\ slots[s].live \in BOOLEAN /\ slots[s].running \in BOOLEAN
  BY <1>1, SlotFields DEF Types
<1>3. QED
  BY <1>1, <1>2, Zenon DEF TypeOK, Types, RestOK

\* The table of streams never outgrows the backlog, and every variable keeps its
\* type: yamux_channel_new writes inside the array, whatever the peer opens.
THEOREM TypeCorrect == Spec => []TypeOK
<1>1. IInv => TypeOK
  BY TypesGiveTypeOK DEF IInv
<1>2. QED
  BY <1>1, Invariance, PTL

\* While libp2p_yamux_get_next_id is not used, a frame has one open stream it can
\* be for, and the streams we opened have ids of our side.
THEOREM IdsStayApart == Spec => []IdsApart
<1>1. IInv => IdsApart
  <2>1. SUFFICES ASSUME IInv PROVE IdsApart
    OBVIOUS
  <2>2. Types /\ Sides
    BY <2>1 DEF IInv
  <2>3. DOMAIN slots = 1..Len(slots)
    BY <2>2 DEF Types, SlotsOK
  <2>4. TypeOK
    BY <2>2, TypesGiveTypeOK
  <2>5. ~mixed => /\ \A s, t \in DOMAIN slots :
                       slots[s].live /\ slots[t].live /\ slots[s].id = slots[t].id => s = t
                  /\ \A s \in DOMAIN slots : slots[s].state = "syn_sent" => ~Theirs(slots[s].id)
    BY <2>2, <2>3, Zenon DEF Sides
  <2>6. QED
    BY <2>4, <2>5, Zenon DEF IdsApart
<1>2. QED
  BY <1>1, Invariance, PTL

\* As many SYN and ACK flags were sent on an id as streams were made with it,
\* however many frames get_flags was asked for.
THEOREM OneFlagPerStream == Spec => []AnnouncedOnce
<1>1. IInv => AnnouncedOnce
  BY DEF IInv
<1>2. QED
  BY <1>1, Invariance, PTL

\* The tokens of a channel's buffer ascend, and a reader puts a message together
\* from the wrong tokens only on a stream with an excuse: two readers, a time-out
\* in the middle of a message, or a payload refused.
THEOREM MessagesWhole == Spec => []BytesInOrder
<1>1. IInv => BytesInOrder
  <2>1. SUFFICES ASSUME IInv PROVE BytesInOrder
    OBVIOUS
  <2>2. DOMAIN slots = 1..Len(slots)
    BY <2>1 DEF IInv, Types, SlotsOK
  <2>3. \A s \in DOMAIN slots : \A k \in 1 .. Len(slots[s].buf) - 1 :
          slots[s].buf[k] < slots[s].buf[k + 1]
    BY <2>1, <2>2 DEF IInv, Ordered
  <2>4. ~mixed => torn \subseteq excused
    BY <2>1, Zenon DEF IInv, Streams
  <2>5. QED
    BY <2>3, <2>4 DEF BytesInOrder
<1>2. QED
  BY <1>1, Invariance, PTL
=============================================================================
