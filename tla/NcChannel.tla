----------------------------- MODULE NcChannel -----------------------------
(***************************************************************************)
(* The data path of one channel: netchan_chan_write, netchan_send_next,    *)
(* netchan_service (the retransmit loop), process_data, process_ack,       *)
(* process_window_update and netchan_chan_read of src/netchan.c.           *)
(*                                                                         *)
(* Two connection objects hold the two ends of an open channel.  tx is the *)
(* end with role 0, rx the end with role 1; each has the message-buffer    *)
(* pool of its own connection.  Datagrams between them may be lost,        *)
(* duplicated and reordered.                                               *)
(*                                                                         *)
(* Abstractions.  A length is a number of fragment payloads, so a message  *)
(* of length n travels in n fragments.  A fragment's bytes are the index   *)
(* (0, 1, 2, ...) of the write it came from, and a received message is the *)
(* sequence of its fragments' bytes.  The pool is the count of its free    *)
(* buffers.  Time is abstracted to which timers a call of netchan_service  *)
(* finds expired.  A call that returns an error and changes nothing is a   *)
(* stuttering step.                                                        *)
(***************************************************************************)
EXTENDS Integers, Sequences, FiniteSets

CONSTANTS
    ChanType,       \* "RELIABLE", "UNRELIABLE" or "STREAM"
    SeqMod,         \* number of sequence numbers: 2^16
    OutSlots,       \* NC_OUTGOING_SLOTS
    RecvSlots,      \* NC_RECV_QUEUE
    ReorderSlots,   \* NC_REORDER_SLOTS
    FragSlots,      \* NC_FRAG_SLOTS
    PoolBufs,       \* NC_POOL_BUFS
    EvSlots,        \* NC_EVENT_QUEUE
    MaxFrags,       \* NC_MAX_FRAGS
    MaxMsg,         \* NC_MAX_MSG, in fragment payloads
    MaxAttempts,    \* NC_MAX_RT_ATTEMPTS
    Window,         \* cfg.chan_window, in fragment payloads
    FlightMod,      \* bytes_in_flight is a uint32_t: 2^32
    Lens,           \* lengths the application writes
    ReadSizes,      \* sizes of the buffers the application reads into
    MaxWrites,      \* bound: sequence numbers consumed by netchan_chan_write
    MaxAge          \* bound: how many writes a datagram can outlive

ASSUME TypeAssumption == ChanType \in {"RELIABLE", "UNRELIABLE", "STREAM"}
ASSUME SlotAssumption ==
    /\ OutSlots \in Nat \ {0, 1}
    /\ RecvSlots \in Nat \ {0, 1}
    /\ ReorderSlots \in Nat \ {0}
    /\ FragSlots \in Nat \ {0}
    /\ PoolBufs \in Nat \ {0}
    /\ EvSlots \in Nat \ {0}
ASSUME SeqAssumption == SeqMod \in Nat \ {0, 1}
ASSUME ReorderAssumption ==
    /\ SeqMod % ReorderSlots = 0
    /\ 2 * ReorderSlots <= SeqMod
ASSUME LimitAssumption ==
    /\ MaxFrags \in Nat \ {0}
    /\ MaxMsg \in Nat \ {0}
    /\ MaxAttempts \in Nat \ {0}
    /\ Window \in Nat
    /\ FlightMod \in Nat \ {0} /\ Window < FlightMod
    /\ Lens \subseteq 1 .. MaxMsg
    /\ ReadSizes \subseteq Nat
    /\ MaxWrites \in Nat
    /\ MaxAge \in Nat
\* frag_total is a uint8_t that netchan_chan_write computes before it compares
\* it with NC_MAX_FRAGS: no message is so long that the count wraps.
ASSUME FragAssumption == MaxMsg < 256

VARIABLES
    tx,         \* struct netchan_chan at the sender, and its pool and events
    rx,         \* the same at the receiver
    dnet,       \* packets with a DATA frame that were ever sent
    fnet        \* packets with ACK and WINDOW_UPDATE frames ever sent

vars == <<tx, rx, dnet, fnet>>

-----------------------------------------------------------------------------
(* Sequence numbers: uint16_t, compared through a cast to int16_t.         *)

Seqs == 0 .. SeqMod - 1
SeqAdd(s, i) == (s + i) % SeqMod
SeqDiff(a, b) == LET d == (a - b) % SeqMod
                 IN  IF 2 * d >= SeqMod THEN d - SeqMod ELSE d

-----------------------------------------------------------------------------
(* struct nc_outgoing, struct nc_reorder, struct nc_frag_asm               *)

Outs == 0 .. OutSlots - 1
Reorders == 0 .. ReorderSlots - 1
FragSlotIds == 0 .. FragSlots - 1
FragIds == 0 .. MaxFrags - 1
NoPart == -1

\* msg is the index of the write; len is also frag_total.  sent_ms # 0 is
\* attempts > 0: both are set by the first transmission and never cleared.
Outgoing == [seq : Seqs, msg : Nat, len : 0 .. MaxFrags, attempts : 0 .. MaxAttempts,
             frag_sent : 0 .. MaxFrags, active : BOOLEAN]
NoOutgoing == [seq |-> 0, msg |-> 0, len |-> 0, attempts |-> 0,
               frag_sent |-> 0, active |-> FALSE]

Payload == Seq(Nat)
Reorder == [seq : Seqs, data : Payload, valid : BOOLEAN]
NoReorder == [seq |-> 0, data |-> << >>, valid |-> FALSE]

\* parts[i] is NoPart where bit i of the bitmask is clear.
FragAsm == [seq : Seqs, total : 0 .. MaxFrags,
            parts : [FragIds -> Nat \cup {NoPart}], active : BOOLEAN]
NoFrag == [seq |-> 0, total |-> 0,
           parts |-> [i \in FragIds |-> NoPart], active |-> FALSE]

\* state 1 is open and 3 is dead.  The channel starts open, with the receiver's
\* first WINDOW_UPDATE taken; opening and closing it are not part of this module.
Init ==
    /\ tx = [state |-> "open", send_seq |-> 0, send_window |-> Window,
             bytes_in_flight |-> 0, outgoing |-> [i \in Outs |-> NoOutgoing],
             out_head |-> 0, out_tail |-> 0, free |-> PoolBufs, events |-> 0,
             written |-> << >>]
    /\ rx = [recv_seq |-> 0, queue |-> << >>, buffered |-> 0,
             reorder |-> [i \in Reorders |-> NoReorder],
             frags |-> [i \in FragSlotIds |-> NoFrag],
             free |-> PoolBufs, events |-> 0, need_ack |-> FALSE, ack_seq |-> 0,
             need_window_update |-> FALSE, log |-> << >>, passed |-> 0]
    /\ dnet = {} /\ fnet = {}

\* Mutant of EvPush: the ring is not tested for room.
EvPushUnbounded(r, n) == [r EXCEPT !.events = @ + n]

\* ev_push: an event that finds the ring full is dropped.
EvPush(r, n) ==
    [r EXCEPT !.events = IF @ + n > EvSlots - 1 THEN EvSlots - 1 ELSE @ + n]

-----------------------------------------------------------------------------
(* The sender.                                                             *)

Step(i) == (i + 1) % OutSlots
\* The slots in ring order from out_head: the d-th one.
OutAt(h, d) == (h + d) % OutSlots
OutCount(t) == (t.out_tail - t.out_head) % OutSlots

\* netchan_chan_write of a message of length len.  A message of too many
\* fragments is refused after its sequence number and buffer were taken:
\* the buffer is given back, the sequence number is not.
Write(len) ==
    /\ tx.state # "dead"
    /\ ~ (ChanType = "RELIABLE" /\ tx.state = "open"
          /\ tx.bytes_in_flight + len > tx.send_window)
    /\ Step(tx.out_tail) # tx.out_head
    /\ tx.free > 0
    /\ Len(tx.written) < MaxWrites
    /\ tx' = IF len > MaxFrags
             THEN [tx EXCEPT !.send_seq = SeqAdd(@, 1), !.written = Append(@, len),
                             !.outgoing[tx.out_tail] = NoOutgoing]
             ELSE [tx EXCEPT !.send_seq = SeqAdd(@, 1), !.written = Append(@, len),
                             !.free = @ - 1,
                             !.outgoing[tx.out_tail] =
                                 [seq |-> tx.send_seq, msg |-> Len(tx.written), len |-> len,
                                  attempts |-> 0, frag_sent |-> 0, active |-> TRUE],
                             !.bytes_in_flight = IF ChanType = "RELIABLE"
                                                 THEN (@ + len) % FlightMod ELSE @,
                             !.out_tail = Step(@)]
    /\ UNCHANGED <<rx, dnet, fnet>>

\* The loop at the end of process_ack (and of netchan_send_next) that moves
\* out_head past the slots no longer active, as far as out_tail.
AdvanceHead(t) ==
    LET inactive(d) == ~ t.outgoing[OutAt(t.out_head, d)].active
        passed == {d \in 0 .. OutCount(t) - 1 : \A e \in 0 .. d : inactive(e)}
    IN  [t EXCEPT !.out_head = OutAt(@, Cardinality(passed))]

\* chan_next_sendable: offsets from out_head of entries with fragments to send.
Sendable == {d \in 0 .. OutCount(tx) - 1 :
                LET o == tx.outgoing[OutAt(tx.out_head, d)]
                IN  o.active /\ o.frag_sent < o.len}

\* Mutant of Sent: a retransmission starts the count of attempts again.
SentResets(o) == [o EXCEPT !.frag_sent = @ + 1, !.attempts = 1]

\* An entry after one more fragment of it was sent.  The first transmission is
\* attempt 1; the others are counted by netchan_service.
Sent(o) == [o EXCEPT !.frag_sent = @ + 1, !.attempts = IF @ = 0 THEN 1 ELSE @]

\* netchan_send_next at the sender: one fragment of the first entry that has
\* one to send.  An unreliable message is forgotten with its last fragment.
SendData ==
    /\ tx.state = "open"
    /\ \E d \in Sendable :
         /\ \A e \in Sendable : d <= e
         /\ LET i == OutAt(tx.out_head, d)
                o == tx.outgoing[i]
                s == Sent(o)
            IN  /\ dnet' = dnet \cup {[seq |-> o.seq, frag_idx |-> o.frag_sent,
                                       frag_total |-> o.len, data |-> o.msg]}
                /\ tx' = IF ChanType = "UNRELIABLE" /\ s.frag_sent >= s.len
                         THEN AdvanceHead([tx EXCEPT !.outgoing[i] = [s EXCEPT !.active = FALSE],
                                                     !.free = @ + 1])
                         ELSE [tx EXCEPT !.outgoing[i] = s]
    /\ UNCHANGED <<rx, fnet>>

\* The retransmit loop of netchan_service, when the timers of the slots in
\* expired have run out.  The loop goes up the slots and breaks at the first
\* one that has no attempt left, which declares the channel dead.
Service(expired) ==
    /\ ChanType = "RELIABLE"
    /\ expired # {}
    /\ \A i \in expired : tx.outgoing[i].active /\ tx.outgoing[i].attempts > 0
    /\ LET spent == {i \in expired : tx.outgoing[i].attempts >= MaxAttempts}
           again == {i \in expired : \A j \in spent : i < j}
           t == [tx EXCEPT !.outgoing = [i \in Outs |->
                    IF i \in again
                    THEN [tx.outgoing[i] EXCEPT !.frag_sent = 0, !.attempts = @ + 1]
                    ELSE tx.outgoing[i]]]
       IN  tx' = IF spent = {} THEN t
                 ELSE EvPush([t EXCEPT !.state = "dead"], 1)
    /\ UNCHANGED <<rx, dnet, fnet>>

\* Mutants of AckedSlots: the entries already released counted again, the operands
\* of the comparison swapped.
AckedSlotsAgain(t, acked_seq) ==
    {i \in Outs : SeqDiff(t.outgoing[i].seq, acked_seq) <= 0}
AckedSlotsSwapped(t, acked_seq) ==
    {i \in Outs : t.outgoing[i].active /\ SeqDiff(acked_seq, t.outgoing[i].seq) <= 0}

\* process_ack: every active entry up to acked_seq is released.
AckedSlots(t, acked_seq) ==
    {i \in Outs : t.outgoing[i].active /\ SeqDiff(t.outgoing[i].seq, acked_seq) <= 0}
\* The total length of the entries in S, as a count of (entry, unit) pairs.
SumLen(out, S) ==
    Cardinality({u \in S \X (1 .. MaxFrags) : u[2] <= out[u[1]].len})
ProcessAck(t, acked_seq) ==
    LET S == AckedSlots(t, acked_seq)
    IN  AdvanceHead(
          [t EXCEPT !.outgoing = [i \in Outs |->
                        IF i \in S THEN [t.outgoing[i] EXCEPT !.active = FALSE]
                        ELSE t.outgoing[i]],
                    !.bytes_in_flight = (@ - SumLen(t.outgoing, S)) % FlightMod,
                    !.free = @ + Cardinality(S)])

\* netchan_feed at the sender of a packet from the receiver: its ACK frame,
\* then its WINDOW_UPDATE frame.  The packet stays in fnet: it may arrive again.
RecvFeedback(p) ==
    /\ Len(tx.written) - p.age <= MaxAge
    /\ LET t == IF p.has_ack THEN ProcessAck(tx, p.ack_seq) ELSE tx
       IN  tx' = IF p.has_window THEN [t EXCEPT !.send_window = p.window] ELSE t
    /\ UNCHANGED <<rx, dnet, fnet>>

\* netchan_poll at the sender: takes a NETCHAN_EV_CHAN_CLOSE off its ring.
PollSender ==
    /\ tx.events > 0
    /\ tx' = [tx EXCEPT !.events = @ - 1]
    /\ UNCHANGED <<rx, dnet, fnet>>

-----------------------------------------------------------------------------
(* The receiver.                                                           *)

\* The total length of a sequence of payloads, counted the same way.
SumPayload(q) ==
    Cardinality({u \in (1 .. Len(q)) \X (1 .. MaxFrags) : u[2] <= Len(q[u[1]])})

\* chan_recv_enqueue of the messages in q, none of which is refused.  log is the
\* history of what an ordered channel has queued.
Append2Queue(r, q) ==
    [r EXCEPT !.queue = @ \o q, !.buffered = (@ + SumPayload(q)) % FlightMod,
              !.free = @ - Len(q),
              !.log = IF ChanType = "UNRELIABLE" THEN @ ELSE @ \o q]

QueueRoom(r) == RecvSlots - 1 - Len(r.queue)

\* chan_recv_enqueue: a full queue or an empty pool drops the message.  No
\* caller looks at the result: a NETCHAN_EV_DATA is pushed either way.
Enqueue(r, data) ==
    EvPush(IF QueueRoom(r) > 0 /\ r.free > 0 THEN Append2Queue(r, <<data>>) ELSE r, 1)

\* reorder[s % NC_REORDER_SLOTS] holds the message with sequence number s.
ReorderSlot(s) == s % ReorderSlots
Held(r, s) == r.reorder[ReorderSlot(s)].valid /\ r.reorder[ReorderSlot(s)].seq = s

\* The run of held messages from recv_seq on, and the slots they are in.
RunSet(r) == {i \in 0 .. ReorderSlots - 1 :
                \A j \in 0 .. i : Held(r, SeqAdd(r.recv_seq, j))}
RunLen(r) == Cardinality(RunSet(r))
RunSlot(r, i) == ReorderSlot(SeqAdd(r.recv_seq, i))
Run(r) == [i \in 1 .. RunLen(r) |-> r.reorder[RunSlot(r, i - 1)].data]
RunSlots(r) == {RunSlot(r, i) : i \in 0 .. RunLen(r) - 1}

\* What of the run reaches the queue.  Each message is copied to a fresh pool
\* buffer before its own is given back, so with an empty pool the first is lost
\* and the others follow in the buffer it gave back; a full queue loses the rest.
RunKept(r) ==
    LET first == IF r.free = 0 THEN 2 ELSE 1
        last == IF RunLen(r) - first >= QueueRoom(r) THEN first + QueueRoom(r) - 1
                ELSE RunLen(r)
    IN  SubSeq(Run(r), first, last)

\* chan_deliver_reordered: the whole run leaves the reorder buffer.
DeliverReordered(r) ==
    EvPush([Append2Queue(r, RunKept(r)) EXCEPT
                !.free = r.free + RunLen(r) - Len(RunKept(r)),
                !.reorder = [s \in Reorders |-> IF s \in RunSlots(r) THEN NoReorder
                                                ELSE r.reorder[s]],
                !.recv_seq = SeqAdd(@, RunLen(r)), !.passed = @ + RunLen(r)],
           RunLen(r))

\* Mutant of Accept: an old message is held like a new one.
AcceptHoldsOld(r, seq, data) ==
    IF seq = r.recv_seq
    THEN DeliverReordered([Enqueue(r, data) EXCEPT !.recv_seq = SeqAdd(@, 1),
                                                   !.passed = @ + 1])
    ELSE IF /\ SeqDiff(seq, r.recv_seq) < ReorderSlots
            /\ ~ r.reorder[ReorderSlot(seq)].valid
            /\ r.free > 0
    THEN [r EXCEPT !.free = @ - 1,
                   !.reorder[ReorderSlot(seq)] =
                       [seq |-> seq, data |-> data, valid |-> TRUE]]
    ELSE r

\* Mutant of Accept: a message that is ahead is delivered like the next one.
AcceptAhead(r, seq, data) ==
    LET d == SeqDiff(seq, r.recv_seq)
    IN  IF d >= 0
        THEN DeliverReordered([Enqueue(r, data) EXCEPT !.recv_seq = SeqAdd(@, 1),
                                                       !.passed = @ + 1])
        ELSE r

\* A complete message of a reliable channel: delivered if it is the next one,
\* held if it is ahead by less than the reorder buffer, dropped otherwise.
Accept(r, seq, data) ==
    LET d == SeqDiff(seq, r.recv_seq)
    IN  IF seq = r.recv_seq
        THEN DeliverReordered([Enqueue(r, data) EXCEPT !.recv_seq = SeqAdd(@, 1),
                                                       !.passed = @ + 1])
        ELSE IF /\ d > 0 /\ d < ReorderSlots
                /\ ~ r.reorder[ReorderSlot(seq)].valid
                /\ r.free > 0
        THEN [r EXCEPT !.free = @ - 1,
                       !.reorder[ReorderSlot(seq)] =
                           [seq |-> seq, data |-> data, valid |-> TRUE]]
        ELSE r

\* Mutant of FragFind: the sequence number is not compared.
FragFindAny(r, seq) == {i \in FragSlotIds : r.frags[i].active}

\* frag_find, then frag_alloc: the slots that can take a fragment of seq.
FragFind(r, seq) == {i \in FragSlotIds : r.frags[i].active /\ r.frags[i].seq = seq}
FragAlloc(r) == {i \in FragSlotIds : r.free > 0 /\ ~ r.frags[i].active}
Lowest(S) == {i \in S : \A j \in S : i <= j}

\* A DATA frame of a fragmented message.  The last missing fragment completes
\* the message, and the reassembly slot is freed after the delivery.
Reassemble(r, f) ==
    LET found == FragFind(r, f.seq)
        S == Lowest(IF found # {} THEN found ELSE FragAlloc(r))
        i == CHOOSE i \in S : TRUE
        asm == IF found # {} THEN r.frags[i]
               ELSE [NoFrag EXCEPT !.seq = f.seq, !.total = f.frag_total, !.active = TRUE]
        r1 == IF found # {} THEN r ELSE [r EXCEPT !.frags[i] = asm, !.free = @ - 1]
        got == [asm EXCEPT !.parts[f.frag_idx] = f.data]
        whole == [k \in 1 .. got.total |-> got.parts[k - 1]]
        fresh == f.frag_idx < asm.total /\ asm.parts[f.frag_idx] = NoPart
        done == \A k \in 0 .. got.total - 1 : got.parts[k] # NoPart
        r2 == IF ChanType = "UNRELIABLE" THEN Enqueue(r1, whole)
              ELSE Accept(r1, f.seq, whole)
    IN  IF S = {} THEN r
        ELSE IF ~ fresh THEN r1
        ELSE IF ~ done THEN [r1 EXCEPT !.frags[i] = got]
        ELSE [r2 EXCEPT !.frags[i] = NoFrag, !.free = @ + 1]

\* process_data.  An unreliable channel acknowledges nothing; the others answer
\* every DATA frame with the last sequence number passed, or 0 before the first.
ProcessData(r, f) ==
    IF ChanType = "UNRELIABLE"
    THEN IF f.frag_total <= 1 THEN Enqueue(r, <<f.data>>) ELSE Reassemble(r, f)
    ELSE LET a == IF f.frag_total <= 1 THEN Accept(r, f.seq, <<f.data>>)
                  ELSE Reassemble(r, f)
         IN  [a EXCEPT !.need_ack = TRUE,
                       !.ack_seq = IF a.recv_seq > 0 THEN a.recv_seq - 1 ELSE 0]

\* netchan_feed at the receiver; the packet stays in dnet, so it may come again.
RecvData(f) ==
    /\ Len(tx.written) - f.data <= MaxAge
    /\ rx' = ProcessData(rx, f)
    /\ UNCHANGED <<tx, dnet, fnet>>

\* netchan_send_next at the receiver: the pending ACK and WINDOW_UPDATE.
SendFeedback ==
    /\ rx.need_ack \/ rx.need_window_update
    /\ fnet' = fnet \cup
         {[has_ack |-> rx.need_ack, ack_seq |-> IF rx.need_ack THEN rx.ack_seq ELSE 0,
           has_window |-> rx.need_window_update,
           window |-> IF rx.need_window_update /\ Window > rx.buffered
                      THEN Window - rx.buffered ELSE 0,
           age |-> rx.passed]}
    /\ rx' = [rx EXCEPT !.need_ack = FALSE, !.need_window_update = FALSE]
    /\ UNCHANGED <<tx, dnet>>

\* What a read into a buffer of buflen copies.
Taken(r, buflen) ==
    IF Len(Head(r.queue)) < buflen THEN Len(Head(r.queue)) ELSE buflen
\* Mutant of Read: the buffer is not given back to the pool.
ReadLeaks(buflen) ==
    /\ rx.queue # << >>
    /\ rx' = [rx EXCEPT !.queue = Tail(@),
                        !.buffered = (@ - Taken(rx, buflen)) % FlightMod,
                        !.need_window_update = TRUE]
    /\ UNCHANGED <<tx, dnet, fnet>>

\* netchan_chan_read into a buffer of buflen: the message leaves the queue, but
\* recv_buffered goes down only by what the buffer could hold.
Read(buflen) ==
    /\ rx.queue # << >>
    /\ rx' = [rx EXCEPT !.queue = Tail(@), !.free = @ + 1,
                        !.buffered = (@ - Taken(rx, buflen)) % FlightMod,
                        !.need_window_update = TRUE]
    /\ UNCHANGED <<tx, dnet, fnet>>

\* netchan_poll at the receiver: takes a NETCHAN_EV_DATA off its ring.
PollReceiver ==
    /\ rx.events > 0
    /\ rx' = [rx EXCEPT !.events = @ - 1]
    /\ UNCHANGED <<tx, dnet, fnet>>

-----------------------------------------------------------------------------
Next ==
    \/ \E len \in Lens : Write(len)
    \/ SendData
    \/ \E expired \in SUBSET Outs : Service(expired)
    \/ \E p \in fnet : RecvFeedback(p)
    \/ PollSender
    \/ \E f \in dnet : RecvData(f)
    \/ SendFeedback
    \/ \E buflen \in ReadSizes : Read(buflen)
    \/ PollReceiver

Spec == Init /\ [][Next]_vars

-----------------------------------------------------------------------------
(* What the data path must keep.                                           *)

DataPacket == [seq : Seqs, frag_idx : FragIds, frag_total : 1 .. MaxFrags, data : Nat]
Feedback == [has_ack : BOOLEAN, ack_seq : Seqs, has_window : BOOLEAN,
             window : 0 .. Window, age : Nat]
TxType == [state : {"open", "dead"}, send_seq : Seqs, send_window : 0 .. Window,
           bytes_in_flight : 0 .. FlightMod - 1, outgoing : [Outs -> Outgoing],
           out_head : Outs, out_tail : Outs, free : Nat, events : 0 .. EvSlots - 1,
           written : Seq(Nat)]
RxType == [recv_seq : Seqs, queue : Seq(Payload), buffered : 0 .. FlightMod - 1,
           reorder : [Reorders -> Reorder], frags : [FragSlotIds -> FragAsm],
           free : Nat, events : 0 .. EvSlots - 1, need_ack : BOOLEAN, ack_seq : Seqs,
           need_window_update : BOOLEAN, log : Seq(Payload), passed : Nat]

\* Every field of the two channel objects and every frame keeps its C type
\* and stays inside its array bounds.
TypeOK ==
    /\ tx \in TxType
    /\ rx \in RxType /\ QueueRoom(rx) \in Nat
    /\ dnet \subseteq DataPacket
    /\ fnet \subseteq Feedback

ActiveOut(t) == {i \in Outs : t.outgoing[i].active}
HeldSlots(r) == {i \in Reorders : r.reorder[i].valid}
ActiveFrags(r) == {i \in FragSlotIds : r.frags[i].active}

\* Each pool buffer is free or belongs to exactly one slot: no path through
\* write, ack, reassembly, reordering, overflow and read loses one (pool_get
\* without pool_put) or gives one back twice.
TxPool(t) == t.free + Cardinality(ActiveOut(t)) = PoolBufs
RxPool(r) == r.free + Len(r.queue) + Cardinality(HeldSlots(r))
             + Cardinality(ActiveFrags(r)) = PoolBufs
PoolConserved == TxPool(tx) /\ RxPool(rx)

\* bytes_in_flight of a reliable channel is the total length of the entries
\* waiting for an ACK, so the flow control test of netchan_chan_write can
\* neither wedge (too high) nor open up (wrapped below zero).
FlightCounted ==
    ChanType = "RELIABLE" =>
        tx.bytes_in_flight = SumLen(tx.outgoing, ActiveOut(tx))

\* A held message is ahead of recv_seq by less than the reorder buffer and in
\* the slot of its sequence number, so chan_deliver_reordered will find it.
ReorderWindow ==
    \A i \in HeldSlots(rx) :
        /\ ReorderSlot(rx.reorder[i].seq) = i
        /\ SeqDiff(rx.reorder[i].seq, rx.recv_seq) \in 1 .. ReorderSlots - 1

\* What the receiver queues is what was written: every fragment of a message
\* comes from one write, and it has that write's length.
Intact(p) ==
    /\ p[1] < Len(tx.written)
    /\ Len(p) = tx.written[p[1] + 1]
    /\ \A k \in 1 .. Len(p) : p[k] = p[1]
Integrity == \A i \in 1 .. Len(rx.queue) : Intact(rx.queue[i])

\* An ordered channel queues messages in the order of the writes, each at
\* most once, whatever the network and the timers do.
OrderedOnce ==
    \A i, j \in 1 .. Len(rx.log) : i < j => rx.log[i][1] < rx.log[j][1]

\* Write m has left the sender's ring (released by process_ack, or refused)
\* only if the receiver has passed it.
Accounted(m) == m < rx.passed \/ \E i \in ActiveOut(tx) : tx.outgoing[i].msg = m

\* process_ack releases a message only once the receiver has passed it, with
\* one exception: sequence number 0, which an ACK names before it has come.
KeptUntilPassed ==
    ChanType # "UNRELIABLE" /\ MaxMsg <= MaxFrags =>
        \A m \in 0 .. Len(tx.written) - 1 : Accounted(m) \/ m % SeqMod = 0

\* The driver keeps calling netchan_send_next and netchan_service.
Fairness ==
    /\ WF_vars(SendData)
    /\ WF_vars(\E expired \in SUBSET Outs : Service(expired))
FairSpec == Spec /\ Fairness

\* Nothing waits for ever: from some point on every write has been released or
\* the channel has been declared dead (netchan_service gives up on an entry).
Settles == <>[](tx.state = "dead" \/ ActiveOut(tx) = {})

\* README.md:189 "ordered, acked, retransmitted datagrams": a released message
\* has reached the receiver.
AckMeansReceived == \A m \in 0 .. Len(tx.written) - 1 : Accounted(m)

\* The same promise at the other end: a message the receiver has passed, and
\* so acknowledges, is one its application was given.  It does not hold of the
\* code: nobody looks at the result of chan_recv_enqueue, and a message that
\* finds the queue full is dropped and acknowledged.
PassedDelivered == Len(rx.log) = rx.passed

=============================================================================
