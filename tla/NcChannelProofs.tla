-------------------------- MODULE NcChannelProofs --------------------------
(***************************************************************************)
(* Theorems about the data path of NcChannel, for every size of the rings, *)
(* of the reorder buffer and of the pool, every sequence-number width and  *)
(* every channel type.                                                     *)
(***************************************************************************)
EXTENDS NcChannel, NumberLemmas, FiniteSetTheorems, SequenceTheorems, TLAPS

-----------------------------------------------------------------------------
(* Arithmetic of sequence numbers and ring indices.                        *)

\* The remainder of an integer is an index below the modulus.
LEMMA ModRange ==
    ASSUME NEW m \in Nat \ {0}, NEW x \in Int
    PROVE  x % m \in 0 .. m - 1
OBVIOUS

\* A sequence number stays a sequence number (uint16_t) when it advances.
LEMMA SeqAddType ==
    ASSUME NEW s \in Int, NEW i \in Int
    PROVE  SeqAdd(s, i) \in Seqs
BY SeqAssumption DEF SeqAdd, Seqs

\* The slot of a sequence number is inside the reorder array.
LEMMA ReorderSlotType ==
    ASSUME NEW s \in Int
    PROVE  ReorderSlot(s) \in Reorders
BY SlotAssumption, ModRange DEF ReorderSlot, Reorders

\* Ring positions are inside the outgoing array.
LEMMA OutAtType ==
    ASSUME NEW h \in Int, NEW d \in Int
    PROVE  OutAt(h, d) \in Outs /\ Step(h) \in Outs
BY SlotAssumption, ModRange DEF OutAt, Step, Outs

\* The ring holds fewer entries than it has slots.
LEMMA OutCountType ==
    ASSUME NEW t \in TxType
    PROVE  OutCount(t) \in 0 .. OutSlots - 1
<1>1. t.out_tail \in Int /\ t.out_head \in Int
  BY SlotAssumption DEF TxType, Outs
<1>2. QED
  BY <1>1, SlotAssumption DEF OutCount

-----------------------------------------------------------------------------
(* Sets of slots are finite, and the two sums of lengths are numbers.      *)

\* Any set of slots has a size.
LEMMA SlotSetsFinite ==
    /\ \A S \in SUBSET Outs : IsFiniteSet(S) /\ Cardinality(S) \in Nat
    /\ \A S \in SUBSET Reorders : IsFiniteSet(S) /\ Cardinality(S) \in Nat
    /\ \A S \in SUBSET FragSlotIds : IsFiniteSet(S) /\ Cardinality(S) \in Nat
<1>1. IsFiniteSet(Outs) /\ IsFiniteSet(Reorders) /\ IsFiniteSet(FragSlotIds)
  BY SlotAssumption, FS_Interval DEF Outs, Reorders, FragSlotIds
<1>2. QED
  BY <1>1, FS_Subset, FS_CardinalityType

\* The total length of a set of outgoing entries is a natural number.
LEMMA SumLenType ==
    ASSUME NEW out, NEW S \in SUBSET Outs
    PROVE  SumLen(out, S) \in Nat
<1>1. IsFiniteSet(S) /\ IsFiniteSet(1 .. MaxFrags)
  BY SlotSetsFinite, FS_Interval, LimitAssumption
<1>2. IsFiniteSet(S \X (1 .. MaxFrags))
  BY <1>1, FS_Product
<1>3. QED
  BY <1>2, FS_Subset, FS_CardinalityType DEF SumLen

\* The total length of a sequence of messages is a natural number.
LEMMA SumPayloadType ==
    ASSUME NEW q \in Seq(Payload)
    PROVE  SumPayload(q) \in Nat
<1>1. Len(q) \in Nat
  BY LenProperties
<1>2. IsFiniteSet(1 .. Len(q)) /\ IsFiniteSet(1 .. MaxFrags)
  BY <1>1, FS_Interval, LimitAssumption
<1>3. IsFiniteSet((1 .. Len(q)) \X (1 .. MaxFrags))
  BY <1>2, FS_Product
<1>4. QED
  BY <1>3, FS_Subset, FS_CardinalityType DEF SumPayload

-----------------------------------------------------------------------------
(* The sender's operators keep the type of its channel object.             *)

\* out_head stays inside the ring when it moves past inactive slots.
LEMMA AdvanceHeadType ==
    ASSUME NEW t \in TxType
    PROVE  AdvanceHead(t) \in TxType
<1> DEFINE P == {d \in 0 .. OutCount(t) - 1 :
                    \A e \in 0 .. d : ~ t.outgoing[OutAt(t.out_head, e)].active}
<1>1. IsFiniteSet(0 .. OutCount(t) - 1)
  BY OutCountType, SlotAssumption, FS_Interval
<1>2. Cardinality(P) \in Nat
  BY <1>1, FS_Subset, FS_CardinalityType
<1>3. OutAt(t.out_head, Cardinality(P)) \in Outs
  BY <1>2, OutAtType, SlotAssumption DEF TxType, Outs
<1>4. AdvanceHead(t) = [t EXCEPT !.out_head = OutAt(@, Cardinality(P))]
  BY DEF AdvanceHead
<1>5. QED
  BY <1>3, <1>4 DEF TxType

\* Pushing n events leaves the event ring within its capacity.
LEMMA EvPushTx ==
    ASSUME NEW t \in TxType, NEW n \in Nat
    PROVE  EvPush(t, n) \in TxType
<1> DEFINE e == IF t.events + n > EvSlots - 1 THEN EvSlots - 1 ELSE t.events + n
<1>1. e \in 0 .. EvSlots - 1
  BY SlotAssumption DEF TxType
<1>2. EvPush(t, n) = [t EXCEPT !.events = e]
  BY DEF EvPush
<1>3. QED
  BY <1>1, <1>2 DEF TxType

\* process_ack keeps the type of the channel.
LEMMA ProcessAckType ==
    ASSUME NEW t \in TxType, NEW a \in Seqs
    PROVE  ProcessAck(t, a) \in TxType
<1> DEFINE S == AckedSlots(t, a)
           out == [i \in Outs |-> IF i \in S THEN [t.outgoing[i] EXCEPT !.active = FALSE]
                                  ELSE t.outgoing[i]]
           u == [t EXCEPT !.outgoing = out,
                          !.bytes_in_flight = (@ - SumLen(t.outgoing, S)) % FlightMod,
                          !.free = @ + Cardinality(S)]
<1>1. S \in SUBSET Outs
  BY DEF AckedSlots
<1>2. SumLen(t.outgoing, S) \in Nat /\ Cardinality(S) \in Nat
  BY <1>1, SumLenType, SlotSetsFinite
<1>b. t.bytes_in_flight \in Int /\ t.free \in Nat
  BY LimitAssumption DEF TxType
<1>3. (t.bytes_in_flight - SumLen(t.outgoing, S)) % FlightMod \in 0 .. FlightMod - 1
  BY <1>b, <1>2, LimitAssumption
<1>f. t.free + Cardinality(S) \in Nat
  BY <1>b, <1>2
<1>4. out \in [Outs -> Outgoing]
  BY DEF TxType, Outgoing
<1>5. u \in TxType
  BY <1>f, <1>3, <1>4 DEF TxType
<1>6. ProcessAck(t, a) = AdvanceHead(u)
  BY DEF ProcessAck
<1>7. QED
  BY <1>5, <1>6, AdvanceHeadType

-----------------------------------------------------------------------------
(* The receiver's operators keep the type of its channel object.           *)

\* Pushing n events leaves the event ring within its capacity.
LEMMA EvPushRx ==
    ASSUME NEW r \in RxType, NEW n \in Nat
    PROVE  EvPush(r, n) \in RxType
<1> DEFINE e == IF r.events + n > EvSlots - 1 THEN EvSlots - 1 ELSE r.events + n
<1>1. e \in 0 .. EvSlots - 1
  BY SlotAssumption DEF RxType
<1>2. EvPush(r, n) = [r EXCEPT !.events = e]
  BY DEF EvPush
<1>3. QED
  BY <1>1, <1>2 DEF RxType

\* Appending messages changes the queue, its byte count, the pool and the
\* history; the pool may be overdrawn here and is corrected by the callers.
LEMMA AppendFields ==
    ASSUME NEW r \in RxType, NEW q \in Seq(Payload), NEW n \in Nat
    PROVE  [Append2Queue(r, q) EXCEPT !.free = n] \in RxType
<1> DEFINE a == [r EXCEPT !.queue = @ \o q, !.buffered = (@ + SumPayload(q)) % FlightMod,
                          !.free = n,
                          !.log = IF ChanType = "UNRELIABLE" THEN @ ELSE @ \o q]
<1>1. r.queue \o q \in Seq(Payload) /\ r.log \o q \in Seq(Payload)
  BY ConcatProperties DEF RxType
<1>2. (r.buffered + SumPayload(q)) % FlightMod \in 0 .. FlightMod - 1
  <2>1. r.buffered \in Int /\ SumPayload(q) \in Nat
    BY SumPayloadType, LimitAssumption DEF RxType
  <2>2. QED
    BY <2>1, LimitAssumption
<1>3. a \in RxType
  BY <1>1, <1>2 DEF RxType
<1>4. [Append2Queue(r, q) EXCEPT !.free = n] = a
  BY DEF Append2Queue, RxType
<1>5. QED
  BY <1>3, <1>4

\* chan_recv_enqueue keeps the type of the channel.
LEMMA EnqueueType ==
    ASSUME NEW r \in RxType, NEW data \in Payload
    PROVE  Enqueue(r, data) \in RxType
<1> DEFINE a == Append2Queue(r, <<data>>)
<1>1. CASE QueueRoom(r) > 0 /\ r.free > 0
  <2>1. r.free \in Nat /\ r.free - 1 \in Nat
    BY <1>1 DEF RxType
  <2>2. <<data>> \in Seq(Payload) /\ Len(<<data>>) = 1
    OBVIOUS
  <2>3. [a EXCEPT !.free = r.free - 1] \in RxType
    BY <2>1, <2>2, AppendFields
  <2>4. a = [a EXCEPT !.free = r.free - 1]
    BY <2>1, <2>2 DEF Append2Queue, RxType
  <2>5. a \in RxType
    BY <2>3, <2>4
  <2>6. QED
    BY <1>1, <2>5, EvPushRx DEF Enqueue
<1>2. CASE ~ (QueueRoom(r) > 0 /\ r.free > 0)
  BY <1>2, EvPushRx DEF Enqueue
<1>3. QED
  BY <1>1, <1>2

\* The number of messages chan_deliver_reordered takes out.
LEMMA RunLenType ==
    ASSUME NEW r
    PROVE  /\ IsFiniteSet(RunSet(r))
           /\ RunLen(r) \in 0 .. ReorderSlots
<1>1. IsFiniteSet(0 .. ReorderSlots - 1) /\ Cardinality(0 .. ReorderSlots - 1) = ReorderSlots
  BY FS_Interval, SlotAssumption
<1>2. RunSet(r) \in SUBSET (0 .. ReorderSlots - 1)
  BY DEF RunSet
<1>3. QED
  BY <1>1, <1>2, FS_Subset, FS_CardinalityType, SlotAssumption DEF RunLen

\* The messages of the run that fit the queue: no more than the run, and no
\* more than the queue has room for.
LEMMA RunKeptType ==
    ASSUME NEW r \in RxType, QueueRoom(r) \in Nat
    PROVE  /\ RunKept(r) \in Seq(Payload)
           /\ Len(RunKept(r)) \in 0 .. RunLen(r)
           /\ Len(RunKept(r)) <= QueueRoom(r)
<1> DEFINE first == IF r.free = 0 THEN 2 ELSE 1
           last == IF RunLen(r) - first >= QueueRoom(r) THEN first + QueueRoom(r) - 1
                   ELSE RunLen(r)
<1>0. RunLen(r) \in Nat
  BY RunLenType, SlotAssumption
<1>1. ASSUME NEW i \in 1 .. RunLen(r)
      PROVE  Run(r)[i] \in Payload
  <2>1. SeqAdd(r.recv_seq, i - 1) \in Int
    BY <1>0, SeqAddType, SeqAssumption DEF RxType, Seqs
  <2>2. RunSlot(r, i - 1) \in Reorders
    BY <2>1, ReorderSlotType DEF RunSlot
  <2>3. QED
    BY <2>2 DEF RxType, Reorder, Run
<1>2. /\ first \in {1, 2} /\ last \in Int /\ last <= RunLen(r)
      /\ last - first + 1 <= QueueRoom(r)
  BY <1>0
<1>3. RunKept(r) = SubSeq(Run(r), first, last)
  BY DEF RunKept
<1> HIDE DEF first, last
<1>4. \A i \in first .. last : Run(r)[i] \in Payload
  BY <1>0, <1>1, <1>2
<1>5. RunKept(r) \in Seq(Payload)
  BY <1>2, <1>3, <1>4, SubSeqProperties
<1>6. Len(RunKept(r)) = IF first <= last THEN last - first + 1 ELSE 0
  BY <1>2, <1>3, <1>4, SubSeqProperties
<1>7. QED
  BY <1>0, <1>2, <1>5, <1>6

\* The queue never outgrows its ring: what QueueRoom counts is really there.
RxBounded(r) == r \in RxType /\ QueueRoom(r) \in Nat

\* chan_recv_enqueue keeps the queue within its ring.
LEMMA EnqueueBounded ==
    ASSUME NEW r, RxBounded(r), NEW data \in Payload
    PROVE  RxBounded(Enqueue(r, data))
<1>1. Enqueue(r, data) \in RxType
  BY EnqueueType DEF RxBounded
<1>2. CASE QueueRoom(r) > 0 /\ r.free > 0
  <2>0. Enqueue(r, data) = EvPush(Append2Queue(r, <<data>>), 1)
    BY <1>2 DEF Enqueue
  <2>1. Enqueue(r, data).queue = r.queue \o <<data>>
    BY <2>0 DEF EvPush, Append2Queue, RxBounded, RxType
  <2>2. r.queue \in Seq(Payload) /\ <<data>> \in Seq(Payload) /\ Len(<<data>>) = 1
    BY DEF RxBounded, RxType
  <2>3. Len(r.queue \o <<data>>) = Len(r.queue) + 1 /\ Len(r.queue) \in Nat
    BY <2>2, ConcatProperties, LenProperties
  <2>4. QueueRoom(Enqueue(r, data)) = QueueRoom(r) - 1
    BY <2>1, <2>3, SlotAssumption DEF QueueRoom
  <2>5. QED
    BY <1>1, <1>2, <2>4 DEF RxBounded
<1>3. CASE ~ (QueueRoom(r) > 0 /\ r.free > 0)
  <2>1. Enqueue(r, data).queue = r.queue
    BY <1>3 DEF Enqueue, EvPush, RxBounded, RxType
  <2>2. QED
    BY <1>1, <2>1 DEF RxBounded, QueueRoom
<1>4. QED
  BY <1>2, <1>3

\* chan_deliver_reordered keeps the type of the channel and the queue bound.
LEMMA DeliverBounded ==
    ASSUME NEW r, RxBounded(r)
    PROVE  RxBounded(DeliverReordered(r))
<1> DEFINE n == RunLen(r)
           free == r.free + n - Len(RunKept(r))
           reorder == [s \in Reorders |-> IF s \in RunSlots(r) THEN NoReorder ELSE r.reorder[s]]
           a == [Append2Queue(r, RunKept(r)) EXCEPT !.free = free]
           b == [a EXCEPT !.reorder = reorder, !.recv_seq = SeqAdd(@, n), !.passed = @ + n]
<1>1. n \in Nat /\ r \in RxType /\ QueueRoom(r) \in Nat
  BY RunLenType, SlotAssumption DEF RxBounded
<1>2. /\ RunKept(r) \in Seq(Payload) /\ Len(RunKept(r)) \in 0 .. n
      /\ Len(RunKept(r)) <= QueueRoom(r)
  BY <1>1, RunKeptType
<1>3. free \in Nat
  BY <1>1, <1>2 DEF RxType
<1> HIDE DEF free
<1>4. a \in RxType
  BY <1>1, <1>2, <1>3, AppendFields
<1>5. reorder \in [Reorders -> Reorder]
  <2>1. NoReorder \in Reorder
    BY SeqAssumption, EmptySeq DEF NoReorder, Reorder, Seqs, Payload
  <2>2. QED
    BY <1>1, <2>1 DEF RxType
<1> HIDE DEF reorder
<1>6. SeqAdd(a.recv_seq, n) \in Seqs /\ a.passed + n \in Nat
  <2>1. a.recv_seq \in Int /\ a.passed \in Nat
    BY <1>4, SeqAssumption, SMTT(30) DEF RxType, Seqs
  <2>2. QED
    BY <1>1, <2>1, SeqAddType
<1>7. b \in RxType
  <2> HIDE DEF a
  <2>1. QED
    BY <1>4, <1>5, <1>6 DEF RxType
<1>8. DeliverReordered(r) = EvPush(b, n)
  BY <1>1 DEF DeliverReordered, Append2Queue, RxType, reorder, free
<1>9. DeliverReordered(r) \in RxType
  BY <1>1, <1>7, <1>8, EvPushRx
<1>10. DeliverReordered(r).queue = r.queue \o RunKept(r)
  BY <1>1 DEF DeliverReordered, EvPush, Append2Queue, RxType
<1>11. Len(r.queue \o RunKept(r)) = Len(r.queue) + Len(RunKept(r)) /\ Len(r.queue) \in Nat
  BY <1>1, <1>2, ConcatProperties, LenProperties DEF RxType
<1>12. QED
  BY <1>1, <1>2, <1>9, <1>10, <1>11, SlotAssumption DEF RxBounded, QueueRoom

\* Delivering, holding or dropping a complete message keeps type and bound.
LEMMA AcceptBounded ==
    ASSUME NEW r, RxBounded(r), NEW seq \in Seqs, NEW data \in Payload
    PROVE  RxBounded(Accept(r, seq, data))
<1> DEFINE e == Enqueue(r, data)
           u == [e EXCEPT !.recv_seq = SeqAdd(@, 1), !.passed = @ + 1]
           slot == ReorderSlot(seq)
           h == [r EXCEPT !.free = @ - 1,
                          !.reorder[slot] = [seq |-> seq, data |-> data, valid |-> TRUE]]
<1>1. RxBounded(e)
  BY EnqueueBounded
<1>2. RxBounded(u)
  <2> HIDE DEF e
  <2>1. e.recv_seq \in Int /\ e.passed \in Nat
    BY <1>1, SeqAssumption DEF RxBounded, RxType, Seqs
  <2>2. SeqAdd(e.recv_seq, 1) \in Seqs /\ e.passed + 1 \in Nat
    BY <2>1, SeqAddType
  <2>3. u \in RxType
    BY <1>1, <2>2 DEF RxBounded, RxType
  <2>4. u.queue = e.queue
    BY <1>1 DEF RxBounded, RxType
  <2>5. QED
    BY <1>1, <2>3, <2>4 DEF RxBounded, QueueRoom
<1>3. CASE seq = r.recv_seq
  BY <1>2, <1>3, DeliverBounded DEF Accept
<1>4. ASSUME r.free > 0
      PROVE  RxBounded(h)
  <2>1. slot \in Reorders
    BY ReorderSlotType, SeqAssumption DEF Seqs
  <2>2. r.free - 1 \in Nat
    BY <1>4 DEF RxBounded, RxType
  <2>3. [seq |-> seq, data |-> data, valid |-> TRUE] \in Reorder
    BY DEF Reorder
  <2>4. h \in RxType
    BY <2>1, <2>2, <2>3 DEF RxBounded, RxType
  <2>5. h.queue = r.queue
    BY DEF RxBounded, RxType
  <2>6. QED
    BY <2>4, <2>5 DEF RxBounded, QueueRoom
<1>5. CASE seq # r.recv_seq
  BY <1>4, <1>5 DEF Accept
<1>6. QED
  BY <1>3, <1>5

\* Reassembly keeps type and bound, whether the fragment finds a slot, takes
\* one, completes a message or is dropped.
LEMMA ReassembleBounded ==
    ASSUME NEW r, RxBounded(r), NEW f \in DataPacket
    PROVE  RxBounded(Reassemble(r, f))
<1> DEFINE found == FragFind(r, f.seq)
           S == Lowest(IF found # {} THEN found ELSE FragAlloc(r))
           i == CHOOSE i \in S : TRUE
           asm == IF found # {} THEN r.frags[i]
                  ELSE [NoFrag EXCEPT !.seq = f.seq, !.total = f.frag_total, !.active = TRUE]
           r1 == IF found # {} THEN r ELSE [r EXCEPT !.frags[i] = asm, !.free = @ - 1]
           got == [asm EXCEPT !.parts[f.frag_idx] = f.data]
           whole == [k \in 1 .. got.total |-> got.parts[k - 1]]
           fresh == f.frag_idx < asm.total /\ asm.parts[f.frag_idx] = NoPart
           done == \A k \in 0 .. got.total - 1 : got.parts[k] # NoPart
           r2 == IF ChanType = "UNRELIABLE" THEN Enqueue(r1, whole)
                 ELSE Accept(r1, f.seq, whole)
<1>1. CASE S = {}
  BY <1>1 DEF Reassemble
<1>2. CASE S # {}
  <2>1. i \in S /\ i \in FragSlotIds
    BY <1>2 DEF Lowest, FragFind, FragAlloc
  <2>2. /\ f.seq \in Seqs /\ f.frag_idx \in FragIds /\ f.frag_total \in 0 .. MaxFrags
        /\ f.data \in Nat
    BY LimitAssumption DEF DataPacket
  <2>3. NoFrag \in FragAsm
    BY SeqAssumption, LimitAssumption DEF NoFrag, FragAsm, Seqs
  <2> HIDE DEF i
  <2>4. asm \in FragAsm
    BY <2>1, <2>2, <2>3 DEF FragAsm, RxBounded, RxType
  <2> HIDE DEF asm
  <2>5. RxBounded(r1)
    <3>1. CASE found # {}
      BY <3>1
    <3>2. CASE found = {}
      <4>1. r.free > 0
        BY <2>1, <3>2 DEF Lowest, FragAlloc
      <4>2. r.free - 1 \in Nat
        BY <4>1 DEF RxBounded, RxType
      <4>3. r1 = [r EXCEPT !.frags[i] = asm, !.free = @ - 1]
        BY <3>2
      <4>4. r1 \in RxType
        BY <2>1, <2>4, <4>2, <4>3 DEF RxBounded, RxType
      <4>5. r1.queue = r.queue
        BY <4>3 DEF RxBounded, RxType
      <4>6. QED
        BY <4>4, <4>5 DEF RxBounded, QueueRoom
    <3>3. QED
      BY <3>1, <3>2
  <2> HIDE DEF r1
  <2>6. got \in FragAsm
    BY <2>2, <2>4 DEF FragAsm
  <2> HIDE DEF got
  <2>7. ASSUME NEW fr \in FragAsm, NEW q, RxBounded(q), NEW m \in Nat
        PROVE  RxBounded([q EXCEPT !.frags[i] = fr, !.free = m])
    <3>1. [q EXCEPT !.frags[i] = fr, !.free = m] \in RxType
      BY <2>1, <2>7 DEF RxBounded, RxType
    <3>2. [q EXCEPT !.frags[i] = fr, !.free = m].queue = q.queue
      BY <2>7 DEF RxBounded, RxType
    <3>3. QED
      BY <2>7, <3>1, <3>2 DEF RxBounded, QueueRoom
  <2>8. CASE ~ fresh
    BY <1>2, <2>5, <2>8 DEF Reassemble, r1, asm, i
  <2>9. CASE fresh /\ ~ done
    <3>1. r1.free \in Nat
      BY <2>5 DEF RxBounded, RxType
    <3>2. RxBounded([r1 EXCEPT !.frags[i] = got, !.free = r1.free])
      BY <2>5, <2>6, <2>7, <3>1
    <3>3. [r1 EXCEPT !.frags[i] = got, !.free = r1.free] = [r1 EXCEPT !.frags[i] = got]
      BY <2>5 DEF RxBounded, RxType
    <3>4. Reassemble(r, f) = [r1 EXCEPT !.frags[i] = got]
      BY <1>2, <2>9 DEF Reassemble, r1, asm, i, got
    <3>5. QED
      BY <3>2, <3>3, <3>4
  <2>10. CASE fresh /\ done
    <3>1. got.total \in Nat
      BY <2>6, LimitAssumption DEF FragAsm
    <3>2. \A k \in 1 .. got.total : got.parts[k - 1] \in Nat
      BY <2>6, <2>10, <3>1, LimitAssumption DEF FragAsm, FragIds, NoPart
    <3>3. whole \in Payload
      BY <3>1, <3>2 DEF Payload
    <3> HIDE DEF whole
    <3>4. RxBounded(r2)
      BY <2>2, <2>5, <3>3, EnqueueBounded, AcceptBounded
    <3>5. r2.free + 1 \in Nat
      BY <3>4 DEF RxBounded, RxType
    <3>6. RxBounded([r2 EXCEPT !.frags[i] = NoFrag, !.free = r2.free + 1])
      BY <2>3, <2>7, <3>4, <3>5
    <3>7. Reassemble(r, f) = [r2 EXCEPT !.frags[i] = NoFrag, !.free = r2.free + 1]
      BY <1>2, <2>10, <3>4 DEF Reassemble, r1, asm, i, got, whole, RxBounded, RxType
    <3>8. QED
      BY <3>6, <3>7
  <2>11. QED
    BY <2>8, <2>9, <2>10
<1>3. QED
  BY <1>1, <1>2

\* process_data keeps type and bound.
LEMMA ProcessDataBounded ==
    ASSUME NEW r, RxBounded(r), NEW f \in DataPacket
    PROVE  RxBounded(ProcessData(r, f))
<1> DEFINE a == IF f.frag_total <= 1 THEN Accept(r, f.seq, <<f.data>>) ELSE Reassemble(r, f)
           ack == IF a.recv_seq > 0 THEN a.recv_seq - 1 ELSE 0
<1>1. f.seq \in Seqs /\ <<f.data>> \in Payload
  BY DEF DataPacket, Payload
<1>2. CASE ChanType = "UNRELIABLE"
  BY <1>1, <1>2, EnqueueBounded, ReassembleBounded DEF ProcessData
<1>3. CASE ChanType # "UNRELIABLE"
  <2>1. RxBounded(a)
    BY <1>1, AcceptBounded, ReassembleBounded
  <2>2. ProcessData(r, f) = [a EXCEPT !.need_ack = TRUE, !.ack_seq = ack]
    BY <1>3 DEF ProcessData
  <2> HIDE DEF a
  <2>3. ack \in Seqs
    <3>1. a \in RxType
      BY <2>1 DEF RxBounded
    <3>2. a.recv_seq \in Seqs
      BY <3>1 DEF RxType
    <3>3. QED
      BY <3>2, SeqAssumption DEF Seqs
  <2> HIDE DEF ack
  <2>4. ProcessData(r, f) \in RxType
    BY <2>1, <2>2, <2>3 DEF RxBounded, RxType
  <2>5. ProcessData(r, f).queue = a.queue
    BY <2>1, <2>2 DEF RxBounded, RxType
  <2>6. QED
    BY <2>1, <2>4, <2>5 DEF RxBounded, QueueRoom
<1>4. QED
  BY <1>2, <1>3

-----------------------------------------------------------------------------
(* Type correctness.                                                       *)

\* The channel as it is after the open handshake is well typed.
LEMMA InitType == Init => TypeOK
<1> SUFFICES ASSUME Init PROVE TypeOK
  OBVIOUS
<1>1. NoOutgoing \in Outgoing
  BY SeqAssumption, LimitAssumption DEF NoOutgoing, Outgoing, Seqs
<1>2. tx \in TxType
  BY <1>1, SlotAssumption, SeqAssumption, LimitAssumption DEF Init, TxType, Seqs, Outs
<1>3. NoReorder \in Reorder /\ NoFrag \in FragAsm
  BY SeqAssumption, LimitAssumption, EmptySeq
     DEF NoReorder, Reorder, Payload, NoFrag, FragAsm, Seqs
<1>4. rx \in RxType
  BY <1>3, SlotAssumption, SeqAssumption, LimitAssumption, EmptySeq DEF Init, RxType, Seqs
<1>5. QueueRoom(rx) \in Nat
  BY SlotAssumption DEF Init, QueueRoom
<1>6. QED
  BY <1>2, <1>4, <1>5 DEF TypeOK, Init

\* netchan_chan_write keeps the type, also when it refuses the message late.
LEMMA WriteType ==
    ASSUME TypeOK, NEW len \in Lens, Write(len)
    PROVE  tx' \in TxType
<1>1. /\ tx \in TxType /\ len \in Nat /\ len >= 1
      /\ tx.send_seq \in Int /\ tx.bytes_in_flight \in Int /\ tx.free - 1 \in Nat
      /\ tx.out_tail \in Outs /\ Len(tx.written) \in Nat
  <2>1. tx \in TxType /\ len \in 1 .. MaxMsg /\ tx.free > 0
    BY LimitAssumption DEF TypeOK, Write
  <2>2. /\ tx.send_seq \in Seqs /\ tx.bytes_in_flight \in 0 .. FlightMod - 1
        /\ tx.free \in Nat /\ tx.out_tail \in Outs /\ tx.written \in Seq(Nat)
    BY <2>1 DEF TxType
  <2>3. QED
    BY <2>1, <2>2, SeqAssumption, LimitAssumption, LenProperties DEF Seqs
<1>2. SeqAdd(tx.send_seq, 1) \in Seqs /\ Append(tx.written, len) \in Seq(Nat)
  BY <1>1, SeqAddType DEF TxType
<1>3. (tx.bytes_in_flight + len) % FlightMod \in 0 .. FlightMod - 1
  BY <1>1, LimitAssumption
<1>4. Step(tx.out_tail) \in Outs
  <2>1. tx.out_tail \in Int
    BY <1>1, SlotAssumption DEF Outs
  <2>2. QED
    BY <2>1, OutAtType
<1>5. CASE len > MaxFrags
  <2>1. NoOutgoing \in Outgoing
    BY SeqAssumption, LimitAssumption DEF NoOutgoing, Outgoing, Seqs
  <2>2. tx' = [tx EXCEPT !.send_seq = SeqAdd(@, 1), !.written = Append(@, len),
                         !.outgoing[tx.out_tail] = NoOutgoing]
    BY <1>5 DEF Write
  <2>3. QED
    BY <1>1, <1>2, <2>1, <2>2 DEF TxType
<1>6. CASE ~ (len > MaxFrags)
  <2> DEFINE o == [seq |-> tx.send_seq, msg |-> Len(tx.written), len |-> len,
                   attempts |-> 0, frag_sent |-> 0, active |-> TRUE]
             b == IF ChanType = "RELIABLE" THEN (tx.bytes_in_flight + len) % FlightMod
                  ELSE tx.bytes_in_flight
  <2>1. o \in Outgoing
    BY <1>1, <1>6, LimitAssumption DEF Outgoing, TxType
  <2>2. b \in 0 .. FlightMod - 1
    BY <1>1, <1>3 DEF TxType
  <2>3. tx' = [tx EXCEPT !.send_seq = SeqAdd(@, 1), !.written = Append(@, len),
                         !.free = @ - 1, !.outgoing[tx.out_tail] = o,
                         !.bytes_in_flight = b, !.out_tail = Step(@)]
    BY <1>6 DEF Write
  <2> HIDE DEF o, b
  <2>4. QED
    BY <1>1, <1>2, <1>4, <2>1, <2>2, <2>3 DEF TxType
<1>7. QED
  BY <1>5, <1>6

\* netchan_send_next keeps the type and sends a well-formed DATA frame.
LEMMA SendDataType ==
    ASSUME TypeOK, SendData
    PROVE  tx' \in TxType /\ dnet' \subseteq DataPacket
<1>1. PICK d \in Sendable :
        LET i == OutAt(tx.out_head, d)
            o == tx.outgoing[i]
            s == [o EXCEPT !.frag_sent = @ + 1, !.attempts = IF @ = 0 THEN 1 ELSE @]
        IN  /\ dnet' = dnet \cup {[seq |-> o.seq, frag_idx |-> o.frag_sent,
                                   frag_total |-> o.len, data |-> o.msg]}
            /\ tx' = IF ChanType = "UNRELIABLE" /\ s.frag_sent >= s.len
                     THEN AdvanceHead([tx EXCEPT !.outgoing[i] = [s EXCEPT !.active = FALSE],
                                                 !.free = @ + 1])
                     ELSE [tx EXCEPT !.outgoing[i] = s]
  BY DEF SendData, Sent
<1> DEFINE i == OutAt(tx.out_head, d)
           o == tx.outgoing[i]
           s == [o EXCEPT !.frag_sent = @ + 1, !.attempts = IF @ = 0 THEN 1 ELSE @]
           s0 == [s EXCEPT !.active = FALSE]
<1>2. tx \in TxType /\ d \in Int
  BY OutCountType, SlotAssumption DEF TypeOK, Sendable
<1>3. i \in Outs
  BY <1>2, OutAtType, SlotAssumption DEF TxType, Outs
<1>4. o \in Outgoing
  BY <1>2, <1>3 DEF TxType
<1>5. o.frag_sent < o.len
  BY DEF Sendable
<1>6. dnet' \subseteq DataPacket
  <2>1. [seq |-> o.seq, frag_idx |-> o.frag_sent, frag_total |-> o.len, data |-> o.msg]
          \in DataPacket
    BY <1>4, <1>5, LimitAssumption DEF Outgoing, DataPacket, FragIds
  <2>2. QED
    BY <1>1, <2>1 DEF TypeOK
<1> HIDE DEF i, o
<1>7. s \in Outgoing /\ s0 \in Outgoing
  <2>1. o.frag_sent + 1 \in 0 .. MaxFrags
    BY <1>4, <1>5, LimitAssumption DEF Outgoing
  <2>2. (IF o.attempts = 0 THEN 1 ELSE o.attempts) \in 0 .. MaxAttempts
    BY <1>4, LimitAssumption DEF Outgoing
  <2>3. QED
    BY <1>4, <2>1, <2>2 DEF Outgoing
<1> HIDE DEF s, s0
<1>8. [tx EXCEPT !.outgoing[i] = s] \in TxType
  BY <1>2, <1>3, <1>7 DEF TxType
<1>9. [tx EXCEPT !.outgoing[i] = s0, !.free = @ + 1] \in TxType
  <2>1. tx.free + 1 \in Nat
    BY <1>2 DEF TxType
  <2>2. QED
    BY <1>2, <1>3, <1>7, <2>1 DEF TxType
<1>10. tx' \in TxType
  <2>1. AdvanceHead([tx EXCEPT !.outgoing[i] = s0, !.free = @ + 1]) \in TxType
    BY <1>9, AdvanceHeadType
  <2>2. QED
    BY <1>1, <1>8, <2>1 DEF i, o, s, s0
<1>11. QED
  BY <1>6, <1>10

\* The retransmit loop keeps the type: no entry goes past the last attempt.
LEMMA ServiceType ==
    ASSUME TypeOK, NEW expired \in SUBSET Outs, Service(expired)
    PROVE  tx' \in TxType
<1> DEFINE spent == {i \in expired : tx.outgoing[i].attempts >= MaxAttempts}
           again == {i \in expired : \A j \in spent : i < j}
           out == [i \in Outs |->
                    IF i \in again
                    THEN [tx.outgoing[i] EXCEPT !.frag_sent = 0, !.attempts = @ + 1]
                    ELSE tx.outgoing[i]]
           t == [tx EXCEPT !.outgoing = out]
<1>1. tx \in TxType
  BY DEF TypeOK
<1>2. ASSUME NEW i \in Outs
      PROVE  out[i] \in Outgoing
  <2>1. tx.outgoing[i] \in Outgoing
    BY <1>1 DEF TxType
  <2>2. i \in again => tx.outgoing[i].attempts < MaxAttempts
    BY <2>1, SlotAssumption, LimitAssumption DEF Outgoing, Outs
  <2>3. CASE i \in again
    <3>1. tx.outgoing[i].attempts + 1 \in 0 .. MaxAttempts /\ 0 \in 0 .. MaxFrags
      BY <2>1, <2>2, <2>3, LimitAssumption DEF Outgoing
    <3>2. [tx.outgoing[i] EXCEPT !.frag_sent = 0, !.attempts = @ + 1] \in Outgoing
      BY <2>1, <3>1 DEF Outgoing
    <3>3. QED
      BY <2>3, <3>2
  <2>4. CASE i \notin again
    BY <2>1, <2>4
  <2>5. QED
    BY <2>3, <2>4
<1>3. out \in [Outs -> Outgoing]
  BY <1>2
<1> HIDE DEF out
<1>4. t \in TxType /\ [t EXCEPT !.state = "dead"] \in TxType
  BY <1>1, <1>3 DEF TxType
<1>5. EvPush([t EXCEPT !.state = "dead"], 1) \in TxType
  BY <1>4, EvPushTx
<1>6. QED
  BY <1>4, <1>5 DEF Service, out

\* A packet of the receiver keeps the sender's type.
LEMMA RecvFeedbackType ==
    ASSUME TypeOK, NEW p \in fnet, RecvFeedback(p)
    PROVE  tx' \in TxType
<1> DEFINE t == IF p.has_ack THEN ProcessAck(tx, p.ack_seq) ELSE tx
<1>1. p.ack_seq \in Seqs /\ p.window \in 0 .. Window /\ tx \in TxType
  BY DEF TypeOK, Feedback
<1>2. t \in TxType
  BY <1>1, ProcessAckType
<1>3. tx' = IF p.has_window THEN [t EXCEPT !.send_window = p.window] ELSE t
  BY DEF RecvFeedback
<1> HIDE DEF t
<1>4. [t EXCEPT !.send_window = p.window] \in TxType
  BY <1>1, <1>2 DEF TxType
<1>5. QED
  BY <1>2, <1>3, <1>4

\* netchan_send_next at the receiver sends a well-formed packet.
LEMMA SendFeedbackType ==
    ASSUME TypeOK, SendFeedback
    PROVE  rx' \in RxType /\ QueueRoom(rx') \in Nat /\ fnet' \subseteq Feedback
<1> DEFINE ack == IF rx.need_ack THEN rx.ack_seq ELSE 0
           win == IF rx.need_window_update /\ Window > rx.buffered
                  THEN Window - rx.buffered ELSE 0
<1>1. rx \in RxType /\ rx.buffered \in Nat
  BY LimitAssumption DEF TypeOK, RxType
<1>2. ack \in Seqs /\ win \in 0 .. Window
  BY <1>1, SeqAssumption, LimitAssumption DEF RxType, Seqs
<1>3. fnet' = fnet \cup {[has_ack |-> rx.need_ack, ack_seq |-> ack,
                          has_window |-> rx.need_window_update, window |-> win,
                          age |-> rx.passed]}
  BY DEF SendFeedback
<1> HIDE DEF ack, win
<1>4. fnet' \subseteq Feedback
  BY <1>1, <1>2, <1>3 DEF TypeOK, Feedback, RxType
<1>5. rx' \in RxType /\ rx'.queue = rx.queue
  BY <1>1 DEF SendFeedback, RxType
<1>6. QED
  BY <1>4, <1>5 DEF TypeOK, QueueRoom

\* netchan_chan_read keeps the type.
LEMMA ReadType ==
    ASSUME TypeOK, NEW buflen \in ReadSizes, Read(buflen)
    PROVE  rx' \in RxType /\ QueueRoom(rx') \in Nat
<1>1. rx \in RxType /\ rx.queue \in Seq(Payload) /\ rx.queue # << >>
  BY DEF TypeOK, RxType, Read
<1>2. /\ Head(rx.queue) \in Payload /\ Tail(rx.queue) \in Seq(Payload)
      /\ Len(Tail(rx.queue)) = Len(rx.queue) - 1
      /\ Len(rx.queue) \in Nat
  BY <1>1, HeadTailProperties, LenProperties
<1>3. Len(Head(rx.queue)) \in Nat /\ buflen \in Nat
  BY <1>2, LenProperties, LimitAssumption DEF Payload
<1>4. Taken(rx, buflen) \in Nat
  BY <1>3 DEF Taken
<1>5. (rx.buffered - Taken(rx, buflen)) % FlightMod \in 0 .. FlightMod - 1
  <2>1. rx.buffered \in Int
    BY <1>1, LimitAssumption DEF RxType
  <2>2. QED
    BY <1>4, <2>1, LimitAssumption
<1>6. rx' \in RxType /\ rx'.queue = Tail(rx.queue)
  <2> DEFINE b == (rx.buffered - Taken(rx, buflen)) % FlightMod
  <2>1. rx.free + 1 \in Nat
    BY <1>1 DEF RxType
  <2>2. rx' = [rx EXCEPT !.queue = Tail(@), !.free = @ + 1, !.buffered = b,
                         !.need_window_update = TRUE]
    BY DEF Read
  <2>3. b \in 0 .. FlightMod - 1
    BY <1>5
  <2> HIDE DEF b
  <2>4. QED
    BY <1>1, <1>2, <2>1, <2>2, <2>3 DEF RxType
<1>7. QueueRoom(rx') = QueueRoom(rx) + 1
  BY <1>2, <1>6, SlotAssumption DEF QueueRoom
<1>8. QED
  BY <1>6, <1>7 DEF TypeOK

\* Every step keeps TypeOK.
LEMMA NextType == TypeOK /\ [Next]_vars => TypeOK'
<1> SUFFICES ASSUME TypeOK, [Next]_vars PROVE TypeOK'
  OBVIOUS
<1>1. ASSUME NEW len \in Lens, Write(len) PROVE TypeOK'
  BY <1>1, WriteType DEF Write, TypeOK
<1>2. CASE SendData
  BY <1>2, SendDataType DEF SendData, TypeOK
<1>3. ASSUME NEW expired \in SUBSET Outs, Service(expired) PROVE TypeOK'
  BY <1>3, ServiceType DEF Service, TypeOK
<1>4. ASSUME NEW p \in fnet, RecvFeedback(p) PROVE TypeOK'
  BY <1>4, RecvFeedbackType DEF RecvFeedback, TypeOK
<1>5. CASE PollSender
  <2>1. tx' \in TxType
    <3>1. tx.events - 1 \in 0 .. EvSlots - 1
      BY <1>5, SlotAssumption DEF PollSender, TypeOK, TxType
    <3>2. QED
      BY <1>5, <3>1 DEF PollSender, TypeOK, TxType
  <2>2. QED
    BY <1>5, <2>1 DEF PollSender, TypeOK
<1>6. ASSUME NEW f \in dnet, RecvData(f) PROVE TypeOK'
  <2>1. RxBounded(rx')
    BY <1>6, ProcessDataBounded DEF RecvData, TypeOK, RxBounded
  <2>2. QED
    BY <1>6, <2>1 DEF RecvData, TypeOK, RxBounded
<1>7. CASE SendFeedback
  BY <1>7, SendFeedbackType DEF SendFeedback, TypeOK
<1>8. ASSUME NEW buflen \in ReadSizes, Read(buflen) PROVE TypeOK'
  BY <1>8, ReadType DEF Read, TypeOK
<1>9. CASE PollReceiver
  <2>1. rx' \in RxType /\ rx'.queue = rx.queue
    <3>1. rx.events - 1 \in 0 .. EvSlots - 1
      BY <1>9, SlotAssumption DEF PollReceiver, TypeOK, RxType
    <3>2. QED
      BY <1>9, <3>1 DEF PollReceiver, TypeOK, RxType
  <2>2. QED
    BY <1>9, <2>1 DEF PollReceiver, TypeOK, QueueRoom
<1>10. CASE UNCHANGED vars
  BY <1>10 DEF vars, TypeOK
<1>11. QED
  BY <1>1, <1>2, <1>3, <1>4, <1>5, <1>6, <1>7, <1>8, <1>9, <1>10 DEF Next

\* Every field of the channel objects keeps its C type and its array bounds,
\* in every behaviour of the data path and for every size of its buffers.
THEOREM TypeCorrect == Spec => []TypeOK
<1>1. Init => TypeOK
  BY InitType
<1>2. TypeOK /\ [Next]_vars => TypeOK'
  BY NextType
<1>3. QED
  BY <1>1, <1>2, PTL DEF Spec

-----------------------------------------------------------------------------
(* Pool conservation.  A write takes the slot at out_tail, so the count is *)
(* kept only if that slot owns no buffer: every active slot lies in the    *)
(* ring segment from out_head to out_tail.                                 *)

RingOffset(h, i) == (i - h) % OutSlots
ActiveInRing(t) ==
    \A i \in ActiveOut(t) : RingOffset(t.out_head, i) < OutCount(t)

\* Ring arithmetic without the remainder.
LEMMA RingForms ==
    ASSUME NEW h \in Outs, NEW i \in Outs
    PROVE  /\ RingOffset(h, i) = IF i >= h THEN i - h ELSE i - h + OutSlots
           /\ OutAt(h, i) = IF h + i < OutSlots THEN h + i ELSE h + i - OutSlots
           /\ Step(h) = IF h = OutSlots - 1 THEN 0 ELSE h + 1
BY SlotAssumption DEF RingOffset, OutAt, Step, Outs

\* A set of naturals with no gaps below its elements is an initial segment.
LEMMA InitialSegment ==
    ASSUME NEW P, NEW m \in Nat, P \subseteq 0 .. m - 1,
           \A d \in P : \A e \in 0 .. d : e \in P
    PROVE  /\ Cardinality(P) \in 0 .. m
           /\ P = 0 .. Cardinality(P) - 1
<1>1. IsFiniteSet(0 .. m - 1) /\ Cardinality(0 .. m - 1) = m
  BY FS_Interval
<1>2. IsFiniteSet(P) /\ Cardinality(P) \in 0 .. m
  <2>1. P \in SUBSET (0 .. m - 1)
    OBVIOUS
  <2>2. IsFiniteSet(P) /\ Cardinality(P) <= m
    BY <1>1, <2>1, FS_Subset
  <2>3. QED
    BY <2>2, FS_CardinalityType
<1>3. ASSUME NEW d \in P
      PROVE  d < Cardinality(P)
  <2>1. d \in Nat /\ 0 .. d \in SUBSET P
    OBVIOUS
  <2>2. Cardinality(0 .. d) = d + 1
    BY <2>1, FS_Interval
  <2>3. Cardinality(0 .. d) <= Cardinality(P)
    BY <1>2, <2>1, FS_Subset
  <2>4. QED
    BY <1>2, <2>1, <2>2, <2>3
<1>4. ASSUME NEW d \in 0 .. Cardinality(P) - 1, d \notin P
      PROVE  FALSE
  <2>1. d \in Nat /\ d < Cardinality(P)
    BY <1>2
  <2>2. \A e \in P : e < d
    <3>1. ASSUME NEW e \in P, e >= d
          PROVE  FALSE
      <4>1. d \in 0 .. e
        BY <2>1, <3>1
      <4>2. QED
        BY <1>4, <4>1
    <3>2. QED
      BY <2>1, <3>1
  <2>3. P \in SUBSET (0 .. d - 1)
    BY <2>1, <2>2
  <2>4. IsFiniteSet(0 .. d - 1) /\ Cardinality(0 .. d - 1) = d
    BY <2>1, FS_Interval
  <2>5. Cardinality(P) <= d
    <3>1. Cardinality(P) <= Cardinality(0 .. d - 1)
      BY <2>3, <2>4, FS_Subset
    <3>2. QED
      BY <2>4, <3>1
  <2>6. QED
    BY <1>2, <2>1, <2>5
<1>5. \A d : d \in P <=> d \in 0 .. Cardinality(P) - 1
  <2>1. ASSUME NEW d \in P PROVE d \in 0 .. Cardinality(P) - 1
    <3>1. d \in Nat
      OBVIOUS
    <3>2. QED
      BY <1>2, <1>3, <3>1
  <2>2. QED
    BY <1>4, <2>1
<1>6. QED
  BY <1>2, <1>5

\* Moving out_head past inactive slots leaves every active slot in the ring
\* and changes no slot.
LEMMA AdvanceHeadRing ==
    ASSUME NEW t \in TxType, ActiveInRing(t)
    PROVE  /\ ActiveInRing(AdvanceHead(t))
           /\ ActiveOut(AdvanceHead(t)) = ActiveOut(t)
           /\ AdvanceHead(t).free = t.free
<1> DEFINE P == {d \in 0 .. OutCount(t) - 1 :
                    \A e \in 0 .. d : ~ t.outgoing[OutAt(t.out_head, e)].active}
           k == Cardinality(P)
           h == OutAt(t.out_head, k)
           u == [t EXCEPT !.out_head = h]
<1>1. AdvanceHead(t) = u
  BY DEF AdvanceHead
<1>2. OutCount(t) \in 0 .. OutSlots - 1 /\ t.out_head \in Outs /\ t.out_tail \in Outs
  BY OutCountType DEF TxType
<1>3. k \in 0 .. OutCount(t) /\ P = 0 .. k - 1
  <2>1. OutCount(t) \in Nat /\ P \subseteq 0 .. OutCount(t) - 1
    BY <1>2, SlotAssumption
  <2>2. \A d \in P : \A e \in 0 .. d : e \in P
    BY <2>1
  <2> HIDE DEF P
  <2>3. QED
    BY <2>1, <2>2, InitialSegment
<1>4. u.out_head = h /\ u.out_tail = t.out_tail /\ u.outgoing = t.outgoing /\ u.free = t.free
  BY DEF TxType
<1>5. ActiveOut(u) = ActiveOut(t)
  BY <1>4 DEF ActiveOut
<1>6. k \in Outs
  BY <1>2, <1>3, SlotAssumption DEF Outs
<1>7. h = IF t.out_head + k < OutSlots THEN t.out_head + k ELSE t.out_head + k - OutSlots
  BY <1>2, <1>6, RingForms
<1>8. h \in Outs
  BY <1>2, <1>6, <1>7, SlotAssumption DEF Outs
<1>9. OutCount(t) = IF t.out_tail >= t.out_head THEN t.out_tail - t.out_head
                    ELSE t.out_tail - t.out_head + OutSlots
  BY <1>2, RingForms DEF OutCount, RingOffset
<1>10. OutCount(u) = IF t.out_tail >= h THEN t.out_tail - h ELSE t.out_tail - h + OutSlots
  BY <1>2, <1>4, <1>8, RingForms DEF OutCount, RingOffset
<1> HIDE DEF P, k, h, u
<1>11. ASSUME NEW i \in ActiveOut(t)
       PROVE  RingOffset(h, i) < OutCount(u)
  <2> DEFINE d == RingOffset(t.out_head, i)
  <2>1. i \in Outs /\ t.outgoing[i].active
    BY DEF ActiveOut
  <2>2. d = IF i >= t.out_head THEN i - t.out_head ELSE i - t.out_head + OutSlots
    BY <1>2, <2>1, RingForms
  <2>3. d \in Outs /\ d < OutCount(t)
    BY <1>2, <2>1, <2>2, SlotAssumption DEF Outs, ActiveInRing
  <2>4. OutAt(t.out_head, d) = i
    <3>1. OutAt(t.out_head, d) = IF t.out_head + d < OutSlots THEN t.out_head + d
                                 ELSE t.out_head + d - OutSlots
      BY <1>2, <2>3, RingForms
    <3> HIDE DEF d
    <3>2. QED
      BY <1>2, <2>1, <2>2, <3>1, SlotAssumption DEF Outs
  <2>5. d \notin P
    BY <2>1, <2>3, <2>4, SlotAssumption DEF P, Outs
  <2> HIDE DEF d
  <2>6. d >= k
    BY <1>3, <2>3, <2>5, SlotAssumption DEF Outs
  <2>7. RingOffset(h, i) = IF i >= h THEN i - h ELSE i - h + OutSlots
    BY <1>8, <2>1, RingForms
  <2>8. /\ OutSlots \in Int /\ t.out_head \in 0 .. OutSlots - 1 /\ k \in 0 .. OutSlots - 1
        /\ t.out_tail \in 0 .. OutSlots - 1 /\ i \in 0 .. OutSlots - 1
    BY <1>2, <1>6, <2>1, SlotAssumption DEF Outs
  <2>9. k <= OutCount(t) /\ d < OutCount(t)
    BY <1>2, <1>3, <2>3, SlotAssumption
  <2>10. QED
    BY <1>7, <1>9, <1>10, <2>2, <2>6, <2>7, <2>8, <2>9
<1>12. QED
  BY <1>1, <1>4, <1>5, <1>11 DEF ActiveInRing

\* The sender's part of the inductive invariant.
TxGood(t) == t \in TxType /\ TxPool(t) /\ ActiveInRing(t)

\* Giving back the buffers of the slots in S and then moving out_head keeps
\* the pool whole: process_ack, and netchan_send_next on an unreliable channel.
LEMMA ReleaseGood ==
    ASSUME NEW t, TxGood(t), NEW u \in TxType, NEW S \in SUBSET ActiveOut(t),
           ActiveOut(u) = ActiveOut(t) \ S,
           u.free = t.free + Cardinality(S),
           u.out_head = t.out_head, u.out_tail = t.out_tail
    PROVE  TxGood(AdvanceHead(u))
<1>1. ActiveInRing(u)
  BY DEF TxGood, ActiveInRing, OutCount
<1>2. /\ IsFiniteSet(ActiveOut(t)) /\ Cardinality(ActiveOut(t)) \in Nat
      /\ Cardinality(S) \in Nat /\ S = ActiveOut(t) \cap S
  <2>1. ActiveOut(t) \in SUBSET Outs /\ S \in SUBSET Outs
    BY DEF ActiveOut
  <2>2. QED
    BY <2>1, SlotSetsFinite
<1>3. Cardinality(ActiveOut(u)) = Cardinality(ActiveOut(t)) - Cardinality(S)
  <2>1. Cardinality(ActiveOut(t) \ S)
          = Cardinality(ActiveOut(t)) - Cardinality(ActiveOut(t) \cap S)
    BY <1>2, FS_Difference
  <2>2. QED
    BY <1>2, <2>1
<1>4. t.free \in Nat
  BY DEF TxGood, TxType
<1>5. TxPool(u)
  BY <1>2, <1>3, <1>4 DEF TxGood, TxPool
<1>6. AdvanceHead(u) \in TxType
  BY AdvanceHeadType
<1>7. QED
  BY <1>1, <1>5, <1>6, AdvanceHeadRing DEF TxGood, TxPool

\* A step that keeps the active slots, the pool and the ring keeps the rest.
LEMMA SameSlotsGood ==
    ASSUME NEW t, TxGood(t), NEW u \in TxType,
           ActiveOut(u) = ActiveOut(t), u.free = t.free,
           u.out_head = t.out_head, u.out_tail = t.out_tail
    PROVE  TxGood(u)
BY DEF TxGood, TxPool, ActiveInRing, OutCount

\* netchan_chan_write: the slot it takes owned no buffer.
LEMMA WriteGood ==
    ASSUME TypeOK, TxGood(tx), NEW len \in Lens, Write(len)
    PROVE  TxGood(tx')
<1> DEFINE i == tx.out_tail
           c == OutCount(tx)
<1>1. tx \in TxType /\ tx' \in TxType /\ i \in Outs /\ tx.out_head \in Outs
  BY WriteType DEF TxGood, TxType
<1>2. RingOffset(tx.out_head, i) = c
  BY DEF RingOffset, OutCount
<1>3. c = IF i >= tx.out_head THEN i - tx.out_head ELSE i - tx.out_head + OutSlots
  BY <1>1, <1>2, RingForms
<1>4. i \notin ActiveOut(tx)
  <2>1. c \in Int
    BY <1>1, <1>3, SlotAssumption DEF Outs
  <2>2. QED
    BY <1>2, <2>1 DEF TxGood, ActiveInRing
<1>5. CASE len > MaxFrags
  <2>1. tx' = [tx EXCEPT !.send_seq = SeqAdd(@, 1), !.written = Append(@, len),
                         !.outgoing[i] = NoOutgoing]
    BY <1>5 DEF Write
  <2>2. /\ tx'.free = tx.free /\ tx'.out_head = tx.out_head /\ tx'.out_tail = tx.out_tail
        /\ tx'.outgoing = [tx.outgoing EXCEPT ![i] = NoOutgoing]
    BY <1>1, <2>1 DEF TxType
  <2>3. ActiveOut(tx') = ActiveOut(tx)
    BY <1>1, <1>4, <2>2 DEF ActiveOut, TxType, NoOutgoing
  <2>4. QED
    BY <1>1, <2>2, <2>3, SameSlotsGood
<1>6. CASE ~ (len > MaxFrags)
  <2> DEFINE o == [seq |-> tx.send_seq, msg |-> Len(tx.written), len |-> len,
                   attempts |-> 0, frag_sent |-> 0, active |-> TRUE]
  <2>1. /\ tx'.free = tx.free - 1 /\ tx'.out_head = tx.out_head /\ tx'.out_tail = Step(i)
        /\ tx'.outgoing = [tx.outgoing EXCEPT ![i] = o]
    BY <1>1, <1>6 DEF Write, TxType
  <2>2. ActiveOut(tx') = ActiveOut(tx) \cup {i}
    BY <1>1, <2>1 DEF ActiveOut, TxType
  <2>3. IsFiniteSet(ActiveOut(tx)) /\ Cardinality(ActiveOut(tx)) \in Nat
    BY SlotSetsFinite DEF ActiveOut
  <2>4. Cardinality(ActiveOut(tx')) = Cardinality(ActiveOut(tx)) + 1
    BY <1>4, <2>2, <2>3, FS_AddElement
  <2>5. TxPool(tx')
    BY <1>1, <2>1, <2>3, <2>4 DEF TxGood, TxPool, TxType
  <2>7. Step(i) = IF i = OutSlots - 1 THEN 0 ELSE i + 1
    BY <1>1, RingForms
  <2>6. Step(i) # tx.out_head /\ Step(i) \in Outs
    <3>1. Step(i) # tx.out_head
      BY DEF Write
    <3>2. Step(i) \in Outs
      BY <1>1, <2>7, SlotAssumption DEF Outs
    <3>3. QED
      BY <3>1, <3>2
  <2>8. OutCount(tx') = IF Step(i) >= tx.out_head THEN Step(i) - tx.out_head
                        ELSE Step(i) - tx.out_head + OutSlots
    BY <1>1, <2>1, <2>6, RingForms DEF OutCount, RingOffset
  <2>9. OutCount(tx') = c + 1
    <3> HIDE DEF c, i
    <3>1. i \in 0 .. OutSlots - 1 /\ tx.out_head \in 0 .. OutSlots - 1 /\ OutSlots \in Nat
      BY <1>1, SlotAssumption DEF Outs
    <3>2. QED
      BY <1>3, <2>6, <2>7, <2>8, <3>1
  <2>10. ASSUME NEW j \in ActiveOut(tx')
         PROVE  RingOffset(tx'.out_head, j) < OutCount(tx')
    <3>1. c \in Int
      BY <1>1, <1>3, SlotAssumption DEF Outs
    <3>2. CASE j = i
      BY <1>2, <2>1, <2>9, <3>1, <3>2
    <3>3. CASE j \in ActiveOut(tx)
      <4>1. j \in Outs
        BY <3>3 DEF ActiveOut
      <4>2. RingOffset(tx.out_head, j) \in Int
        <5>1. RingOffset(tx.out_head, j) = IF j >= tx.out_head THEN j - tx.out_head
                                           ELSE j - tx.out_head + OutSlots
          BY <1>1, <4>1, RingForms
        <5>2. OutSlots \in Int /\ j \in Int /\ tx.out_head \in Int
          BY <1>1, <4>1, SlotAssumption DEF Outs
        <5>3. QED
          BY <5>1, <5>2
      <4>3. RingOffset(tx.out_head, j) < c
        BY <3>3 DEF TxGood, ActiveInRing
      <4>4. QED
        BY <2>1, <2>9, <3>1, <4>2, <4>3
    <3>4. QED
      BY <2>2, <3>2, <3>3
  <2>11. QED
    BY <1>1, <2>5, <2>10 DEF TxGood, ActiveInRing
<1>7. QED
  BY <1>5, <1>6

\* netchan_send_next: a reliable message keeps its buffer, an unreliable one
\* gives it back with its last fragment.
LEMMA SendDataGood ==
    ASSUME TypeOK, TxGood(tx), SendData
    PROVE  TxGood(tx')
<1>1. PICK d \in Sendable :
        LET i == OutAt(tx.out_head, d)
            o == tx.outgoing[i]
            s == [o EXCEPT !.frag_sent = @ + 1, !.attempts = IF @ = 0 THEN 1 ELSE @]
        IN  tx' = IF ChanType = "UNRELIABLE" /\ s.frag_sent >= s.len
                  THEN AdvanceHead([tx EXCEPT !.outgoing[i] = [s EXCEPT !.active = FALSE],
                                              !.free = @ + 1])
                  ELSE [tx EXCEPT !.outgoing[i] = s]
  BY DEF SendData, Sent
<1> DEFINE i == OutAt(tx.out_head, d)
           o == tx.outgoing[i]
           s == [o EXCEPT !.frag_sent = @ + 1, !.attempts = IF @ = 0 THEN 1 ELSE @]
           s0 == [s EXCEPT !.active = FALSE]
           u == [tx EXCEPT !.outgoing[i] = s]
           v == [tx EXCEPT !.outgoing[i] = s0, !.free = @ + 1]
<1>2. tx \in TxType /\ d \in Int /\ tx.out_head \in Int
  BY OutCountType, SlotAssumption DEF TxGood, Sendable, TxType, Outs
<1>3. i \in Outs /\ o \in Outgoing /\ o.active
  BY <1>2, OutAtType DEF TxType, Sendable
<1>4. o.frag_sent < o.len
  BY DEF Sendable
<1> HIDE DEF i, o
<1>5. s \in Outgoing /\ s0 \in Outgoing /\ s.active = TRUE /\ s0.active = FALSE
  <2>1. o.frag_sent + 1 \in 0 .. MaxFrags
    BY <1>3, <1>4, LimitAssumption DEF Outgoing
  <2>2. (IF o.attempts = 0 THEN 1 ELSE o.attempts) \in 0 .. MaxAttempts
    BY <1>3, LimitAssumption DEF Outgoing
  <2>3. QED
    BY <1>3, <2>1, <2>2 DEF Outgoing
<1> HIDE DEF s, s0
<1>6. u \in TxType /\ v \in TxType
  <2>1. tx.free + 1 \in Nat
    BY <1>2 DEF TxType
  <2>2. QED
    BY <1>2, <1>3, <1>5, <2>1 DEF TxType
<1>7. TxGood(u)
  <2>1. /\ u.free = tx.free /\ u.out_head = tx.out_head /\ u.out_tail = tx.out_tail
        /\ u.outgoing = [tx.outgoing EXCEPT ![i] = s]
    BY <1>2 DEF TxType
  <2> HIDE DEF u
  <2>2. ActiveOut(u) = ActiveOut(tx)
    BY <1>2, <1>3, <1>5, <2>1 DEF ActiveOut, TxType, o
  <2>3. QED
    BY <1>6, <2>1, <2>2, SameSlotsGood
<1>8. TxGood(AdvanceHead(v))
  <2>1. /\ v.free = tx.free + 1 /\ v.out_head = tx.out_head /\ v.out_tail = tx.out_tail
        /\ v.outgoing = [tx.outgoing EXCEPT ![i] = s0]
    BY <1>2 DEF TxType
  <2> HIDE DEF v
  <2>2. ActiveOut(v) = ActiveOut(tx) \ {i}
    BY <1>2, <1>5, <2>1 DEF ActiveOut, TxType
  <2>3. {i} \in SUBSET ActiveOut(tx)
    BY <1>3 DEF ActiveOut, o
  <2>4. Cardinality({i}) = 1
    BY FS_Singleton
  <2>5. QED
    BY <1>6, <2>1, <2>2, <2>3, <2>4, ReleaseGood
<1>9. QED
  BY <1>1, <1>7, <1>8 DEF i, o, s, s0, u, v

\* The retransmit loop touches neither the pool nor the active slots.
LEMMA ServiceGood ==
    ASSUME TypeOK, TxGood(tx), NEW expired \in SUBSET Outs, Service(expired)
    PROVE  TxGood(tx')
<1>1. tx' \in TxType /\ tx \in TxType
  BY ServiceType DEF TxGood
<1> DEFINE spent == {i \in expired : tx.outgoing[i].attempts >= MaxAttempts}
           again == {i \in expired : \A j \in spent : i < j}
           out == [i \in Outs |->
                    IF i \in again
                    THEN [tx.outgoing[i] EXCEPT !.frag_sent = 0, !.attempts = @ + 1]
                    ELSE tx.outgoing[i]]
           t == [tx EXCEPT !.outgoing = out]
<1>2. tx' = IF spent = {} THEN t ELSE EvPush([t EXCEPT !.state = "dead"], 1)
  BY DEF Service
<1>3. \A i \in Outs : out[i].active = tx.outgoing[i].active
  BY <1>1 DEF TxType, Outgoing
<1> HIDE DEF out, spent
<1>4. /\ tx'.free = tx.free /\ tx'.out_head = tx.out_head /\ tx'.out_tail = tx.out_tail
      /\ tx'.outgoing = out
  BY <1>1, <1>2 DEF EvPush, TxType
<1>5. ActiveOut(tx') = ActiveOut(tx)
  BY <1>3, <1>4 DEF ActiveOut
<1>6. QED
  BY <1>1, <1>4, <1>5, SameSlotsGood

\* process_ack gives back one buffer for each slot it clears.
LEMMA ProcessAckGood ==
    ASSUME NEW t, TxGood(t), NEW a \in Seqs
    PROVE  TxGood(ProcessAck(t, a))
<1> DEFINE S == AckedSlots(t, a)
           out == [i \in Outs |-> IF i \in S THEN [t.outgoing[i] EXCEPT !.active = FALSE]
                                  ELSE t.outgoing[i]]
           b == (t.bytes_in_flight - SumLen(t.outgoing, S)) % FlightMod
           u == [t EXCEPT !.outgoing = out, !.bytes_in_flight = b,
                          !.free = @ + Cardinality(S)]
<1>1. t \in TxType /\ S \in SUBSET Outs /\ S \in SUBSET ActiveOut(t)
  BY DEF AckedSlots, ActiveOut, TxGood
<1>2. SumLen(t.outgoing, S) \in Nat /\ Cardinality(S) \in Nat
  BY <1>1, SumLenType, SlotSetsFinite
<1>3. t.bytes_in_flight \in Int /\ t.free + Cardinality(S) \in Nat
  BY <1>1, <1>2, LimitAssumption DEF TxType
<1>4. b \in 0 .. FlightMod - 1
  BY <1>2, <1>3, LimitAssumption
<1>5. out \in [Outs -> Outgoing]
  BY <1>1 DEF TxType, Outgoing
<1>6. ProcessAck(t, a) = AdvanceHead(u)
  BY DEF ProcessAck
<1>7. \A i \in Outs : out[i].active = (t.outgoing[i].active /\ i \notin S)
  BY <1>1 DEF TxType, Outgoing
<1> HIDE DEF out, b, S
<1>8. u \in TxType
  BY <1>1, <1>3, <1>4, <1>5 DEF TxType
<1>9. /\ u.free = t.free + Cardinality(S) /\ u.out_head = t.out_head
      /\ u.out_tail = t.out_tail /\ u.outgoing = out
  BY <1>1 DEF TxType
<1> HIDE DEF u
<1>10. ActiveOut(u) = ActiveOut(t) \ S
  BY <1>7, <1>9 DEF ActiveOut
<1>11. QED
  BY <1>1, <1>6, <1>8, <1>9, <1>10, ReleaseGood

-----------------------------------------------------------------------------
(* The receiver's pool.                                                    *)

\* The receiver's part of the inductive invariant.
RxGood(r) == RxBounded(r) /\ RxPool(r)

\* The counts in RxPool are natural numbers.
LEMMA RxCounts ==
    ASSUME NEW r \in RxType
    PROVE  /\ r.free \in Nat /\ Len(r.queue) \in Nat
           /\ IsFiniteSet(HeldSlots(r)) /\ Cardinality(HeldSlots(r)) \in Nat
           /\ IsFiniteSet(ActiveFrags(r)) /\ Cardinality(ActiveFrags(r)) \in Nat
<1>1. HeldSlots(r) \in SUBSET Reorders /\ ActiveFrags(r) \in SUBSET FragSlotIds
  BY DEF HeldSlots, ActiveFrags
<1>2. r.free \in Nat /\ r.queue \in Seq(Payload)
  BY DEF RxType
<1>3. QED
  BY <1>1, <1>2, SlotSetsFinite, LenProperties

\* chan_recv_enqueue takes a buffer exactly when it takes a queue slot, and
\* leaves the reorder buffer and the reassembly slots alone.
LEMMA EnqueueGood ==
    ASSUME NEW r, RxGood(r), NEW data \in Payload
    PROVE  /\ RxGood(Enqueue(r, data))
           /\ Enqueue(r, data).reorder = r.reorder
           /\ Enqueue(r, data).frags = r.frags
<1> DEFINE e == Enqueue(r, data)
<1>1. RxBounded(e) /\ r \in RxType
  BY EnqueueBounded DEF RxGood, RxBounded
<1>2. e.reorder = r.reorder /\ e.frags = r.frags
  BY <1>1 DEF Enqueue, EvPush, Append2Queue, RxType
<1>3. e.free + Len(e.queue) = r.free + Len(r.queue)
  <2>1. CASE QueueRoom(r) > 0 /\ r.free > 0
    <3>1. e = EvPush(Append2Queue(r, <<data>>), 1)
      BY <2>1 DEF Enqueue
    <3>2. e.queue = r.queue \o <<data>> /\ e.free = r.free - Len(<<data>>)
      BY <1>1, <3>1 DEF EvPush, Append2Queue, RxType
    <3>3. r.queue \in Seq(Payload) /\ <<data>> \in Seq(Payload) /\ Len(<<data>>) = 1
      BY <1>1 DEF RxType
    <3>4. Len(r.queue \o <<data>>) = Len(r.queue) + 1
      BY <3>3, ConcatProperties
    <3>5. QED
      BY <1>1, <3>2, <3>3, <3>4, RxCounts, SMTT(30)
  <2>2. CASE ~ (QueueRoom(r) > 0 /\ r.free > 0)
    BY <1>1, <2>2 DEF Enqueue, EvPush, RxType
  <2>3. QED
    BY <2>1, <2>2
<1>4. HeldSlots(e) = HeldSlots(r) /\ ActiveFrags(e) = ActiveFrags(r)
  BY <1>2 DEF HeldSlots, ActiveFrags
<1> HIDE DEF e
<1>5. RxPool(e)
  BY <1>3, <1>4 DEF RxGood, RxPool
<1>6. QED
  BY <1>1, <1>2, <1>5 DEF RxGood, e

\* Sequence number arithmetic without the remainder.
LEMMA SeqForm ==
    ASSUME NEW s \in Seqs, NEW i \in 0 .. SeqMod - 1
    PROVE  SeqAdd(s, i) = IF s + i < SeqMod THEN s + i ELSE s + i - SeqMod
BY SeqAssumption DEF SeqAdd, Seqs

\* Fewer than SeqMod steps from a sequence number never meet.
LEMMA SeqAddInjective ==
    ASSUME NEW s \in Seqs, NEW i \in 0 .. SeqMod - 1, NEW j \in 0 .. SeqMod - 1,
           SeqAdd(s, i) = SeqAdd(s, j)
    PROVE  i = j
<1>1. /\ SeqAdd(s, i) = IF s + i < SeqMod THEN s + i ELSE s + i - SeqMod
      /\ SeqAdd(s, j) = IF s + j < SeqMod THEN s + j ELSE s + j - SeqMod
  BY SeqForm
<1>2. SeqMod \in Int /\ s \in 0 .. SeqMod - 1
  BY SeqAssumption DEF Seqs
<1>3. (IF s + i < SeqMod THEN s + i ELSE s + i - SeqMod)
        = (IF s + j < SeqMod THEN s + j ELSE s + j - SeqMod)
  BY <1>1
<1>4. CASE s + i < SeqMod
  BY <1>2, <1>3, <1>4
<1>5. CASE ~ (s + i < SeqMod)
  BY <1>2, <1>3, <1>5
<1>6. QED
  BY <1>4, <1>5

\* The run takes one slot for each of its messages: two of them never share
\* one, for the slot would hold two sequence numbers.
LEMMA RunSlotsCount ==
    ASSUME NEW r \in RxType
    PROVE  /\ RunSlots(r) \in SUBSET HeldSlots(r)
           /\ Cardinality(RunSlots(r)) = RunLen(r)
<1> DEFINE n == RunLen(r)
           D == 0 .. n - 1
           g == [i \in D |-> RunSlot(r, i)]
<1>1. n \in 0 .. ReorderSlots /\ n \in Nat /\ RunSet(r) = D
  <2>1. ReorderSlots \in Nat /\ RunSet(r) \subseteq 0 .. ReorderSlots - 1
    BY SlotAssumption DEF RunSet
  <2>2. \A d \in RunSet(r) : \A e \in 0 .. d : e \in RunSet(r)
    BY <2>1 DEF RunSet
  <2>3. QED
    BY <2>1, <2>2, InitialSegment DEF RunLen
<1>2. ASSUME NEW i \in D
      PROVE  /\ i \in 0 .. SeqMod - 1 /\ SeqAdd(r.recv_seq, i) \in Int
             /\ Held(r, SeqAdd(r.recv_seq, i))
  <2>1. i \in Nat /\ i \in 0 .. i
    BY <1>1
  <2>2. i < SeqMod
    <3>1. ReorderSlots \in Nat /\ SeqMod \in Nat /\ 2 * ReorderSlots <= SeqMod
      BY SeqAssumption, SlotAssumption, ReorderAssumption
    <3>2. i < n /\ n <= ReorderSlots
      BY <1>1
    <3>3. QED
      BY <1>1, <2>1, <3>1, <3>2
  <2>3. Held(r, SeqAdd(r.recv_seq, i))
    BY <1>1, <2>1 DEF RunSet
  <2>4. r.recv_seq \in Int
    BY SeqAssumption DEF RxType, Seqs
  <2>5. SeqAdd(r.recv_seq, i) \in Int
    <3>1. SeqAdd(r.recv_seq, i) \in Seqs
      BY <2>1, <2>4, SeqAddType
    <3>2. QED
      BY <3>1, SeqAssumption DEF Seqs
  <2>6. QED
    BY <2>1, <2>2, <2>3, <2>5, SeqAssumption
<1>3. ASSUME NEW i \in D
      PROVE  /\ RunSlot(r, i) \in HeldSlots(r)
             /\ r.reorder[RunSlot(r, i)].seq = SeqAdd(r.recv_seq, i)
  <2>1. RunSlot(r, i) \in Reorders
    BY <1>2, ReorderSlotType DEF RunSlot
  <2>2. QED
    BY <1>2, <2>1 DEF Held, RunSlot, HeldSlots
<1>4. ASSUME NEW i \in D, NEW j \in D, RunSlot(r, i) = RunSlot(r, j)
      PROVE  i = j
  <2>1. SeqAdd(r.recv_seq, i) = SeqAdd(r.recv_seq, j)
    BY <1>3, <1>4
  <2>2. r.recv_seq \in Seqs /\ i \in 0 .. SeqMod - 1 /\ j \in 0 .. SeqMod - 1
    BY <1>2 DEF RxType
  <2>3. QED
    BY <2>1, <2>2, SeqAddInjective
<1>5. RunSlots(r) = {g[i] : i \in D}
  BY DEF RunSlots
<1> HIDE DEF n
<1>6. g \in Bijection(D, RunSlots(r))
  <2>1. g \in [D -> RunSlots(r)]
    BY <1>5
  <2>2. \A i, j \in D : g[i] = g[j] => i = j
    BY <1>4
  <2>3. \A t \in RunSlots(r) : \E i \in D : g[i] = t
    BY <1>5
  <2>4. QED
    BY <2>1, <2>2, <2>3 DEF Bijection, Injection, Surjection, IsInjective
<1>7. IsFiniteSet(D) /\ Cardinality(D) = n
  BY <1>1, FS_Interval
<1>8. Cardinality(RunSlots(r)) = Cardinality(D)
  BY <1>6, <1>7, FS_Bijection DEF ExistsBijection
<1>9. RunSlots(r) \in SUBSET HeldSlots(r)
  BY <1>3, <1>5
<1>10. QED
  BY <1>7, <1>8, <1>9 DEF n

\* chan_deliver_reordered: every buffer of the run is in the queue or free
\* again afterwards, also when the queue or the pool runs out on the way.
LEMMA DeliverGood ==
    ASSUME NEW r, RxGood(r)
    PROVE  /\ RxGood(DeliverReordered(r))
           /\ DeliverReordered(r).frags = r.frags
<1> DEFINE d == DeliverReordered(r)
           n == RunLen(r)
           q == RunKept(r)
           reorder == [s \in Reorders |-> IF s \in RunSlots(r) THEN NoReorder ELSE r.reorder[s]]
<1>1. RxBounded(d) /\ r \in RxType /\ QueueRoom(r) \in Nat
  BY DeliverBounded DEF RxGood, RxBounded
<1>2. n \in Nat /\ q \in Seq(Payload) /\ Len(q) \in 0 .. n
  BY <1>1, RunLenType, RunKeptType, SlotAssumption
<1>3. /\ d.queue = r.queue \o q /\ d.free = r.free + n - Len(q)
      /\ d.reorder = reorder /\ d.frags = r.frags
  BY <1>1 DEF DeliverReordered, EvPush, Append2Queue, RxType
<1>4. Len(d.queue) = Len(r.queue) + Len(q)
  <2>1. r.queue \in Seq(Payload)
    BY <1>1 DEF RxType
  <2>2. QED
    BY <1>2, <1>3, <2>1, ConcatProperties
<1>5. HeldSlots(d) = HeldSlots(r) \ RunSlots(r)
  <2> HIDE DEF d
  <2>1. \A s \in Reorders :
           d.reorder[s] = IF s \in RunSlots(r) THEN NoReorder ELSE r.reorder[s]
    BY <1>3
  <2>2. NoReorder.valid = FALSE
    BY DEF NoReorder
  <2> HIDE DEF reorder
  <2>3. QED
    BY <2>1, <2>2 DEF HeldSlots
<1>6. Cardinality(HeldSlots(d)) = Cardinality(HeldSlots(r)) - n
  <2>1. HeldSlots(r) \cap RunSlots(r) = RunSlots(r)
    BY <1>1, RunSlotsCount
  <2>2. Cardinality(HeldSlots(r) \ RunSlots(r))
          = Cardinality(HeldSlots(r)) - Cardinality(HeldSlots(r) \cap RunSlots(r))
    BY <1>1, RxCounts, FS_Difference
  <2>3. QED
    BY <1>1, <1>5, <2>1, <2>2, RunSlotsCount
<1>7. ActiveFrags(d) = ActiveFrags(r)
  BY <1>3 DEF ActiveFrags
<1> HIDE DEF d, n, q
<1>8. RxPool(d)
  <2>1. /\ r.free \in Nat /\ Len(r.queue) \in Nat /\ Cardinality(HeldSlots(r)) \in Nat
        /\ Cardinality(ActiveFrags(r)) \in Nat /\ Len(q) \in Nat
    BY <1>1, <1>2, RxCounts
  <2>2. r.free + Len(r.queue) + Cardinality(HeldSlots(r)) + Cardinality(ActiveFrags(r)) = PoolBufs
    BY DEF RxGood, RxPool
  <2>3. d.free + Len(d.queue) + Cardinality(HeldSlots(d)) + Cardinality(ActiveFrags(d)) = PoolBufs
    BY <1>2, <1>3, <1>4, <1>6, <1>7, <2>1, <2>2
  <2>4. QED
    BY <2>3 DEF RxPool
<1>9. QED
  BY <1>1, <1>3, <1>8 DEF RxGood, d

\* A complete message is queued, held in a slot that was empty, or dropped.
LEMMA AcceptGood ==
    ASSUME NEW r, RxGood(r), NEW seq \in Seqs, NEW data \in Payload
    PROVE  /\ RxGood(Accept(r, seq, data))
           /\ Accept(r, seq, data).frags = r.frags
<1> DEFINE e == Enqueue(r, data)
           u == [e EXCEPT !.recv_seq = SeqAdd(@, 1), !.passed = @ + 1]
           slot == ReorderSlot(seq)
           m == [seq |-> seq, data |-> data, valid |-> TRUE]
           h == [r EXCEPT !.free = @ - 1, !.reorder[slot] = m]
<1>1. RxGood(e) /\ e.frags = r.frags /\ r \in RxType /\ e \in RxType
  BY EnqueueGood DEF RxGood, RxBounded
<1>2. RxBounded(Accept(r, seq, data))
  BY AcceptBounded DEF RxGood
<1>3. CASE seq = r.recv_seq
  <2>1. Accept(r, seq, data) = DeliverReordered(u)
    BY <1>3 DEF Accept
  <2> HIDE DEF e
  <2>2. u \in RxType
    <3>1. e.recv_seq \in Int /\ e.passed \in Nat
      BY <1>1, SeqAssumption DEF RxType, Seqs
    <3>2. SeqAdd(e.recv_seq, 1) \in Seqs /\ e.passed + 1 \in Nat
      BY <3>1, SeqAddType
    <3>3. QED
      BY <1>1, <3>2 DEF RxType
  <2>3. /\ u.queue = e.queue /\ u.free = e.free /\ u.reorder = e.reorder
        /\ u.frags = e.frags
    BY <1>1 DEF RxType
  <2> HIDE DEF u
  <2>4. RxGood(u)
    BY <1>1, <2>2, <2>3
       DEF RxGood, RxBounded, RxPool, HeldSlots, ActiveFrags, QueueRoom
  <2>5. QED
    BY <1>1, <2>1, <2>3, <2>4, DeliverGood
<1>4. ASSUME r.free > 0, ~ r.reorder[slot].valid, Accept(r, seq, data) = h
      PROVE  RxPool(h) /\ h.frags = r.frags
  <2>1. slot \in Reorders
    BY ReorderSlotType, SeqAssumption DEF Seqs
  <2>2. /\ h.free = r.free - 1 /\ h.queue = r.queue /\ h.frags = r.frags
        /\ h.reorder = [r.reorder EXCEPT ![slot] = m]
    BY <1>1 DEF RxType
  <2> HIDE DEF h, slot
  <2>3. HeldSlots(h) = HeldSlots(r) \cup {slot} /\ slot \notin HeldSlots(r)
    BY <1>1, <1>4, <2>1, <2>2 DEF HeldSlots, RxType
  <2>4. Cardinality(HeldSlots(h)) = Cardinality(HeldSlots(r)) + 1
    BY <1>1, <2>3, RxCounts, FS_AddElement
  <2>5. ActiveFrags(h) = ActiveFrags(r)
    BY <2>2 DEF ActiveFrags
  <2>6. /\ r.free \in Nat /\ Len(r.queue) \in Nat /\ Cardinality(HeldSlots(r)) \in Nat
        /\ Cardinality(ActiveFrags(r)) \in Nat
    BY <1>1, RxCounts
  <2>7. QED
    BY <2>2, <2>4, <2>5, <2>6, SMTT(30) DEF RxGood, RxPool
<1>5. CASE seq # r.recv_seq
  <2>1. CASE Accept(r, seq, data) = r
    BY <2>1
  <2>2. CASE Accept(r, seq, data) # r
    <3>1. r.free > 0 /\ ~ r.reorder[slot].valid /\ Accept(r, seq, data) = h
      BY <1>5, <2>2 DEF Accept
    <3> HIDE DEF h
    <3>2. QED
      BY <1>2, <1>4, <3>1 DEF RxGood
  <2>3. QED
    BY <2>1, <2>2
<1>6. QED
  BY <1>3, <1>5

\* Taking, filling or freeing reassembly slot i, when the pool is debited or
\* credited for it.
LEMMA FragChange ==
    ASSUME NEW q, RxGood(q), NEW i \in FragSlotIds, NEW fr \in FragAsm, NEW m \in Nat,
           m + (IF fr.active THEN 1 ELSE 0)
             = q.free + (IF q.frags[i].active THEN 1 ELSE 0)
    PROVE  RxGood([q EXCEPT !.frags[i] = fr, !.free = m])
<1> DEFINE u == [q EXCEPT !.frags[i] = fr, !.free = m]
<1>1. q \in RxType
  BY DEF RxGood, RxBounded
<1>2. u \in RxType
  BY <1>1 DEF RxType
<1>3. /\ u.free = m /\ u.queue = q.queue /\ u.reorder = q.reorder
      /\ u.frags = [q.frags EXCEPT ![i] = fr]
  BY <1>1 DEF RxType
<1> HIDE DEF u
<1>4. RxBounded(u)
  BY <1>2, <1>3 DEF RxGood, RxBounded, QueueRoom
<1>5. HeldSlots(u) = HeldSlots(q)
  BY <1>3 DEF HeldSlots
<1>6. /\ Len(q.queue) \in Nat /\ Cardinality(HeldSlots(q)) \in Nat
      /\ IsFiniteSet(ActiveFrags(q)) /\ Cardinality(ActiveFrags(q)) \in Nat /\ q.free \in Nat
  BY <1>1, RxCounts
<1>7. /\ i \in ActiveFrags(q) <=> q.frags[i].active
      /\ ActiveFrags(u) = IF fr.active THEN ActiveFrags(q) \cup {i} ELSE ActiveFrags(q) \ {i}
  BY <1>1, <1>3 DEF ActiveFrags, RxType
<1>8. Cardinality(ActiveFrags(u)) + (IF q.frags[i].active THEN 1 ELSE 0)
        = Cardinality(ActiveFrags(q)) + (IF fr.active THEN 1 ELSE 0)
  <2>1. CASE fr.active
    <3>1. Cardinality(ActiveFrags(u)) = IF i \in ActiveFrags(q) THEN Cardinality(ActiveFrags(q))
                                        ELSE Cardinality(ActiveFrags(q)) + 1
      BY <1>6, <1>7, <2>1, FS_AddElement
    <3>2. QED
      BY <1>6, <1>7, <2>1, <3>1
  <2>2. CASE ~ fr.active
    <3>1. Cardinality(ActiveFrags(u)) = IF i \in ActiveFrags(q)
                                        THEN Cardinality(ActiveFrags(q)) - 1
                                        ELSE Cardinality(ActiveFrags(q))
      BY <1>6, <1>7, <2>2, FS_RemoveElement
    <3>2. QED
      BY <1>6, <1>7, <2>2, <3>1
  <2>3. QED
    BY <2>1, <2>2
<1>9. Cardinality(ActiveFrags(u)) \in Nat
  BY <1>2, RxCounts
<1>10. RxPool(u)
  <2>1. q.free + Len(q.queue) + Cardinality(HeldSlots(q)) + Cardinality(ActiveFrags(q)) = PoolBufs
    BY DEF RxGood, RxPool
  <2>2. m + Cardinality(ActiveFrags(u)) = q.free + Cardinality(ActiveFrags(q))
    BY <1>6, <1>8, <1>9
  <2>3. m + Len(q.queue) + Cardinality(HeldSlots(q)) + Cardinality(ActiveFrags(u)) = PoolBufs
    <3>1. q.free = m + Cardinality(ActiveFrags(u)) - Cardinality(ActiveFrags(q))
      BY <1>6, <1>9, <2>2
    <3>2. m + Cardinality(ActiveFrags(u)) - Cardinality(ActiveFrags(q)) + Len(q.queue)
            + Cardinality(HeldSlots(q)) + Cardinality(ActiveFrags(q)) = PoolBufs
      BY <2>1, <3>1
    <3>3. QED
      BY <1>6, <1>9, <3>2
  <2>4. QED
    BY <1>3, <1>5, <2>3 DEF RxPool
<1>11. QED
  BY <1>4, <1>10 DEF RxGood, u

\* Reassembly: a slot has a buffer from its first fragment to its last, and the
\* completed message is delivered before the slot's own buffer is given back.
LEMMA ReassembleGood ==
    ASSUME NEW r, RxGood(r), NEW f \in DataPacket
    PROVE  RxGood(Reassemble(r, f))
<1> DEFINE found == FragFind(r, f.seq)
           S == Lowest(IF found # {} THEN found ELSE FragAlloc(r))
           i == CHOOSE i \in S : TRUE
           new == [NoFrag EXCEPT !.seq = f.seq, !.total = f.frag_total, !.active = TRUE]
           asm == IF found # {} THEN r.frags[i] ELSE new
           r1 == IF found # {} THEN r ELSE [r EXCEPT !.frags[i] = asm, !.free = @ - 1]
           got == [asm EXCEPT !.parts[f.frag_idx] = f.data]
           whole == [k \in 1 .. got.total |-> got.parts[k - 1]]
           fresh == f.frag_idx < asm.total /\ asm.parts[f.frag_idx] = NoPart
           done == \A k \in 0 .. got.total - 1 : got.parts[k] # NoPart
           r2 == IF ChanType = "UNRELIABLE" THEN Enqueue(r1, whole)
                 ELSE Accept(r1, f.seq, whole)
<1>0. r \in RxType
  BY DEF RxGood, RxBounded
<1>1. CASE S = {}
  BY <1>1 DEF Reassemble
<1>2. CASE S # {}
  <2>1. /\ i \in S /\ i \in FragSlotIds
        /\ found # {} => r.frags[i].active
        /\ found = {} => r.free > 0 /\ ~ r.frags[i].active
    BY <1>2 DEF Lowest, FragFind, FragAlloc
  <2>2. /\ f.seq \in Seqs /\ f.frag_idx \in FragIds /\ f.frag_total \in 0 .. MaxFrags
        /\ f.data \in Nat
    BY LimitAssumption DEF DataPacket
  <2>3. NoFrag \in FragAsm /\ ~ NoFrag.active
    BY SeqAssumption, LimitAssumption DEF NoFrag, FragAsm, Seqs
  <2> HIDE DEF i
  <2>4. new \in FragAsm /\ new.active
    BY <2>2, <2>3 DEF FragAsm
  <2> HIDE DEF new
  <2>5. asm \in FragAsm /\ asm.active
    BY <1>0, <2>1, <2>4 DEF RxType
  <2> HIDE DEF asm
  <2>6. RxGood(r1) /\ r1.frags[i] = asm
    <3>1. CASE found # {}
      BY <3>1 DEF asm
    <3>2. CASE found = {}
      <4>1. r.free \in Nat /\ r.free > 0 /\ ~ r.frags[i].active
        BY <1>0, <2>1, <3>2 DEF RxType
      <4>2. r1 = [r EXCEPT !.frags[i] = asm, !.free = r.free - 1]
        BY <1>0, <3>2 DEF RxType
      <4>3. r.free - 1 \in Nat
        BY <4>1
      <4>4. r.free - 1 + (IF asm.active THEN 1 ELSE 0)
              = r.free + (IF r.frags[i].active THEN 1 ELSE 0)
        BY <2>5, <4>1
      <4>5. RxGood([r EXCEPT !.frags[i] = asm, !.free = r.free - 1])
        BY <2>1, <2>5, <4>3, <4>4, FragChange
      <4>6. [r EXCEPT !.frags[i] = asm, !.free = r.free - 1].frags[i] = asm
        BY <1>0, <2>1 DEF RxType
      <4>7. QED
        BY <4>2, <4>5, <4>6
    <3>3. QED
      BY <3>1, <3>2
  <2> HIDE DEF r1
  <2>7. got \in FragAsm /\ got.active
    BY <2>2, <2>5 DEF FragAsm
  <2> HIDE DEF got
  <2>8. CASE ~ fresh
    BY <1>2, <2>6, <2>8 DEF Reassemble, r1, asm, i, new
  <2>9. CASE fresh /\ ~ done
    <3>1. r1 \in RxType /\ r1.free \in Nat
      BY <2>6 DEF RxGood, RxBounded, RxType
    <3>2. r1.free + (IF got.active THEN 1 ELSE 0)
            = r1.free + (IF r1.frags[i].active THEN 1 ELSE 0)
      BY <2>5, <2>6, <2>7, <3>1
    <3>3. RxGood([r1 EXCEPT !.frags[i] = got, !.free = r1.free])
      BY <2>1, <2>6, <2>7, <3>1, <3>2, FragChange
    <3>4. [r1 EXCEPT !.frags[i] = got, !.free = r1.free] = [r1 EXCEPT !.frags[i] = got]
      BY <3>1 DEF RxType
    <3>5. Reassemble(r, f) = [r1 EXCEPT !.frags[i] = got]
      BY <1>2, <2>9 DEF Reassemble, r1, asm, i, got, new
    <3>6. QED
      BY <3>3, <3>4, <3>5
  <2>10. CASE fresh /\ done
    <3>1. got.total \in Nat
      BY <2>7, LimitAssumption DEF FragAsm
    <3>2. \A k \in 1 .. got.total : got.parts[k - 1] \in Nat
      BY <2>7, <2>10, <3>1, LimitAssumption DEF FragAsm, FragIds, NoPart
    <3>3. whole \in Payload
      BY <3>1, <3>2 DEF Payload
    <3> HIDE DEF whole
    <3>4. RxGood(r2) /\ r2.frags = r1.frags
      BY <2>2, <2>6, <3>3, EnqueueGood, AcceptGood
    <3>5. r2 \in RxType /\ r2.free \in Nat /\ r2.free + 1 \in Nat
      <4>1. r2 \in RxType
        BY <3>4 DEF RxGood, RxBounded
      <4> HIDE DEF r2
      <4>2. r2.free \in Nat
        BY <4>1 DEF RxType
      <4>3. QED
        BY <4>1, <4>2
    <3>6. r2.free + 1 + (IF NoFrag.active THEN 1 ELSE 0)
            = r2.free + (IF r2.frags[i].active THEN 1 ELSE 0)
      BY <2>3, <2>5, <2>6, <3>4, <3>5
    <3>7. RxGood([r2 EXCEPT !.frags[i] = NoFrag, !.free = r2.free + 1])
      BY <2>1, <2>3, <3>4, <3>5, <3>6, FragChange
    <3>8. Reassemble(r, f) = [r2 EXCEPT !.frags[i] = NoFrag, !.free = r2.free + 1]
      BY <1>2, <2>10, <3>5 DEF Reassemble, r1, asm, i, got, whole, new, RxType
    <3>9. QED
      BY <3>7, <3>8
  <2>11. QED
    BY <2>8, <2>9, <2>10
<1>3. QED
  BY <1>1, <1>2

\* process_data keeps the receiver's pool whole.
LEMMA ProcessDataGood ==
    ASSUME NEW r, RxGood(r), NEW f \in DataPacket
    PROVE  RxGood(ProcessData(r, f))
<1> DEFINE a == IF f.frag_total <= 1 THEN Accept(r, f.seq, <<f.data>>) ELSE Reassemble(r, f)
           ack == IF a.recv_seq > 0 THEN a.recv_seq - 1 ELSE 0
<1>1. f.seq \in Seqs /\ <<f.data>> \in Payload
  BY DEF DataPacket, Payload
<1>2. CASE ChanType = "UNRELIABLE"
  BY <1>1, <1>2, EnqueueGood, ReassembleGood DEF ProcessData
<1>3. CASE ChanType # "UNRELIABLE"
  <2>1. RxGood(a)
    BY <1>1, AcceptGood, ReassembleGood
  <2>2. ProcessData(r, f) = [a EXCEPT !.need_ack = TRUE, !.ack_seq = ack]
    BY <1>3 DEF ProcessData
  <2>3. RxBounded(ProcessData(r, f))
    BY ProcessDataBounded DEF RxGood
  <2> HIDE DEF a, ack
  <2> DEFINE p == ProcessData(r, f)
  <2>4. /\ p.queue = a.queue /\ p.free = a.free /\ p.reorder = a.reorder
        /\ p.frags = a.frags
    BY <2>1, <2>2 DEF RxGood, RxBounded, RxType
  <2> HIDE DEF p
  <2>5. RxPool(p)
    BY <2>1, <2>4 DEF RxGood, RxPool, HeldSlots, ActiveFrags
  <2>6. QED
    BY <2>3, <2>5 DEF RxGood, p
<1>4. QED
  BY <1>2, <1>3

\* A step of the receiver that leaves the four owners of buffers alone.
LEMMA SameOwnersGood ==
    ASSUME NEW r, RxGood(r), NEW u, RxBounded(u),
           u.queue = r.queue, u.free = r.free, u.reorder = r.reorder, u.frags = r.frags
    PROVE  RxGood(u)
BY DEF RxGood, RxPool, HeldSlots, ActiveFrags

\* netchan_chan_read gives back the buffer of the message it takes.
LEMMA ReadGood ==
    ASSUME TypeOK, RxGood(rx), NEW buflen \in ReadSizes, Read(buflen)
    PROVE  RxGood(rx')
<1>1. rx \in RxType /\ rx.queue \in Seq(Payload) /\ rx.queue # << >>
  BY DEF TypeOK, RxType, Read
<1>2. RxBounded(rx')
  BY ReadType DEF RxBounded
<1>3. /\ rx'.queue = Tail(rx.queue) /\ rx'.free = rx.free + 1
      /\ rx'.reorder = rx.reorder /\ rx'.frags = rx.frags
  BY <1>1 DEF Read, RxType
<1>4. Len(Tail(rx.queue)) = Len(rx.queue) - 1
  BY <1>1, HeadTailProperties
<1>5. HeldSlots(rx') = HeldSlots(rx) /\ ActiveFrags(rx') = ActiveFrags(rx)
  BY <1>3 DEF HeldSlots, ActiveFrags
<1>6. rx'.free + Len(rx'.queue) = rx.free + Len(rx.queue)
  BY <1>1, <1>3, <1>4, RxCounts
<1>7. RxPool(rx')
  BY <1>5, <1>6 DEF RxGood, RxPool
<1>8. QED
  BY <1>2, <1>7 DEF RxGood

-----------------------------------------------------------------------------
(* No buffer is lost and none is given back twice.                         *)

\* Both ends: the inductive invariant behind PoolConserved.
Good == TypeOK /\ TxGood(tx) /\ RxGood(rx)

\* The channel as it is after the open handshake owns no buffer.
LEMMA InitGood == Init => Good
<1> SUFFICES ASSUME Init PROVE Good
  OBVIOUS
<1>1. TypeOK
  BY InitType
<1>2. ActiveOut(tx) = {} /\ HeldSlots(rx) = {} /\ ActiveFrags(rx) = {}
  BY DEF Init, ActiveOut, HeldSlots, ActiveFrags, NoOutgoing, NoReorder, NoFrag
<1>3. tx.free = PoolBufs /\ rx.free = PoolBufs /\ rx.queue = << >> /\ PoolBufs \in Nat
  BY SlotAssumption DEF Init
<1>4. Cardinality({}) = 0 /\ Len(<< >>) = 0
  BY FS_EmptySet
<1>5. TxPool(tx) /\ RxPool(rx)
  BY <1>2, <1>3, <1>4 DEF TxPool, RxPool
<1>6. ActiveInRing(tx)
  BY <1>2 DEF ActiveInRing
<1>7. QED
  BY <1>1, <1>5, <1>6 DEF Good, TxGood, RxGood, RxBounded, TypeOK

\* Every step keeps both pools whole.
LEMMA NextGood == Good /\ [Next]_vars => Good'
<1> SUFFICES ASSUME Good, [Next]_vars PROVE Good'
  OBVIOUS
<1>0. /\ TypeOK /\ TxGood(tx) /\ RxGood(rx) /\ TypeOK' /\ tx' \in TxType /\ RxBounded(rx')
      /\ tx \in TxType /\ rx \in RxType
  <2>1. TypeOK /\ TypeOK'
    BY NextType DEF Good
  <2>2. QED
    BY <2>1 DEF Good, TypeOK, RxBounded
<1>1. ASSUME NEW len \in Lens, Write(len) PROVE TxGood(tx') /\ rx' = rx
  BY <1>0, <1>1, WriteGood DEF Write
<1>2. CASE SendData
  <2>1. TxGood(tx') /\ rx' = rx
    BY <1>0, <1>2, SendDataGood DEF SendData
  <2>2. QED
    BY <1>0, <2>1 DEF Good
<1>3. ASSUME NEW expired \in SUBSET Outs, Service(expired) PROVE TxGood(tx') /\ rx' = rx
  BY <1>0, <1>3, ServiceGood DEF Service
<1>4. ASSUME NEW p \in fnet, RecvFeedback(p) PROVE TxGood(tx') /\ rx' = rx
  <2> DEFINE t == IF p.has_ack THEN ProcessAck(tx, p.ack_seq) ELSE tx
  <2>1. p.ack_seq \in Seqs
    BY <1>0 DEF TypeOK, Feedback
  <2>2. TxGood(t)
    BY <1>0, <2>1, ProcessAckGood
  <2>3. rx' = rx /\ tx' = IF p.has_window THEN [t EXCEPT !.send_window = p.window] ELSE t
    BY <1>4 DEF RecvFeedback
  <2> HIDE DEF t
  <2>4. t \in TxType
    BY <2>2 DEF TxGood
  <2>5. /\ tx'.outgoing = t.outgoing /\ tx'.free = t.free
        /\ tx'.out_head = t.out_head /\ tx'.out_tail = t.out_tail
    BY <2>3, <2>4 DEF TxType
  <2>6. ActiveOut(tx') = ActiveOut(t)
    BY <2>5 DEF ActiveOut
  <2>7. QED
    BY <1>0, <2>2, <2>3, <2>5, <2>6, SameSlotsGood
<1>5. CASE PollSender
  <2>1. /\ rx' = rx /\ tx'.outgoing = tx.outgoing /\ tx'.free = tx.free
        /\ tx'.out_head = tx.out_head /\ tx'.out_tail = tx.out_tail
    BY <1>0, <1>5 DEF PollSender, TxType
  <2>2. ActiveOut(tx') = ActiveOut(tx)
    BY <2>1 DEF ActiveOut
  <2>3. TxGood(tx')
    BY <1>0, <2>1, <2>2, SameSlotsGood
  <2>4. QED
    BY <1>0, <2>1, <2>3 DEF Good
<1>6. ASSUME NEW f \in dnet, RecvData(f) PROVE RxGood(rx') /\ tx' = tx
  <2>1. f \in DataPacket
    BY <1>0 DEF TypeOK
  <2>2. QED
    BY <1>0, <1>6, <2>1, ProcessDataGood DEF RecvData
<1>7. CASE SendFeedback
  <2>1. /\ tx' = tx /\ rx'.queue = rx.queue /\ rx'.free = rx.free
        /\ rx'.reorder = rx.reorder /\ rx'.frags = rx.frags
    BY <1>0, <1>7 DEF SendFeedback, RxType
  <2>2. QED
    BY <1>0, <2>1, SameOwnersGood DEF Good
<1>8. ASSUME NEW buflen \in ReadSizes, Read(buflen) PROVE RxGood(rx') /\ tx' = tx
  BY <1>0, <1>8, ReadGood DEF Read
<1>9. CASE PollReceiver
  <2>1. /\ tx' = tx /\ rx'.queue = rx.queue /\ rx'.free = rx.free
        /\ rx'.reorder = rx.reorder /\ rx'.frags = rx.frags
    BY <1>0, <1>9 DEF PollReceiver, RxType
  <2>2. QED
    BY <1>0, <2>1, SameOwnersGood DEF Good
<1>10. CASE UNCHANGED vars
  BY <1>0, <1>10 DEF vars, Good
<1>11. QED
  BY <1>0, <1>1, <1>2, <1>3, <1>4, <1>5, <1>6, <1>7, <1>8, <1>9, <1>10 DEF Next, Good

\* Message buffers are conserved: in every behaviour, whatever datagrams are
\* lost, repeated or reordered, each buffer of a connection's pool is free or
\* owned by exactly one outgoing entry, queued message, reorder slot or
\* reassembly slot.
THEOREM PoolSafe == Spec => []PoolConserved
<1>1. Init => Good
  BY InitGood
<1>2. Good /\ [Next]_vars => Good'
  BY NextGood
<1>3. Good => PoolConserved
  BY DEF Good, TxGood, RxGood, PoolConserved
<1>4. QED
  BY <1>1, <1>2, <1>3, PTL DEF Spec

-----------------------------------------------------------------------------
(* What the data path delivers: the bytes in flight and the reorder window *)
(* are exact, messages arrive whole, in order and once, and the sender     *)
(* keeps a message until the receiver has passed it.                       *)

-----------------------------------------------------------------------------
(* The total length of a set of outgoing entries.                          *)

Units(out, S) == {u \in S \X (1 .. MaxFrags) : u[2] <= out[u[1]].len}

LEMMA UnitsFinite ==
    ASSUME NEW out, NEW S \in SUBSET Outs
    PROVE  IsFiniteSet(Units(out, S)) /\ Cardinality(Units(out, S)) = SumLen(out, S)
<1>1. IsFiniteSet(S) /\ IsFiniteSet(1 .. MaxFrags)
  BY SlotSetsFinite, FS_Interval, LimitAssumption
<1>2. IsFiniteSet(S \X (1 .. MaxFrags))
  BY <1>1, FS_Product
<1>3. IsFiniteSet(Units(out, S))
  BY <1>2, FS_Subset DEF Units
<1>4. QED
  BY <1>3 DEF Units, SumLen

\* Only the lengths count.
LEMMA SumLenSame ==
    ASSUME NEW out, NEW new, NEW S, \A i \in S : new[i].len = out[i].len
    PROVE  SumLen(new, S) = SumLen(out, S)
BY DEF SumLen

LEMMA SumLenSplit ==
    ASSUME NEW out, NEW A \in SUBSET Outs, NEW S \in SUBSET A
    PROVE  SumLen(out, A) = SumLen(out, S) + SumLen(out, A \ S)
<1>1. S \in SUBSET Outs /\ A \ S \in SUBSET Outs
  OBVIOUS
<1>2. /\ Units(out, A) \cap Units(out, S) = Units(out, S)
      /\ Units(out, A) \ Units(out, S) = Units(out, A \ S)
  BY DEF Units
<1>3. /\ IsFiniteSet(Units(out, A)) /\ Cardinality(Units(out, A)) = SumLen(out, A)
      /\ Cardinality(Units(out, S)) = SumLen(out, S)
      /\ Cardinality(Units(out, A \ S)) = SumLen(out, A \ S)
  BY <1>1, UnitsFinite
<1>4. Cardinality(Units(out, A) \ Units(out, S))
        = Cardinality(Units(out, A)) - Cardinality(Units(out, A) \cap Units(out, S))
  BY <1>3, FS_Difference
<1>5. SumLen(out, A) \in Nat /\ SumLen(out, S) \in Nat /\ SumLen(out, A \ S) \in Nat
  BY <1>1, SumLenType
<1>6. /\ Cardinality(Units(out, A) \ Units(out, S)) = SumLen(out, A \ S)
      /\ Cardinality(Units(out, A) \cap Units(out, S)) = SumLen(out, S)
  BY <1>2, <1>3, Zenon
<1>7. SumLen(out, A \ S) = SumLen(out, A) - SumLen(out, S)
  BY <1>3, <1>4, <1>6, Zenon
<1>8. QED
  BY <1>5, <1>7

LEMMA SumLenOne ==
    ASSUME NEW out, NEW i \in Outs, out[i].len \in 0 .. MaxFrags
    PROVE  SumLen(out, {i}) = out[i].len
<1> DEFINE n == out[i].len
           g == [k \in 1 .. n |-> <<i, k>>]
<1>1. n \in Nat /\ \A k \in 1 .. n : k \in 1 .. MaxFrags /\ k <= n
  BY LimitAssumption
<1>2. g \in [1 .. n -> Units(out, {i})]
  BY <1>1 DEF Units
<1>3. \A j, k \in 1 .. n : g[j] = g[k] => j = k
  OBVIOUS
<1>4. ASSUME NEW u \in Units(out, {i}) PROVE \E k \in 1 .. n : g[k] = u
  <2>1. u = <<i, u[2]>> /\ u[2] \in 1 .. MaxFrags /\ u[2] <= n
    BY DEF Units
  <2>2. u[2] \in 1 .. n
    BY <1>1, <2>1
  <2>3. QED
    BY <2>1, <2>2
<1>5. g \in Bijection(1 .. n, Units(out, {i}))
  <2> HIDE DEF g, n
  <2>1. QED
    BY <1>2, <1>3, <1>4 DEF Bijection, Injection, Surjection, IsInjective
<1> HIDE DEF g, n
<1>6. IsFiniteSet(1 .. n) /\ Cardinality(1 .. n) = n
  BY <1>1, FS_Interval
<1>7. Cardinality(Units(out, {i})) = Cardinality(1 .. n)
  BY <1>5, <1>6, FS_Bijection DEF ExistsBijection
<1>8. {i} \in SUBSET Outs
  OBVIOUS
<1>9. QED
  BY <1>6, <1>7, <1>8, UnitsFinite DEF n

-----------------------------------------------------------------------------
(* The bytes in flight.                                                    *)

FlightOK(t) ==
    ChanType = "RELIABLE" => t.bytes_in_flight = SumLen(t.outgoing, ActiveOut(t))

\* The same entries are active, and their lengths and the count are the same.
LEMMA FlightSame ==
    ASSUME NEW t, FlightOK(t), NEW u, u.bytes_in_flight = t.bytes_in_flight,
           ActiveOut(u) = ActiveOut(t),
           \A i \in ActiveOut(t) : u.outgoing[i].len = t.outgoing[i].len
    PROVE  FlightOK(u)
BY SumLenSame DEF FlightOK

LEMMA WriteFlight ==
    ASSUME TypeOK, TxGood(tx), FlightOK(tx), NEW len \in Lens, Write(len)
    PROVE  FlightOK(tx')
<1> DEFINE i == tx.out_tail
           A == ActiveOut(tx)
<1>1. tx \in TxType /\ i \in Outs /\ tx.out_head \in Outs /\ A \in SUBSET Outs
  BY DEF TxGood, TxType, ActiveOut
<1>2. i \notin A
  <2>1. RingOffset(tx.out_head, i) = OutCount(tx) /\ OutCount(tx) \in Int
    BY <1>1, OutCountType, SlotAssumption DEF RingOffset, OutCount
  <2>2. QED
    BY <2>1 DEF TxGood, ActiveInRing
<1>3. CASE len > MaxFrags
  <2>1. /\ tx'.bytes_in_flight = tx.bytes_in_flight
        /\ tx'.outgoing = [tx.outgoing EXCEPT ![i] = NoOutgoing]
    BY <1>1, <1>3 DEF Write, TxType
  <2>2. ActiveOut(tx') = A
    BY <1>1, <1>2, <2>1 DEF ActiveOut, TxType, NoOutgoing
  <2>3. \A j \in A : tx'.outgoing[j].len = tx.outgoing[j].len
    BY <1>1, <1>2, <2>1 DEF TxType
  <2>4. QED
    BY <2>1, <2>2, <2>3, FlightSame
<1>4. CASE ~ (len > MaxFrags) /\ ChanType = "RELIABLE"
  <2> DEFINE o == [seq |-> tx.send_seq, msg |-> Len(tx.written), len |-> len,
                   attempts |-> 0, frag_sent |-> 0, active |-> TRUE]
             b == tx.bytes_in_flight
             new == [tx.outgoing EXCEPT ![i] = o]
  <2>1. tx'.bytes_in_flight = (b + len) % FlightMod /\ tx'.outgoing = new
    BY <1>1, <1>4 DEF Write, TxType
  <2>2. o.len = len /\ o.active
    OBVIOUS
  <2> HIDE DEF o
  <2>3. new[i] = o /\ \A j \in Outs : j # i => new[j] = tx.outgoing[j]
    BY <1>1 DEF TxType
  <2> HIDE DEF new
  <2>4. ActiveOut(tx') = A \cup {i}
    BY <1>1, <2>1, <2>2, <2>3 DEF ActiveOut
  <2>5. len \in 0 .. MaxFrags
    BY <1>4, LimitAssumption
  <2>6. SumLen(new, A) = SumLen(tx.outgoing, A)
    <3>1. \A j \in A : new[j].len = tx.outgoing[j].len
      BY <1>1, <1>2, <2>3
    <3>2. QED
      BY <3>1, SumLenSame
  <2>7. SumLen(new, A \cup {i}) = SumLen(new, A) + len
    <3>1. A \cup {i} \in SUBSET Outs /\ A \in SUBSET (A \cup {i}) /\ (A \cup {i}) \ A = {i}
      BY <1>1, <1>2
    <3>2. SumLen(new, {i}) = len
      BY <1>1, <2>2, <2>3, <2>5, SumLenOne
    <3>3. SumLen(new, A \cup {i}) = SumLen(new, A) + SumLen(new, (A \cup {i}) \ A)
      BY <3>1, SumLenSplit
    <3>4. QED
      BY <3>1, <3>2, <3>3
  <2>8. (b + len) % FlightMod = b + len
    <3>1. ~ (b + len > tx.send_window)
      <4>1. tx.state = "open"
        BY <1>1 DEF Write, TxType
      <4>2. QED
        BY <1>4, <4>1 DEF Write
    <3>2. b \in Nat /\ tx.send_window \in Nat /\ tx.send_window <= Window
      BY <1>1, LimitAssumption DEF TxType
    <3>3. b + len \in Nat /\ b + len < FlightMod
      BY <2>5, <3>1, <3>2, LimitAssumption
    <3>4. QED
      BY <3>3, LimitAssumption
  <2>9. QED
    BY <1>4, <2>1, <2>4, <2>6, <2>7, <2>8 DEF FlightOK
<1>5. QED
  BY <1>3, <1>4 DEF FlightOK

LEMMA SendDataFlight ==
    ASSUME TypeOK, TxGood(tx), FlightOK(tx), SendData
    PROVE  FlightOK(tx')
<1>0. SUFFICES ASSUME ChanType = "RELIABLE" PROVE FlightOK(tx')
  BY DEF FlightOK
<1>1. PICK d \in Sendable : LET i == OutAt(tx.out_head, d)
                            IN  tx' = [tx EXCEPT !.outgoing[i] = Sent(tx.outgoing[i])]
  BY <1>0 DEF SendData
<1> DEFINE i == OutAt(tx.out_head, d)
           s == Sent(tx.outgoing[i])
<1>2. tx \in TxType /\ i \in Outs
  <2>1. tx \in TxType
    BY DEF TxGood
  <2>2. d \in Int /\ tx.out_head \in Int
    BY <2>1, OutCountType, SlotAssumption DEF Sendable, TxType, Outs
  <2>3. QED
    BY <2>1, <2>2, OutAtType
<1>3. s.active = tx.outgoing[i].active /\ s.len = tx.outgoing[i].len
  BY <1>2 DEF Sent, TxType, Outgoing
<1> HIDE DEF i, s
<1>4. /\ tx'.bytes_in_flight = tx.bytes_in_flight
      /\ tx'.outgoing = [tx.outgoing EXCEPT ![i] = s]
  BY <1>1, <1>2 DEF TxType, i, s
<1>5. \A j \in Outs : /\ tx'.outgoing[j].active = tx.outgoing[j].active
                      /\ tx'.outgoing[j].len = tx.outgoing[j].len
  BY <1>2, <1>3, <1>4 DEF TxType
<1>6. ActiveOut(tx') = ActiveOut(tx) /\ ActiveOut(tx) \subseteq Outs
  BY <1>5 DEF ActiveOut
<1>7. QED
  BY <1>4, <1>5, <1>6, FlightSame

LEMMA ServiceFlight ==
    ASSUME TypeOK, FlightOK(tx), NEW expired \in SUBSET Outs, Service(expired)
    PROVE  FlightOK(tx')
<1> DEFINE spent == {i \in expired : tx.outgoing[i].attempts >= MaxAttempts}
           again == {i \in expired : \A j \in spent : i < j}
           out == [i \in Outs |->
                    IF i \in again
                    THEN [tx.outgoing[i] EXCEPT !.frag_sent = 0, !.attempts = @ + 1]
                    ELSE tx.outgoing[i]]
           t == [tx EXCEPT !.outgoing = out]
<1>1. tx \in TxType
  BY DEF TypeOK
<1>2. tx' = IF spent = {} THEN t ELSE EvPush([t EXCEPT !.state = "dead"], 1)
  BY DEF Service
<1>3. \A i \in Outs : out[i].active = tx.outgoing[i].active /\ out[i].len = tx.outgoing[i].len
  BY <1>1 DEF TxType, Outgoing
<1> HIDE DEF out, spent
<1>4. tx'.bytes_in_flight = tx.bytes_in_flight /\ tx'.outgoing = out
  BY <1>1, <1>2 DEF EvPush, TxType
<1>5. ActiveOut(tx') = ActiveOut(tx) /\ ActiveOut(tx) \subseteq Outs
  BY <1>3, <1>4 DEF ActiveOut
<1>6. QED
  BY <1>3, <1>4, <1>5, FlightSame

LEMMA ProcessAckFlight ==
    ASSUME NEW t, TxGood(t), FlightOK(t), NEW a \in Seqs
    PROVE  FlightOK(ProcessAck(t, a))
<1> DEFINE S == AckedSlots(t, a)
           A == ActiveOut(t)
           out == [i \in Outs |-> IF i \in S THEN [t.outgoing[i] EXCEPT !.active = FALSE]
                                  ELSE t.outgoing[i]]
           b == (t.bytes_in_flight - SumLen(t.outgoing, S)) % FlightMod
           u == [t EXCEPT !.outgoing = out, !.bytes_in_flight = b,
                          !.free = @ + Cardinality(S)]
           v == ProcessAck(t, a)
<1>0. SUFFICES ASSUME ChanType = "RELIABLE" PROVE FlightOK(v)
  BY DEF FlightOK
<1>1. t \in TxType /\ A \in SUBSET Outs /\ S \in SUBSET A
  BY DEF AckedSlots, ActiveOut, TxGood
<1>2. v = AdvanceHead(u)
  BY DEF ProcessAck
<1>3. \A i \in Outs : /\ out[i].active = (t.outgoing[i].active /\ i \notin S)
                      /\ out[i].len = t.outgoing[i].len
  BY <1>1 DEF TxType, Outgoing
<1> HIDE DEF out, b, S
<1>4. v.outgoing = out /\ v.bytes_in_flight = b
  BY <1>1, <1>2 DEF AdvanceHead, TxType
<1> HIDE DEF v, u
<1>5. ActiveOut(v) = A \ S
  BY <1>3, <1>4 DEF ActiveOut
<1>6. /\ SumLen(t.outgoing, A) = SumLen(t.outgoing, S) + SumLen(t.outgoing, A \ S)
      /\ SumLen(t.outgoing, S) \in Nat /\ SumLen(t.outgoing, A \ S) \in Nat
  <2>1. S \in SUBSET Outs /\ A \ S \in SUBSET Outs
    BY <1>1
  <2>2. QED
    BY <1>1, <2>1, SumLenSplit, SumLenType
<1>7. SumLen(v.outgoing, A \ S) = SumLen(t.outgoing, A \ S)
  <2>1. \A i \in A \ S : v.outgoing[i].len = t.outgoing[i].len
    BY <1>1, <1>3, <1>4
  <2>2. QED
    BY <2>1, SumLenSame
<1>8. b = SumLen(t.outgoing, A \ S)
  <2>1. t.bytes_in_flight = SumLen(t.outgoing, A) /\ t.bytes_in_flight \in 0 .. FlightMod - 1
    BY <1>0, <1>1 DEF FlightOK, TxType
  <2> DEFINE x == SumLen(t.outgoing, A \ S)
             y == SumLen(t.outgoing, S)
  <2> HIDE DEF x, y
  <2>2. x \in Nat /\ x < FlightMod /\ t.bytes_in_flight - y = x
    BY <1>6, <2>1, LimitAssumption DEF x, y
  <2>3. x % FlightMod = x
    BY <2>2, LimitAssumption
  <2>4. QED
    BY <2>2, <2>3 DEF b, x, y
<1>9. QED
  BY <1>4, <1>5, <1>7, <1>8 DEF FlightOK

-----------------------------------------------------------------------------
(* The reorder window.                                                     *)

\* Every held message is in the slot of its sequence number, at least lo and
\* less than the reorder buffer ahead of recv_seq.
HeldFrom(r, lo) ==
    \A i \in HeldSlots(r) :
        /\ ReorderSlot(r.reorder[i].seq) = i
        /\ \E d \in lo .. ReorderSlots - 1 : r.reorder[i].seq = SeqAdd(r.recv_seq, d)

LEMMA ReorderFits ==
    /\ ReorderSlots \in Nat \ {0} /\ SeqMod \in Nat \ {0, 1} /\ 2 * ReorderSlots <= SeqMod
    /\ Seqs = 0 .. SeqMod - 1
BY SlotAssumption, SeqAssumption, ReorderAssumption DEF Seqs

LEMMA SeqAddAdd ==
    ASSUME NEW s \in Seqs, NEW i \in Nat, NEW j \in Nat, i + j < SeqMod
    PROVE  SeqAdd(SeqAdd(s, i), j) = SeqAdd(s, i + j)
<1>1. i \in 0 .. SeqMod - 1 /\ j \in 0 .. SeqMod - 1 /\ i + j \in 0 .. SeqMod - 1
  BY ReorderFits
<1>2. SeqAdd(s, i) = IF s + i < SeqMod THEN s + i ELSE s + i - SeqMod
  BY <1>1, SeqForm
<1>3. SeqAdd(s, i + j) = IF s + i + j < SeqMod THEN s + i + j ELSE s + i + j - SeqMod
  <2>1. SeqAdd(s, i + j) = IF s + (i + j) < SeqMod THEN s + (i + j) ELSE s + (i + j) - SeqMod
    BY <1>1, SeqForm
  <2>2. QED
    BY <1>1, <2>1, ReorderFits
<1> DEFINE t == SeqAdd(s, i)
<1>4. t \in Seqs
  <2>1. s \in Int /\ i \in Int
    BY ReorderFits
  <2>2. QED
    BY <2>1, SeqAddType
<1>5. SeqAdd(t, j) = IF t + j < SeqMod THEN t + j ELSE t + j - SeqMod
  BY <1>1, <1>4, SeqForm
<1> HIDE DEF t
<1>6. t = IF s + i < SeqMod THEN s + i ELSE s + i - SeqMod
  BY <1>2 DEF t
<1>7. SeqAdd(t, j) = IF s + i + j < SeqMod THEN s + i + j ELSE s + i + j - SeqMod
  BY <1>1, <1>5, <1>6, ReorderFits
<1>8. QED
  BY <1>3, <1>7 DEF t

\* A difference inside the window is a number of steps.
LEMMA DiffIsSteps ==
    ASSUME NEW s \in Seqs, NEW r \in Seqs
    PROVE  /\ SeqDiff(s, r) \in 1 .. ReorderSlots - 1 => s = SeqAdd(r, SeqDiff(s, r))
           /\ \A d \in 1 .. ReorderSlots - 1 : s = SeqAdd(r, d) => SeqDiff(s, r) = d
<1>1. s \in 0 .. SeqMod - 1 /\ r \in 0 .. SeqMod - 1
  BY ReorderFits
<1>2. (s - r) % SeqMod = IF s >= r THEN s - r ELSE s - r + SeqMod
  BY <1>1, ReorderFits
<1>3. SeqDiff(s, r) = LET x == IF s >= r THEN s - r ELSE s - r + SeqMod
                      IN  IF 2 * x >= SeqMod THEN x - SeqMod ELSE x
  BY <1>2 DEF SeqDiff
<1>4. \A d \in 1 .. ReorderSlots - 1 :
        d \in 0 .. SeqMod - 1 /\ SeqAdd(r, d) = IF r + d < SeqMod THEN r + d ELSE r + d - SeqMod
  <2>1. \A d \in 1 .. ReorderSlots - 1 : d \in 0 .. SeqMod - 1
    BY ReorderFits
  <2>2. QED
    BY <2>1, SeqForm
<1>5. \A d \in 1 .. ReorderSlots - 1 : s = SeqAdd(r, d) => SeqDiff(s, r) = d
  BY <1>1, <1>3, <1>4, ReorderFits
<1>6. ASSUME SeqDiff(s, r) \in 1 .. ReorderSlots - 1 PROVE s = SeqAdd(r, SeqDiff(s, r))
  BY <1>1, <1>3, <1>4, <1>6, ReorderFits
<1>7. QED
  BY <1>5, <1>6

\* The run is an initial segment of the window.
LEMMA RunIsSegment ==
    ASSUME NEW r
    PROVE  RunLen(r) \in 0 .. ReorderSlots /\ RunSet(r) = 0 .. RunLen(r) - 1
<1>1. ReorderSlots \in Nat /\ RunSet(r) \subseteq 0 .. ReorderSlots - 1
  BY SlotAssumption DEF RunSet
<1>2. \A d \in RunSet(r) : \A e \in 0 .. d : e \in RunSet(r)
  BY <1>1 DEF RunSet
<1>3. QED
  BY <1>1, <1>2, InitialSegment DEF RunLen

\* chan_deliver_reordered leaves nothing that is due.
LEMMA DeliverWindow ==
    ASSUME NEW r \in RxType, HeldFrom(r, 0)
    PROVE  HeldFrom(DeliverReordered(r), 1)
<1> DEFINE v == DeliverReordered(r)
           n == RunLen(r)
<1>1. /\ v.recv_seq = SeqAdd(r.recv_seq, n)
      /\ v.reorder = [s \in Reorders |-> IF s \in RunSlots(r) THEN NoReorder ELSE r.reorder[s]]
  BY DEF DeliverReordered, EvPush, Append2Queue, RxType
<1>2. n \in 0 .. ReorderSlots /\ RunSet(r) = 0 .. n - 1
  BY RunIsSegment
<1>3. r.recv_seq \in Seqs
  BY DEF RxType
<1> HIDE DEF v, n
<1>4. ASSUME NEW i \in HeldSlots(v)
      PROVE  /\ ReorderSlot(v.reorder[i].seq) = i
             /\ \E d \in 1 .. ReorderSlots - 1 : v.reorder[i].seq = SeqAdd(v.recv_seq, d)
  <2>1. i \in Reorders /\ i \notin RunSlots(r) /\ v.reorder[i] = r.reorder[i] /\ i \in HeldSlots(r)
    BY <1>1 DEF HeldSlots, NoReorder
  <2>2. ReorderSlot(r.reorder[i].seq) = i
    BY <2>1 DEF HeldFrom
  <2>3. PICK d \in 0 .. ReorderSlots - 1 : r.reorder[i].seq = SeqAdd(r.recv_seq, d)
    BY <2>1 DEF HeldFrom
  <2>4. ~ (d < n)
    <3>1. SUFFICES ASSUME d < n PROVE FALSE
      OBVIOUS
    <3>2. d \in 0 .. RunLen(r) - 1
      BY <1>2, <3>1, ReorderFits DEF n
    <3>3. RunSlot(r, d) = i
      BY <2>2, <2>3 DEF RunSlot
    <3>4. QED
      BY <2>1, <3>2, <3>3 DEF RunSlots
  <2>5. d # n
    <3>1. SUFFICES ASSUME d = n PROVE FALSE
      OBVIOUS
    <3>2. Held(r, SeqAdd(r.recv_seq, n))
      BY <2>1, <2>2, <2>3, <3>1 DEF Held, HeldSlots
    <3>3. \A j \in 0 .. n - 1 : Held(r, SeqAdd(r.recv_seq, j))
      <4>1. ASSUME NEW j \in 0 .. n - 1 PROVE Held(r, SeqAdd(r.recv_seq, j))
        <5>1. j \in RunSet(r) /\ j \in 0 .. j
          BY <1>2
        <5>2. QED
          BY <5>1 DEF RunSet
      <4>2. QED
        BY <4>1
    <3>4. \A j \in 0 .. n : j \in 0 .. n - 1 \/ j = n
      BY <1>2, ReorderFits
    <3>5. n \in RunSet(r)
      BY <3>1, <3>2, <3>3, <3>4 DEF RunSet
    <3>6. QED
      BY <1>2, <3>5, ReorderFits
  <2>6. d - n \in 1 .. ReorderSlots - 1 /\ d - n \in Nat /\ n \in Nat /\ n + (d - n) = d
        /\ n + (d - n) < SeqMod
    BY <1>2, <2>4, <2>5, ReorderFits
  <2>7. SeqAdd(SeqAdd(r.recv_seq, n), d - n) = SeqAdd(r.recv_seq, d)
    BY <1>3, <2>6, SeqAddAdd
  <2>8. QED
    BY <1>1, <2>1, <2>2, <2>3, <2>6, <2>7
<1>5. QED
  BY <1>4 DEF HeldFrom, v

LEMMA AcceptWindow ==
    ASSUME NEW r, RxGood(r), HeldFrom(r, 1), NEW seq \in Seqs, NEW data \in Payload
    PROVE  HeldFrom(Accept(r, seq, data), 1)
<1> DEFINE e == Enqueue(r, data)
           u == [e EXCEPT !.recv_seq = SeqAdd(@, 1), !.passed = @ + 1]
           slot == ReorderSlot(seq)
           m == [seq |-> seq, data |-> data, valid |-> TRUE]
           h == [r EXCEPT !.free = @ - 1, !.reorder[slot] = m]
<1>1. r \in RxType /\ r.recv_seq \in Seqs
  BY DEF RxGood, RxBounded, RxType
<1>2. CASE seq = r.recv_seq
  <2>1. Accept(r, seq, data) = DeliverReordered(u)
    BY <1>2 DEF Accept
  <2>2. e \in RxType /\ e.reorder = r.reorder
    BY EnqueueGood DEF RxGood, RxBounded
  <2>3. e.recv_seq = r.recv_seq
    BY <1>1 DEF Enqueue, EvPush, Append2Queue, RxType
  <2> HIDE DEF e
  <2>4. SeqAdd(e.recv_seq, 1) \in Seqs /\ e.passed + 1 \in Nat
    <3>1. e.recv_seq \in Int /\ e.passed \in Nat
      BY <2>2, ReorderFits DEF RxType
    <3>2. QED
      BY <3>1, SeqAddType
  <2>5. u \in RxType /\ u.recv_seq = SeqAdd(r.recv_seq, 1) /\ u.reorder = r.reorder
    BY <2>2, <2>3, <2>4 DEF RxType
  <2> HIDE DEF u
  <2>6. HeldFrom(u, 0)
    <3>1. ASSUME NEW i \in HeldSlots(u)
          PROVE  /\ ReorderSlot(u.reorder[i].seq) = i
                 /\ \E d \in 0 .. ReorderSlots - 1 : u.reorder[i].seq = SeqAdd(u.recv_seq, d)
      <4>1. i \in HeldSlots(r)
        BY <2>5 DEF HeldSlots
      <4>2. ReorderSlot(r.reorder[i].seq) = i
        BY <4>1 DEF HeldFrom
      <4>3. PICK d \in 1 .. ReorderSlots - 1 : r.reorder[i].seq = SeqAdd(r.recv_seq, d)
        BY <4>1 DEF HeldFrom
      <4>4. d - 1 \in 0 .. ReorderSlots - 1 /\ d - 1 \in Nat /\ 1 + (d - 1) = d
            /\ 1 + (d - 1) < SeqMod
        BY ReorderFits
      <4>5. SeqAdd(SeqAdd(r.recv_seq, 1), d - 1) = SeqAdd(r.recv_seq, d)
        BY <1>1, <4>4, SeqAddAdd
      <4>6. QED
        BY <2>5, <4>2, <4>3, <4>4, <4>5
    <3>2. QED
      BY <3>1 DEF HeldFrom
  <2>7. QED
    BY <2>1, <2>5, <2>6, DeliverWindow
<1>3. CASE seq # r.recv_seq /\ Accept(r, seq, data) # r
  <2>1. Accept(r, seq, data) = h /\ SeqDiff(seq, r.recv_seq) \in 1 .. ReorderSlots - 1
    <3>1. /\ Accept(r, seq, data) = h /\ SeqDiff(seq, r.recv_seq) > 0
          /\ SeqDiff(seq, r.recv_seq) < ReorderSlots
      BY <1>3 DEF Accept
    <3>2. SeqDiff(seq, r.recv_seq) \in Int
      BY <1>1, ReorderFits DEF SeqDiff
    <3>3. QED
      BY <3>1, <3>2, ReorderFits
  <2>2. slot \in Reorders
    BY ReorderSlotType, ReorderFits
  <2>3. /\ h.recv_seq = r.recv_seq /\ h.reorder[slot].seq = seq
        /\ \A i \in Reorders : i # slot => h.reorder[i] = r.reorder[i]
    BY <1>1, <2>2 DEF RxType
  <2>4. seq = SeqAdd(r.recv_seq, SeqDiff(seq, r.recv_seq))
    BY <1>1, <2>1, DiffIsSteps
  <2> HIDE DEF h
  <2>5. ASSUME NEW i \in HeldSlots(h)
        PROVE  /\ ReorderSlot(h.reorder[i].seq) = i
               /\ \E d \in 1 .. ReorderSlots - 1 : h.reorder[i].seq = SeqAdd(h.recv_seq, d)
    <3>1. CASE i = slot
      BY <2>1, <2>3, <2>4, <3>1
    <3>2. CASE i # slot
      <4>1. i \in HeldSlots(r) /\ h.reorder[i] = r.reorder[i]
        BY <2>3, <3>2 DEF HeldSlots
      <4>2. QED
        BY <2>3, <4>1 DEF HeldFrom
    <3>3. QED
      BY <3>1, <3>2
  <2>6. QED
    BY <2>1, <2>5 DEF HeldFrom
<1>4. CASE Accept(r, seq, data) = r
  BY <1>4
<1>5. QED
  BY <1>2, <1>3, <1>4

-----------------------------------------------------------------------------
(* Reassembly, taken apart.                                                *)

\* Two states of the receiver that differ at most in reassembly, pool and flags.
SameCore(a, b) ==
    /\ a.recv_seq = b.recv_seq /\ a.passed = b.passed /\ a.reorder = b.reorder
    /\ a.queue = b.queue /\ a.log = b.log

\* A reassembly slot that a fragment f was put in, or was opened for.
AsmFrom(r, f, a) ==
    /\ a \in FragAsm /\ a.active /\ a.seq = f.seq
    /\ \/ /\ a.total = f.frag_total
          /\ \A k \in FragIds : a.parts[k] \in {NoPart, f.data}
       \/ \E i \in FragSlotIds :
            /\ r.frags[i].active /\ r.frags[i].seq = f.seq /\ a.total = r.frags[i].total
            /\ \A k \in FragIds : a.parts[k] \in {r.frags[i].parts[k], f.data}

Whole(a) == [k \in 1 .. a.total |-> a.parts[k - 1]]

\* A complete message goes on: process_data by type of channel.
Complete(r, seq, data) ==
    IF ChanType = "UNRELIABLE" THEN Enqueue(r, data) ELSE Accept(r, seq, data)

LEMMA ReassembleCases ==
    ASSUME NEW r, RxGood(r), NEW f \in DataPacket
    PROVE  LET v == Reassemble(r, f)
           IN  \/ /\ SameCore(v, r)
                  /\ \A i \in FragSlotIds : v.frags[i] = r.frags[i] \/ AsmFrom(r, f, v.frags[i])
               \/ \E q, a :
                    /\ RxGood(q) /\ SameCore(q, r)
                    /\ AsmFrom(r, f, a) /\ a.total > 0 /\ Whole(a) \in Payload
                    /\ SameCore(v, Complete(q, f.seq, Whole(a)))
                    /\ \A i \in FragSlotIds : v.frags[i] = r.frags[i] \/ v.frags[i] = NoFrag
<1> DEFINE found == FragFind(r, f.seq)
           S == Lowest(IF found # {} THEN found ELSE FragAlloc(r))
           i == CHOOSE i \in S : TRUE
           new == [NoFrag EXCEPT !.seq = f.seq, !.total = f.frag_total, !.active = TRUE]
           asm == IF found # {} THEN r.frags[i] ELSE new
           r1 == IF found # {} THEN r ELSE [r EXCEPT !.frags[i] = asm, !.free = @ - 1]
           got == [asm EXCEPT !.parts[f.frag_idx] = f.data]
           whole == [k \in 1 .. got.total |-> got.parts[k - 1]]
           fresh == f.frag_idx < asm.total /\ asm.parts[f.frag_idx] = NoPart
           done == \A k \in 0 .. got.total - 1 : got.parts[k] # NoPart
           r2 == IF ChanType = "UNRELIABLE" THEN Enqueue(r1, whole)
                 ELSE Accept(r1, f.seq, whole)
           v == Reassemble(r, f)
<1>0. r \in RxType
  BY DEF RxGood, RxBounded
<1>1. CASE S = {}
  <2>1. v = r
    BY <1>1 DEF Reassemble
  <2>2. QED
    BY <2>1 DEF SameCore
<1>2. CASE S # {}
  <2>1. /\ i \in S /\ i \in FragSlotIds
        /\ found # {} => r.frags[i].active /\ r.frags[i].seq = f.seq
        /\ found = {} => r.free > 0 /\ ~ r.frags[i].active
    BY <1>2 DEF Lowest, FragFind, FragAlloc
  <2>2. /\ f.seq \in Seqs /\ f.frag_idx \in FragIds /\ f.frag_total \in 0 .. MaxFrags
        /\ f.data \in Nat
    BY LimitAssumption DEF DataPacket
  <2>3. NoFrag \in FragAsm /\ ~ NoFrag.active
    BY SeqAssumption, LimitAssumption DEF NoFrag, FragAsm, Seqs
  <2> HIDE DEF i
  <2>4. /\ new \in FragAsm /\ new.active /\ new.seq = f.seq /\ new.total = f.frag_total
        /\ \A k \in FragIds : new.parts[k] = NoPart
    <3>1. new \in FragAsm /\ new.active /\ new.seq = f.seq /\ new.total = f.frag_total
      BY <2>2, <2>3 DEF FragAsm
    <3>2. \A k \in FragIds : NoFrag.parts[k] = NoPart
      BY DEF NoFrag
    <3>3. new.parts = NoFrag.parts
      BY <2>3 DEF FragAsm
    <3>4. QED
      BY <3>1, <3>2, <3>3
  <2> HIDE DEF new
  <2>5. asm \in FragAsm /\ asm.active
    BY <1>0, <2>1, <2>4 DEF RxType
  <2>a. /\ got \in FragAsm /\ got.active /\ got.seq = asm.seq /\ got.total = asm.total
        /\ \A k \in FragIds : got.parts[k] \in {asm.parts[k], f.data}
    <3> HIDE DEF asm
    <3>1. QED
      BY <2>2, <2>5 DEF FragAsm
  <2>b. AsmFrom(r, f, asm) /\ AsmFrom(r, f, got)
    <3> HIDE DEF got
    <3>1. CASE found # {}
      <4>1. asm = r.frags[i]
        BY <3>1
      <4> HIDE DEF asm
      <4>2. QED
        BY <2>1, <2>5, <2>a, <3>1, <4>1 DEF AsmFrom
    <3>2. CASE found = {}
      <4>1. asm = new
        BY <3>2
      <4> HIDE DEF asm
      <4>2. QED
        BY <2>4, <2>5, <2>a, <4>1 DEF AsmFrom
    <3>3. QED
      BY <3>1, <3>2
  <2> HIDE DEF asm
  <2>6. /\ RxGood(r1) /\ r1.frags[i] = asm /\ SameCore(r1, r) /\ r1 \in RxType
        /\ \A j \in FragSlotIds : j # i => r1.frags[j] = r.frags[j]
    <3>1. CASE found # {}
      <4>1. r1 = r
        BY <3>1
      <4> HIDE DEF r1
      <4>2. QED
        BY <1>0, <3>1, <4>1 DEF asm, SameCore
    <3>2. CASE found = {}
      <4>1. r.free \in Nat /\ r.free > 0 /\ ~ r.frags[i].active
        BY <1>0, <2>1, <3>2 DEF RxType
      <4>2. r1 = [r EXCEPT !.frags[i] = asm, !.free = r.free - 1]
        BY <1>0, <3>2 DEF RxType
      <4>3. r.free - 1 \in Nat
        BY <4>1
      <4>4. r.free - 1 + (IF asm.active THEN 1 ELSE 0)
              = r.free + (IF r.frags[i].active THEN 1 ELSE 0)
        BY <2>5, <4>1
      <4>5. RxGood([r EXCEPT !.frags[i] = asm, !.free = r.free - 1])
        BY <2>1, <2>5, <4>3, <4>4, FragChange
      <4>6. /\ r1.frags[i] = asm /\ \A j \in FragSlotIds : j # i => r1.frags[j] = r.frags[j]
            /\ r1.recv_seq = r.recv_seq /\ r1.passed = r.passed /\ r1.reorder = r.reorder
            /\ r1.queue = r.queue /\ r1.log = r.log
        <5>1. r1 = [[r EXCEPT !.frags[i] = asm] EXCEPT !.free = r.free - 1]
          BY <4>2
        <5> HIDE DEF r1
        <5>2. QED
          BY <1>0, <2>1, <5>1 DEF RxType
      <4>7. RxGood(r1)
        BY <4>2, <4>5
      <4> HIDE DEF r1
      <4>8. QED
        BY <4>6, <4>7 DEF SameCore, RxGood, RxBounded
    <3>3. QED
      BY <3>1, <3>2
  <2> HIDE DEF r1, got
  <2>8. CASE ~ fresh
    <3>1. v = r1
      BY <1>2, <2>8 DEF Reassemble, r1, asm, i, new
    <3> HIDE DEF v
    <3>2. \A j \in FragSlotIds : v.frags[j] = r.frags[j] \/ AsmFrom(r, f, v.frags[j])
      BY <2>6, <2>b, <3>1
    <3>3. QED
      BY <2>6, <3>1, <3>2 DEF v
  <2>9. CASE fresh /\ ~ done
    <3>1. v = [r1 EXCEPT !.frags[i] = got]
      BY <1>2, <2>9 DEF Reassemble, r1, asm, i, got, new
    <3>2. /\ v.frags[i] = got /\ \A j \in FragSlotIds : j # i => v.frags[j] = r1.frags[j]
          /\ v.recv_seq = r1.recv_seq /\ v.passed = r1.passed /\ v.reorder = r1.reorder
          /\ v.queue = r1.queue /\ v.log = r1.log
      BY <2>1, <2>6, <3>1 DEF RxType
    <3> HIDE DEF v
    <3>3. \A j \in FragSlotIds : v.frags[j] = r.frags[j] \/ AsmFrom(r, f, v.frags[j])
      BY <2>6, <2>b, <3>2
    <3>4. SameCore(v, r)
      BY <2>6, <3>2 DEF SameCore
    <3>5. QED
      BY <3>3, <3>4 DEF v
  <2>10. CASE fresh /\ done
    <3>1. got.total \in Nat /\ got.total > 0
      BY <2>2, <2>5, <2>a, <2>10, LimitAssumption DEF FragAsm, FragIds
    <3>2. \A k \in 1 .. got.total : got.parts[k - 1] \in Nat
      BY <2>a, <2>10, <3>1, LimitAssumption DEF FragAsm, FragIds, NoPart
    <3>3. whole \in Payload
      BY <3>1, <3>2 DEF Payload
    <3>4. whole = Whole(got)
      BY DEF Whole
    <3> HIDE DEF whole
    <3>5. r2 = Complete(r1, f.seq, whole)
      BY DEF Complete
    <3>6. RxGood(r2) /\ r2.frags = r1.frags
      BY <2>2, <2>6, <3>3, EnqueueGood, AcceptGood
    <3>7. v = [r2 EXCEPT !.frags[i] = NoFrag, !.free = @ + 1]
      BY <1>2, <2>10 DEF Reassemble, r1, asm, i, got, whole, new
    <3> HIDE DEF r2, v
    <3>8. r2 \in RxType
      BY <3>6 DEF RxGood, RxBounded
    <3>9. /\ v.frags[i] = NoFrag /\ \A j \in FragSlotIds : j # i => v.frags[j] = r2.frags[j]
          /\ v.recv_seq = r2.recv_seq /\ v.passed = r2.passed /\ v.reorder = r2.reorder
          /\ v.queue = r2.queue /\ v.log = r2.log
      BY <2>1, <3>7, <3>8 DEF RxType
    <3>10. SameCore(v, Complete(r1, f.seq, Whole(got)))
      BY <3>4, <3>5, <3>9 DEF SameCore
    <3>11. \A j \in FragSlotIds : v.frags[j] = r.frags[j] \/ v.frags[j] = NoFrag
      BY <2>6, <3>6, <3>9
    <3>12. QED
      BY <2>6, <2>b, <3>1, <3>3, <3>4, <3>10, <3>11 DEF v
  <2>11. QED
    BY <2>8, <2>9, <2>10
<1>3. QED
  BY <1>1, <1>2

\* A DATA frame completes a message of its own or of a reassembly slot, or none.
LEMMA ProcessDataCases ==
    ASSUME NEW r, RxGood(r), NEW f \in DataPacket
    PROVE  LET v == ProcessData(r, f)
           IN  /\ \A i \in FragSlotIds : \/ v.frags[i] = r.frags[i] \/ v.frags[i] = NoFrag
                                         \/ f.frag_total > 1 /\ AsmFrom(r, f, v.frags[i])
               /\ ChanType # "UNRELIABLE" =>
                    v.need_ack /\ v.ack_seq = IF v.recv_seq > 0 THEN v.recv_seq - 1 ELSE 0
               /\ \/ SameCore(v, r)
                  \/ \E q, data :
                       /\ RxGood(q) /\ SameCore(q, r) /\ data \in Payload
                       /\ SameCore(v, Complete(q, f.seq, data))
                       /\ \/ f.frag_total = 1 /\ data = <<f.data>>
                          \/ f.frag_total > 1 /\ \E a : AsmFrom(r, f, a) /\ a.total > 0 /\ data = Whole(a)
<1> DEFINE v == ProcessData(r, f)
           one == Complete(r, f.seq, <<f.data>>)
           w == IF f.frag_total <= 1 THEN one ELSE Reassemble(r, f)
           ack == IF w.recv_seq > 0 THEN w.recv_seq - 1 ELSE 0
<1>1. f.seq \in Seqs /\ <<f.data>> \in Payload /\ f.frag_total \in Nat /\ f.frag_total >= 1
  BY LimitAssumption DEF DataPacket, Payload
<1>2. RxGood(w) /\ w \in RxType
  <2>1. RxGood(w)
    BY <1>1, EnqueueGood, AcceptGood, ReassembleGood DEF Complete
  <2>2. QED
    BY <2>1 DEF RxGood, RxBounded
<1>3. /\ SameCore(v, w) /\ v.frags = w.frags
      /\ ChanType # "UNRELIABLE" =>
           v.need_ack /\ v.ack_seq = IF v.recv_seq > 0 THEN v.recv_seq - 1 ELSE 0
  <2>1. CASE ChanType = "UNRELIABLE"
    <3>1. v = w
      BY <2>1 DEF ProcessData, Complete
    <3>2. QED
      BY <2>1, <3>1 DEF SameCore
  <2>2. CASE ChanType # "UNRELIABLE"
    <3>1. v = [w EXCEPT !.need_ack = TRUE, !.ack_seq = ack]
      BY <2>2 DEF ProcessData, Complete
    <3> HIDE DEF w, v, ack
    <3>2. /\ v.frags = w.frags /\ v.need_ack = TRUE /\ v.ack_seq = ack
          /\ v.recv_seq = w.recv_seq /\ v.passed = w.passed /\ v.reorder = w.reorder
          /\ v.queue = w.queue /\ v.log = w.log
      BY <1>2, <3>1 DEF RxType
    <3>3. QED
      BY <3>2 DEF SameCore, ack
  <2>3. QED
    BY <2>1, <2>2
<1>4. CASE f.frag_total <= 1
  <2>1. w = one /\ f.frag_total = 1
    BY <1>1, <1>4
  <2>2. one.frags = r.frags
    BY <1>1, EnqueueGood, AcceptGood DEF Complete
  <2> HIDE DEF v, w
  <2>3. SameCore(v, Complete(r, f.seq, <<f.data>>)) /\ SameCore(r, r) /\ v.frags = r.frags
    BY <1>3, <2>1, <2>2 DEF SameCore
  <2>4. \E q, data :
          /\ RxGood(q) /\ SameCore(q, r) /\ data \in Payload
          /\ SameCore(v, Complete(q, f.seq, data))
          /\ \/ f.frag_total = 1 /\ data = <<f.data>>
             \/ f.frag_total > 1 /\ \E a : AsmFrom(r, f, a) /\ a.total > 0 /\ data = Whole(a)
    BY <1>1, <2>1, <2>3
  <2>5. QED
    BY <1>3, <2>3, <2>4 DEF v
<1>5. CASE f.frag_total > 1
  <2>1. w = Reassemble(r, f)
    BY <1>1, <1>5
  <2>2. \/ /\ SameCore(w, r)
           /\ \A i \in FragSlotIds : w.frags[i] = r.frags[i] \/ AsmFrom(r, f, w.frags[i])
        \/ \E q, a :
             /\ RxGood(q) /\ SameCore(q, r)
             /\ AsmFrom(r, f, a) /\ a.total > 0 /\ Whole(a) \in Payload
             /\ SameCore(w, Complete(q, f.seq, Whole(a)))
             /\ \A i \in FragSlotIds : w.frags[i] = r.frags[i] \/ w.frags[i] = NoFrag
    BY <2>1, ReassembleCases
  <2> HIDE DEF v, w
  <2>3. CASE /\ SameCore(w, r)
             /\ \A i \in FragSlotIds : w.frags[i] = r.frags[i] \/ AsmFrom(r, f, w.frags[i])
    <3>1. SameCore(v, r)
      BY <1>3, <2>3 DEF SameCore
    <3>2. QED
      BY <1>3, <1>5, <2>3, <3>1 DEF v
  <2>4. CASE \E q, a :
               /\ RxGood(q) /\ SameCore(q, r)
               /\ AsmFrom(r, f, a) /\ a.total > 0 /\ Whole(a) \in Payload
               /\ SameCore(w, Complete(q, f.seq, Whole(a)))
               /\ \A i \in FragSlotIds : w.frags[i] = r.frags[i] \/ w.frags[i] = NoFrag
    <3>1. PICK q, a :
            /\ RxGood(q) /\ SameCore(q, r)
            /\ AsmFrom(r, f, a) /\ a.total > 0 /\ Whole(a) \in Payload
            /\ SameCore(w, Complete(q, f.seq, Whole(a)))
            /\ \A i \in FragSlotIds : w.frags[i] = r.frags[i] \/ w.frags[i] = NoFrag
      BY <2>4
    <3>2. SameCore(v, Complete(q, f.seq, Whole(a)))
      BY <1>3, <3>1 DEF SameCore
    <3>3. \E x, data :
            /\ RxGood(x) /\ SameCore(x, r) /\ data \in Payload
            /\ SameCore(v, Complete(x, f.seq, data))
            /\ \/ f.frag_total = 1 /\ data = <<f.data>>
               \/ f.frag_total > 1 /\ \E b : AsmFrom(r, f, b) /\ b.total > 0 /\ data = Whole(b)
      BY <1>5, <3>1, <3>2
    <3>4. QED
      BY <1>3, <3>1, <3>3 DEF v
  <2>5. QED
    BY <2>2, <2>3, <2>4
<1>6. QED
  BY <1>1, <1>4, <1>5

LEMMA EnqueueCore ==
    ASSUME NEW r \in RxType, NEW data
    PROVE  LET e == Enqueue(r, data)
           IN  /\ e.recv_seq = r.recv_seq /\ e.passed = r.passed /\ e.reorder = r.reorder
               /\ \/ e.queue = r.queue /\ e.log = r.log
                  \/ /\ e.queue = r.queue \o <<data>>
                     /\ e.log = IF ChanType = "UNRELIABLE" THEN r.log ELSE r.log \o <<data>>
<1>1. CASE QueueRoom(r) > 0 /\ r.free > 0
  <2>1. Enqueue(r, data) = EvPush(Append2Queue(r, <<data>>), 1)
    BY <1>1 DEF Enqueue
  <2>2. QED
    BY <2>1 DEF EvPush, Append2Queue, RxType
<1>2. CASE ~ (QueueRoom(r) > 0 /\ r.free > 0)
  BY <1>2 DEF Enqueue, EvPush, RxType
<1>3. QED
  BY <1>1, <1>2

LEMMA ProcessDataWindow ==
    ASSUME NEW r, RxGood(r), HeldFrom(r, 1), NEW f \in DataPacket
    PROVE  HeldFrom(ProcessData(r, f), 1)
<1> DEFINE v == ProcessData(r, f)
<1>1. f.seq \in Seqs
  BY DEF DataPacket
<1>2. \/ SameCore(v, r)
      \/ \E q, data : /\ RxGood(q) /\ SameCore(q, r) /\ data \in Payload
                      /\ SameCore(v, Complete(q, f.seq, data))
  BY ProcessDataCases
<1> HIDE DEF v
<1>3. CASE SameCore(v, r)
  BY <1>3 DEF SameCore, HeldFrom, HeldSlots, v
<1>4. ASSUME NEW q, NEW data, RxGood(q), SameCore(q, r), data \in Payload,
             SameCore(v, Complete(q, f.seq, data))
      PROVE  HeldFrom(v, 1)
  <2>1. HeldFrom(q, 1) /\ q \in RxType
    BY <1>4 DEF SameCore, HeldFrom, HeldSlots, RxGood, RxBounded
  <2> DEFINE w == Complete(q, f.seq, data)
  <2>2. HeldFrom(w, 1)
    <3>1. CASE ChanType = "UNRELIABLE"
      <4>1. w.recv_seq = q.recv_seq /\ w.reorder = q.reorder
        BY <2>1, <3>1, EnqueueCore DEF Complete
      <4> HIDE DEF w
      <4>2. QED
        BY <2>1, <4>1 DEF HeldFrom, HeldSlots
    <3>2. CASE ChanType # "UNRELIABLE"
      BY <1>1, <1>4, <2>1, <3>2, AcceptWindow DEF Complete
    <3>3. QED
      BY <3>1, <3>2
  <2> HIDE DEF w
  <2>3. v.recv_seq = w.recv_seq /\ v.reorder = w.reorder
    BY <1>4 DEF SameCore, w
  <2>4. QED
    BY <2>2, <2>3 DEF HeldFrom, HeldSlots
<1>5. QED
  BY <1>2, <1>3, <1>4 DEF v

-----------------------------------------------------------------------------
(* Both counts are exact.                                                  *)

Counted == Good /\ FlightOK(tx) /\ HeldFrom(rx, 1)

LEMMA InitCounted == Init => Counted
<1> SUFFICES ASSUME Init PROVE Counted
  OBVIOUS
<1>1. Good
  BY InitGood
<1>2. ActiveOut(tx) = {} /\ HeldSlots(rx) = {}
  BY DEF Init, ActiveOut, HeldSlots, NoOutgoing, NoReorder
<1>3. SumLen(tx.outgoing, {}) = 0
  <2>1. {} \X (1 .. MaxFrags) = {}
    OBVIOUS
  <2>2. {u \in {} \X (1 .. MaxFrags) : u[2] <= tx.outgoing[u[1]].len} = {}
    BY <2>1
  <2>3. QED
    BY <2>2, FS_EmptySet DEF SumLen
<1>4. tx.bytes_in_flight = 0
  BY DEF Init
<1>5. QED
  BY <1>1, <1>2, <1>3, <1>4 DEF Counted, FlightOK, HeldFrom

LEMMA NextCounted == Counted /\ [Next]_vars => Counted'
<1> SUFFICES ASSUME Counted, [Next]_vars PROVE Counted'
  OBVIOUS
<1>0. /\ Good /\ Good' /\ TypeOK /\ TxGood(tx) /\ RxGood(rx) /\ FlightOK(tx) /\ HeldFrom(rx, 1)
      /\ tx \in TxType /\ rx \in RxType
  BY NextGood DEF Counted, Good, TypeOK
<1>a. ASSUME rx' = rx, FlightOK(tx') PROVE Counted'
  BY <1>0, <1>a DEF Counted
<1>b. ASSUME tx' = tx, HeldFrom(rx', 1) PROVE Counted'
  BY <1>0, <1>b DEF Counted
<1>c. ASSUME tx' = tx, rx'.reorder = rx.reorder, rx'.recv_seq = rx.recv_seq PROVE Counted'
  <2>1. HeldFrom(rx', 1)
    BY <1>0, <1>c DEF HeldFrom, HeldSlots
  <2>2. QED
    BY <1>b, <1>c, <2>1
<1>1. ASSUME NEW len \in Lens, Write(len) PROVE Counted'
  BY <1>0, <1>1, <1>a, WriteFlight DEF Write
<1>2. CASE SendData
  BY <1>0, <1>2, <1>a, SendDataFlight DEF SendData
<1>3. ASSUME NEW expired \in SUBSET Outs, Service(expired) PROVE Counted'
  BY <1>0, <1>3, <1>a, ServiceFlight DEF Service
<1>4. ASSUME NEW p \in fnet, RecvFeedback(p) PROVE Counted'
  <2> DEFINE t == IF p.has_ack THEN ProcessAck(tx, p.ack_seq) ELSE tx
  <2>1. p.ack_seq \in Seqs
    BY <1>0 DEF TypeOK, Feedback
  <2>2. FlightOK(t) /\ TxGood(t)
    BY <1>0, <2>1, ProcessAckFlight, ProcessAckGood
  <2>3. rx' = rx /\ tx' = IF p.has_window THEN [t EXCEPT !.send_window = p.window] ELSE t
    BY <1>4 DEF RecvFeedback
  <2> HIDE DEF t
  <2>4. t \in TxType
    BY <2>2 DEF TxGood
  <2>5. tx'.outgoing = t.outgoing /\ tx'.bytes_in_flight = t.bytes_in_flight
    BY <2>3, <2>4 DEF TxType
  <2>6. FlightOK(tx')
    BY <2>2, <2>5 DEF FlightOK, ActiveOut
  <2>7. QED
    BY <1>a, <2>3, <2>6
<1>5. CASE PollSender
  <2>1. /\ rx' = rx /\ tx'.outgoing = tx.outgoing
        /\ tx'.bytes_in_flight = tx.bytes_in_flight
    BY <1>0, <1>5 DEF PollSender, TxType
  <2>2. FlightOK(tx')
    BY <1>0, <2>1 DEF FlightOK, ActiveOut
  <2>3. QED
    BY <1>a, <2>1, <2>2
<1>6. ASSUME NEW f \in dnet, RecvData(f) PROVE Counted'
  <2>1. f \in DataPacket
    BY <1>0 DEF TypeOK
  <2>2. tx' = tx /\ rx' = ProcessData(rx, f)
    BY <1>6 DEF RecvData
  <2>3. HeldFrom(ProcessData(rx, f), 1)
    BY <1>0, <2>1, ProcessDataWindow
  <2>4. QED
    BY <1>b, <2>2, <2>3
<1>7. CASE SendFeedback
  <2>1. tx' = tx /\ rx'.reorder = rx.reorder /\ rx'.recv_seq = rx.recv_seq
    BY <1>0, <1>7 DEF SendFeedback, RxType
  <2>2. QED
    BY <1>c, <2>1
<1>8. ASSUME NEW buflen \in ReadSizes, Read(buflen) PROVE Counted'
  <2>1. tx' = tx /\ rx'.reorder = rx.reorder /\ rx'.recv_seq = rx.recv_seq
    BY <1>0, <1>8 DEF Read, RxType
  <2>2. QED
    BY <1>c, <2>1
<1>9. CASE PollReceiver
  <2>1. tx' = tx /\ rx'.reorder = rx.reorder /\ rx'.recv_seq = rx.recv_seq
    BY <1>0, <1>9 DEF PollReceiver, RxType
  <2>2. QED
    BY <1>c, <2>1
<1>10. CASE UNCHANGED vars
  BY <1>0, <1>10, <1>c DEF vars
<1>11. QED
  BY <1>1, <1>2, <1>3, <1>4, <1>5, <1>6, <1>7, <1>8, <1>9, <1>10 DEF Next

LEMMA CountedAlways == Spec => []Counted
<1>1. QED
  BY InitCounted, NextCounted, PTL DEF Spec

\* bytes_in_flight of a reliable channel is the total length of the entries that
\* wait for an ACK: process_ack subtracts an entry once, netchan_chan_write adds
\* it once, and the window keeps the sum below 2^32.
THEOREM FlightCountedHolds == Spec => []FlightCounted
<1>1. Counted => FlightCounted
  BY DEF Counted, FlightOK, FlightCounted
<1>2. QED
  BY <1>1, CountedAlways, PTL

\* The reorder buffer holds only messages ahead of recv_seq and inside the
\* window, each in the slot of its sequence number: chan_deliver_reordered
\* strands none when recv_seq moves, also across the wrap of the numbers.
THEOREM ReorderWindowHolds == Spec => []ReorderWindow
<1>1. ASSUME Counted PROVE ReorderWindow
  <2>1. rx \in RxType /\ HeldFrom(rx, 1)
    BY <1>1 DEF Counted, Good, TypeOK
  <2>2. ASSUME NEW i \in HeldSlots(rx)
        PROVE  /\ ReorderSlot(rx.reorder[i].seq) = i
               /\ SeqDiff(rx.reorder[i].seq, rx.recv_seq) \in 1 .. ReorderSlots - 1
    <3>1. rx.reorder[i].seq \in Seqs /\ rx.recv_seq \in Seqs
      BY <2>1 DEF RxType, HeldSlots, Reorder
    <3>2. QED
      BY <2>1, <3>1, DiffIsSteps DEF HeldFrom
  <2>3. QED
    BY <2>2 DEF ReorderWindow
<1>2. QED
  BY <1>1, CountedAlways, PTL

-----------------------------------------------------------------------------
(* What a complete message does to an ordered channel.                     *)

\* What chan_deliver_reordered queues is the run from some place on, in order.
LEMMA RunKeptFrom ==
    ASSUME NEW r \in RxType, QueueRoom(r) \in Nat
    PROVE  \E b \in Nat : \A j \in 1 .. Len(RunKept(r)) :
             b + j \in 1 .. RunLen(r) /\ RunKept(r)[j] = r.reorder[RunSlot(r, b + j - 1)].data
<1> DEFINE first == IF r.free = 0 THEN 2 ELSE 1
           last == IF RunLen(r) - first >= QueueRoom(r) THEN first + QueueRoom(r) - 1
                   ELSE RunLen(r)
<1>0. RunLen(r) \in Nat
  BY RunLenType, SlotAssumption
<1>1. ASSUME NEW i \in 1 .. RunLen(r)
      PROVE  Run(r)[i] \in Payload /\ Run(r)[i] = r.reorder[RunSlot(r, i - 1)].data
  <2>1. SeqAdd(r.recv_seq, i - 1) \in Int
    BY <1>0, SeqAddType, SeqAssumption DEF RxType, Seqs
  <2>2. RunSlot(r, i - 1) \in Reorders
    BY <2>1, ReorderSlotType DEF RunSlot
  <2>3. QED
    BY <2>2 DEF RxType, Reorder, Run
<1>2. /\ first \in {1, 2} /\ last \in Int /\ last <= RunLen(r)
  BY <1>0
<1>3. RunKept(r) = SubSeq(Run(r), first, last)
  BY DEF RunKept
<1> HIDE DEF first, last
<1>4. \A i \in first .. last : i \in 1 .. RunLen(r) /\ Run(r)[i] \in Payload
  BY <1>0, <1>1, <1>2
<1>5. /\ Len(RunKept(r)) = IF first <= last THEN last - first + 1 ELSE 0
      /\ \A i \in 1 .. last - first + 1 : RunKept(r)[i] = Run(r)[first + i - 1]
  BY <1>2, <1>3, <1>4, SubSeqProperties
<1>6. ASSUME NEW j \in 1 .. Len(RunKept(r))
      PROVE  /\ first - 1 + j \in 1 .. RunLen(r)
             /\ RunKept(r)[j] = r.reorder[RunSlot(r, first - 1 + j - 1)].data
  <2>1. j \in 1 .. last - first + 1
    BY <1>2, <1>5
  <2> DEFINE i == first + j - 1
  <2>2. i \in first .. last /\ first - 1 + j = i /\ first - 1 + j - 1 = i - 1
    BY <1>2, <2>1
  <2>3. RunKept(r)[j] = Run(r)[i]
    BY <1>5, <2>1
  <2> HIDE DEF i
  <2>4. i \in 1 .. RunLen(r) /\ Run(r)[i] = r.reorder[RunSlot(r, i - 1)].data
    BY <1>1, <1>4, <2>2
  <2>5. QED
    BY <2>2, <2>3, <2>4
<1>7. first - 1 \in Nat
  BY <1>2
<1>8. QED
  BY <1>6, <1>7

\* The message that is k ahead of recv_seq, when data has just come as the next.
Due(r, data, k) == IF k = 0 THEN data ELSE r.reorder[RunSlot(r, k)].data

\* recv_seq passes the message that came and n held ones; s is what is queued.
Passes(r, v, data, n, s, h) ==
    /\ v.recv_seq = SeqAdd(r.recv_seq, n + 1) /\ v.passed = r.passed + n + 1
    /\ \A k \in 1 .. n : /\ RunSlot(r, k) \in HeldSlots(r)
                         /\ r.reorder[RunSlot(r, k)].seq = SeqAdd(r.recv_seq, k)
    /\ \A i \in Reorders : v.reorder[i] = NoReorder \/ v.reorder[i] = r.reorder[i]
    /\ s \in Seq(Payload) /\ v.queue = r.queue \o s /\ v.log = r.log \o s
    /\ h \in [1 .. Len(s) -> 0 .. n]
    /\ \A j \in 1 .. Len(s) : s[j] = Due(r, data, h[j])
    /\ \A i, j \in 1 .. Len(s) : i < j => h[i] < h[j]

\* It is held, ahead of recv_seq.
Holds(r, v, seq, data) ==
    /\ v.recv_seq = r.recv_seq /\ v.passed = r.passed
    /\ v.queue = r.queue /\ v.log = r.log
    /\ \E d \in 1 .. ReorderSlots - 1 : seq = SeqAdd(r.recv_seq, d)
    /\ \A i \in Reorders : \/ v.reorder[i] = r.reorder[i]
                           \/ v.reorder[i] = [seq |-> seq, data |-> data, valid |-> TRUE]

LEMMA DeliverCore ==
    ASSUME NEW r \in RxType, ChanType # "UNRELIABLE"
    PROVE  LET v == DeliverReordered(r)
           IN  /\ v.recv_seq = SeqAdd(r.recv_seq, RunLen(r)) /\ v.passed = r.passed + RunLen(r)
               /\ v.queue = r.queue \o RunKept(r) /\ v.log = r.log \o RunKept(r)
               /\ v.reorder = [s \in Reorders |-> IF s \in RunSlots(r) THEN NoReorder
                                                  ELSE r.reorder[s]]
BY DEF DeliverReordered, EvPush, Append2Queue, RxType

LEMMA AcceptPasses ==
    ASSUME NEW r, RxGood(r), HeldFrom(r, 1), NEW data \in Payload, ChanType # "UNRELIABLE"
    PROVE  \E n \in 0 .. ReorderSlots - 1 : \E s, h :
             Passes(r, Accept(r, r.recv_seq, data), data, n, s, h)
<1> DEFINE e == Enqueue(r, data)
           u == [e EXCEPT !.recv_seq = SeqAdd(@, 1), !.passed = @ + 1]
           v == DeliverReordered(u)
           n == RunLen(u)
           kept == RunKept(u)
<1>1. r \in RxType /\ r.recv_seq \in Seqs /\ r.passed \in Nat
  BY DEF RxGood, RxBounded, RxType
<1>2. Accept(r, r.recv_seq, data) = v
  BY DEF Accept
<1>3. e \in RxType /\ QueueRoom(e) \in Nat
  BY EnqueueGood DEF RxGood, RxBounded
<1>4. /\ e.recv_seq = r.recv_seq /\ e.passed = r.passed /\ e.reorder = r.reorder
      /\ \/ e.queue = r.queue /\ e.log = r.log
         \/ e.queue = r.queue \o <<data>> /\ e.log = r.log \o <<data>>
  BY <1>1, EnqueueCore
<1> HIDE DEF e
<1>5. SeqAdd(e.recv_seq, 1) \in Seqs /\ e.passed + 1 \in Nat
  <2>1. e.recv_seq \in Int /\ e.passed \in Nat
    BY <1>3, ReorderFits DEF RxType
  <2>2. QED
    BY <2>1, SeqAddType
<1>6. /\ u \in RxType /\ u.recv_seq = SeqAdd(r.recv_seq, 1) /\ u.reorder = r.reorder
      /\ u.passed = r.passed + 1 /\ u.queue = e.queue /\ u.log = e.log
  BY <1>3, <1>4, <1>5 DEF RxType
<1> HIDE DEF u
<1>7. QueueRoom(u) \in Nat
  BY <1>3, <1>6 DEF QueueRoom
<1>8. /\ v.recv_seq = SeqAdd(u.recv_seq, n) /\ v.passed = u.passed + n
      /\ v.queue = u.queue \o kept /\ v.log = u.log \o kept
      /\ v.reorder = [s \in Reorders |-> IF s \in RunSlots(u) THEN NoReorder ELSE u.reorder[s]]
  BY <1>6, DeliverCore
<1>9. n \in 0 .. ReorderSlots /\ RunSet(u) = 0 .. n - 1
  BY RunIsSegment
<1>10. kept \in Seq(Payload) /\ Len(kept) \in Nat
  BY <1>6, <1>7, RunKeptType, LenProperties
<1>11. PICK b \in Nat : \A j \in 1 .. Len(kept) :
         b + j \in 1 .. n /\ kept[j] = u.reorder[RunSlot(u, b + j - 1)].data
  BY <1>6, <1>7, RunKeptFrom
<1> HIDE DEF v, n, kept
<1>12. ASSUME NEW k \in 1 .. ReorderSlots
       PROVE  SeqAdd(u.recv_seq, k - 1) = SeqAdd(r.recv_seq, k) /\ RunSlot(u, k - 1) = RunSlot(r, k)
  <2>1. k - 1 \in Nat /\ 1 + (k - 1) = k /\ 1 + (k - 1) < SeqMod
    BY ReorderFits
  <2>2. SeqAdd(SeqAdd(r.recv_seq, 1), k - 1) = SeqAdd(r.recv_seq, k)
    BY <1>1, <2>1, SeqAddAdd
  <2>3. QED
    BY <1>6, <2>2 DEF RunSlot
<1>13. ASSUME NEW k \in 1 .. n
       PROVE  /\ RunSlot(r, k) \in HeldSlots(r)
              /\ r.reorder[RunSlot(r, k)].seq = SeqAdd(r.recv_seq, k)
  <2>1. k \in 1 .. ReorderSlots /\ k - 1 \in RunSet(u) /\ k - 1 \in 0 .. k - 1
    BY <1>9, ReorderFits
  <2>2. Held(u, SeqAdd(u.recv_seq, k - 1))
    BY <2>1 DEF RunSet
  <2>3. Held(r, SeqAdd(r.recv_seq, k))
    BY <1>6, <1>12, <2>1, <2>2 DEF Held
  <2>4. SeqAdd(r.recv_seq, k) \in Int
    <3>1. r.recv_seq \in Int /\ k \in Int
      BY <1>1, ReorderFits
    <3>2. SeqAdd(r.recv_seq, k) \in Seqs
      BY <3>1, SeqAddType
    <3>3. QED
      BY <3>2, ReorderFits
  <2>5. RunSlot(r, k) \in Reorders
    BY <2>4, ReorderSlotType DEF RunSlot
  <2>6. QED
    BY <2>3, <2>5 DEF Held, HeldSlots, RunSlot
<1>14. n \in 0 .. ReorderSlots - 1
  <2>1. SUFFICES ASSUME n = ReorderSlots PROVE FALSE
    BY <1>9, ReorderFits
  <2>2. n \in 1 .. n
    BY <1>9, <2>1, ReorderFits
  <2>3. PICK d \in 1 .. ReorderSlots - 1 :
          r.reorder[RunSlot(r, n)].seq = SeqAdd(r.recv_seq, d)
    BY <1>13, <2>2 DEF HeldFrom
  <2>4. SeqAdd(r.recv_seq, d) = SeqAdd(r.recv_seq, n)
    BY <1>13, <2>2, <2>3
  <2>5. d \in 0 .. SeqMod - 1 /\ n \in 0 .. SeqMod - 1
    BY <2>1, ReorderFits
  <2>6. QED
    BY <1>1, <2>1, <2>4, <2>5, SeqAddInjective, ReorderFits
<1>15. \A j \in 1 .. Len(kept) : b + j \in 1 .. n /\ kept[j] = Due(r, data, b + j)
  <2>1. ASSUME NEW j \in 1 .. Len(kept) PROVE b + j \in 1 .. n /\ kept[j] = Due(r, data, b + j)
    <3>1. b + j \in 1 .. n /\ kept[j] = u.reorder[RunSlot(u, b + j - 1)].data
      BY <1>11
    <3>2. b + j \in 1 .. ReorderSlots /\ b + j # 0
      BY <1>9, <3>1, ReorderFits
    <3>3. RunSlot(u, (b + j) - 1) = RunSlot(r, b + j)
      BY <1>12, <3>2
    <3>4. QED
      BY <1>6, <3>1, <3>2, <3>3 DEF Due
  <2>2. QED
    BY <2>1
<1>16. /\ v.recv_seq = SeqAdd(r.recv_seq, n + 1) /\ v.passed = r.passed + n + 1
       /\ \A i \in Reorders : v.reorder[i] = NoReorder \/ v.reorder[i] = r.reorder[i]
  <2>1. n \in Nat /\ 1 \in Nat /\ 1 + n < SeqMod /\ 1 + n = n + 1
    BY <1>14, ReorderFits
  <2>2. SeqAdd(SeqAdd(r.recv_seq, 1), n) = SeqAdd(r.recv_seq, n + 1)
    BY <1>1, <2>1, SeqAddAdd
  <2>3. v.passed = r.passed + n + 1
    BY <1>1, <1>6, <1>8, <2>1
  <2>4. QED
    BY <1>6, <1>8, <2>2, <2>3
<1>17. ASSUME NEW s, NEW h, s \in Seq(Payload), v.queue = r.queue \o s, v.log = r.log \o s,
              h \in [1 .. Len(s) -> 0 .. n], \A j \in 1 .. Len(s) : s[j] = Due(r, data, h[j]),
              \A i, j \in 1 .. Len(s) : i < j => h[i] < h[j]
       PROVE  Passes(r, v, data, n, s, h)
  BY <1>13, <1>16, <1>17 DEF Passes
<1>18. CASE e.queue = r.queue /\ e.log = r.log
  <2> DEFINE h == [j \in 1 .. Len(kept) |-> b + j]
  <2>1. h \in [1 .. Len(kept) -> 0 .. n]
    BY <1>14, <1>15, ReorderFits
  <2>2. \A j \in 1 .. Len(kept) : kept[j] = Due(r, data, h[j])
    BY <1>15
  <2>3. \A i, j \in 1 .. Len(kept) : i < j => h[i] < h[j]
    BY <1>10
  <2>4. v.queue = r.queue \o kept /\ v.log = r.log \o kept
    BY <1>6, <1>8, <1>18
  <2> HIDE DEF h
  <2>5. Passes(r, v, data, n, kept, h)
    BY <1>10, <1>17, <2>1, <2>2, <2>3, <2>4
  <2>6. QED
    BY <1>2, <1>14, <2>5
<1>19. CASE e.queue = r.queue \o <<data>> /\ e.log = r.log \o <<data>>
  <2> DEFINE s == <<data>> \o kept
             h == [j \in 1 .. Len(s) |-> IF j = 1 THEN 0 ELSE b + (j - 1)]
  <2>1. <<data>> \in Seq(Payload) /\ Len(<<data>>) = 1 /\ <<data>>[1] = data
        /\ r.queue \in Seq(Payload) /\ r.log \in Seq(Payload)
    BY <1>1 DEF RxType
  <2>2. v.queue = r.queue \o s /\ v.log = r.log \o s
    <3>1. ASSUME NEW q \in Seq(Payload), NEW x \in Seq(Payload)
          PROVE  (q \o x) \o kept = q \o (x \o kept)
      BY <1>10, ConcatAssociative
    <3>2. \A q \in Seq(Payload) : (q \o <<data>>) \o kept = q \o s
      BY <2>1, <3>1
    <3>3. QED
      BY <1>6, <1>8, <1>19, <2>1, <3>2, ZenonT(60)
  <2>3. /\ s \in Seq(Payload) /\ Len(s) = 1 + Len(kept)
        /\ \A i \in 1 .. 1 + Len(kept) : s[i] = IF i <= 1 THEN <<data>>[i] ELSE kept[i - 1]
    BY <1>10, <2>1, ConcatProperties
  <2> HIDE DEF s
  <2>4. ASSUME NEW j \in 1 .. Len(s) PROVE h[j] \in 0 .. n /\ s[j] = Due(r, data, h[j])
    <3>1. CASE j = 1
      <4>1. h[j] = 0 /\ 0 \in 0 .. n
        BY <1>14, <3>1, ReorderFits
      <4>2. s[1] = data
        <5>1. 1 \in 1 .. 1 + Len(kept) /\ 1 <= 1
          BY <1>10
        <5>2. QED
          BY <2>1, <2>3, <5>1
      <4>3. QED
        BY <3>1, <4>1, <4>2 DEF Due
    <3>2. CASE j # 1
      <4>1. j - 1 \in 1 .. Len(kept) /\ ~ (j <= 1) /\ j \in 1 .. 1 + Len(kept)
        BY <1>10, <2>3, <3>2
      <4>2. h[j] = b + (j - 1) /\ s[j] = kept[j - 1]
        BY <2>3, <3>2, <4>1
      <4>3. b + (j - 1) \in 1 .. n /\ kept[j - 1] = Due(r, data, b + (j - 1))
        BY <1>15, <4>1
      <4>4. QED
        BY <1>14, <4>2, <4>3, ReorderFits
    <3>3. QED
      BY <3>1, <3>2
  <2>5. h \in [1 .. Len(s) -> 0 .. n] /\ \A j \in 1 .. Len(s) : s[j] = Due(r, data, h[j])
    BY <2>4
  <2>6. \A i, j \in 1 .. Len(s) : i < j => h[i] < h[j]
    BY <1>10, <2>3
  <2> HIDE DEF h
  <2>7. Passes(r, v, data, n, s, h)
    BY <1>17, <2>2, <2>3, <2>5, <2>6
  <2>8. QED
    BY <1>2, <1>14, <2>7
<1>20. QED
  BY <1>4, <1>18, <1>19

LEMMA AcceptCases ==
    ASSUME NEW r, RxGood(r), HeldFrom(r, 1), NEW seq \in Seqs, NEW data \in Payload,
           ChanType # "UNRELIABLE"
    PROVE  LET v == Accept(r, seq, data)
           IN  \/ SameCore(v, r)
               \/ Holds(r, v, seq, data)
               \/ /\ seq = r.recv_seq
                  /\ \E n \in 0 .. ReorderSlots - 1 : \E s, h : Passes(r, v, data, n, s, h)
<1> DEFINE slot == ReorderSlot(seq)
           m == [seq |-> seq, data |-> data, valid |-> TRUE]
           v == [r EXCEPT !.free = @ - 1, !.reorder[slot] = m]
<1>1. r \in RxType /\ r.recv_seq \in Seqs
  BY DEF RxGood, RxBounded, RxType
<1>2. CASE seq = r.recv_seq
  BY <1>2, AcceptPasses
<1>3. CASE seq # r.recv_seq /\ Accept(r, seq, data) # r
  <2>1. /\ Accept(r, seq, data) = v /\ SeqDiff(seq, r.recv_seq) > 0
        /\ SeqDiff(seq, r.recv_seq) < ReorderSlots
    BY <1>3 DEF Accept
  <2>2. SeqDiff(seq, r.recv_seq) \in Int
    BY <1>1, ReorderFits DEF SeqDiff
  <2>3. SeqDiff(seq, r.recv_seq) \in 1 .. ReorderSlots - 1
    BY <2>1, <2>2, ReorderFits
  <2>4. seq = SeqAdd(r.recv_seq, SeqDiff(seq, r.recv_seq))
    BY <1>1, <2>3, DiffIsSteps
  <2>5. slot \in Reorders
    BY ReorderSlotType, ReorderFits
  <2>6. /\ v.recv_seq = r.recv_seq /\ v.passed = r.passed /\ v.queue = r.queue /\ v.log = r.log
        /\ v.reorder = [r.reorder EXCEPT ![slot] = m]
    BY <1>1, <2>5 DEF RxType
  <2> HIDE DEF v
  <2>7. \A i \in Reorders : v.reorder[i] = r.reorder[i] \/ v.reorder[i] = m
    BY <1>1, <2>5, <2>6 DEF RxType
  <2>8. Holds(r, v, seq, data)
    BY <2>3, <2>4, <2>6, <2>7 DEF Holds
  <2>9. QED
    BY <2>1, <2>8
<1>4. CASE Accept(r, seq, data) = r
  BY <1>4 DEF SameCore
<1>5. QED
  BY <1>2, <1>3, <1>4

-----------------------------------------------------------------------------
(* Every entry and every frame is of a write, and bears its number.        *)

FromWrite(wr, m, s, n) == m < Len(wr) /\ s = m % SeqMod /\ n = wr[m + 1]

TxWritten(t) ==
    /\ t.send_seq = Len(t.written) % SeqMod
    /\ \A i \in ActiveOut(t) :
         FromWrite(t.written, t.outgoing[i].msg, t.outgoing[i].seq, t.outgoing[i].len)

\* u differs from t in no entry that is still active in it.
Keeps(u, t) ==
    /\ u.written = t.written /\ u.send_seq = t.send_seq /\ u.out_tail = t.out_tail
    /\ \A i \in ActiveOut(u) :
         /\ i \in ActiveOut(t) /\ u.outgoing[i].msg = t.outgoing[i].msg
         /\ u.outgoing[i].seq = t.outgoing[i].seq /\ u.outgoing[i].len = t.outgoing[i].len

LEMMA KeepsWritten ==
    ASSUME NEW u, NEW t, Keeps(u, t), TxWritten(t)
    PROVE  TxWritten(u)
BY DEF Keeps, TxWritten

LEMMA FromWriteGrows ==
    ASSUME NEW wr \in Seq(Nat), NEW len \in Nat, NEW m \in Nat, NEW s, NEW n,
           FromWrite(wr, m, s, n)
    PROVE  FromWrite(Append(wr, len), m, s, n)
<1>1. Len(wr) \in Nat /\ Len(Append(wr, len)) = Len(wr) + 1
  BY LenProperties
<1>2. m + 1 \in 1 .. Len(wr)
  BY <1>1 DEF FromWrite
<1>3. Append(wr, len)[m + 1] = wr[m + 1]
  BY <1>2, AppendProperties
<1>4. QED
  BY <1>1, <1>3 DEF FromWrite

LEMMA WriteWritten ==
    ASSUME TypeOK, TxGood(tx), TxWritten(tx), NEW len \in Lens, Write(len)
    PROVE  TxWritten(tx') /\ tx'.written = Append(tx.written, len) /\ len \in Nat
<1> DEFINE wr == tx.written
           n == Len(wr)
           k == tx.out_tail
<1>1. tx \in TxType /\ len \in Nat /\ wr \in Seq(Nat) /\ n \in Nat /\ k \in Outs
      /\ \A i \in Outs : tx.outgoing[i].msg \in Nat
  BY LimitAssumption, LenProperties, SMTT(30) DEF TypeOK, TxType, Outgoing
<1>2. tx'.send_seq = SeqAdd(tx.send_seq, 1) /\ tx'.written = Append(wr, len)
  BY <1>1 DEF Write, TxType
<1>3. Len(Append(wr, len)) = n + 1 /\ Append(wr, len)[n + 1] = len
  BY <1>1, AppendProperties
<1>4. SeqAdd(n % SeqMod, 1) = (n + 1) % SeqMod
  <2>1. SeqMod \in Int /\ SeqMod > 0 /\ n \in Int /\ 1 \in Int
    BY <1>1, ReorderFits
  <2> HIDE DEF n
  <2>2. ((n % SeqMod) + 1) % SeqMod = (n + 1) % SeqMod
    BY <2>1, ModAdd
  <2>3. QED
    BY <2>2 DEF SeqAdd
<1>5. ASSUME NEW i \in ActiveOut(tx')
      PROVE  FromWrite(tx'.written, tx'.outgoing[i].msg, tx'.outgoing[i].seq, tx'.outgoing[i].len)
  <2>1. i \in Outs /\ tx'.outgoing[i].active
    BY DEF ActiveOut
  <2>2. CASE tx'.outgoing[i] = tx.outgoing[i]
    <3>1. i \in ActiveOut(tx)
      BY <2>1, <2>2 DEF ActiveOut
    <3>2. FromWrite(wr, tx.outgoing[i].msg, tx.outgoing[i].seq, tx.outgoing[i].len)
      BY <3>1 DEF TxWritten
    <3>3. QED
      BY <1>1, <1>2, <2>1, <2>2, <3>2, FromWriteGrows
  <2>3. CASE tx'.outgoing[i] # tx.outgoing[i]
    <3> DEFINE o == [seq |-> tx.send_seq, msg |-> n, len |-> len,
                     attempts |-> 0, frag_sent |-> 0, active |-> TRUE]
    <3>1. i = k /\ (tx'.outgoing[k] = NoOutgoing \/ tx'.outgoing[k] = o)
      BY <1>1, <2>1, <2>3 DEF Write, TxType
    <3>2. ~ NoOutgoing.active
      BY DEF NoOutgoing
    <3>3. tx'.outgoing[i] = o
      BY <2>1, <3>1, <3>2
    <3>4. o.seq = tx.send_seq /\ o.msg = n /\ o.len = len
      OBVIOUS
    <3> HIDE DEF o
    <3>5. n < n + 1 /\ tx.send_seq = n % SeqMod
      BY <1>1 DEF TxWritten
    <3>6. QED
      BY <1>2, <1>3, <3>3, <3>4, <3>5 DEF FromWrite
  <2>4. QED
    BY <2>2, <2>3
<1>6. tx'.send_seq = Len(tx'.written) % SeqMod
  BY <1>2, <1>3, <1>4 DEF TxWritten
<1>7. QED
  BY <1>1, <1>2, <1>5, <1>6 DEF TxWritten

LEMMA SendDataKeeps ==
    ASSUME TypeOK, TxGood(tx), SendData
    PROVE  /\ Keeps(tx', tx)
           /\ ChanType # "UNRELIABLE" => ActiveOut(tx') = ActiveOut(tx)
           /\ \E i \in ActiveOut(tx) : \E f :
                /\ dnet' = dnet \cup {f} /\ f.data = tx.outgoing[i].msg
                /\ f.seq = tx.outgoing[i].seq /\ f.frag_total = tx.outgoing[i].len
<1>1. PICK d \in Sendable :
        LET i == OutAt(tx.out_head, d)
            o == tx.outgoing[i]
            s == Sent(o)
        IN  /\ dnet' = dnet \cup {[seq |-> o.seq, frag_idx |-> o.frag_sent,
                                   frag_total |-> o.len, data |-> o.msg]}
            /\ tx' = IF ChanType = "UNRELIABLE" /\ s.frag_sent >= s.len
                     THEN AdvanceHead([tx EXCEPT !.outgoing[i] = [s EXCEPT !.active = FALSE],
                                                 !.free = @ + 1])
                     ELSE [tx EXCEPT !.outgoing[i] = s]
  BY DEF SendData
<1> DEFINE i == OutAt(tx.out_head, d)
           o == tx.outgoing[i]
           s == Sent(o)
           s0 == [s EXCEPT !.active = FALSE]
           f == [seq |-> o.seq, frag_idx |-> o.frag_sent, frag_total |-> o.len, data |-> o.msg]
<1>2. tx \in TxType /\ i \in Outs
  <2>1. tx \in TxType
    BY DEF TxGood
  <2>2. d \in Int /\ tx.out_head \in Int
    BY <2>1, OutCountType, SlotAssumption DEF Sendable, TxType, Outs
  <2>3. QED
    BY <2>1, <2>2, OutAtType
<1>3. o.active /\ i \in ActiveOut(tx)
  BY <1>2 DEF Sendable, ActiveOut
<1>4. /\ s.active = o.active /\ s.len = o.len /\ s.msg = o.msg /\ s.seq = o.seq
      /\ s0.active = FALSE /\ s0.len = o.len /\ s0.msg = o.msg /\ s0.seq = o.seq
  BY <1>2 DEF Sent, TxType, Outgoing
<1>5. f.data = o.msg /\ f.seq = o.seq /\ f.frag_total = o.len /\ dnet' = dnet \cup {f}
  BY <1>1
<1>6. /\ tx'.written = tx.written /\ tx'.send_seq = tx.send_seq /\ tx'.out_tail = tx.out_tail
      /\ \/ tx'.outgoing = [tx.outgoing EXCEPT ![i] = s]
         \/ ChanType = "UNRELIABLE" /\ tx'.outgoing = [tx.outgoing EXCEPT ![i] = s0]
  <2>1. CASE ChanType = "UNRELIABLE" /\ s.frag_sent >= s.len
    <3>1. tx' = AdvanceHead([tx EXCEPT !.outgoing[i] = s0, !.free = @ + 1])
      BY <1>1, <2>1
    <3> HIDE DEF i, s0
    <3>2. QED
      BY <1>2, <2>1, <3>1 DEF AdvanceHead, TxType
  <2>2. CASE ~ (ChanType = "UNRELIABLE" /\ s.frag_sent >= s.len)
    <3>1. tx' = [tx EXCEPT !.outgoing[i] = s]
      BY <1>1, <2>2
    <3> HIDE DEF i, s
    <3>2. QED
      BY <1>2, <3>1 DEF TxType
  <2>3. QED
    BY <2>1, <2>2
<1> HIDE DEF i, s, s0, f
<1>7. /\ \A j \in Outs : j # i => tx'.outgoing[j] = tx.outgoing[j]
      /\ \/ tx'.outgoing[i] = s
         \/ ChanType = "UNRELIABLE" /\ tx'.outgoing[i] = s0
  <2>1. tx.outgoing \in [Outs -> Outgoing]
    BY <1>2 DEF TxType
  <2>2. \A x : /\ [tx.outgoing EXCEPT ![i] = x][i] = x
              /\ \A j \in Outs : j # i => [tx.outgoing EXCEPT ![i] = x][j] = tx.outgoing[j]
    BY <1>2, <2>1
  <2>3. CASE tx'.outgoing = [tx.outgoing EXCEPT ![i] = s]
    BY <2>2, <2>3
  <2>4. CASE ChanType = "UNRELIABLE" /\ tx'.outgoing = [tx.outgoing EXCEPT ![i] = s0]
    BY <2>2, <2>4
  <2>5. QED
    BY <1>6, <2>3, <2>4
<1>8. ASSUME NEW j \in ActiveOut(tx')
      PROVE  /\ j \in ActiveOut(tx) /\ tx'.outgoing[j].msg = tx.outgoing[j].msg
             /\ tx'.outgoing[j].seq = tx.outgoing[j].seq
             /\ tx'.outgoing[j].len = tx.outgoing[j].len
  <2>1. j \in Outs /\ tx'.outgoing[j].active
    BY DEF ActiveOut
  <2>2. CASE j = i
    BY <1>3, <1>4, <1>7, <2>1, <2>2
  <2>3. CASE j # i
    BY <1>7, <2>1, <2>3 DEF ActiveOut
  <2>4. QED
    BY <2>2, <2>3
<1>9. ChanType # "UNRELIABLE" => ActiveOut(tx') = ActiveOut(tx)
  BY <1>2, <1>3, <1>4, <1>7 DEF ActiveOut
<1>10. Keeps(tx', tx)
  BY <1>6, <1>8 DEF Keeps
<1>11. QED
  BY <1>3, <1>5, <1>9, <1>10

LEMMA ServiceKeeps ==
    ASSUME TypeOK, NEW expired \in SUBSET Outs, Service(expired)
    PROVE  Keeps(tx', tx) /\ ActiveOut(tx') = ActiveOut(tx)
<1> DEFINE spent == {i \in expired : tx.outgoing[i].attempts >= MaxAttempts}
           again == {i \in expired : \A j \in spent : i < j}
           out == [i \in Outs |->
                    IF i \in again
                    THEN [tx.outgoing[i] EXCEPT !.frag_sent = 0, !.attempts = @ + 1]
                    ELSE tx.outgoing[i]]
           t == [tx EXCEPT !.outgoing = out]
<1>1. tx \in TxType
  BY DEF TypeOK
<1>2. tx' = IF spent = {} THEN t ELSE EvPush([t EXCEPT !.state = "dead"], 1)
  BY DEF Service
<1>3. \A i \in Outs :
        /\ out[i].active = tx.outgoing[i].active /\ out[i].len = tx.outgoing[i].len
        /\ out[i].msg = tx.outgoing[i].msg /\ out[i].seq = tx.outgoing[i].seq
  BY <1>1 DEF TxType, Outgoing
<1> HIDE DEF out, spent
<1>4. /\ tx'.written = tx.written /\ tx'.send_seq = tx.send_seq /\ tx'.out_tail = tx.out_tail
      /\ tx'.outgoing = out
  BY <1>1, <1>2 DEF EvPush, TxType
<1>5. ActiveOut(tx') = ActiveOut(tx) /\ ActiveOut(tx) \subseteq Outs
  BY <1>3, <1>4 DEF ActiveOut
<1>6. QED
  BY <1>3, <1>4, <1>5 DEF Keeps

LEMMA AckKeeps ==
    ASSUME NEW t \in TxType, NEW a
    PROVE  /\ Keeps(ProcessAck(t, a), t)
           /\ ActiveOut(ProcessAck(t, a)) = ActiveOut(t) \ AckedSlots(t, a)
<1> DEFINE S == AckedSlots(t, a)
           out == [i \in Outs |-> IF i \in S THEN [t.outgoing[i] EXCEPT !.active = FALSE]
                                  ELSE t.outgoing[i]]
           b == (t.bytes_in_flight - SumLen(t.outgoing, S)) % FlightMod
           u == [t EXCEPT !.outgoing = out, !.bytes_in_flight = b,
                          !.free = @ + Cardinality(S)]
           v == ProcessAck(t, a)
<1>1. v = AdvanceHead(u)
  BY DEF ProcessAck
<1>2. \A i \in Outs :
        /\ out[i].active <=> (t.outgoing[i].active /\ i \notin S)
        /\ out[i].len = t.outgoing[i].len /\ out[i].msg = t.outgoing[i].msg
        /\ out[i].seq = t.outgoing[i].seq
  BY DEF TxType, Outgoing
<1> HIDE DEF out, b, S
<1>3. /\ v.outgoing = out /\ v.written = t.written /\ v.send_seq = t.send_seq
      /\ v.out_tail = t.out_tail
  BY <1>1 DEF AdvanceHead, TxType
<1> HIDE DEF v, u
<1>4. ActiveOut(v) = ActiveOut(t) \ S
  BY <1>2, <1>3 DEF ActiveOut
<1>5. Keeps(v, t)
  BY <1>2, <1>3, <1>4 DEF Keeps, ActiveOut
<1>6. QED
  BY <1>4, <1>5 DEF v, S

Written ==
    /\ Counted /\ TxWritten(tx)
    /\ \A f \in dnet : FromWrite(tx.written, f.data, f.seq, f.frag_total)

LEMMA InitWritten == Init => Written
<1> SUFFICES ASSUME Init PROVE Written
  OBVIOUS
<1>1. Counted
  BY InitCounted
<1>2. ActiveOut(tx) = {} /\ tx.send_seq = 0 /\ Len(tx.written) = 0 /\ dnet = {}
  BY DEF Init, ActiveOut, NoOutgoing
<1>3. 0 % SeqMod = 0
  BY ReorderFits
<1>4. QED
  BY <1>1, <1>2, <1>3 DEF Written, TxWritten

\* A write that is added changes no frame under way.
LEMMA NetGrows ==
    ASSUME TypeOK, NEW len \in Nat,
           \A f \in dnet : FromWrite(tx.written, f.data, f.seq, f.frag_total)
    PROVE  \A f \in dnet : FromWrite(Append(tx.written, len), f.data, f.seq, f.frag_total)
<1>1. tx.written \in Seq(Nat) /\ \A f \in dnet : f.data \in Nat
  BY DEF TypeOK, TxType, DataPacket
<1>2. QED
  BY <1>1, FromWriteGrows

\* Each step adds at most one write, and drops none.
Later(t, u) == u.written = t.written \/ \E len \in Nat : u.written = Append(t.written, len)

\* What the sender's steps other than netchan_chan_write do to its entries.
LEMMA FeedbackKeeps ==
    ASSUME TypeOK, TxGood(tx), NEW p \in fnet, RecvFeedback(p)
    PROVE  /\ Keeps(tx', tx)
           /\ ActiveOut(tx') = IF p.has_ack THEN ActiveOut(tx) \ AckedSlots(tx, p.ack_seq)
                               ELSE ActiveOut(tx)
<1> DEFINE t == IF p.has_ack THEN ProcessAck(tx, p.ack_seq) ELSE tx
<1>1. tx \in TxType /\ p.ack_seq \in Seqs
  BY DEF TypeOK, Feedback
<1>2. t \in TxType
  BY <1>1, ProcessAckGood DEF TxGood
<1>3. /\ Keeps(t, tx)
      /\ ActiveOut(t) = IF p.has_ack THEN ActiveOut(tx) \ AckedSlots(tx, p.ack_seq)
                        ELSE ActiveOut(tx)
  <2>1. Keeps(tx, tx)
    BY DEF Keeps
  <2>2. QED
    BY <1>1, <2>1, AckKeeps
<1>4. tx' = IF p.has_window THEN [t EXCEPT !.send_window = p.window] ELSE t
  BY DEF RecvFeedback
<1> HIDE DEF t
<1>5. /\ tx'.outgoing = t.outgoing /\ tx'.written = t.written /\ tx'.send_seq = t.send_seq
      /\ tx'.out_tail = t.out_tail
  BY <1>2, <1>4 DEF TxType
<1>6. ActiveOut(tx') = ActiveOut(t)
  BY <1>5 DEF ActiveOut
<1>7. Keeps(tx', tx)
  BY <1>3, <1>5, <1>6 DEF Keeps
<1>8. QED
  BY <1>3, <1>6, <1>7

LEMMA NextWritten == Written /\ [Next]_vars => Written' /\ Later(tx, tx')
<1> SUFFICES ASSUME Written, [Next]_vars PROVE Written' /\ Later(tx, tx')
  OBVIOUS
<1> USE DEF Later
<1>0. /\ Counted /\ Counted' /\ TypeOK /\ TxGood(tx) /\ RxGood(rx) /\ TxWritten(tx)
      /\ \A f \in dnet : FromWrite(tx.written, f.data, f.seq, f.frag_total)
      /\ tx \in TxType
  BY NextCounted DEF Written, Counted, Good, TypeOK
<1>a. ASSUME Keeps(tx', tx), dnet' = dnet PROVE Written' /\ Later(tx, tx')
  <2>1. TxWritten(tx') /\ tx'.written = tx.written
    BY <1>0, <1>a, KeepsWritten DEF Keeps
  <2>2. QED
    BY <1>0, <1>a, <2>1 DEF Written
<1>b. ASSUME tx' = tx, dnet' = dnet PROVE Written' /\ Later(tx, tx')
  <2>1. Keeps(tx', tx)
    BY <1>b DEF Keeps
  <2>2. QED
    BY <1>a, <1>b, <2>1
<1>1. ASSUME NEW len \in Lens, Write(len) PROVE Written' /\ Later(tx, tx')
  <2>1. TxWritten(tx') /\ tx'.written = Append(tx.written, len) /\ len \in Nat
    BY <1>0, <1>1, WriteWritten
  <2>2. \A f \in dnet : FromWrite(tx'.written, f.data, f.seq, f.frag_total)
    BY <1>0, <2>1, NetGrows
  <2>3. dnet' = dnet
    BY <1>1 DEF Write
  <2>4. QED
    BY <1>0, <2>1, <2>2, <2>3 DEF Written
<1>2. CASE SendData
  <2>1. Keeps(tx', tx)
    BY <1>0, <1>2, SendDataKeeps
  <2>2. PICK i \in ActiveOut(tx) : \E f :
               /\ dnet' = dnet \cup {f} /\ f.data = tx.outgoing[i].msg
               /\ f.seq = tx.outgoing[i].seq /\ f.frag_total = tx.outgoing[i].len
    BY <1>0, <1>2, SendDataKeeps
  <2>3. PICK f : /\ dnet' = dnet \cup {f} /\ f.data = tx.outgoing[i].msg
                 /\ f.seq = tx.outgoing[i].seq /\ f.frag_total = tx.outgoing[i].len
    BY <2>2
  <2>4. FromWrite(tx.written, f.data, f.seq, f.frag_total)
    BY <1>0, <2>3 DEF TxWritten
  <2>5. tx'.written = tx.written /\ TxWritten(tx')
    BY <1>0, <2>1, KeepsWritten DEF Keeps
  <2>6. QED
    BY <1>0, <2>3, <2>4, <2>5 DEF Written
<1>3. ASSUME NEW expired \in SUBSET Outs, Service(expired) PROVE Written' /\ Later(tx, tx')
  BY <1>0, <1>3, <1>a, ServiceKeeps DEF Service
<1>4. ASSUME NEW p \in fnet, RecvFeedback(p) PROVE Written' /\ Later(tx, tx')
  BY <1>0, <1>4, <1>a, FeedbackKeeps DEF RecvFeedback
<1>5. CASE PollSender
  <2>1. /\ tx'.outgoing = tx.outgoing /\ tx'.written = tx.written
        /\ tx'.send_seq = tx.send_seq /\ tx'.out_tail = tx.out_tail /\ dnet' = dnet
    BY <1>0, <1>5 DEF PollSender, TxType
  <2>2. Keeps(tx', tx)
    BY <2>1 DEF Keeps, ActiveOut
  <2>3. QED
    BY <1>a, <2>1, <2>2
<1>6. ASSUME NEW f \in dnet, RecvData(f) PROVE Written' /\ Later(tx, tx')
  BY <1>6, <1>b DEF RecvData
<1>7. CASE SendFeedback
  BY <1>7, <1>b DEF SendFeedback
<1>8. ASSUME NEW buflen \in ReadSizes, Read(buflen) PROVE Written' /\ Later(tx, tx')
  BY <1>8, <1>b DEF Read
<1>9. CASE PollReceiver
  BY <1>9, <1>b DEF PollReceiver
<1>10. CASE UNCHANGED vars
  BY <1>10, <1>b DEF vars
<1>11. QED
  BY <1>1, <1>2, <1>3, <1>4, <1>5, <1>6, <1>7, <1>8, <1>9, <1>10 DEF Next

LEMMA WrittenAlways == Spec => []Written
<1>1. Written /\ [Next]_vars => Written'
  BY NextWritten
<1>2. QED
  BY <1>1, InitWritten, PTL DEF Spec

-----------------------------------------------------------------------------
(* Messages arrive whole.                                                  *)

\* p is the whole of one write.
IsWhole(wr, p) ==
    /\ Len(p) > 0 /\ p[1] < Len(wr) /\ Len(p) = wr[p[1] + 1]
    /\ \A k \in 1 .. Len(p) : p[k] = p[1]

\* A reassembly slot has only fragments of the write its number stands for.
AsmIntact(wr, a) ==
    a.active => /\ a.seq < Len(wr) /\ a.total = wr[a.seq + 1]
                /\ \A k \in FragIds : a.parts[k] \in {NoPart, a.seq}

QueueIntact(r, wr) ==
    /\ \A i \in 1 .. Len(r.queue) : IsWhole(wr, r.queue[i])
    /\ \A i \in HeldSlots(r) : IsWhole(wr, r.reorder[i].data)
RxIntact(r, wr) ==
    /\ QueueIntact(r, wr)
    /\ MaxFrags > 1 => \A i \in FragSlotIds : AsmIntact(wr, r.frags[i])

LEMMA WholeGrows ==
    ASSUME NEW wr \in Seq(Nat), NEW len \in Nat, NEW p \in Payload, IsWhole(wr, p)
    PROVE  IsWhole(Append(wr, len), p)
<1>1. Len(wr) \in Nat /\ Len(Append(wr, len)) = Len(wr) + 1
  BY LenProperties
<1>2. p[1] \in Nat /\ p[1] < Len(wr)
  <2>1. 1 \in 1 .. Len(p)
    BY LenProperties DEF IsWhole, Payload
  <2>2. QED
    BY <2>1, ElementOfSeq DEF IsWhole, Payload
<1>3. p[1] + 1 \in 1 .. Len(wr)
  BY <1>1, <1>2
<1>4. Append(wr, len)[p[1] + 1] = wr[p[1] + 1]
  BY <1>3, AppendProperties
<1>5. QED
  BY <1>1, <1>2, <1>4 DEF IsWhole

LEMMA AsmGrows ==
    ASSUME NEW wr \in Seq(Nat), NEW len \in Nat, NEW a \in FragAsm, AsmIntact(wr, a)
    PROVE  AsmIntact(Append(wr, len), a)
<1>1. Len(wr) \in Nat /\ Len(Append(wr, len)) = Len(wr) + 1
  BY LenProperties
<1>2. a.seq \in Nat
  BY ReorderFits DEF FragAsm
<1>3. ASSUME a.active PROVE /\ a.seq < Len(Append(wr, len))
                            /\ a.total = Append(wr, len)[a.seq + 1]
  <2>1. a.seq < Len(wr) /\ a.total = wr[a.seq + 1]
    BY <1>3 DEF AsmIntact
  <2>2. a.seq + 1 \in 1 .. Len(wr)
    BY <1>1, <1>2, <2>1
  <2>3. Append(wr, len)[a.seq + 1] = wr[a.seq + 1]
    BY <2>2, AppendProperties
  <2>4. QED
    BY <1>1, <1>2, <2>1, <2>3
<1>4. QED
  BY <1>3 DEF AsmIntact

LEMMA RxIntactGrows ==
    ASSUME NEW wr \in Seq(Nat), NEW len \in Nat, NEW r \in RxType, RxIntact(r, wr)
    PROVE  RxIntact(r, Append(wr, len))
<1>1. /\ \A i \in 1 .. Len(r.queue) : r.queue[i] \in Payload
      /\ \A i \in HeldSlots(r) : r.reorder[i].data \in Payload
      /\ \A i \in FragSlotIds : r.frags[i] \in FragAsm
  <2>1. r.queue \in Seq(Payload) /\ r.reorder \in [Reorders -> Reorder]
        /\ r.frags \in [FragSlotIds -> FragAsm]
    BY DEF RxType
  <2>2. QED
    BY <2>1, ElementOfSeq DEF HeldSlots, Reorder
<1>2. QED
  BY <1>1, WholeGrows, AsmGrows DEF RxIntact, QueueIntact

\* Elements appended to an intact queue.
LEMMA ConcatIntact ==
    ASSUME NEW wr, NEW q \in Seq(Payload), NEW s \in Seq(Payload),
           \A i \in 1 .. Len(q) : IsWhole(wr, q[i]), \A i \in 1 .. Len(s) : IsWhole(wr, s[i])
    PROVE  \A i \in 1 .. Len(q \o s) : IsWhole(wr, (q \o s)[i])
<1>1. /\ Len(q) \in Nat /\ Len(s) \in Nat /\ Len(q \o s) = Len(q) + Len(s)
      /\ \A i \in 1 .. Len(q) + Len(s) : (q \o s)[i] = IF i <= Len(q) THEN q[i] ELSE s[i - Len(q)]
  BY ConcatProperties, LenProperties
<1>2. ASSUME NEW i \in 1 .. Len(q) + Len(s) PROVE IsWhole(wr, (q \o s)[i])
  <2>1. CASE i <= Len(q)
    <3>1. i \in 1 .. Len(q) /\ (q \o s)[i] = q[i]
      BY <1>1, <2>1
    <3>2. QED
      BY <3>1
  <2>2. CASE ~ (i <= Len(q))
    <3>1. i - Len(q) \in 1 .. Len(s) /\ (q \o s)[i] = s[i - Len(q)]
      BY <1>1, <2>2
    <3>2. QED
      BY <3>1
  <2>3. QED
    BY <2>1, <2>2
<1>3. QED
  BY <1>1, <1>2

LEMMA CompleteIntact ==
    ASSUME NEW wr, NEW r, RxGood(r), HeldFrom(r, 1), NEW seq \in Seqs, NEW data \in Payload,
           IsWhole(wr, data), QueueIntact(r, wr)
    PROVE  QueueIntact(Complete(r, seq, data), wr)
<1> DEFINE v == Complete(r, seq, data)
<1>1. r \in RxType /\ r.queue \in Seq(Payload)
  BY DEF RxGood, RxBounded, RxType
<1>2. CASE ChanType = "UNRELIABLE"
  <2>1. v.reorder = r.reorder /\ (v.queue = r.queue \/ v.queue = r.queue \o <<data>>)
    BY <1>1, <1>2, EnqueueCore DEF Complete
  <2> HIDE DEF v
  <2>2. <<data>> \in Seq(Payload) /\ Len(<<data>>) = 1 /\ <<data>>[1] = data
    OBVIOUS
  <2>3. \A i \in 1 .. Len(r.queue \o <<data>>) : IsWhole(wr, (r.queue \o <<data>>)[i])
    <3>1. \A i \in 1 .. Len(<<data>>) : IsWhole(wr, <<data>>[i])
      BY <2>2
    <3>2. QED
      BY <1>1, <2>2, <3>1, ConcatIntact DEF QueueIntact
  <2>4. QED
    BY <2>1, <2>3 DEF QueueIntact, HeldSlots, v
<1>3. CASE ChanType # "UNRELIABLE"
  <2>1. v = Accept(r, seq, data)
    BY <1>3 DEF Complete
  <2>2. \/ SameCore(v, r)
        \/ Holds(r, v, seq, data)
        \/ \E n \in 0 .. ReorderSlots - 1 : \E s, h : Passes(r, v, data, n, s, h)
    BY <1>3, <2>1, AcceptCases
  <2> HIDE DEF v
  <2>3. CASE SameCore(v, r)
    BY <2>3 DEF SameCore, QueueIntact, HeldSlots, v
  <2>4. CASE Holds(r, v, seq, data)
    <3> DEFINE m == [seq |-> seq, data |-> data, valid |-> TRUE]
    <3>1. v.queue = r.queue /\ \A i \in Reorders : v.reorder[i] = r.reorder[i] \/ v.reorder[i] = m
      BY <2>4 DEF Holds
    <3>2. m.data = data
      OBVIOUS
    <3> HIDE DEF m
    <3>3. \A i \in HeldSlots(v) : IsWhole(wr, v.reorder[i].data)
      BY <3>1, <3>2 DEF QueueIntact, HeldSlots
    <3>4. QED
      BY <3>1, <3>3 DEF QueueIntact, v
  <2>5. ASSUME NEW n \in 0 .. ReorderSlots - 1, NEW s, NEW h, Passes(r, v, data, n, s, h)
        PROVE  QueueIntact(v, wr)
    <3>1. /\ s \in Seq(Payload) /\ v.queue = r.queue \o s
          /\ h \in [1 .. Len(s) -> 0 .. n] /\ \A j \in 1 .. Len(s) : s[j] = Due(r, data, h[j])
          /\ \A k \in 1 .. n : RunSlot(r, k) \in HeldSlots(r)
          /\ \A i \in Reorders : v.reorder[i] = NoReorder \/ v.reorder[i] = r.reorder[i]
      BY <2>5 DEF Passes
    <3>2. \A k \in 0 .. n : IsWhole(wr, Due(r, data, k))
      <4>1. ASSUME NEW k \in 0 .. n PROVE IsWhole(wr, Due(r, data, k))
        <5>1. CASE k = 0
          BY <5>1 DEF Due
        <5>2. CASE k # 0
          <6>1. k \in 1 .. n
            BY <5>2, ReorderFits
          <6>2. QED
            BY <3>1, <5>2, <6>1 DEF Due, QueueIntact
        <5>3. QED
          BY <5>1, <5>2
      <4>2. QED
        BY <4>1
    <3>3. \A j \in 1 .. Len(s) : IsWhole(wr, s[j])
      BY <3>1, <3>2
    <3>4. \A i \in 1 .. Len(v.queue) : IsWhole(wr, v.queue[i])
      BY <1>1, <3>1, <3>3, ConcatIntact DEF QueueIntact
    <3>5. \A i \in HeldSlots(v) : i \in HeldSlots(r) /\ v.reorder[i] = r.reorder[i]
      BY <3>1 DEF HeldSlots, NoReorder
    <3>6. QED
      BY <3>4, <3>5 DEF QueueIntact
  <2>6. QED
    BY <2>2, <2>3, <2>4, <2>5 DEF v
<1>4. QED
  BY <1>2, <1>3

\* No number of a fragmented message has been used twice.  A late duplicate of a
\* delivered message opens a reassembly slot that stays, so a message SeqMod
\* writes later would find the old fragments in it.
Fresh(wr) == MaxFrags = 1 \/ Len(wr) <= SeqMod

LEMMA WholeAsm ==
    ASSUME NEW wr \in Seq(Nat), NEW a \in FragAsm, a.active, AsmIntact(wr, a),
           a.total > 0, Whole(a) \in Payload
    PROVE  IsWhole(wr, Whole(a))
<1> DEFINE p == Whole(a)
<1>1. a.total \in Nat /\ a.total <= MaxFrags /\ MaxFrags \in Nat
  BY LimitAssumption DEF FragAsm
<1>2. Len(p) = a.total /\ \A k \in 1 .. a.total : p[k] = a.parts[k - 1]
  BY <1>1 DEF Whole
<1> HIDE DEF p
<1>3. p \in Seq(Nat)
  BY DEF Payload, p
<1>4. ASSUME NEW k \in 1 .. a.total PROVE p[k] = a.seq
  <2>1. k - 1 \in FragIds
    BY <1>1 DEF FragIds
  <2>2. p[k] \in {NoPart, a.seq}
    BY <1>2, <2>1 DEF AsmIntact
  <2>3. p[k] \in Nat
    BY <1>2, <1>3, ElementOfSeq
  <2>4. QED
    BY <2>2, <2>3 DEF NoPart
<1>5. p[1] = a.seq /\ 1 \in 1 .. a.total
  BY <1>1, <1>4
<1>6. QED
  BY <1>2, <1>4, <1>5 DEF IsWhole, AsmIntact, p

LEMMA AsmFromIntact ==
    ASSUME NEW wr \in Seq(Nat), NEW r \in RxType, NEW f \in DataPacket, NEW a,
           FromWrite(wr, f.data, f.seq, f.frag_total), Len(wr) <= SeqMod,
           \A i \in FragSlotIds : AsmIntact(wr, r.frags[i]), AsmFrom(r, f, a)
    PROVE  AsmIntact(wr, a)
<1>1. f.data \in Nat /\ Len(wr) \in Nat /\ f.data < Len(wr)
  BY LenProperties DEF DataPacket, FromWrite
<1>2. f.seq = f.data
  <2>1. ASSUME NEW x \in Nat, x < SeqMod PROVE x % SeqMod = x
    BY <2>1, ReorderFits
  <2>2. f.data < SeqMod
    BY <1>1, ReorderFits
  <2>3. QED
    BY <1>1, <2>1, <2>2 DEF FromWrite
<1>3. f.seq < Len(wr) /\ f.frag_total = wr[f.seq + 1]
  BY <1>1, <1>2 DEF FromWrite
<1>4. a.seq = f.seq
  BY DEF AsmFrom
<1>5. CASE a.total = f.frag_total /\ \A k \in FragIds : a.parts[k] \in {NoPart, f.data}
  BY <1>2, <1>3, <1>4, <1>5 DEF AsmIntact
<1>6. CASE \E i \in FragSlotIds :
            /\ r.frags[i].active /\ r.frags[i].seq = f.seq /\ a.total = r.frags[i].total
            /\ \A k \in FragIds : a.parts[k] \in {r.frags[i].parts[k], f.data}
  <2>1. PICK i \in FragSlotIds :
            /\ r.frags[i].active /\ r.frags[i].seq = f.seq /\ a.total = r.frags[i].total
            /\ \A k \in FragIds : a.parts[k] \in {r.frags[i].parts[k], f.data}
    BY <1>6
  <2>2. /\ r.frags[i].total = wr[f.seq + 1]
        /\ \A k \in FragIds : r.frags[i].parts[k] \in {NoPart, f.seq}
    BY <2>1 DEF AsmIntact
  <2>3. \A k \in FragIds : a.parts[k] \in {NoPart, f.seq}
    BY <1>2, <2>1, <2>2
  <2>4. QED
    BY <1>3, <1>4, <2>1, <2>2, <2>3 DEF AsmIntact
<1>7. QED
  BY <1>5, <1>6 DEF AsmFrom

LEMMA ProcessDataIntact ==
    ASSUME NEW wr \in Seq(Nat), NEW r, RxGood(r), HeldFrom(r, 1), NEW f \in DataPacket,
           FromWrite(wr, f.data, f.seq, f.frag_total), Fresh(wr), RxIntact(r, wr)
    PROVE  RxIntact(ProcessData(r, f), wr)
<1> DEFINE v == ProcessData(r, f)
<1>1. /\ \A i \in FragSlotIds : \/ v.frags[i] = r.frags[i] \/ v.frags[i] = NoFrag
                                \/ f.frag_total > 1 /\ AsmFrom(r, f, v.frags[i])
      /\ \/ SameCore(v, r)
         \/ \E q, data :
              /\ RxGood(q) /\ SameCore(q, r) /\ data \in Payload
              /\ SameCore(v, Complete(q, f.seq, data))
              /\ \/ f.frag_total = 1 /\ data = <<f.data>>
                 \/ f.frag_total > 1 /\ \E a : AsmFrom(r, f, a) /\ a.total > 0 /\ data = Whole(a)
  BY ProcessDataCases
<1> HIDE DEF v
<1>2. /\ r \in RxType /\ f.frag_total \in Nat /\ f.frag_total <= MaxFrags /\ f.data \in Nat
      /\ f.seq \in Seqs /\ MaxFrags \in Nat
  BY LimitAssumption DEF RxGood, RxBounded, DataPacket
<1>3. ASSUME f.frag_total > 1
      PROVE  /\ MaxFrags > 1 /\ Len(wr) <= SeqMod
             /\ \A i \in FragSlotIds : AsmIntact(wr, r.frags[i])
  BY <1>2, <1>3 DEF Fresh, RxIntact
<1>4. ASSUME f.frag_total > 1, NEW a, AsmFrom(r, f, a) PROVE AsmIntact(wr, a)
  BY <1>2, <1>3, <1>4, AsmFromIntact
<1>5. ASSUME MaxFrags > 1, NEW i \in FragSlotIds PROVE AsmIntact(wr, v.frags[i])
  <2>1. AsmIntact(wr, r.frags[i]) /\ AsmIntact(wr, NoFrag)
    BY <1>5 DEF RxIntact, AsmIntact, NoFrag
  <2>2. QED
    BY <1>1, <1>4, <2>1
<1>6. CASE SameCore(v, r)
  <2>1. QueueIntact(v, wr)
    BY <1>6 DEF SameCore, QueueIntact, HeldSlots, RxIntact
  <2>2. QED
    BY <1>5, <2>1 DEF RxIntact, v
<1>7. ASSUME NEW q, NEW data, RxGood(q), SameCore(q, r), data \in Payload,
             SameCore(v, Complete(q, f.seq, data)),
             \/ f.frag_total = 1 /\ data = <<f.data>>
             \/ f.frag_total > 1 /\ \E a : AsmFrom(r, f, a) /\ a.total > 0 /\ data = Whole(a)
      PROVE  RxIntact(v, wr)
  <2>1. IsWhole(wr, data)
    <3>1. CASE f.frag_total = 1 /\ data = <<f.data>>
      <4>1. Len(data) = 1 /\ data[1] = f.data
        BY <3>1
      <4>2. \A k \in 1 .. Len(data) : data[k] = data[1]
        BY <4>1
      <4>3. QED
        <5>0. f.data < Len(wr) /\ wr[f.data + 1] = 1
          BY <3>1 DEF FromWrite
        <5> HIDE <3>1
        <5>1. f.data < Len(wr) /\ Len(data) = wr[data[1] + 1] /\ Len(data) > 0
          BY <4>1, <5>0
        <5>2. QED
          BY <4>1, <4>2, <5>1 DEF IsWhole
    <3>2. CASE f.frag_total > 1 /\ \E a : AsmFrom(r, f, a) /\ a.total > 0 /\ data = Whole(a)
      <4>1. PICK a : AsmFrom(r, f, a) /\ a.total > 0 /\ data = Whole(a)
        BY <3>2
      <4>2. AsmIntact(wr, a) /\ a \in FragAsm /\ a.active
        BY <1>4, <3>2, <4>1 DEF AsmFrom
      <4>3. QED
        BY <1>7, <4>1, <4>2, WholeAsm
    <3>3. QED
      BY <1>7, <3>1, <3>2
  <2>2. HeldFrom(q, 1) /\ QueueIntact(q, wr)
    BY <1>7 DEF SameCore, HeldFrom, HeldSlots, QueueIntact, RxIntact
  <2> DEFINE w == Complete(q, f.seq, data)
  <2>3. QueueIntact(w, wr)
    BY <1>2, <1>7, <2>1, <2>2, CompleteIntact
  <2> HIDE DEF w
  <2>4. v.reorder = w.reorder /\ v.queue = w.queue
    BY <1>7 DEF SameCore, w
  <2>5. QueueIntact(v, wr)
    BY <2>3, <2>4 DEF QueueIntact, HeldSlots
  <2>6. QED
    BY <1>5, <2>5 DEF RxIntact
<1>8. QED
  BY <1>1, <1>6, <1>7 DEF v

IntactWhileFresh == Written /\ (Fresh(tx.written) => RxIntact(rx, tx.written))

\* A sequence of writes that is fresh has a fresh beginning.
LEMMA FreshEarlier ==
    ASSUME TypeOK, Later(tx, tx'), Fresh(tx'.written) PROVE Fresh(tx.written)
<1>1. tx.written \in Seq(Nat) /\ Len(tx.written) \in Nat
  BY LenProperties DEF TypeOK, TxType
<1>2. ASSUME NEW len \in Nat, tx'.written = Append(tx.written, len) PROVE Fresh(tx.written)
  <2>1. Len(tx'.written) = Len(tx.written) + 1
    BY <1>1, <1>2, AppendProperties
  <2>2. QED
    BY <1>1, <2>1, ReorderFits DEF Fresh
<1>3. QED
  BY <1>2 DEF Later

LEMMA InitIntact == Init => IntactWhileFresh
<1> SUFFICES ASSUME Init PROVE IntactWhileFresh
  OBVIOUS
<1>1. HeldSlots(rx) = {} /\ rx.queue = << >>
  BY DEF Init, HeldSlots, NoReorder
<1>2. \A i \in FragSlotIds : ~ rx.frags[i].active
  BY DEF Init, NoFrag
<1>3. RxIntact(rx, tx.written)
  BY <1>1, <1>2 DEF RxIntact, QueueIntact, AsmIntact
<1>4. QED
  BY <1>3, InitWritten DEF IntactWhileFresh

LEMMA NextIntact == IntactWhileFresh /\ [Next]_vars => IntactWhileFresh'
<1> SUFFICES ASSUME IntactWhileFresh, [Next]_vars, Fresh(tx'.written)
             PROVE  RxIntact(rx', tx'.written)
  BY NextWritten DEF IntactWhileFresh
<1>0. /\ Later(tx, tx') /\ TypeOK /\ RxGood(rx) /\ HeldFrom(rx, 1)
      /\ rx \in RxType /\ tx.written \in Seq(Nat)
      /\ \A f \in dnet : FromWrite(tx.written, f.data, f.seq, f.frag_total)
  BY NextWritten DEF IntactWhileFresh, Written, Counted, Good, TypeOK, TxType
<1>1. Fresh(tx.written) /\ RxIntact(rx, tx.written)
  BY <1>0, FreshEarlier DEF IntactWhileFresh
<1>2. CASE rx' = rx
  BY <1>0, <1>1, <1>2, RxIntactGrows DEF Later
<1>a. ASSUME tx' = tx, rx'.frags = rx.frags, rx'.reorder = rx.reorder,
             rx'.queue = rx.queue \/ (rx.queue # << >> /\ rx'.queue = Tail(rx.queue))
      PROVE  RxIntact(rx', tx'.written)
  <2>1. rx.queue \in Seq(Payload)
    BY <1>0 DEF RxType
  <2>2. \A i \in 1 .. Len(rx'.queue) : IsWhole(tx.written, rx'.queue[i])
    <3>1. CASE rx'.queue = rx.queue
      BY <1>1, <3>1 DEF RxIntact, QueueIntact
    <3>2. CASE rx.queue # << >> /\ rx'.queue = Tail(rx.queue)
      <4>1. /\ Len(Tail(rx.queue)) = Len(rx.queue) - 1 /\ Len(rx.queue) \in Nat
            /\ \A i \in 1 .. Len(rx.queue) - 1 : Tail(rx.queue)[i] = rx.queue[i + 1]
        BY <2>1, <3>2, HeadTailProperties, LenProperties
      <4>2. \A i \in 1 .. Len(rx.queue) - 1 : i + 1 \in 1 .. Len(rx.queue)
        BY <4>1
      <4>3. QED
        BY <1>1, <3>2, <4>1, <4>2 DEF RxIntact, QueueIntact
    <3>3. QED
      BY <1>a, <3>1, <3>2
  <2>3. QED
    BY <1>1, <1>a, <2>2 DEF RxIntact, QueueIntact, HeldSlots
<1>3. ASSUME NEW f \in dnet, RecvData(f) PROVE RxIntact(rx', tx'.written)
  <2>1. f \in DataPacket /\ tx' = tx /\ rx' = ProcessData(rx, f)
    BY <1>0, <1>3 DEF TypeOK, RecvData
  <2>2. QED
    BY <1>0, <1>1, <2>1, ProcessDataIntact
<1>4. CASE SendFeedback
  <2>1. /\ tx' = tx /\ rx'.frags = rx.frags /\ rx'.reorder = rx.reorder /\ rx'.queue = rx.queue
    BY <1>0, <1>4 DEF SendFeedback, RxType
  <2>2. QED
    BY <1>0, <1>a, <2>1
<1>5. ASSUME NEW buflen \in ReadSizes, Read(buflen) PROVE RxIntact(rx', tx'.written)
  <2>1. /\ tx' = tx /\ rx'.frags = rx.frags /\ rx'.reorder = rx.reorder
        /\ rx.queue # << >> /\ rx'.queue = Tail(rx.queue)
    BY <1>0, <1>5 DEF Read, RxType
  <2>2. QED
    BY <1>a, <2>1
<1>6. CASE PollReceiver
  <2>1. /\ tx' = tx /\ rx'.frags = rx.frags /\ rx'.reorder = rx.reorder /\ rx'.queue = rx.queue
    BY <1>0, <1>6 DEF PollReceiver, RxType
  <2>2. QED
    BY <1>0, <1>a, <2>1
<1>7. QED
  <2>1. \/ rx' = rx \/ SendFeedback \/ PollReceiver
        \/ \E f \in dnet : RecvData(f)
        \/ \E buflen \in ReadSizes : Read(buflen)
    BY DEF Next, vars, Write, SendData, Service, RecvFeedback, PollSender
  <2>2. QED
    BY <1>0, <1>2, <1>3, <1>4, <1>5, <1>6, <2>1

LEMMA IntactAlways == Spec => []IntactWhileFresh
<1>1. QED
  BY InitIntact, NextIntact, PTL DEF Spec

\* Whatever is lost, repeated or reordered, a message that the receiver can read
\* is the whole of one write, with no fragment of another: on a channel without
\* fragments for ever, with fragments until the sequence numbers have all been used.
THEOREM IntegrityHolds == Spec => [](Fresh(tx.written) => Integrity)
<1>1. ASSUME IntactWhileFresh, Fresh(tx.written) PROVE Integrity
  BY <1>1 DEF IntactWhileFresh, RxIntact, QueueIntact, Integrity, Intact, IsWhole
<1>2. IntactWhileFresh => (Fresh(tx.written) => Integrity)
  BY <1>1
<1>3. QED
  BY <1>2, IntactAlways, PTL

-----------------------------------------------------------------------------
(* The sender keeps a message until the receiver has passed it.            *)

\* No datagram outlives half the sequence numbers, the ring takes at most half
\* of them, and no message is refused after it has taken a number.
Horizon ==
    /\ ChanType # "UNRELIABLE" /\ MaxMsg <= MaxFrags
    /\ 2 * MaxAge < SeqMod /\ 2 * OutSlots <= SeqMod

\* Write m is in slot m % NC_OUTGOING_SLOTS while it waits.
Placed(t) ==
    /\ t.out_tail = Len(t.written) % OutSlots
    /\ \A i \in ActiveOut(t) : /\ t.outgoing[i].msg % OutSlots = i
                               /\ Len(t.written) - t.outgoing[i].msg < OutSlots

LEMMA KeepsPlaced ==
    ASSUME NEW u, NEW t, Keeps(u, t), Placed(t)
    PROVE  Placed(u)
BY DEF Keeps, Placed

LEMMA SizesPositive ==
    /\ SeqMod \in Int /\ SeqMod > 1 /\ SeqMod > 0
    /\ OutSlots \in Int /\ OutSlots > 1 /\ OutSlots > 0
    /\ ReorderSlots \in Int /\ ReorderSlots > 0 /\ 2 * ReorderSlots <= SeqMod
    /\ MaxAge \in Int /\ MaxAge >= 0
BY SlotAssumption, SeqAssumption, ReorderAssumption, LimitAssumption

LEMMA Remainders ==
    /\ \A x, y \in Int : ((x % SeqMod) + y) % SeqMod = (x + y) % SeqMod
    /\ \A x, y \in Int : ((x % SeqMod) - (y % SeqMod)) % SeqMod = (x - y) % SeqMod
    /\ \A x \in Int : ((x % OutSlots) + 1) % OutSlots = (x + 1) % OutSlots
    /\ \A x \in Int : (x + OutSlots) % OutSlots = x % OutSlots
<1>1. ASSUME NEW x \in Int, NEW y \in Int
      PROVE  /\ ((x % SeqMod) + y) % SeqMod = (x + y) % SeqMod
             /\ ((x % SeqMod) - (y % SeqMod)) % SeqMod = (x - y) % SeqMod
  <2>1. SeqMod \in Int /\ SeqMod > 0
    BY SizesPositive
  <2>2. ((x % SeqMod) + y) % SeqMod = (x + y) % SeqMod
    BY <2>1, ModAdd
  <2>3. ((x % SeqMod) - (y % SeqMod)) % SeqMod = (x - y) % SeqMod
    BY <2>1, ModDiff
  <2>4. QED
    BY <2>2, <2>3
<1>2. ASSUME NEW x \in Int
      PROVE  /\ ((x % OutSlots) + 1) % OutSlots = (x + 1) % OutSlots
             /\ (x + OutSlots) % OutSlots = x % OutSlots
  <2>1. OutSlots \in Int /\ OutSlots > 0 /\ 1 \in Int
    BY SizesPositive
  <2>2. ((x % OutSlots) + 1) % OutSlots = (x + 1) % OutSlots
    BY <2>1, ModAdd
  <2>3. (x + OutSlots) % OutSlots = x % OutSlots
    BY <2>1, ModShift
  <2>4. QED
    BY <2>2, <2>3
<1>3. QED
  BY <1>1, <1>2

LEMMA WritePlaced ==
    ASSUME TypeOK, TxGood(tx), TxWritten(tx), Placed(tx), NEW len \in Lens, Write(len),
           MaxMsg <= MaxFrags
    PROVE  /\ Placed(tx') /\ tx.out_tail \notin ActiveOut(tx)
           /\ ActiveOut(tx') = ActiveOut(tx) \cup {tx.out_tail}
           /\ tx'.outgoing[tx.out_tail].msg = Len(tx.written)
           /\ \A i \in ActiveOut(tx) : tx'.outgoing[i] = tx.outgoing[i]
           /\ Len(tx'.written) = Len(tx.written) + 1
<1> DEFINE n == Len(tx.written)
           k == tx.out_tail
           h == tx.out_head
           o == [seq |-> tx.send_seq, msg |-> n, len |-> len,
                 attempts |-> 0, frag_sent |-> 0, active |-> TRUE]
<1>1. /\ tx \in TxType /\ n \in Nat /\ k \in Outs /\ h \in Outs
      /\ tx.outgoing \in [Outs -> Outgoing] /\ \A i \in Outs : tx.outgoing[i].msg \in Nat
      /\ tx.written \in Seq(Nat)
  BY LenProperties DEF TypeOK, TxType, Outgoing
<1>2. len \in Nat /\ ~ (len > MaxFrags)
  BY LimitAssumption
<1>3. /\ tx'.outgoing = [tx.outgoing EXCEPT ![k] = o] /\ tx'.out_tail = Step(k)
      /\ tx'.written = Append(tx.written, len)
  BY <1>1, <1>2 DEF Write, TxType
<1>4. o.msg = n /\ o.active
  OBVIOUS
<1> HIDE DEF o
<1>5. tx'.outgoing[k] = o /\ \A i \in Outs : i # k => tx'.outgoing[i] = tx.outgoing[i]
  BY <1>1, <1>3
<1>6. Len(tx'.written) = n + 1
  BY <1>1, <1>2, <1>3, AppendProperties
<1>7. OutCount(tx) = IF k >= h THEN k - h ELSE k - h + OutSlots
  <2>1. RingOffset(h, k) = OutCount(tx)
    BY DEF RingOffset, OutCount
  <2>2. QED
    BY <1>1, <2>1, RingForms
<1>8. k \notin ActiveOut(tx)
  <2>1. RingOffset(h, k) = OutCount(tx) /\ OutCount(tx) \in Int
    BY <1>1, OutCountType, SlotAssumption DEF RingOffset, OutCount
  <2>2. QED
    BY <2>1 DEF TxGood, ActiveInRing
<1>9. ActiveOut(tx') = ActiveOut(tx) \cup {k}
  BY <1>1, <1>4, <1>5 DEF ActiveOut
<1>10. \A i \in ActiveOut(tx) : i \in Outs /\ i # k /\ tx'.outgoing[i] = tx.outgoing[i]
  BY <1>5, <1>8 DEF ActiveOut
<1>11. Step(k) = (n + 1) % OutSlots
  <2> HIDE DEF n
  <2>1. ((n % OutSlots) + 1) % OutSlots = (n + 1) % OutSlots
    BY <1>1, Remainders
  <2>2. k = n % OutSlots
    BY DEF Placed, n
  <2>3. QED
    BY <2>1, <2>2 DEF Step
<1>12. Step(k) \notin ActiveOut(tx)
  <2>1. Step(k) = (IF k = OutSlots - 1 THEN 0 ELSE k + 1) /\ Step(k) # h
    BY <1>1, RingForms DEF Write
  <2>2. Step(k) \in Outs
    BY <1>1, <2>1, SlotAssumption DEF Outs
  <2>3. RingOffset(h, Step(k)) = IF Step(k) >= h THEN Step(k) - h ELSE Step(k) - h + OutSlots
    BY <1>1, <2>2, RingForms
  <2>4. ~ (RingOffset(h, Step(k)) < OutCount(tx))
    <3> HIDE DEF k, h
    <3>1. k \in 0 .. OutSlots - 1 /\ h \in 0 .. OutSlots - 1 /\ OutSlots \in Nat
      BY <1>1, SlotAssumption DEF Outs
    <3>2. QED
      BY <1>7, <2>1, <2>3, <3>1
  <2>5. QED
    BY <2>4 DEF TxGood, ActiveInRing
<1>13. ASSUME NEW i \in ActiveOut(tx)
       PROVE  tx.outgoing[i].msg % OutSlots = i /\ n + 1 - tx.outgoing[i].msg < OutSlots
  <2> DEFINE m == tx.outgoing[i].msg
  <2>1. m \in Nat /\ m % OutSlots = i /\ n - m < OutSlots
    BY <1>1, <1>10 DEF Placed
  <2> HIDE DEF m, n
  <2>2. SUFFICES ASSUME n + 1 - m >= OutSlots PROVE FALSE
    BY <1>1, <2>1, SizesPositive DEF m
  <2>3. n + 1 = m + OutSlots
    BY <1>1, <2>1, <2>2, SizesPositive
  <2>4. (m + OutSlots) % OutSlots = m % OutSlots
    BY <2>1, Remainders
  <2>5. Step(k) = i
    BY <1>11, <2>1, <2>3, <2>4
  <2>6. QED
    BY <1>12, <2>5
<1>14. n % OutSlots = k /\ n + 1 - n < OutSlots
  BY <1>1, SizesPositive DEF Placed
<1>15. Placed(tx')
  <2>1. ASSUME NEW i \in ActiveOut(tx')
        PROVE  /\ tx'.outgoing[i].msg % OutSlots = i
               /\ Len(tx'.written) - tx'.outgoing[i].msg < OutSlots
    <3>1. CASE i = k
      BY <1>4, <1>5, <1>6, <1>14, <3>1
    <3>2. CASE i # k
      <4>1. i \in ActiveOut(tx)
        BY <1>9, <3>2
      <4> DEFINE m == tx.outgoing[i].msg
      <4>2. tx'.outgoing[i].msg = m /\ m \in Nat
        BY <1>1, <1>10, <4>1
      <4>3. m % OutSlots = i /\ n + 1 - m < OutSlots
        BY <1>13, <4>1
      <4> HIDE DEF n, m
      <4>4. n \in Nat
        BY <1>1
      <4>5. QED
        BY <1>6, <4>2, <4>3, <4>4
    <3>3. QED
      BY <3>1, <3>2
  <2>2. QED
    BY <1>3, <1>6, <1>11, <2>1 DEF Placed
<1>16. QED
  BY <1>4, <1>5, <1>6, <1>8, <1>9, <1>10, <1>15

\* What an ACK names when the receiver has passed so many messages.
AckOf(s) == IF s > 0 THEN s - 1 ELSE 0

HeldBelow(r, w) ==
    \A i \in HeldSlots(r) : \A d \in 1 .. ReorderSlots - 1 :
        r.reorder[i].seq = SeqAdd(r.recv_seq, d) => r.passed + d < w

RxInStep(r, w) ==
    /\ r.recv_seq = r.passed % SeqMod /\ r.passed <= w /\ HeldBelow(r, w)
    /\ r.need_ack => r.ack_seq = AckOf(r.recv_seq)

FeedbackInStep(p, passed) ==
    p.age <= passed /\ (p.has_ack => p.ack_seq = AckOf(p.age % SeqMod))

AllKept == \A m \in 0 .. Len(tx.written) - 1 : Accounted(m) \/ m % SeqMod = 0

InStep ==
    /\ Placed(tx) /\ AllKept
    /\ RxInStep(rx, Len(tx.written))
    /\ \A p \in fnet : FeedbackInStep(p, rx.passed)

\* The two ends are never further apart than the ring.
LEMMA WindowBound ==
    ASSUME TypeOK, InStep
    PROVE  Len(tx.written) - rx.passed <= OutSlots
<1> DEFINE w == Len(tx.written)
           q == rx.passed
<1>1. w \in Nat /\ q \in Nat
  BY LenProperties DEF TypeOK, TxType, RxType
<1>2. SUFFICES ASSUME w - q > OutSlots PROVE FALSE
  BY <1>1, SizesPositive
<1>3. q \in 0 .. w - 1 /\ q + 1 \in 0 .. w - 1 /\ ~ (q < q) /\ ~ (q + 1 < q)
  BY <1>1, <1>2, SizesPositive
<1>4. \A i \in ActiveOut(tx) : tx.outgoing[i].msg # q /\ tx.outgoing[i].msg # q + 1
  <2>1. \A i \in ActiveOut(tx) : w - tx.outgoing[i].msg < OutSlots
    BY DEF InStep, Placed
  <2>2. ~ (w - q < OutSlots) /\ ~ (w - (q + 1) < OutSlots)
    BY <1>1, <1>2, SizesPositive
  <2>3. QED
    BY <2>1, <2>2
<1>5. q % SeqMod = 0 /\ (q + 1) % SeqMod = 0
  BY <1>3, <1>4 DEF InStep, AllKept, Accounted
<1> HIDE DEF q
<1>6. ((q % SeqMod) + 1) % SeqMod = (q + 1) % SeqMod
  BY <1>1, Remainders
<1>7. (0 + 1) % SeqMod = 1
  BY SizesPositive
<1>8. QED
  BY <1>5, <1>6, <1>7

\* A DATA frame is of the message that its number stands for now.
LEMMA FrameTimely ==
    ASSUME TypeOK, InStep, Horizon, NEW m \in Nat, m < Len(tx.written),
           Len(tx.written) - m <= MaxAge, NEW d \in 0 .. ReorderSlots - 1,
           m % SeqMod = SeqAdd(rx.recv_seq, d)
    PROVE  m = rx.passed + d
<1> DEFINE w == Len(tx.written)
           q == rx.passed
<1>1. w \in Nat /\ q \in Nat /\ d \in Int /\ d >= 0 /\ d < ReorderSlots
  BY LenProperties, SizesPositive DEF TypeOK, TxType, RxType
<1>2. q <= w /\ w - q <= OutSlots /\ rx.recv_seq = q % SeqMod
  BY WindowBound DEF InStep, RxInStep
<1> HIDE DEF w, q
<1>3. ((q % SeqMod) + d) % SeqMod = (q + d) % SeqMod
  BY <1>1, Remainders
<1>4. m % SeqMod = (q + d) % SeqMod
  BY <1>2, <1>3 DEF SeqAdd
<1>5. m - (q + d) < SeqMod /\ (q + d) - m < SeqMod
  <2>1. m < w /\ w - m <= MaxAge /\ 2 * MaxAge < SeqMod /\ 2 * OutSlots <= SeqMod
    BY DEF w, Horizon
  <2>2. QED
    BY <1>1, <1>2, <2>1, SizesPositive
<1>6. m \in Int /\ q + d \in Int
  BY <1>1
<1>7. m = q + d
  BY <1>4, <1>5, <1>6, ModSame, SizesPositive
<1>8. QED
  BY <1>7 DEF q

\* process_ack releases nothing the receiver has not passed, but for number 0.
LEMMA AckTimely ==
    ASSUME TypeOK, TxWritten(tx), InStep, Horizon, NEW p \in fnet, p.has_ack,
           Len(tx.written) - p.age <= MaxAge, NEW i \in AckedSlots(tx, p.ack_seq)
    PROVE  tx.outgoing[i].msg < rx.passed \/ tx.outgoing[i].msg % SeqMod = 0
<1> DEFINE w == Len(tx.written)
           q == rx.passed
           m == tx.outgoing[i].msg
           a == p.age
           s == tx.outgoing[i].seq
           b == p.ack_seq
           x == (s - b) % SeqMod
<1>1. w \in Nat /\ q \in Nat /\ a \in Nat /\ i \in Outs /\ i \in ActiveOut(tx)
  BY LenProperties DEF TypeOK, TxType, RxType, Feedback, AckedSlots, ActiveOut
<1>2. m \in Nat /\ m < w /\ s = m % SeqMod
  BY <1>1 DEF TxWritten, FromWrite, TypeOK, TxType, Outgoing
<1>3. a <= q /\ b = AckOf(a % SeqMod) /\ w - a <= MaxAge /\ 2 * MaxAge < SeqMod
  BY DEF InStep, FeedbackInStep, Horizon
<1>4. (IF 2 * x >= SeqMod THEN x - SeqMod ELSE x) <= 0
  BY DEF AckedSlots, SeqDiff
<1> HIDE DEF w, q, m, a, s, b
<1>5. SUFFICES ASSUME m >= q PROVE m % SeqMod = 0
  BY <1>1, <1>2 DEF m, q
<1>6. CASE a % SeqMod = 0
  <2>1. b = a % SeqMod
    BY <1>3, <1>6 DEF AckOf
  <2>2. x = (m - a) % SeqMod
    BY <1>1, <1>2, <2>1, Remainders
  <2>3. m - a \in Nat /\ 2 * (m - a) < SeqMod
    BY <1>1, <1>2, <1>3, <1>5, SizesPositive
  <2>4. x = m - a
    BY <2>2, <2>3, SmallMod, SizesPositive
  <2> HIDE DEF x
  <2>5. m = a
    BY <1>1, <1>2, <1>4, <2>3, <2>4, SizesPositive
  <2>6. QED
    BY <1>6, <2>5
<1>7. CASE a % SeqMod # 0
  <2>1. a % SeqMod \in 0 .. SeqMod - 1
    BY <1>1, ModForm, SizesPositive
  <2>2. b = (a % SeqMod) - 1
    BY <1>3, <1>7, <2>1 DEF AckOf
  <2>3. b = (a - 1) % SeqMod
    <3>1. ((a % SeqMod) + (-1)) % SeqMod = (a + (-1)) % SeqMod
      BY <1>1, Remainders
    <3>2. (a % SeqMod) + (-1) = b /\ b \in Nat /\ b < SeqMod /\ a + (-1) = a - 1
      BY <1>1, <1>7, <2>1, <2>2, SizesPositive
    <3>3. b % SeqMod = b
      BY <3>2, SmallMod, SizesPositive
    <3>4. QED
      BY <3>1, <3>2, <3>3
  <2>4. x = (m - (a - 1)) % SeqMod
    <3>1. a - 1 \in Int /\ m \in Int
      BY <1>1, <1>2
    <3>2. QED
      BY <1>2, <2>3, <3>1, Remainders
  <2>5. m - (a - 1) \in Nat /\ m - (a - 1) > 0 /\ 2 * (m - (a - 1)) < SeqMod
    BY <1>1, <1>2, <1>3, <1>5, SizesPositive
  <2>6. x = m - (a - 1)
    BY <2>4, <2>5, SmallMod, SizesPositive
  <2> HIDE DEF x
  <2>7. FALSE
    BY <1>1, <1>2, <1>4, <2>5, <2>6, SizesPositive
  <2>8. QED
    BY <2>7
<1>8. QED
  BY <1>6, <1>7

\* What is still held after recv_seq has moved was held before, that much further
\* ahead.
LEMMA HeldCarry ==
    ASSUME NEW r \in RxType, HeldFrom(r, 1), NEW v, NEW data, NEW n \in 0 .. ReorderSlots - 1,
           NEW s, NEW h, Passes(r, v, data, n, s, h),
           NEW i \in HeldSlots(v), NEW d \in 1 .. ReorderSlots - 1,
           v.reorder[i].seq = SeqAdd(v.recv_seq, d)
    PROVE  /\ i \in HeldSlots(r) /\ v.reorder[i] = r.reorder[i]
           /\ n + 1 + d \in 1 .. ReorderSlots - 1
           /\ r.reorder[i].seq = SeqAdd(r.recv_seq, n + 1 + d)
           /\ v.passed + d = r.passed + (n + 1 + d)
<1>1. /\ v.recv_seq = SeqAdd(r.recv_seq, n + 1) /\ v.passed = r.passed + n + 1
      /\ \A j \in Reorders : v.reorder[j] = NoReorder \/ v.reorder[j] = r.reorder[j]
  BY DEF Passes
<1>2. i \in HeldSlots(r) /\ v.reorder[i] = r.reorder[i]
  BY <1>1 DEF HeldSlots, NoReorder
<1>3. r.recv_seq \in Seqs /\ r.passed \in Nat
  BY DEF RxType
<1>4. PICK e \in 1 .. ReorderSlots - 1 : r.reorder[i].seq = SeqAdd(r.recv_seq, e)
  BY <1>2 DEF HeldFrom
<1>5. /\ n + 1 \in Nat /\ d \in Nat /\ n + 1 + d < SeqMod /\ n + 1 + d \in 0 .. SeqMod - 1
      /\ e \in 0 .. SeqMod - 1
  BY SizesPositive
<1>6. SeqAdd(SeqAdd(r.recv_seq, n + 1), d) = SeqAdd(r.recv_seq, n + 1 + d)
  BY <1>3, <1>5, SeqAddAdd
<1>7. SeqAdd(r.recv_seq, e) = SeqAdd(r.recv_seq, n + 1 + d)
  BY <1>1, <1>2, <1>4, <1>6
<1>8. e = n + 1 + d
  BY <1>3, <1>5, <1>7, SeqAddInjective
<1>9. v.passed + d = r.passed + (n + 1 + d)
  BY <1>1, <1>3, SizesPositive
<1>10. QED
  BY <1>2, <1>4, <1>8, <1>9

\* A message as far ahead as its number says keeps the receiver behind the sender.
LEMMA AcceptInStep ==
    ASSUME NEW r, RxGood(r), HeldFrom(r, 1), ChanType # "UNRELIABLE",
           NEW seq \in Seqs, NEW data \in Payload, NEW w \in Nat,
           r.recv_seq = r.passed % SeqMod, r.passed <= w, HeldBelow(r, w),
           \A d \in 0 .. ReorderSlots - 1 : seq = SeqAdd(r.recv_seq, d) => r.passed + d < w
    PROVE  LET v == Accept(r, seq, data)
           IN  /\ v.recv_seq = v.passed % SeqMod /\ v.passed <= w /\ HeldBelow(v, w)
               /\ r.passed <= v.passed
<1> DEFINE v == Accept(r, seq, data)
<1>1. r \in RxType /\ r.recv_seq \in Seqs /\ r.passed \in Nat
  BY DEF RxGood, RxBounded, RxType
<1>2. \/ SameCore(v, r)
      \/ Holds(r, v, seq, data)
      \/ /\ seq = r.recv_seq
         /\ \E n \in 0 .. ReorderSlots - 1 : \E s, h : Passes(r, v, data, n, s, h)
  BY AcceptCases
<1> HIDE DEF v
<1>3. CASE SameCore(v, r)
  <2>1. /\ v.recv_seq = r.recv_seq /\ v.passed = r.passed /\ v.reorder = r.reorder
        /\ r.passed <= r.passed
    BY <1>1, <1>3 DEF SameCore
  <2>2. HeldBelow(v, w)
    BY <2>1 DEF HeldBelow, HeldSlots
  <2>3. QED
    BY <2>1, <2>2 DEF v
<1>4. CASE Holds(r, v, seq, data)
  <2> DEFINE m == [seq |-> seq, data |-> data, valid |-> TRUE]
  <2>0. r.passed <= r.passed
    BY <1>1
  <2>1. /\ v.recv_seq = r.recv_seq /\ v.passed = r.passed
        /\ \A i \in Reorders : v.reorder[i] = r.reorder[i] \/ v.reorder[i] = m
    BY <1>4 DEF Holds
  <2>2. m.seq = seq
    OBVIOUS
  <2> HIDE DEF m
  <2>3. ASSUME NEW i \in HeldSlots(v), NEW d \in 1 .. ReorderSlots - 1,
               v.reorder[i].seq = SeqAdd(v.recv_seq, d)
        PROVE  v.passed + d < w
    <3>1. d \in 0 .. ReorderSlots - 1 /\ i \in Reorders
      BY SizesPositive DEF HeldSlots
    <3>2. CASE v.reorder[i] = r.reorder[i]
      BY <2>1, <2>3, <3>2 DEF HeldBelow, HeldSlots
    <3>3. CASE v.reorder[i] = m
      BY <2>1, <2>2, <2>3, <3>1, <3>3
    <3>4. QED
      BY <2>1, <3>1, <3>2, <3>3
  <2>4. HeldBelow(v, w)
    BY <2>3 DEF HeldBelow
  <2>5. QED
    BY <2>0, <2>1, <2>4 DEF v
<1>5. ASSUME seq = r.recv_seq, NEW n \in 0 .. ReorderSlots - 1, NEW s, NEW h,
             Passes(r, v, data, n, s, h)
      PROVE  /\ v.recv_seq = v.passed % SeqMod /\ v.passed <= w /\ HeldBelow(v, w)
             /\ r.passed <= v.passed
  <2>1. /\ v.recv_seq = SeqAdd(r.recv_seq, n + 1) /\ v.passed = r.passed + n + 1
        /\ \A k \in 1 .. n : /\ RunSlot(r, k) \in HeldSlots(r)
                             /\ r.reorder[RunSlot(r, k)].seq = SeqAdd(r.recv_seq, k)
    BY <1>5 DEF Passes
  <2>2. v.recv_seq = v.passed % SeqMod
    <3>1. r.passed \in Int /\ n + 1 \in Int /\ r.passed + (n + 1) = v.passed
      BY <1>1, <2>1, SizesPositive
    <3>2. ((r.passed % SeqMod) + (n + 1)) % SeqMod = (r.passed + (n + 1)) % SeqMod
      BY <3>1, Remainders
    <3>3. QED
      BY <2>1, <3>1, <3>2 DEF SeqAdd
  <2>3. r.passed + n < w
    <3>1. CASE n = 0
      <4>1. SeqAdd(r.recv_seq, 0) = r.recv_seq /\ 0 \in 0 .. ReorderSlots - 1
        <5>1. 0 \in 0 .. SeqMod - 1 /\ 0 \in 0 .. ReorderSlots - 1 /\ r.recv_seq \in 0 .. SeqMod - 1
          BY <1>1, SizesPositive, ReorderFits
        <5>2. SeqAdd(r.recv_seq, 0)
                = IF r.recv_seq + 0 < SeqMod THEN r.recv_seq + 0 ELSE r.recv_seq + 0 - SeqMod
          BY <1>1, <5>1, SeqForm
        <5>3. QED
          BY <5>1, <5>2, SizesPositive
      <4>2. QED
        BY <1>5, <3>1, <4>1
    <3>2. CASE n # 0
      <4>1. n \in 1 .. n /\ n \in 1 .. ReorderSlots - 1
        BY <3>2, SizesPositive
      <4>2. QED
        BY <2>1, <4>1 DEF HeldBelow
    <3>3. QED
      BY <3>1, <3>2
  <2>4. v.passed <= w /\ r.passed <= v.passed
    BY <1>1, <2>1, <2>3, SizesPositive
  <2>5. ASSUME NEW i \in HeldSlots(v), NEW d \in 1 .. ReorderSlots - 1,
               v.reorder[i].seq = SeqAdd(v.recv_seq, d)
        PROVE  v.passed + d < w
    <3>1. /\ i \in HeldSlots(r) /\ n + 1 + d \in 1 .. ReorderSlots - 1
          /\ r.reorder[i].seq = SeqAdd(r.recv_seq, n + 1 + d)
          /\ v.passed + d = r.passed + (n + 1 + d)
      BY <1>1, <1>5, <2>5, HeldCarry
    <3>2. QED
      BY <3>1 DEF HeldBelow
  <2>6. QED
    BY <2>2, <2>4, <2>5 DEF HeldBelow
<1>6. QED
  BY <1>2, <1>3, <1>4, <1>5 DEF v

LEMMA ProcessDataInStep ==
    ASSUME TypeOK, Written, InStep, Horizon, NEW f \in dnet, Len(tx.written) - f.data <= MaxAge
    PROVE  /\ RxInStep(ProcessData(rx, f), Len(tx.written))
           /\ rx.passed <= ProcessData(rx, f).passed
<1> DEFINE v == ProcessData(rx, f)
           w == Len(tx.written)
<1>1. /\ f \in DataPacket /\ f.seq \in Seqs /\ f.data \in Nat /\ w \in Nat
      /\ FromWrite(tx.written, f.data, f.seq, f.frag_total) /\ RxGood(rx) /\ HeldFrom(rx, 1)
      /\ rx \in RxType /\ rx.passed \in Nat /\ ChanType # "UNRELIABLE"
  BY LenProperties DEF TypeOK, Written, Counted, Good, TxType, RxType, DataPacket, Horizon
<1>2. /\ rx.recv_seq = rx.passed % SeqMod /\ rx.passed <= w /\ HeldBelow(rx, w)
  BY DEF InStep, RxInStep
<1>3. \A d \in 0 .. ReorderSlots - 1 : f.seq = SeqAdd(rx.recv_seq, d) => rx.passed + d < w
  <2>1. ASSUME NEW d \in 0 .. ReorderSlots - 1, f.seq = SeqAdd(rx.recv_seq, d)
        PROVE  rx.passed + d < w
    <3>1. f.data < Len(tx.written) /\ f.data % SeqMod = SeqAdd(rx.recv_seq, d)
      BY <1>1, <2>1 DEF FromWrite
    <3>2. f.data = rx.passed + d
      BY <1>1, <3>1, FrameTimely
    <3>3. QED
      BY <3>1, <3>2
  <2>2. QED
    BY <2>1
<1>4. /\ v.need_ack /\ v.ack_seq = IF v.recv_seq > 0 THEN v.recv_seq - 1 ELSE 0
      /\ \/ SameCore(v, rx)
         \/ \E q, data : /\ RxGood(q) /\ SameCore(q, rx) /\ data \in Payload
                         /\ SameCore(v, Complete(q, f.seq, data))
  BY <1>1, ProcessDataCases
<1> HIDE DEF v, w
<1>5. v.ack_seq = AckOf(v.recv_seq)
  BY <1>4 DEF AckOf
<1>6. CASE SameCore(v, rx)
  <2>1. /\ v.recv_seq = rx.recv_seq /\ v.passed = rx.passed /\ v.reorder = rx.reorder
        /\ rx.passed <= rx.passed
    BY <1>1, <1>6 DEF SameCore
  <2>2. HeldBelow(v, w)
    BY <1>2, <2>1 DEF HeldBelow, HeldSlots
  <2>3. QED
    BY <1>2, <1>5, <2>1, <2>2 DEF RxInStep, v, w
<1>7. ASSUME NEW q, NEW data, RxGood(q), SameCore(q, rx), data \in Payload,
             SameCore(v, Complete(q, f.seq, data))
      PROVE  RxInStep(v, w) /\ rx.passed <= v.passed
  <2> DEFINE u == Accept(q, f.seq, data)
  <2>1. /\ q.recv_seq = rx.recv_seq /\ q.passed = rx.passed /\ q.reorder = rx.reorder
    BY <1>7 DEF SameCore
  <2>2. HeldBelow(q, w) /\ HeldFrom(q, 1)
    BY <1>1, <1>2, <2>1 DEF HeldBelow, HeldFrom, HeldSlots
  <2>3. /\ u.recv_seq = u.passed % SeqMod /\ u.passed <= w /\ HeldBelow(u, w)
        /\ q.passed <= u.passed
    BY <1>1, <1>2, <1>3, <1>7, <2>1, <2>2, AcceptInStep
  <2>4. v.recv_seq = u.recv_seq /\ v.passed = u.passed /\ v.reorder = u.reorder
    BY <1>1, <1>7 DEF SameCore, Complete
  <2> HIDE DEF u
  <2>5. HeldBelow(v, w)
    BY <2>3, <2>4 DEF HeldBelow, HeldSlots
  <2>6. QED
    BY <1>5, <2>1, <2>3, <2>4, <2>5 DEF RxInStep
<1>8. QED
  BY <1>4, <1>6, <1>7 DEF v, w

Synchronised == Written /\ (Horizon => InStep)

LEMMA InitSynchronised == Init => Synchronised
<1> SUFFICES ASSUME Init PROVE Synchronised
  OBVIOUS
<1>1. Written
  BY InitWritten
<1>2. ActiveOut(tx) = {} /\ HeldSlots(rx) = {} /\ fnet = {}
  BY DEF Init, ActiveOut, HeldSlots, NoOutgoing, NoReorder
<1>3. /\ tx.out_tail = 0 /\ Len(tx.written) = 0 /\ rx.recv_seq = 0 /\ rx.passed = 0
      /\ ~ rx.need_ack
  BY DEF Init
<1>4. 0 % SeqMod = 0 /\ 0 % OutSlots = 0 /\ 0 .. 0 - 1 = {} /\ 0 <= 0
  BY SizesPositive
<1>5. Placed(tx) /\ AllKept
  BY <1>2, <1>3, <1>4 DEF Placed, AllKept
<1>6. RxInStep(rx, Len(tx.written))
  BY <1>2, <1>3, <1>4 DEF RxInStep, HeldBelow
<1>7. QED
  BY <1>1, <1>2, <1>5, <1>6 DEF Synchronised, InStep

LEMMA NextSynchronised == Synchronised /\ [Next]_vars => Synchronised'
<1> SUFFICES ASSUME Synchronised, [Next]_vars, Horizon PROVE InStep'
  BY NextWritten DEF Synchronised
<1> DEFINE w == Len(tx.written)
<1>0. /\ Written /\ InStep /\ TypeOK /\ TxGood(tx) /\ RxGood(rx) /\ TxWritten(tx)
      /\ tx \in TxType /\ rx \in RxType /\ w \in Nat /\ rx.passed \in Nat
      /\ ChanType # "UNRELIABLE" /\ MaxMsg <= MaxFrags
      /\ Placed(tx) /\ AllKept /\ RxInStep(rx, w) /\ \A p \in fnet : FeedbackInStep(p, rx.passed)
  BY LenProperties
     DEF Synchronised, Written, Counted, Good, TypeOK, TxType, RxType, Horizon, InStep
<1>a. ASSUME Keeps(tx', tx), ActiveOut(tx') = ActiveOut(tx), rx' = rx, fnet' = fnet
      PROVE  InStep'
  <2>1. tx'.written = tx.written /\ \A i \in ActiveOut(tx') : tx'.outgoing[i].msg = tx.outgoing[i].msg
    BY <1>a DEF Keeps
  <2>2. AllKept'
    BY <1>0, <1>a, <2>1 DEF AllKept, Accounted
  <2>3. QED
    BY <1>0, <1>a, <2>1, <2>2, KeepsPlaced DEF InStep
<1>b. ASSUME tx' = tx, rx'.passed = rx.passed, rx'.recv_seq = rx.recv_seq,
             rx'.reorder = rx.reorder, rx'.need_ack => rx.need_ack, rx'.ack_seq = rx.ack_seq,
             \A p \in fnet' : FeedbackInStep(p, rx.passed)
      PROVE  InStep'
  <2>1. AllKept'
    BY <1>0, <1>b DEF AllKept, Accounted
  <2>2. HeldBelow(rx', w)
    BY <1>0, <1>b DEF RxInStep, HeldBelow, HeldSlots
  <2>3. RxInStep(rx', w)
    BY <1>0, <1>b, <2>2 DEF RxInStep
  <2>4. QED
    BY <1>0, <1>b, <2>1, <2>3 DEF InStep
<1>1. ASSUME NEW len \in Lens, Write(len) PROVE InStep'
  <2>1. /\ Placed(tx') /\ ActiveOut(tx') = ActiveOut(tx) \cup {tx.out_tail}
        /\ tx'.outgoing[tx.out_tail].msg = w
        /\ \A i \in ActiveOut(tx) : tx'.outgoing[i] = tx.outgoing[i]
        /\ Len(tx'.written) = w + 1
    BY <1>0, <1>1, WritePlaced
  <2>2. rx' = rx /\ fnet' = fnet
    BY <1>1 DEF Write
  <2>3. AllKept'
    <3>1. ASSUME NEW m \in 0 .. Len(tx'.written) - 1 PROVE Accounted(m)' \/ m % SeqMod = 0
      <4>1. CASE m = w
        BY <2>1, <4>1 DEF Accounted
      <4>2. CASE m # w
        <5>1. m \in 0 .. w - 1
          BY <1>0, <2>1, <4>2
        <5>2. Accounted(m) \/ m % SeqMod = 0
          BY <1>0, <5>1 DEF AllKept
        <5>3. QED
          BY <2>1, <2>2, <5>2 DEF Accounted
      <4>3. QED
        BY <4>1, <4>2
    <3>2. QED
      BY <3>1 DEF AllKept
  <2>4. RxInStep(rx, w + 1)
    <3>1. HeldBelow(rx, w + 1)
      <4>1. \A d \in 1 .. ReorderSlots - 1 : rx.passed + d < w => rx.passed + d < w + 1
        BY <1>0, SizesPositive
      <4>2. QED
        BY <1>0, <4>1 DEF RxInStep, HeldBelow
    <3>2. rx.passed <= w + 1
      BY <1>0 DEF RxInStep
    <3>3. QED
      BY <1>0, <3>1, <3>2 DEF RxInStep
  <2>5. QED
    BY <1>0, <2>1, <2>2, <2>3, <2>4 DEF InStep
<1>2. CASE SendData
  BY <1>0, <1>2, <1>a, SendDataKeeps DEF SendData
<1>3. ASSUME NEW expired \in SUBSET Outs, Service(expired) PROVE InStep'
  BY <1>0, <1>3, <1>a, ServiceKeeps DEF Service
<1>4. ASSUME NEW p \in fnet, RecvFeedback(p) PROVE InStep'
  <2>1. Keeps(tx', tx) /\ rx' = rx /\ fnet' = fnet /\ w - p.age <= MaxAge
    BY <1>0, <1>4, FeedbackKeeps DEF RecvFeedback
  <2>2. CASE ~ p.has_ack
    <3>1. ActiveOut(tx') = ActiveOut(tx)
      BY <1>0, <1>4, <2>2, FeedbackKeeps
    <3>2. QED
      BY <1>a, <2>1, <3>1
  <2>3. CASE p.has_ack
    <3>1. ActiveOut(tx') = ActiveOut(tx) \ AckedSlots(tx, p.ack_seq)
      BY <1>0, <1>4, <2>3, FeedbackKeeps
    <3>2. \A i \in AckedSlots(tx, p.ack_seq) :
            tx.outgoing[i].msg < rx.passed \/ tx.outgoing[i].msg % SeqMod = 0
      BY <1>0, <2>1, <2>3, AckTimely
    <3>3. /\ tx'.written = tx.written
          /\ \A i \in ActiveOut(tx') : tx'.outgoing[i].msg = tx.outgoing[i].msg
      BY <2>1 DEF Keeps
    <3>4. ASSUME NEW m \in 0 .. w - 1 PROVE Accounted(m)' \/ m % SeqMod = 0
      <4>1. Accounted(m) \/ m % SeqMod = 0
        BY <1>0 DEF AllKept
      <4>2. ASSUME NEW i \in ActiveOut(tx), tx.outgoing[i].msg = m
            PROVE  Accounted(m)' \/ m % SeqMod = 0
        <5>1. CASE i \in AckedSlots(tx, p.ack_seq)
          BY <2>1, <3>2, <4>2, <5>1 DEF Accounted
        <5>2. CASE i \notin AckedSlots(tx, p.ack_seq)
          BY <3>1, <3>3, <4>2, <5>2 DEF Accounted
        <5>3. QED
          BY <5>1, <5>2
      <4>3. QED
        BY <2>1, <4>1, <4>2 DEF Accounted
    <3>5. AllKept'
      BY <3>3, <3>4 DEF AllKept
    <3>6. QED
      BY <1>0, <2>1, <3>3, <3>5, KeepsPlaced DEF InStep
  <2>4. QED
    BY <2>2, <2>3
<1>5. CASE PollSender
  <2>1. /\ tx'.outgoing = tx.outgoing /\ tx'.written = tx.written /\ rx' = rx /\ fnet' = fnet
        /\ tx'.send_seq = tx.send_seq /\ tx'.out_tail = tx.out_tail
    BY <1>0, <1>5 DEF PollSender, TxType
  <2>2. Keeps(tx', tx) /\ ActiveOut(tx') = ActiveOut(tx)
    BY <2>1 DEF Keeps, ActiveOut
  <2>3. QED
    BY <1>a, <2>1, <2>2
<1>6. ASSUME NEW f \in dnet, RecvData(f) PROVE InStep'
  <2>1. tx' = tx /\ fnet' = fnet /\ rx' = ProcessData(rx, f) /\ w - f.data <= MaxAge
    BY <1>6 DEF RecvData
  <2>2. RxInStep(rx', w) /\ rx.passed <= rx'.passed
    BY <1>0, <2>1, ProcessDataInStep
  <2>3. rx'.passed \in Nat
    <3>1. f \in DataPacket
      BY <1>0 DEF TypeOK
    <3>2. RxGood(rx')
      BY <1>0, <2>1, <3>1, ProcessDataGood
    <3>3. QED
      BY <3>2 DEF RxGood, RxBounded, RxType
  <2>4. \A x \in Nat : x < rx.passed => x < rx'.passed
    BY <1>0, <2>2, <2>3
  <2>5. AllKept'
    <3>1. \A m \in 0 .. w - 1 : m \in Nat
      BY <1>0
    <3>2. QED
      BY <1>0, <2>1, <2>4, <3>1 DEF AllKept, Accounted
  <2>6. \A p \in fnet : FeedbackInStep(p, rx'.passed)
    <3>1. \A p \in fnet : p.age \in Nat
      BY <1>0 DEF TypeOK, Feedback
    <3>2. \A x \in Nat : x <= rx.passed => x <= rx'.passed
      BY <1>0, <2>2, <2>3
    <3>3. QED
      BY <1>0, <3>1, <3>2 DEF FeedbackInStep
  <2>7. QED
    BY <1>0, <2>1, <2>2, <2>5, <2>6 DEF InStep
<1>7. CASE SendFeedback
  <2> DEFINE p == [has_ack |-> rx.need_ack, ack_seq |-> IF rx.need_ack THEN rx.ack_seq ELSE 0,
                   has_window |-> rx.need_window_update,
                   window |-> IF rx.need_window_update /\ Window > rx.buffered
                              THEN Window - rx.buffered ELSE 0,
                   age |-> rx.passed]
  <2>1. /\ tx' = tx /\ fnet' = fnet \cup {p} /\ rx'.passed = rx.passed
        /\ rx'.recv_seq = rx.recv_seq /\ rx'.reorder = rx.reorder /\ rx'.need_ack = FALSE
        /\ rx'.ack_seq = rx.ack_seq
    BY <1>0, <1>7 DEF SendFeedback, RxType
  <2>2. p.age = rx.passed /\ (p.has_ack <=> rx.need_ack) /\ (rx.need_ack => p.ack_seq = rx.ack_seq)
    OBVIOUS
  <2> HIDE DEF p
  <2>3. FeedbackInStep(p, rx.passed)
    <3>1. rx.passed <= rx.passed
      BY <1>0
    <3>2. QED
      BY <1>0, <2>2, <3>1 DEF FeedbackInStep, RxInStep
  <2>4. QED
    BY <1>0, <1>b, <2>1, <2>3
<1>8. ASSUME NEW buflen \in ReadSizes, Read(buflen) PROVE InStep'
  <2>1. /\ tx' = tx /\ fnet' = fnet /\ rx'.passed = rx.passed /\ rx'.need_ack = rx.need_ack
        /\ rx'.recv_seq = rx.recv_seq /\ rx'.reorder = rx.reorder /\ rx'.ack_seq = rx.ack_seq
    BY <1>0, <1>8 DEF Read, RxType
  <2>2. QED
    BY <1>0, <1>b, <2>1
<1>9. CASE PollReceiver
  <2>1. /\ tx' = tx /\ fnet' = fnet /\ rx'.passed = rx.passed /\ rx'.need_ack = rx.need_ack
        /\ rx'.recv_seq = rx.recv_seq /\ rx'.reorder = rx.reorder /\ rx'.ack_seq = rx.ack_seq
    BY <1>0, <1>9 DEF PollReceiver, RxType
  <2>2. QED
    BY <1>0, <1>b, <2>1
<1>10. CASE UNCHANGED vars
  BY <1>0, <1>10, <1>b DEF vars
<1>11. QED
  BY <1>1, <1>2, <1>3, <1>4, <1>5, <1>6, <1>7, <1>8, <1>9, <1>10 DEF Next

LEMMA SynchronisedAlways == Spec => []Synchronised
<1>1. QED
  BY InitSynchronised, NextSynchronised, PTL DEF Spec

\* No ACK, however late or repeated, makes process_ack release a message that the
\* receiver has not passed, across any number of turns of the sequence numbers: the
\* one exception is number 0, which AckOf names too early.
THEOREM KeptUntilPassedHolds == Spec => [](Horizon => KeptUntilPassed)
<1>1. Synchronised => (Horizon => KeptUntilPassed)
  BY DEF Synchronised, InStep, AllKept, KeptUntilPassed
<1>2. QED
  BY <1>1, SynchronisedAlways, PTL

-----------------------------------------------------------------------------
(* Messages arrive in order and once.                                      *)

HeldNumbered(r) ==
    \A i \in HeldSlots(r) : \A d \in 1 .. ReorderSlots - 1 :
        r.reorder[i].seq = SeqAdd(r.recv_seq, d) => r.reorder[i].data[1] = r.passed + d

LogOrdered(r) ==
    /\ \A i \in 1 .. Len(r.log) : r.log[i][1] \in Nat /\ r.log[i][1] < r.passed
    /\ \A i, j \in 1 .. Len(r.log) : i < j => r.log[i][1] < r.log[j][1]

\* A longer log is in order when what is new is, and lies between the old count
\* of passed messages and the new one.
LEMMA LogGrows ==
    ASSUME NEW r, LogOrdered(r), r.log \in Seq(Payload), NEW s \in Seq(Payload), NEW v,
           v.log = r.log \o s, r.passed \in Nat, v.passed \in Nat, r.passed <= v.passed,
           \A j \in 1 .. Len(s) : /\ s[j][1] \in Nat /\ r.passed <= s[j][1]
                                  /\ s[j][1] < v.passed,
           \A i, j \in 1 .. Len(s) : i < j => s[i][1] < s[j][1]
    PROVE  LogOrdered(v)
<1> DEFINE a == Len(r.log)
           b == Len(s)
<1>1. /\ a \in Nat /\ b \in Nat /\ Len(v.log) = a + b
      /\ \A i \in 1 .. a + b : v.log[i] = IF i <= a THEN r.log[i] ELSE s[i - a]
  BY ConcatProperties, LenProperties
<1>2. /\ \A i \in 1 .. a : r.log[i][1] \in Nat /\ r.log[i][1] < r.passed
      /\ \A i, j \in 1 .. a : i < j => r.log[i][1] < r.log[j][1]
  BY DEF LogOrdered
<1> HIDE DEF a, b
<1>3. \A i \in 1 .. a + b : \/ i \in 1 .. a /\ v.log[i] = r.log[i]
                            \/ i > a /\ i - a \in 1 .. b /\ v.log[i] = s[i - a]
  BY <1>1
<1>4. ASSUME NEW i \in 1 .. a + b PROVE v.log[i][1] \in Nat /\ v.log[i][1] < v.passed
  <2>1. CASE i \in 1 .. a /\ v.log[i] = r.log[i]
    BY <1>2, <2>1
  <2>2. CASE i > a /\ i - a \in 1 .. b /\ v.log[i] = s[i - a]
    BY <2>2 DEF b
  <2>3. QED
    BY <1>3, <2>1, <2>2
<1>5. ASSUME NEW i \in 1 .. a + b, NEW j \in 1 .. a + b, i < j
      PROVE  v.log[i][1] < v.log[j][1]
  <2>1. CASE j \in 1 .. a /\ v.log[j] = r.log[j]
    <3>1. i \in 1 .. a
      BY <1>1, <1>5, <2>1
    <3>2. v.log[i] = r.log[i]
      BY <1>1, <3>1
    <3>3. QED
      BY <1>2, <1>5, <2>1, <3>1, <3>2
  <2>2. CASE j > a /\ j - a \in 1 .. b /\ v.log[j] = s[j - a]
    <3>1. CASE i \in 1 .. a /\ v.log[i] = r.log[i]
      <4>1. r.log[i][1] \in Nat /\ r.log[i][1] < r.passed
        BY <1>2, <3>1
      <4>2. s[j - a][1] \in Nat /\ r.passed <= s[j - a][1]
        BY <2>2 DEF b
      <4>3. QED
        BY <2>2, <3>1, <4>1, <4>2
    <3>2. CASE i > a /\ i - a \in 1 .. b /\ v.log[i] = s[i - a]
      <4>1. i - a < j - a
        BY <1>1, <1>5
      <4>2. QED
        BY <2>2, <3>2, <4>1 DEF b
    <3>3. QED
      BY <1>3, <3>1, <3>2
  <2>3. QED
    BY <1>3, <2>1, <2>2
<1>6. QED
  BY <1>1, <1>4, <1>5 DEF LogOrdered

LEMMA AcceptOrdered ==
    ASSUME NEW r, RxGood(r), HeldFrom(r, 1), ChanType # "UNRELIABLE",
           NEW seq \in Seqs, NEW data \in Payload, LogOrdered(r), HeldNumbered(r),
           \A d \in 0 .. ReorderSlots - 1 : seq = SeqAdd(r.recv_seq, d) => data[1] = r.passed + d
    PROVE  LogOrdered(Accept(r, seq, data)) /\ HeldNumbered(Accept(r, seq, data))
<1> DEFINE v == Accept(r, seq, data)
<1>1. r \in RxType /\ r.recv_seq \in Seqs /\ r.passed \in Nat /\ r.log \in Seq(Payload)
  BY DEF RxGood, RxBounded, RxType
<1>2. \/ SameCore(v, r)
      \/ Holds(r, v, seq, data)
      \/ /\ seq = r.recv_seq
         /\ \E n \in 0 .. ReorderSlots - 1 : \E s, h : Passes(r, v, data, n, s, h)
  BY AcceptCases
<1> HIDE DEF v
<1>3. CASE SameCore(v, r)
  <2>1. /\ v.recv_seq = r.recv_seq /\ v.passed = r.passed /\ v.reorder = r.reorder
        /\ v.log = r.log
    BY <1>3 DEF SameCore
  <2>2. QED
    BY <2>1 DEF LogOrdered, HeldNumbered, HeldSlots, v
<1>4. CASE Holds(r, v, seq, data)
  <2> DEFINE m == [seq |-> seq, data |-> data, valid |-> TRUE]
  <2>1. /\ v.recv_seq = r.recv_seq /\ v.passed = r.passed /\ v.log = r.log
        /\ \A i \in Reorders : v.reorder[i] = r.reorder[i] \/ v.reorder[i] = m
    BY <1>4 DEF Holds
  <2>2. m.seq = seq /\ m.data = data
    OBVIOUS
  <2> HIDE DEF m
  <2>3. ASSUME NEW i \in HeldSlots(v), NEW d \in 1 .. ReorderSlots - 1,
               v.reorder[i].seq = SeqAdd(v.recv_seq, d)
        PROVE  v.reorder[i].data[1] = v.passed + d
    <3>1. d \in 0 .. ReorderSlots - 1 /\ i \in Reorders
      BY SizesPositive DEF HeldSlots
    <3>2. CASE v.reorder[i] = r.reorder[i]
      BY <2>1, <2>3, <3>2 DEF HeldNumbered, HeldSlots
    <3>3. CASE v.reorder[i] = m
      BY <2>1, <2>2, <2>3, <3>1, <3>3
    <3>4. QED
      BY <2>1, <3>1, <3>2, <3>3
  <2>4. HeldNumbered(v)
    BY <2>3 DEF HeldNumbered
  <2>5. LogOrdered(v)
    BY <2>1 DEF LogOrdered
  <2>6. QED
    BY <2>4, <2>5 DEF v
<1>5. ASSUME seq = r.recv_seq, NEW n \in 0 .. ReorderSlots - 1, NEW s, NEW h,
             Passes(r, v, data, n, s, h)
      PROVE  LogOrdered(v) /\ HeldNumbered(v)
  <2>1. /\ v.passed = r.passed + n + 1 /\ v.log = r.log \o s /\ s \in Seq(Payload)
        /\ \A k \in 1 .. n : /\ RunSlot(r, k) \in HeldSlots(r)
                             /\ r.reorder[RunSlot(r, k)].seq = SeqAdd(r.recv_seq, k)
        /\ h \in [1 .. Len(s) -> 0 .. n]
        /\ \A j \in 1 .. Len(s) : s[j] = Due(r, data, h[j])
        /\ \A i, j \in 1 .. Len(s) : i < j => h[i] < h[j]
    BY <1>5 DEF Passes
  <2>2. ASSUME NEW k \in 0 .. n PROVE Due(r, data, k)[1] = r.passed + k
    <3>1. CASE k = 0
      <4>1. 0 \in 0 .. SeqMod - 1 /\ 0 \in 0 .. ReorderSlots - 1 /\ r.recv_seq \in 0 .. SeqMod - 1
        BY <1>1, SizesPositive, ReorderFits
      <4>2. SeqAdd(r.recv_seq, 0)
              = IF r.recv_seq + 0 < SeqMod THEN r.recv_seq + 0 ELSE r.recv_seq + 0 - SeqMod
        BY <1>1, <4>1, SeqForm
      <4>3. SeqAdd(r.recv_seq, 0) = seq
        BY <1>5, <4>1, <4>2, SizesPositive
      <4>4. QED
        BY <3>1, <4>1, <4>3 DEF Due
    <3>2. CASE k # 0
      <4>1. k \in 1 .. n /\ k \in 1 .. ReorderSlots - 1
        BY <3>2, SizesPositive
      <4>2. QED
        BY <2>1, <3>2, <4>1 DEF HeldNumbered, Due
    <3>3. QED
      BY <3>1, <3>2
  <2>3. ASSUME NEW j \in 1 .. Len(s) PROVE s[j][1] = r.passed + h[j] /\ h[j] \in 0 .. n
    BY <2>1, <2>2
  <2>4. v.passed \in Nat /\ r.passed <= v.passed
    BY <1>1, <2>1, SizesPositive
  <2>5. \A j \in 1 .. Len(s) : /\ s[j][1] \in Nat /\ r.passed <= s[j][1]
                               /\ s[j][1] < v.passed
    BY <1>1, <2>1, <2>3, SizesPositive
  <2>6. \A i, j \in 1 .. Len(s) : i < j => s[i][1] < s[j][1]
    <3>1. ASSUME NEW i \in 1 .. Len(s), NEW j \in 1 .. Len(s), i < j PROVE s[i][1] < s[j][1]
      <4>1. h[i] < h[j] /\ h[i] \in Int /\ h[j] \in Int
        BY <2>1, <2>3, <3>1
      <4>2. QED
        BY <1>1, <2>3, <4>1
    <3>2. QED
      BY <3>1
  <2>7. LogOrdered(v)
    BY <1>1, <2>1, <2>4, <2>5, <2>6, LogGrows
  <2>8. ASSUME NEW i \in HeldSlots(v), NEW d \in 1 .. ReorderSlots - 1,
               v.reorder[i].seq = SeqAdd(v.recv_seq, d)
        PROVE  v.reorder[i].data[1] = v.passed + d
    <3>0. r \in RxType /\ HeldFrom(r, 1)
      BY <1>1
    <3>1. Passes(r, v, data, n, s, h) /\ v.reorder[i].seq = SeqAdd(v.recv_seq, d)
      BY <1>5, <2>8
    <3>2. /\ i \in HeldSlots(r) /\ n + 1 + d \in 1 .. ReorderSlots - 1
          /\ r.reorder[i].seq = SeqAdd(r.recv_seq, n + 1 + d)
          /\ v.passed + d = r.passed + (n + 1 + d)
      BY <3>0, <3>1, HeldCarry
    <3>3. v.reorder[i] = r.reorder[i]
      BY <3>1 DEF Passes, HeldSlots, NoReorder
    <3>4. QED
      BY <3>2, <3>3 DEF HeldNumbered
  <2>9. QED
    BY <2>7, <2>8 DEF HeldNumbered
<1>6. QED
  BY <1>2, <1>3, <1>4, <1>5 DEF v

\* A message put together from fragments begins with the write of each of them.
LEMMA WholeNumber ==
    ASSUME NEW wr \in Seq(Nat), NEW r \in RxType, NEW f \in DataPacket, NEW a,
           FromWrite(wr, f.data, f.seq, f.frag_total), Len(wr) <= SeqMod,
           \A i \in FragSlotIds : AsmIntact(wr, r.frags[i]), AsmFrom(r, f, a),
           a.total > 0, Whole(a) \in Payload
    PROVE  Whole(a)[1] = f.data
<1>1. AsmIntact(wr, a) /\ a \in FragAsm /\ a.active /\ a.seq = f.seq
  BY AsmFromIntact DEF AsmFrom
<1>2. f.seq = f.data
  <2>1. f.data \in Nat /\ Len(wr) \in Nat /\ f.data < Len(wr) /\ f.seq = f.data % SeqMod
    BY LenProperties DEF DataPacket, FromWrite
  <2>2. f.data < SeqMod
    BY <2>1, SizesPositive
  <2>3. f.data % SeqMod = f.data
    BY <2>1, <2>2, SmallMod, SizesPositive
  <2>4. QED
    BY <2>1, <2>3
<1>3. a.total \in Nat /\ 1 \in 1 .. a.total /\ 0 \in FragIds /\ 1 - 1 = 0
  BY <1>1, LimitAssumption DEF FragAsm, FragIds
<1>4. Whole(a)[1] = a.parts[0] /\ Len(Whole(a)) = a.total
  BY <1>3 DEF Whole
<1>5. a.parts[0] \in {NoPart, a.seq}
  BY <1>1, <1>3 DEF AsmIntact
<1>6. Whole(a)[1] \in Nat
  BY <1>3, <1>4, ElementOfSeq DEF Payload
<1>7. QED
  BY <1>1, <1>2, <1>4, <1>5, <1>6 DEF NoPart

LEMMA ProcessDataOrdered ==
    ASSUME TypeOK, Written, InStep, Horizon, Fresh(tx.written), RxIntact(rx, tx.written),
           LogOrdered(rx), HeldNumbered(rx), NEW f \in dnet, Len(tx.written) - f.data <= MaxAge
    PROVE  LogOrdered(ProcessData(rx, f)) /\ HeldNumbered(ProcessData(rx, f))
<1> DEFINE v == ProcessData(rx, f)
           wr == tx.written
<1>1. /\ f \in DataPacket /\ f.seq \in Seqs /\ f.data \in Nat /\ wr \in Seq(Nat)
      /\ FromWrite(wr, f.data, f.seq, f.frag_total) /\ RxGood(rx) /\ HeldFrom(rx, 1)
      /\ rx \in RxType /\ ChanType # "UNRELIABLE"
  BY DEF TypeOK, Written, Counted, Good, TxType, DataPacket, Horizon
<1>2. f.frag_total \in Nat /\ f.frag_total <= MaxFrags /\ MaxFrags \in Nat
  BY <1>1, LimitAssumption DEF DataPacket
<1>3. \A d \in 0 .. ReorderSlots - 1 : f.seq = SeqAdd(rx.recv_seq, d) => f.data = rx.passed + d
  <2>1. f.data < Len(tx.written) /\ f.seq = f.data % SeqMod
    BY <1>1 DEF FromWrite
  <2>2. QED
    BY <1>1, <2>1, FrameTimely
<1>4. \/ SameCore(v, rx)
      \/ \E q, data :
           /\ RxGood(q) /\ SameCore(q, rx) /\ data \in Payload
           /\ SameCore(v, Complete(q, f.seq, data))
           /\ \/ f.frag_total = 1 /\ data = <<f.data>>
              \/ f.frag_total > 1 /\ \E a : AsmFrom(rx, f, a) /\ a.total > 0 /\ data = Whole(a)
  BY <1>1, ProcessDataCases
<1> HIDE DEF v
<1>5. CASE SameCore(v, rx)
  BY <1>5 DEF SameCore, LogOrdered, HeldNumbered, HeldSlots, v
<1>6. ASSUME NEW q, NEW data, RxGood(q), SameCore(q, rx), data \in Payload,
             SameCore(v, Complete(q, f.seq, data)),
             \/ f.frag_total = 1 /\ data = <<f.data>>
             \/ f.frag_total > 1 /\ \E a : AsmFrom(rx, f, a) /\ a.total > 0 /\ data = Whole(a)
      PROVE  LogOrdered(v) /\ HeldNumbered(v)
  <2>1. data[1] = f.data
    <3>1. CASE f.frag_total = 1 /\ data = <<f.data>>
      BY <3>1
    <3>2. CASE f.frag_total > 1 /\ \E a : AsmFrom(rx, f, a) /\ a.total > 0 /\ data = Whole(a)
      <4>1. PICK a : AsmFrom(rx, f, a) /\ a.total > 0 /\ data = Whole(a)
        BY <3>2
      <4>2. Len(wr) <= SeqMod /\ \A i \in FragSlotIds : AsmIntact(wr, rx.frags[i])
        BY <1>2, <3>2 DEF Fresh, RxIntact
      <4>3. QED
        BY <1>1, <1>6, <4>1, <4>2, WholeNumber
    <3>3. QED
      BY <1>6, <3>1, <3>2
  <2> DEFINE u == Accept(q, f.seq, data)
  <2>2. /\ q.recv_seq = rx.recv_seq /\ q.passed = rx.passed /\ q.reorder = rx.reorder
        /\ q.log = rx.log
    BY <1>6 DEF SameCore
  <2>3. HeldNumbered(q) /\ HeldFrom(q, 1) /\ LogOrdered(q)
    <3>1. HeldSlots(q) = HeldSlots(rx)
      BY <2>2 DEF HeldSlots
    <3>2. HeldNumbered(q)
      BY <2>2, <3>1 DEF HeldNumbered
    <3>3. HeldFrom(q, 1)
      BY <1>1, <2>2, <3>1 DEF HeldFrom
    <3>4. LogOrdered(q)
      BY <2>2 DEF LogOrdered
    <3>5. QED
      BY <3>2, <3>3, <3>4
  <2>4. LogOrdered(u) /\ HeldNumbered(u)
    BY <1>1, <1>3, <1>6, <2>1, <2>2, <2>3, AcceptOrdered
  <2>5. /\ v.recv_seq = u.recv_seq /\ v.passed = u.passed /\ v.reorder = u.reorder
        /\ v.log = u.log
    BY <1>1, <1>6 DEF SameCore, Complete
  <2> HIDE DEF u
  <2>6. QED
    BY <2>4, <2>5 DEF HeldNumbered, LogOrdered, HeldSlots
<1>7. QED
  BY <1>4, <1>5, <1>6 DEF v

InOrder ==
    /\ IntactWhileFresh /\ Synchronised
    /\ Horizon /\ Fresh(tx.written) => LogOrdered(rx) /\ HeldNumbered(rx)

LEMMA InitInOrder == Init => InOrder
<1> SUFFICES ASSUME Init PROVE InOrder
  OBVIOUS
<1>1. HeldSlots(rx) = {} /\ Len(rx.log) = 0 /\ 1 .. 0 = {}
  BY DEF Init, HeldSlots, NoReorder
<1>2. LogOrdered(rx) /\ HeldNumbered(rx)
  BY <1>1 DEF LogOrdered, HeldNumbered
<1>3. QED
  BY <1>2, InitIntact, InitSynchronised DEF InOrder

LEMMA NextInOrder == InOrder /\ [Next]_vars => InOrder'
<1> SUFFICES ASSUME InOrder, [Next]_vars, Horizon, Fresh(tx'.written)
             PROVE  LogOrdered(rx') /\ HeldNumbered(rx')
  BY NextIntact, NextSynchronised DEF InOrder
<1>0. /\ Later(tx, tx') /\ TypeOK /\ rx \in RxType /\ Written /\ InStep
      /\ (Fresh(tx.written) => RxIntact(rx, tx.written))
  BY NextWritten
     DEF InOrder, IntactWhileFresh, Synchronised, Written, Counted, Good, TypeOK
<1>1. Fresh(tx.written)
  BY <1>0, FreshEarlier
<1>2. LogOrdered(rx) /\ HeldNumbered(rx) /\ RxIntact(rx, tx.written)
  BY <1>0, <1>1 DEF InOrder
<1>a. ASSUME rx'.passed = rx.passed, rx'.recv_seq = rx.recv_seq, rx'.reorder = rx.reorder,
             rx'.log = rx.log
      PROVE  LogOrdered(rx') /\ HeldNumbered(rx')
  BY <1>2, <1>a DEF LogOrdered, HeldNumbered, HeldSlots
<1>3. CASE rx' = rx
  BY <1>a, <1>3
<1>4. ASSUME NEW f \in dnet, RecvData(f) PROVE LogOrdered(rx') /\ HeldNumbered(rx')
  <2>1. rx' = ProcessData(rx, f) /\ Len(tx.written) - f.data <= MaxAge
    BY <1>4 DEF RecvData
  <2>2. QED
    BY <1>0, <1>1, <1>2, <2>1, ProcessDataOrdered
<1>5. CASE SendFeedback
  <2>1. /\ rx'.passed = rx.passed /\ rx'.recv_seq = rx.recv_seq /\ rx'.reorder = rx.reorder
        /\ rx'.log = rx.log
    BY <1>0, <1>5 DEF SendFeedback, RxType
  <2>2. QED
    BY <1>a, <2>1
<1>6. ASSUME NEW buflen \in ReadSizes, Read(buflen) PROVE LogOrdered(rx') /\ HeldNumbered(rx')
  <2>1. /\ rx'.passed = rx.passed /\ rx'.recv_seq = rx.recv_seq /\ rx'.reorder = rx.reorder
        /\ rx'.log = rx.log
    BY <1>0, <1>6 DEF Read, RxType
  <2>2. QED
    BY <1>a, <2>1
<1>7. CASE PollReceiver
  <2>1. /\ rx'.passed = rx.passed /\ rx'.recv_seq = rx.recv_seq /\ rx'.reorder = rx.reorder
        /\ rx'.log = rx.log
    BY <1>0, <1>7 DEF PollReceiver, RxType
  <2>2. QED
    BY <1>a, <2>1
<1>8. QED
  <2>1. \/ rx' = rx \/ SendFeedback \/ PollReceiver
        \/ \E f \in dnet : RecvData(f)
        \/ \E buflen \in ReadSizes : Read(buflen)
    BY DEF Next, vars, Write, SendData, Service, RecvFeedback, PollSender
  <2>2. QED
    BY <1>3, <1>4, <1>5, <1>6, <1>7, <2>1

LEMMA InOrderAlways == Spec => []InOrder
<1>1. QED
  BY InitInOrder, NextInOrder, PTL DEF Spec

\* An ordered channel hands over the writes in their order and none twice, whatever
\* is lost, repeated, delayed or retransmitted and wherever the queue or the pool
\* runs out, also across the wrap of the sequence numbers.
THEOREM OrderedOnceHolds == Spec => [](Horizon /\ Fresh(tx.written) => OrderedOnce)
<1>1. InOrder => (Horizon /\ Fresh(tx.written) => OrderedOnce)
  BY DEF InOrder, LogOrdered, OrderedOnce
<1>2. QED
  BY <1>1, InOrderAlways, PTL
===============================================================================
