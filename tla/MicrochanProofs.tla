---------------------------- MODULE MicrochanProofs ----------------------------
(***************************************************************************)
(* The Go-Back-N window of Microchan stays sound at both ends, and every   *)
(* reliable channel is a Fifo, for every window, number of channels, queue *)
(* and network, and over any number of turns of the sequence numbers.      *)
(***************************************************************************)
EXTENDS Microchan, NumberLemmas, SequenceTheorems, TLAPS

\* The number of the reliable record that an end writes after k others.
Sq(k) == (First + k) % SeqMod

-------------------------------------------------------------------------------
(* Sequence numbers. *)

LEMMA Sizes ==
  /\ SeqMod \in Nat /\ SeqMod > 0 /\ Window \in Nat /\ Window > 0 /\ 2 * Window < SeqMod
  /\ First \in Nat /\ First < SeqMod /\ MaxAge \in Nat
  /\ (SeqMod - 1) \div 2 \in Nat /\ Window <= (SeqMod - 1) \div 2
  /\ MaxAge + Window <= SeqMod - (SeqMod - 1) \div 2 /\ MaxAge + Window < SeqMod
  /\ Window < SeqMod - (SeqMod - 1) \div 2
<1> DEFINE h == SeqMod \div 2
           g == (SeqMod - 1) \div 2
<1>1. /\ SeqMod \in Nat /\ Window \in Nat \ {0} /\ 2 * Window < SeqMod
      /\ First \in 0..(SeqMod - 1) /\ MaxAge \in Nat /\ MaxAge + Window <= h + 1
  BY MicroAssumption, LifetimeAssumption DEF Seqs
<1>2. h \in Int /\ 2 * h <= SeqMod /\ SeqMod <= 2 * h + 1
  BY <1>1
<1>3. g \in Int /\ 2 * g <= SeqMod - 1 /\ SeqMod - 1 <= 2 * g + 1
  BY <1>1
<1> HIDE DEF g, h
<1>4. QED
  BY <1>1, <1>2, <1>3 DEF g

LEMMA SqType ==
  ASSUME NEW k \in Nat
  PROVE  Sq(k) \in Seqs /\ Sq(k) \in Nat /\ Sq(k) < SeqMod
<1>1. First + k \in Int /\ SeqMod \in Int /\ SeqMod > 0
  BY Sizes
<1>2. (First + k) % SeqMod \in 0..(SeqMod - 1)
  BY <1>1, ModForm
<1> QED BY <1>1, <1>2 DEF Sq, Seqs

LEMMA SqAdd ==
  ASSUME NEW k \in Nat, NEW i \in Nat
  PROVE  (Sq(k) + i) % SeqMod = Sq(k + i)
<1>1. First + k \in Int /\ i \in Int /\ SeqMod \in Int /\ SeqMod > 0 /\ First \in Nat
  BY Sizes
<1>2. (((First + k) % SeqMod) + i) % SeqMod = ((First + k) + i) % SeqMod
  BY <1>1, ModAdd
<1>3. (First + k) + i = First + (k + i)
  BY <1>1
<1> QED BY <1>2, <1>3 DEF Sq

\* A sequence number taken from another, as the code does modulo 2^16.
LEMMA DistMod ==
  ASSUME NEW x \in Nat, NEW y \in Nat
  PROVE  Dist(Sq(x), Sq(y)) = (y - x) % SeqMod
<1>1. /\ First + x \in Int /\ First + y \in Int /\ SeqMod \in Int /\ SeqMod > 0
      /\ (First + y) - (First + x) = y - x
  BY Sizes
<1>2. Sq(y) \in Int /\ Sq(x) \in Int
  BY SqType
<1>3. (Sq(y) - Sq(x)) % SeqMod = (y - x) % SeqMod
  <2>1. (((First + y) % SeqMod) - ((First + x) % SeqMod)) % SeqMod
          = ((First + y) - (First + x)) % SeqMod
    BY <1>1, ModDiff
  <2> QED BY <1>1, <2>1 DEF Sq
<1>4. Sq(y) - Sq(x) \in Int /\ Sq(y) + SeqMod - Sq(x) = (Sq(y) - Sq(x)) + SeqMod
  BY <1>1, <1>2
<1>5. ((Sq(y) - Sq(x)) + SeqMod) % SeqMod = (Sq(y) - Sq(x)) % SeqMod
  BY <1>1, <1>4, ModShift
<1> QED BY <1>3, <1>4, <1>5 DEF Dist

LEMMA DistUp ==
  ASSUME NEW x \in Nat, NEW y \in Nat, x <= y, y - x < SeqMod
  PROVE  Dist(Sq(x), Sq(y)) = y - x
<1>1. y - x \in Nat /\ SeqMod \in Int /\ SeqMod > 0
  BY Sizes
<1>2. (y - x) % SeqMod = y - x
  BY <1>1, SmallMod
<1> QED BY <1>2, DistMod

LEMMA DistDown ==
  ASSUME NEW x \in Nat, NEW y \in Nat, y < x, x - y <= SeqMod
  PROVE  Dist(Sq(x), Sq(y)) = SeqMod - (x - y)
<1>1. /\ y - x \in Int /\ SeqMod \in Int /\ SeqMod > 0
      /\ SeqMod - (x - y) \in Nat /\ SeqMod - (x - y) < SeqMod
      /\ (y - x) + SeqMod = SeqMod - (x - y)
  BY Sizes
<1>2. ((y - x) + SeqMod) % SeqMod = (y - x) % SeqMod
  BY <1>1, ModShift
<1>3. (SeqMod - (x - y)) % SeqMod = SeqMod - (x - y)
  BY <1>1, SmallMod
<1>4. Dist(Sq(x), Sq(y)) = (y - x) % SeqMod
  BY DistMod
<1> QED BY <1>1, <1>2, <1>3, <1>4

LEMMA SqSame ==
  ASSUME NEW x \in Nat, NEW y \in Nat, Sq(x) = Sq(y), x - y < SeqMod, y - x < SeqMod
  PROVE  x = y
<1>1. /\ First \in Int /\ First + x \in Int /\ First + y \in Int /\ SeqMod \in Int /\ SeqMod > 0
      /\ (First + x) - (First + y) < SeqMod /\ (First + y) - (First + x) < SeqMod
  BY Sizes
<1>2. First + x = First + y
  BY <1>1, ModSame DEF Sq
<1> QED BY <1>1, <1>2

\* seq_after, for numbers close enough to each other.
LEMMA After ==
  ASSUME NEW x \in Nat, NEW y \in Nat, x < y, y - x <= Window
  PROVE  SeqAfter(Sq(y), Sq(x))
<1>1. y - x < SeqMod /\ y - x \in 1..((SeqMod - 1) \div 2)
  BY Sizes
<1>2. Dist(Sq(x), Sq(y)) = y - x
  BY <1>1, DistUp
<1> QED BY <1>1, <1>2 DEF SeqAfter

LEMMA NotAfter ==
  ASSUME NEW x \in Nat, NEW y \in Nat, y <= x, x - y < SeqMod - (SeqMod - 1) \div 2
  PROVE  ~SeqAfter(Sq(y), Sq(x))
<1> DEFINE g == (SeqMod - 1) \div 2
<1>1. g \in Nat /\ SeqMod \in Nat /\ SeqMod > 0
  BY Sizes
<1>2. x - y < SeqMod - g
  OBVIOUS
<1> HIDE DEF g
<1>3. CASE x = y
  <2>1. Dist(Sq(x), Sq(y)) = 0
    BY <1>1, <1>3, DistUp
  <2> QED BY <2>1 DEF SeqAfter
<1>4. CASE y < x
  <2>1. Dist(Sq(x), Sq(y)) = SeqMod - (x - y)
    BY <1>1, <1>2, <1>4, DistDown
  <2>2. SeqMod - (x - y) > g
    BY <1>1, <1>2
  <2>3. Dist(Sq(x), Sq(y)) \notin 1..g
    BY <1>1, <2>1, <2>2
  <2> QED BY <2>3 DEF SeqAfter, g
<1> QED BY <1>3, <1>4

\* The window divides the numbers, so that slots follow one another across the wrap.
LEMMA SlotOf ==
  ASSUME NEW k \in Nat
  PROVE  Sq(k) % Window = (First + k) % Window /\ Sq(k) % Window \in Slots
<1> DEFINE x == First + k
           a == x \div SeqMod
           r == x % SeqMod
           q == SeqMod \div Window
           b == r \div Window
           s == r % Window
<1>0. /\ x \in Int /\ SeqMod \in Int /\ SeqMod > 0 /\ Window \in Int /\ Window > 0
      /\ SeqMod % Window = 0
  BY Sizes, MicroAssumption
<1>r. Sq(k) = r
  BY DEF Sq
<1> HIDE DEF x
<1>1. a \in Int /\ x = SeqMod * a + r /\ r \in Int
  BY <1>0, ModForm
<1>2. q \in Int /\ SeqMod = Window * q + 0
  BY <1>0, ModForm
<1> HIDE DEF a, q
<1> HIDE DEF r
<1>3. b \in Int /\ r = Window * b + s /\ s \in 0..(Window - 1)
  BY <1>0, <1>1, ModForm
<1> HIDE DEF b
<1>4. SeqMod * a = Window * (q * a)
  BY <1>0, <1>1, <1>2
<1>5. x = Window * (q * a + b) + s /\ q * a + b \in Int
  <2> DEFINE t == q * a
  <2>1. t \in Int /\ x = Window * t + (Window * b + s)
    BY <1>1, <1>2, <1>3, <1>4
  <2> HIDE DEF t
  <2>2. x = Window * (t + b) + s /\ t + b \in Int
    BY <1>0, <1>3, <2>1
  <2> QED BY <2>2 DEF t
<1>6. (Window * (q * a + b) + s) % Window = s
  BY <1>0, <1>3, <1>5, ModUnique
<1> QED BY <1>3, <1>5, <1>6, <1>r DEF Slots, s, x

LEMMA SlotsDiffer ==
  ASSUME NEW x \in Nat, NEW y \in Nat, x < y, y - x < Window
  PROVE  Sq(x) % Window # Sq(y) % Window
<1>1. /\ First \in Int /\ First + x \in Int /\ First + y \in Int /\ Window \in Int /\ Window > 0
      /\ (First + x) - (First + y) < Window /\ (First + y) - (First + x) < Window
      /\ First + x # First + y
  BY Sizes
<1>2. (First + x) % Window # (First + y) % Window
  BY <1>1, ModSame
<1> QED BY <1>2, SlotOf

-------------------------------------------------------------------------------
(* The inductive invariant.  L is the log of an end, b the number of its       *)
(* records that were released, u that of the records before tx_unsent, r that  *)
(* of the records its peer has passed.                                         *)

\* The log agrees with what was written on each channel.
LogOK(L, wr, max) ==
  /\ \A a \in 1..Len(L) :
       /\ L[a].rel /\ L[a].chan \in Reliable /\ L[a].seq = Sq(a - 1)
       /\ L[a].msg \in 1..Len(wr[L[a].chan])
  /\ \A a, b \in 1..Len(L) : a < b /\ L[a].chan = L[b].chan => L[a].msg < L[b].msg
  /\ \A c \in Reliable : \A m \in 1..Len(wr[c]) :
       \E a \in 1..Len(L) : L[a].chan = c /\ L[a].msg = m
  /\ \A c \in Reliable : /\ Len(wr[c]) <= Len(L)
                         /\ \A k \in 1..Len(wr[c]) : wr[c][k] = k
  /\ Len(L) <= max

\* The sender's window: what is not released is in its slot.
SenderOK(L, n, b, u) ==
  /\ b <= u /\ u <= Len(L) /\ Len(L) - b <= Window
  /\ n.base = Sq(b) /\ n.unsent = Sq(u) /\ n.next = Sq(Len(L))
  /\ \A a \in 1..Len(L) : b < a => n.txw[Sq(a - 1) % Window] = L[a]
  /\ \A k \in 1..Len(n.txu) : ~n.txu[k].rel /\ n.txu[k].chan \in Unreliable
  /\ n.state = "CONNECTING" => n.retries <= Retries

\* A channel of the receiver has read and holds the first messages, and while it
\* is open all those among the records that were passed.
ChanOK(L, wr, rd, q, open, c, r) ==
  /\ Len(rd) + Len(q) <= Len(wr)
  /\ \A k \in 1..Len(rd) : rd[k] = k
  /\ \A k \in 1..Len(q) : q[k] = Len(rd) + k
  /\ open => \A a \in 1..Len(L) :
       L[a].chan = c => (L[a].msg <= Len(rd) + Len(q) <=> a <= r)
ReceiverOK(L, wr, rd, n, r) ==
  /\ r <= Len(L) /\ n.rx_next = Sq(r)
  /\ \A c \in Reliable : ChanOK(L, wr[c], rd[c], n.rxq[c], c \in n.used, c, r)

\* A record under way is one of the last that were written when it was sent.
RecordOK(L, w, rec) ==
  IF rec.rel THEN \E a \in 1..w : w - a < Window /\ rec = L[a] ELSE rec.chan \in Unreliable
RecordsOK(L, w, recs) == \A k \in 1..Len(recs) : RecordOK(L, w, recs[k])

\* w and v are the records that its sender and its receiver had written when a
\* datagram was sent.
PacketOK(lg, p, r) ==
  \E w \in 0..Len(lg[Peer(p.to)]), v \in 0..Len(lg[p.to]) :
    /\ p.born = w + v
    /\ p.kind = "DATA" => /\ \E a \in 0..r : p.ack = Sq(a) /\ v - a <= Window
                          /\ RecordsOK(lg[Peer(p.to)], w, p.recs)

NodeOK(e, n, b, u, r) ==
  /\ n \in Node
  /\ SenderOK(log[e], n, b, u)
  /\ ReceiverOK(log[Peer(e)], written[Peer(e)], read[e], n, r)

Good(B, U, R) ==
  /\ TypeOK
  /\ \A e \in Ends : LogOK(log[e], written[e], MaxWrites[e])
  /\ \A e \in Ends : NodeOK(e, node[e], B[e], U[e], R[Peer(e)])
  /\ \A e \in Ends : B[e] <= R[e]
  /\ \A p \in net : PacketOK(log, p, R[p.to])

Inv == \E B, U, R \in [Ends -> Nat] : Good(B, U, R)

-------------------------------------------------------------------------------
(* Steps of one end. *)

LEMMA EndsAre ==
  /\ "client" \in Ends /\ "server" \in Ends
  /\ \A e \in Ends : /\ Peer(e) \in Ends /\ Peer(e) # e /\ Peer(Peer(e)) = e
                     /\ \A x \in Ends : x = e \/ x = Peer(e)
BY DEF Ends, Peer

\* A datagram stays in order when more has been passed.
LEMMA PacketKept ==
  ASSUME NEW lg, NEW p, NEW r \in Nat, NEW s \in Nat, r <= s, PacketOK(lg, p, r)
  PROVE  PacketOK(lg, p, s)
<1>1. \A a \in 0..r : a \in 0..s
  OBVIOUS
<1> QED BY <1>1 DEF PacketOK

\* End e becomes n; the histories stay; every datagram is an old one or in order.
LEMMA EndStep ==
  ASSUME NEW B \in [Ends -> Nat], NEW U \in [Ends -> Nat], NEW R \in [Ends -> Nat],
         Good(B, U, R), NEW e \in Ends, NEW n, Become(e, n),
         UNCHANGED <<written, read, log>>, rare' \in 0..MaxRare, net' \subseteq Packet,
         NEW b \in Nat, NEW u \in Nat, NEW r \in Nat, NodeOK(e, n, b, u, r),
         b <= R[e], R[Peer(e)] <= r,
         \A p \in net' : p \in net \/ (p.to = Peer(e) /\ PacketOK(log, p, R[Peer(e)]))
  PROVE  Inv'
<1> DEFINE B2 == [B EXCEPT ![e] = b]
           U2 == [U EXCEPT ![e] = u]
           R2 == [R EXCEPT ![Peer(e)] = r]
<1>1. B2 \in [Ends -> Nat] /\ U2 \in [Ends -> Nat] /\ R2 \in [Ends -> Nat] /\ Peer(e) \in Ends
  BY EndsAre
<1>2. /\ B2[e] = b /\ U2[e] = u /\ R2[e] = R[e] /\ R2[Peer(e)] = r
      /\ B2[Peer(e)] = B[Peer(e)] /\ U2[Peer(e)] = U[Peer(e)]
  BY <1>1, EndsAre
<1> HIDE DEF B2, U2, R2
<1>3. node \in [Ends -> Node] /\ n \in Node
  BY DEF Good, TypeOK, NodeOK
<1>4. node' = [node EXCEPT ![e] = n]
  BY DEF Become
<1>5. node' \in [Ends -> Node] /\ node'[e] = n /\ node'[Peer(e)] = node[Peer(e)]
  BY <1>1, <1>3, <1>4, EndsAre
<1>6. TypeOK'
  BY <1>5 DEF Good, TypeOK
<1>7. \A x \in Ends : LogOK(log[x], written[x], MaxWrites[x])'
  BY DEF Good
<1>8. ASSUME NEW x \in Ends PROVE NodeOK(x, node[x], B2[x], U2[x], R2[Peer(x)])'
  <2>1. CASE x = e
    BY <1>2, <1>5, <2>1 DEF NodeOK
  <2>2. CASE x = Peer(e)
    <3>1. Peer(x) = e /\ NodeOK(x, node[x], B[x], U[x], R[Peer(x)])
      BY <1>1, <2>2, EndsAre DEF Good
    <3> QED BY <1>2, <1>5, <2>2, <3>1 DEF NodeOK
  <2> QED BY <2>1, <2>2, EndsAre
<1>9. \A x \in Ends : B2[x] <= R2[x]
  <2>1. B[Peer(e)] <= R[Peer(e)] /\ B[Peer(e)] \in Nat /\ R[Peer(e)] \in Nat
    BY <1>1 DEF Good
  <2>2. B[Peer(e)] <= r
    BY <2>1
  <2> QED BY <1>2, <2>2, EndsAre
<1>10. \A x \in Ends : R[x] \in Nat /\ R2[x] \in Nat /\ R[x] <= R2[x]
  <2>1. ASSUME NEW x \in Ends PROVE R[x] <= R2[x]
    <3>1. CASE x = e
      BY <1>2, <3>1
    <3>2. CASE x = Peer(e)
      BY <1>2, <3>2
    <3> QED BY <3>1, <3>2, EndsAre
  <2> QED BY <1>1, <2>1
<1>11. ASSUME NEW p \in net' PROVE PacketOK(log, p, R2[p.to])
  <2>1. p.to \in Ends
    BY DEF Packet
  <2>2. PacketOK(log, p, R[p.to])
    BY DEF Good
  <2> QED BY <1>10, <2>1, <2>2, PacketKept
<1>12. Good(B2, U2, R2)'
  BY <1>6, <1>7, <1>8, <1>9, <1>11 DEF Good
<1> QED BY <1>1, <1>12 DEF Inv

\* m differs from n in the handshake and the timers, and has no more channels open.
Quiet(n, m) ==
  /\ m \in Node /\ (m.state = "CONNECTING" => m.retries <= Retries)
  /\ m.base = n.base /\ m.next = n.next /\ m.unsent = n.unsent
  /\ m.txw = n.txw /\ m.txu = n.txu /\ m.rx_next = n.rx_next /\ m.rxq = n.rxq
  /\ m.used \subseteq n.used

LEMMA QuietNode ==
  ASSUME NEW e \in Ends, NEW n, NEW m, NEW b, NEW u, NEW r, NodeOK(e, n, b, u, r), Quiet(n, m)
  PROVE  NodeOK(e, m, b, u, r)
<1>1. SenderOK(log[e], m, b, u)
  BY DEF NodeOK, Quiet, SenderOK
<1>2. ReceiverOK(log[Peer(e)], written[Peer(e)], read[e], m, r)
  <2> DEFINE L == log[Peer(e)]
             wr == written[Peer(e)]
             rd == read[e]
  <2>1. ReceiverOK(L, wr, rd, n, r) /\ m.rx_next = n.rx_next /\ m.rxq = n.rxq /\ m.used \subseteq n.used
    BY DEF NodeOK, Quiet
  <2>2. ASSUME NEW c \in Reliable
        PROVE  ChanOK(L, wr[c], rd[c], m.rxq[c], c \in m.used, c, r)
    <3>1. ChanOK(L, wr[c], rd[c], n.rxq[c], c \in n.used, c, r)
      BY <2>1 DEF ReceiverOK
    <3> HIDE DEF L, wr, rd
    <3> QED BY <2>1, <3>1 DEF ChanOK
  <2> QED BY <2>1, <2>2 DEF ReceiverOK
<1> QED BY <1>1, <1>2 DEF NodeOK, Quiet

LEMMA LogSizes ==
  ASSUME TypeOK, NEW e \in Ends
  PROVE  /\ log[e] \in Seq(Record) /\ log[Peer(e)] \in Seq(Record)
         /\ Len(log[e]) \in Nat /\ Len(log[Peer(e)]) \in Nat /\ Age \in Nat
         /\ Age = Len(log[e]) + Len(log[Peer(e)])
<1>1. \A x \in Ends : log[x] \in Seq(Record) /\ Len(log[x]) \in Nat
  BY DEF TypeOK
<1>2. Peer(e) \in Ends /\ "client" \in Ends /\ "server" \in Ends
  BY EndsAre
<1>3. Age = Len(log[e]) + Len(log[Peer(e)])
  <2>1. Len(log["client"]) \in Nat /\ Len(log["server"]) \in Nat
    BY <1>1, <1>2
  <2>2. CASE e = "client"
    BY <2>1, <2>2 DEF Age, Peer
  <2>3. CASE e = "server"
    <3>1. Peer(e) = "client"
      BY <2>3 DEF Peer
    <3> DEFINE x == Len(log["client"])
               y == Len(log["server"])
    <3>2. x \in Nat /\ y \in Nat
      BY <2>1
    <3>3. Age = x + y
      BY DEF Age
    <3>4. x + y = y + x
      <4> HIDE DEF x, y
      <4> QED BY <3>2
    <3> QED BY <2>3, <3>1, <3>3, <3>4
  <2> QED BY <2>2, <2>3 DEF Ends
<1> HIDE DEF Age
<1>4. Age \in Nat
  <2> DEFINE x == Len(log[e])
             y == Len(log[Peer(e)])
  <2>1. x \in Nat /\ y \in Nat /\ Age = x + y
    BY <1>1, <1>2, <1>3
  <2> HIDE DEF x, y
  <2> QED BY <2>1
<1> QED BY <1>1, <1>2, <1>3, <1>4

LEMMA QuietStep ==
  ASSUME Inv, NEW e \in Ends, NEW m, Become(e, m), Quiet(node[e], m),
         UNCHANGED <<written, read, log>>, rare' \in 0..MaxRare,
         \A p \in net' : \/ p \in net
                         \/ p \in Packet /\ p.to = Peer(e) /\ p.kind # "DATA" /\ p.born = Age
  PROVE  Inv'
<1>1. PICK B \in [Ends -> Nat], U \in [Ends -> Nat], R \in [Ends -> Nat] : Good(B, U, R)
  BY DEF Inv
<1>2. NodeOK(e, m, B[e], U[e], R[Peer(e)])
  BY <1>1, QuietNode DEF Good
<1>3. net' \subseteq Packet
  BY <1>1 DEF Good, TypeOK
<1>4. B[e] \in Nat /\ U[e] \in Nat /\ R[Peer(e)] \in Nat /\ B[e] <= R[e]
  BY <1>1, EndsAre DEF Good
<1>5. ASSUME NEW p \in net', p \notin net PROVE PacketOK(log, p, R[Peer(e)])
  <2>1. p.to = Peer(e) /\ p.kind # "DATA" /\ p.born = Age /\ Peer(Peer(e)) = e
    BY <1>5, EndsAre
  <2>2. /\ Len(log[e]) \in 0..Len(log[e]) /\ Len(log[Peer(e)]) \in 0..Len(log[Peer(e)])
        /\ Age = Len(log[e]) + Len(log[Peer(e)])
    <3>1. TypeOK
      BY <1>1 DEF Good
    <3>2. /\ Len(log[e]) \in Nat /\ Len(log[Peer(e)]) \in Nat
          /\ Age = Len(log[e]) + Len(log[Peer(e)])
      BY <3>1, LogSizes
    <3> QED BY <3>2
  <2> QED BY <2>1, <2>2 DEF PacketOK
<1>6. \A p \in net' : p \in net \/ (p.to = Peer(e) /\ PacketOK(log, p, R[Peer(e)]))
  BY <1>5
<1>7. R[Peer(e)] <= R[Peer(e)]
  BY <1>4
<1> QED BY <1>1, <1>2, <1>3, <1>4, <1>6, <1>7, EndStep

\* The histories and the network of an arrival.
LEMMA Arrived ==
  ASSUME TypeOK, NEW e, NEW k, NEW p, Arrives(e, k, p)
  PROVE  /\ UNCHANGED <<written, read, log>> /\ rare' \in 0..MaxRare /\ net' \subseteq net
         /\ p \in net /\ p \in Packet /\ p.to = e /\ p.kind = k /\ Age - p.born <= MaxAge
<1>1. rare \in 0..MaxRare /\ MaxRare \in Nat /\ net \subseteq Packet
  BY MicroAssumption DEF TypeOK
<1> QED BY <1>1 DEF Arrives, Rare, hist

LEMMA RareOK ==
  ASSUME TypeOK, Rare
  PROVE  UNCHANGED <<written, read, log>> /\ rare' \in 0..MaxRare
BY MicroAssumption DEF TypeOK, Rare

LEMMA Emitted ==
  ASSUME NEW e \in Ends, TypeOK, NEW k \in Kinds, NEW a \in Seqs, NEW recs \in Seq(Record),
         Emit(e, k, a, recs), NEW p \in net', p \notin net
  PROVE  p \in Packet /\ p.to = Peer(e) /\ p.kind = k /\ p.ack = a /\ p.recs = recs /\ p.born = Age
<1>1. p = [to |-> Peer(e), kind |-> k, ack |-> a, recs |-> recs, born |-> Age]
  BY DEF Emit
<1>2. Peer(e) \in Ends /\ Age \in Nat
  BY EndsAre, LogSizes
<1> QED BY <1>1, <1>2 DEF Packet

LEMMA InvType == Inv => TypeOK
BY DEF Inv, Good

\* What the invariant says of an end.
LEMMA InvNode ==
  ASSUME Inv, NEW e \in Ends
  PROVE  /\ node[e] \in Node /\ rare \in 0..MaxRare
         /\ node[e].state = "CONNECTING" => node[e].retries <= Retries
<1>1. PICK B \in [Ends -> Nat], U \in [Ends -> Nat], R \in [Ends -> Nat] : Good(B, U, R)
  BY DEF Inv
<1>2. NodeOK(e, node[e], B[e], U[e], R[Peer(e)])
  BY <1>1 DEF Good
<1> QED BY <1>1, <1>2 DEF Good, TypeOK, NodeOK, SenderOK

-------------------------------------------------------------------------------
(* The handshake, the timers and the channels that close. *)

LEMMA ConnectingQuiet ==
  ASSUME NEW n \in Node
  PROVE  Quiet(n, Connecting(n))
<1>1. 0 <= Retries /\ 0 \in 0..(Retries + 1)
  BY MicroAssumption
<1>2. Connecting(n) \in Node
  BY <1>1 DEF Connecting, Node
<1> QED BY <1>1, <1>2 DEF Connecting, Quiet, Node

LEMMA ConnectKeeps ==
  ASSUME Inv, Connect \/ Reconnect
  PROVE  Inv'
<1>1. TypeOK /\ "client" \in Ends /\ node["client"] \in Node /\ rare \in 0..MaxRare
  BY InvType, InvNode, EndsAre
<1>2. UNCHANGED <<written, read, log>> /\ rare' \in 0..MaxRare /\ net' = net
  BY <1>1, RareOK DEF Connect, Reconnect, hist
<1>3. Become("client", Connecting(node["client"]))
  BY DEF Connect, Reconnect
<1>4. Quiet(node["client"], Connecting(node["client"]))
  BY <1>1, ConnectingQuiet
<1> QED BY <1>1, <1>2, <1>3, <1>4, QuietStep

LEMMA ChanCloseKeeps ==
  ASSUME Inv, NEW e \in Ends, NEW c \in Chans, ChanClose(e, c)
  PROVE  Inv'
<1> DEFINE n == node[e]
           m == [n EXCEPT !.used = @ \ {c}]
<1>1. TypeOK /\ n \in Node /\ (n.state = "CONNECTING" => n.retries <= Retries)
  BY InvType, InvNode
<1>2. UNCHANGED <<written, read, log>> /\ rare' \in 0..MaxRare /\ net' = net /\ Become(e, m)
  BY <1>1, RareOK DEF ChanClose
<1> HIDE DEF n
<1>3. Quiet(n, m)
  BY <1>1 DEF Quiet, Node
<1> HIDE DEF m
<1> QED BY <1>2, <1>3, QuietStep DEF n

LEMMA UpQuiet ==
  ASSUME NEW n \in Node
  PROVE  /\ Quiet(n, Up(n)) /\ Up(n) \in Node /\ Up(n).used = n.used
         /\ Up(n).state # "CONNECTING"
<1>1. CASE n.state = "CONNECTING"
  BY <1>1 DEF Up, Quiet, Node
<1>2. CASE n.state # "CONNECTING"
  BY <1>2 DEF Up, Quiet, Node
<1> QED BY <1>1, <1>2

LEMMA FeedSynKeeps ==
  ASSUME Inv, NEW p, FeedSyn(p)
  PROVE  Inv'
<1> DEFINE n == node["server"]
           m == IF n.state = "CLOSED" THEN [n EXCEPT !.state = "CONNECTING", !.retries = 0] ELSE n
           d == IF m.state = "CONNECTING" THEN [m EXCEPT !.synack = TRUE] ELSE m
<1>1. TypeOK /\ "server" \in Ends /\ n \in Node /\ (n.state = "CONNECTING" => n.retries <= Retries)
  BY InvType, InvNode, EndsAre
<1>2. /\ UNCHANGED <<written, read, log>> /\ rare' \in 0..MaxRare /\ net' \subseteq net
      /\ Become("server", d)
  BY <1>1, Arrived DEF FeedSyn
<1> HIDE DEF n
<1>3. 0 <= Retries /\ 0 \in 0..(Retries + 1)
  BY MicroAssumption
<1>4. Quiet(n, m)
  <2>1. CASE n.state = "CLOSED"
    BY <1>1, <1>3, <2>1 DEF Quiet, Node
  <2>2. CASE n.state # "CLOSED"
    BY <1>1, <2>2 DEF Quiet, Node
  <2> QED BY <2>1, <2>2
<1> HIDE DEF m
<1>5. Quiet(n, d)
  <2>1. CASE m.state = "CONNECTING"
    BY <1>4, <2>1 DEF Quiet, Node
  <2>2. CASE m.state # "CONNECTING"
    BY <1>4, <2>2 DEF Quiet, Node
  <2> QED BY <2>1, <2>2
<1> HIDE DEF d
<1> QED BY <1>1, <1>2, <1>5, QuietStep DEF n

LEMMA FeedSynackKeeps ==
  ASSUME Inv, NEW p, FeedSynack(p)
  PROVE  Inv'
<1> DEFINE n == node["client"]
           u == Up(n)
           m == [u EXCEPT !.ack = TRUE]
<1>1. TypeOK /\ "client" \in Ends /\ n \in Node
  BY InvType, InvNode, EndsAre
<1>2. /\ UNCHANGED <<written, read, log>> /\ rare' \in 0..MaxRare /\ net' \subseteq net
      /\ Become("client", m)
  BY <1>1, Arrived DEF FeedSynack
<1> HIDE DEF n
<1>3. Quiet(n, u)
  BY <1>1, UpQuiet
<1> HIDE DEF u
<1>4. Quiet(n, m)
  BY <1>3 DEF Quiet, Node
<1> HIDE DEF m
<1> QED BY <1>1, <1>2, <1>4, QuietStep DEF n

LEMMA FeedAckKeeps ==
  ASSUME Inv, NEW p, FeedAck(p)
  PROVE  Inv'
<1>1. TypeOK /\ "server" \in Ends /\ node["server"] \in Node
  BY InvType, InvNode, EndsAre
<1>2. /\ UNCHANGED <<written, read, log>> /\ rare' \in 0..MaxRare /\ net' \subseteq net
      /\ Become("server", Up(node["server"]))
  BY <1>1, Arrived DEF FeedAck
<1>3. Quiet(node["server"], Up(node["server"]))
  BY <1>1, UpQuiet
<1> QED BY <1>1, <1>2, <1>3, QuietStep

LEMMA ControlKeeps ==
  ASSUME Inv, NEW e \in Ends, SendSynack(e) \/ SendAck(e) \/ SendSyn(e)
  PROVE  Inv'
<1> DEFINE n == node[e]
<1>1. TypeOK /\ n \in Node /\ (n.state = "CONNECTING" => n.retries <= Retries) /\ rare \in 0..MaxRare
  BY InvType, InvNode
<1>2. PICK k \in {"SYNACK", "ACK", "SYN"} : Emit(e, k, 0, <<>>)
  BY DEF SendSynack, SendAck, SendSyn
<1>3. 0 \in Seqs /\ <<>> \in Seq(Record) /\ k \in Kinds /\ k # "DATA"
  BY Sizes DEF Seqs, Kinds
<1>4. ASSUME NEW p \in net', p \notin net
      PROVE  p \in Packet /\ p.to = Peer(e) /\ p.kind # "DATA" /\ p.born = Age
  <2> HIDE DEF n
  <2>1. p \in Packet /\ p.to = Peer(e) /\ p.kind = k /\ p.born = Age
    <3>1. Emit(e, k, 0, <<>>) /\ TypeOK /\ 0 \in Seqs /\ <<>> \in Seq(Record) /\ k \in Kinds
      BY <1>1, <1>2, <1>3
    <3> QED BY <1>4, <3>1, Emitted
  <2> QED BY <1>3, <2>1
<1>5. UNCHANGED <<written, read, log>> /\ rare' = rare
  BY DEF SendSynack, SendAck, SendSyn, hist
<1>6. \E m : Become(e, m) /\ Quiet(n, m)
  <2> HIDE DEF n
  <2>1. /\ Quiet(n, [n EXCEPT !.synack = FALSE]) /\ Quiet(n, [n EXCEPT !.ack = FALSE])
        /\ Quiet(n, [n EXCEPT !.syn = FALSE])
    BY <1>1 DEF Quiet, Node
  <2>2. \/ Become(e, [n EXCEPT !.synack = FALSE]) \/ Become(e, [n EXCEPT !.ack = FALSE])
        \/ Become(e, [n EXCEPT !.syn = FALSE])
    BY DEF SendSynack, SendAck, SendSyn, n
  <2> QED BY <2>1, <2>2
<1> QED BY <1>1, <1>4, <1>5, <1>6, QuietStep

LEMMA ConnectTimerKeeps ==
  ASSUME Inv, NEW e \in Ends, ConnectTimer(e)
  PROVE  Inv'
<1> DEFINE o == node[e]
           n == [o EXCEPT !.retries = @ + 1]
           m == IF n.retries > Retries THEN Closed(n)
                ELSE IF e = "server" THEN [n EXCEPT !.synack = TRUE]
                ELSE [n EXCEPT !.syn = TRUE]
<1>1. o \in Node /\ (o.state = "CONNECTING" => o.retries <= Retries) /\ rare \in 0..MaxRare
  BY InvNode
<1>2. n.state = "CONNECTING" /\ Become(e, m) /\ UNCHANGED <<net, written, read, log, rare>>
  BY DEF ConnectTimer, hist
<1> HIDE DEF o
<1>3. o.state = "CONNECTING" /\ o.retries \in 0..Retries /\ Retries \in Nat
  BY <1>1, <1>2, MicroAssumption DEF Node
<1>4. n \in Node /\ n.retries = o.retries + 1
  <2>1. o.retries + 1 \in 0..(Retries + 1)
    BY <1>3
  <2> QED BY <1>1, <2>1 DEF Node
<1>5. /\ n.base = o.base /\ n.next = o.next /\ n.unsent = o.unsent /\ n.txw = o.txw
      /\ n.txu = o.txu /\ n.rx_next = o.rx_next /\ n.rxq = o.rxq /\ n.used = o.used
  BY <1>1 DEF Node
<1> HIDE DEF n
<1>6. Quiet(o, m)
  <2>1. CASE n.retries > Retries
    BY <1>4, <1>5, <2>1 DEF Quiet, Node, Closed
  <2>2. CASE ~(n.retries > Retries)
    <3>1. n.retries <= Retries
      BY <1>3, <1>4, <2>2
    <3>2. CASE e = "server"
      BY <1>4, <1>5, <2>2, <3>1, <3>2 DEF Quiet, Node
    <3>3. CASE e # "server"
      BY <1>4, <1>5, <2>2, <3>1, <3>3 DEF Quiet, Node
    <3> QED BY <3>2, <3>3
  <2> QED BY <2>1, <2>2
<1> HIDE DEF m
<1> QED BY <1>1, <1>2, <1>6, QuietStep DEF o

LEMMA IdleTimerKeeps ==
  ASSUME Inv, NEW e \in Ends, IdleTimer(e) \/ KeepaliveTimer(e)
  PROVE  Inv'
<1> DEFINE n == node[e]
<1>1. TypeOK /\ n \in Node /\ (n.state = "CONNECTING" => n.retries <= Retries)
  BY InvType, InvNode
<1>2. UNCHANGED <<written, read, log>> /\ rare' \in 0..MaxRare /\ net' = net
  BY <1>1, RareOK DEF IdleTimer, KeepaliveTimer
<1>3. \E m : Become(e, m) /\ Quiet(n, m)
  <2> HIDE DEF n
  <2>1. Quiet(n, Closed(n)) /\ Quiet(n, [n EXCEPT !.ack_pending = TRUE])
    BY <1>1 DEF Quiet, Node, Closed
  <2>2. Become(e, Closed(n)) \/ Become(e, [n EXCEPT !.ack_pending = TRUE])
    BY DEF IdleTimer, KeepaliveTimer, n
  <2> QED BY <2>1, <2>2
<1> QED BY <1>2, <1>3, QuietStep

\* The messages that can be written: the larger of the two bounds.
LEMMA SomeMessages ==
  0 \in Messages /\ \A e \in Ends : MaxWrites[e] \in Nat /\ \A k \in 0..MaxWrites[e] : k \in Messages
<1> DEFINE S == {MaxWrites[e] : e \in Ends}
<1>1. \A e \in Ends : MaxWrites[e] \in Nat
  BY MicroAssumption
<1>2. \E x \in S : \A y \in S : x >= y
  <2>1. S = {MaxWrites["client"], MaxWrites["server"]}
    BY DEF Ends
  <2>2. MaxWrites["client"] \in Nat /\ MaxWrites["server"] \in Nat
    BY <1>1, EndsAre
  <2>3. CASE MaxWrites["client"] >= MaxWrites["server"]
    BY <2>1, <2>2, <2>3
  <2>4. CASE MaxWrites["server"] >= MaxWrites["client"]
    BY <2>1, <2>2, <2>4
  <2> QED BY <2>2, <2>3, <2>4
<1> DEFINE x == Max(S)
<1>3. x \in S /\ \A y \in S : x >= y
  BY <1>2 DEF Max
<1>4. Messages = 0..x
  BY DEF Messages
<1>5. x \in Nat
  BY <1>1, <1>3
<1>6. \A e \in Ends : x >= MaxWrites[e]
  BY <1>3
<1> HIDE DEF x
<1> QED BY <1>1, <1>4, <1>5, <1>6


LEMMA RetransmitKeeps ==
  ASSUME Inv, NEW e \in Ends, RetransmitTimer(e)
  PROVE  Inv'
<1> DEFINE o == node[e]
           n == [o EXCEPT !.attempts = Least(@ + 1, Attempts + 1)]
           m == [n EXCEPT !.unsent = n.base]
<1>1. PICK B \in [Ends -> Nat], U \in [Ends -> Nat], R \in [Ends -> Nat] : Good(B, U, R)
  BY DEF Inv
<1>2. o \in Node /\ NodeOK(e, o, B[e], U[e], R[Peer(e)]) /\ rare \in 0..MaxRare /\ net \subseteq Packet
  BY <1>1 DEF Good, TypeOK
<1>3. /\ n.state = "CONNECTED" /\ UNCHANGED <<net, written, read, log, rare>>
      /\ Become(e, IF n.attempts > Attempts THEN Closed(n) ELSE m)
  BY DEF RetransmitTimer, hist
<1> HIDE DEF o
<1>4. Least(o.attempts + 1, Attempts + 1) \in 0..(Attempts + 1)
  BY <1>2, MicroAssumption DEF Node, Least
<1>5. Quiet(o, n)
  BY <1>2, <1>3, <1>4 DEF Quiet, Node
<1> HIDE DEF n
<1>6. CASE n.attempts > Attempts
  <2>1. Quiet(o, Closed(n)) /\ Become(e, Closed(n))
    BY <1>3, <1>5, <1>6 DEF Quiet, Node, Closed
  <2> QED BY <1>2, <1>3, <2>1, QuietStep DEF o
<1>7. CASE ~(n.attempts > Attempts)
  <2>1. NodeOK(e, n, B[e], U[e], R[Peer(e)]) /\ n \in Node
    BY <1>2, <1>5, QuietNode DEF Quiet
  <2>2. /\ m \in Node /\ m.base = n.base /\ m.next = n.next /\ m.unsent = n.base
        /\ m.state = n.state /\ m.retries = n.retries
        /\ m.txw = n.txw /\ m.txu = n.txu /\ m.rx_next = n.rx_next /\ m.rxq = n.rxq
        /\ m.used = n.used
    BY <2>1 DEF Node
  <2>3. B[e] \in Nat /\ U[e] \in Nat /\ R[Peer(e)] \in Nat /\ B[e] <= R[e] /\ R[Peer(e)] <= R[Peer(e)]
    BY <1>1, EndsAre DEF Good
  <2>4. Become(e, m)
    BY <1>3, <1>7
  <2> HIDE DEF m
  <2>5. SenderOK(log[e], m, B[e], B[e])
    <3>1. SenderOK(log[e], n, B[e], U[e])
      BY <2>1 DEF NodeOK
    <3>2. Len(log[e]) \in Nat
      BY <1>1, LogSizes DEF Good
    <3>3. B[e] <= B[e] /\ B[e] <= Len(log[e])
      BY <2>3, <3>1, <3>2 DEF SenderOK
    <3> QED BY <2>2, <3>1, <3>3 DEF SenderOK
  <2>6. ReceiverOK(log[Peer(e)], written[Peer(e)], read[e], m, R[Peer(e)])
    BY <2>1, <2>2 DEF NodeOK, ReceiverOK
  <2>7. NodeOK(e, m, B[e], B[e], R[Peer(e)])
    BY <2>2, <2>5, <2>6 DEF NodeOK
  <2> QED BY <1>1, <1>2, <1>3, <2>3, <2>4, <2>7, EndStep
<1> QED BY <1>6, <1>7

LEMMA WriteUnreliableKeeps ==
  ASSUME Inv, NEW e \in Ends, NEW c \in Unreliable, WriteUnreliable(e, c)
  PROVE  Inv'
<1> DEFINE n == node[e]
           rec == [chan |-> c, rel |-> FALSE, seq |-> 0, msg |-> 0]
           kept == IF Len(n.txu) >= UnrelTxQ THEN Tail(n.txu) ELSE n.txu
           m == [n EXCEPT !.txu = Append(kept, rec)]
<1>1. PICK B \in [Ends -> Nat], U \in [Ends -> Nat], R \in [Ends -> Nat] : Good(B, U, R)
  BY DEF Inv
<1>2. n \in Node /\ NodeOK(e, n, B[e], U[e], R[Peer(e)]) /\ TypeOK /\ net \subseteq Packet
  BY <1>1 DEF Good, TypeOK
<1>3. UNCHANGED <<written, read, log>> /\ rare' \in 0..MaxRare /\ net' = net /\ Become(e, m)
  BY <1>2, RareOK DEF WriteUnreliable
<1> HIDE DEF n
<1>4. rec \in Record
  <2>1. 0 \in Seqs /\ 0 \in Messages
    BY Sizes, SomeMessages DEF Seqs
  <2> QED BY <2>1 DEF Record, Chans
<1>5. n.txu \in Seq(Record) /\ SenderOK(log[e], n, B[e], U[e])
  BY <1>2 DEF Node, NodeOK
<1>6. kept \in Seq(Record) /\ \A k \in 1..Len(kept) : ~kept[k].rel /\ kept[k].chan \in Unreliable
  <2>1. \A k \in 1..Len(n.txu) : ~n.txu[k].rel /\ n.txu[k].chan \in Unreliable
    BY <1>5 DEF SenderOK
  <2> DEFINE q == n.txu
  <2>2. q \in Seq(Record) /\ \A k \in 1..Len(q) : ~q[k].rel /\ q[k].chan \in Unreliable
    BY <1>5, <2>1
  <2>k. kept = IF Len(q) >= UnrelTxQ THEN Tail(q) ELSE q
    OBVIOUS
  <2> HIDE DEF q, kept
  <2>3. CASE Len(q) >= UnrelTxQ
    <3>1. q # <<>>
      BY <2>2, <2>3, MicroAssumption
    <3>2. /\ Tail(q) \in Seq(Record) /\ Len(Tail(q)) = Len(q) - 1
          /\ \A k \in 1..Len(Tail(q)) : Tail(q)[k] = q[k + 1]
      BY <2>2, <3>1, HeadTailProperties
    <3>3. \A k \in 1..Len(Tail(q)) : k + 1 \in 1..Len(q)
      BY <2>2, <3>2
    <3> QED BY <2>2, <2>3, <2>k, <3>2, <3>3
  <2>4. CASE ~(Len(q) >= UnrelTxQ)
    BY <2>2, <2>k, <2>4
  <2> QED BY <2>3, <2>4
<1> DEFINE q == Append(kept, rec)
<1>7. q \in Seq(Record) /\ \A k \in 1..Len(q) : ~q[k].rel /\ q[k].chan \in Unreliable
  <2>1. ~rec.rel /\ rec.chan \in Unreliable
    OBVIOUS
  <2> HIDE DEF rec, kept
  <2>2. /\ q \in Seq(Record) /\ Len(q) = Len(kept) + 1 /\ q[Len(q)] = rec
        /\ \A k \in 1..Len(kept) : q[k] = kept[k]
    BY <1>4, <1>6, AppendProperties
  <2>3. Len(kept) \in Nat
    BY <1>6
  <2> HIDE DEF q
  <2>4. \A k \in 1..Len(q) : k \in 1..Len(kept) \/ k = Len(q)
    BY <2>2, <2>3
  <2> QED BY <1>6, <2>1, <2>2, <2>4
<1>m. m = [n EXCEPT !.txu = q]
  OBVIOUS
<1> HIDE DEF q, kept, rec, m
<1>8. /\ m \in Node /\ m.base = n.base /\ m.next = n.next /\ m.unsent = n.unsent
      /\ m.state = n.state /\ m.retries = n.retries
      /\ m.txw = n.txw /\ m.txu = q /\ m.rx_next = n.rx_next /\ m.rxq = n.rxq
      /\ m.used = n.used
  BY <1>2, <1>7, <1>m DEF Node
<1>9. NodeOK(e, m, B[e], U[e], R[Peer(e)])
  <2>1. SenderOK(log[e], m, B[e], U[e])
    BY <1>5, <1>7, <1>8 DEF SenderOK
  <2>2. ReceiverOK(log[Peer(e)], written[Peer(e)], read[e], m, R[Peer(e)])
    BY <1>2, <1>8 DEF NodeOK, ReceiverOK
  <2> QED BY <1>8, <2>1, <2>2 DEF NodeOK
<1>10. B[e] \in Nat /\ U[e] \in Nat /\ R[Peer(e)] \in Nat /\ B[e] <= R[e] /\ R[Peer(e)] <= R[Peer(e)]
  BY <1>1, EndsAre DEF Good
<1> QED BY <1>1, <1>2, <1>3, <1>9, <1>10, EndStep

-------------------------------------------------------------------------------
(* mc_send_next: the records that a datagram carries. *)

Lossy(rec) == ~rec.rel /\ rec.chan \in Unreliable

\* Part of a queue of unreliable records.
LEMMA PieceOf ==
  ASSUME NEW q \in Seq(Record), NEW i \in 1..(Len(q) + 1), NEW j \in 0..Len(q),
         \A k \in 1..Len(q) : Lossy(q[k])
  PROVE  /\ SubSeq(q, i, j) \in Seq(Record) /\ Len(SubSeq(q, i, j)) \in Nat
         /\ \A k \in 1..Len(SubSeq(q, i, j)) : Lossy(SubSeq(q, i, j)[k])
<1>1. Len(q) \in Nat
  OBVIOUS
<1>2. i \in Int /\ j \in Int /\ \A k \in i..j : k \in 1..Len(q)
  BY <1>1
<1>3. \A k \in i..j : q[k] \in Record
  BY <1>2
<1> DEFINE s == SubSeq(q, i, j)
<1>4. /\ s \in Seq(Record) /\ Len(s) = IF i <= j THEN j - i + 1 ELSE 0
      /\ \A k \in 1..(j - i + 1) : s[k] = q[i + k - 1]
  BY <1>2, <1>3, SubSeqProperties
<1> HIDE DEF s
<1>5. \A k \in 1..Len(s) : k \in 1..(j - i + 1) /\ i + k - 1 \in 1..Len(q)
  BY <1>1, <1>2, <1>4
<1>6. \A k \in 1..Len(s) : Lossy(s[k])
  BY <1>4, <1>5
<1>7. Len(s) \in Nat
  BY <1>4
<1> QED BY <1>4, <1>6, <1>7 DEF s

\* The reliable records that a datagram starts with: those from tx_unsent on.
LEMMA ResendOf ==
  ASSUME NEW L \in Seq(Record), NEW n \in Node, NEW b \in Nat, NEW u \in Nat,
         SenderOK(L, n, b, u), NEW k \in Nat, u + k <= Len(L)
  PROVE  \A i \in 1..k : n.txw[((n.unsent + i - 1) % SeqMod) % Window] = L[u + i]
<1>1. ASSUME NEW i \in 1..k
      PROVE  n.txw[((n.unsent + i - 1) % SeqMod) % Window] = L[u + i]
  <2>1. /\ i - 1 \in Nat /\ u + i \in 1..Len(L) /\ b < u + i /\ (u + i) - 1 = u + (i - 1)
        /\ n.unsent = Sq(u) /\ Len(L) \in Nat
    BY DEF SenderOK
  <2>2. n.unsent \in Int /\ n.unsent + i - 1 = n.unsent + (i - 1)
    BY <2>1, SqType
  <2>3. (Sq(u) + (i - 1)) % SeqMod = Sq(u + (i - 1))
    BY <2>1, SqAdd
  <2>4. n.txw[Sq((u + i) - 1) % Window] = L[u + i]
    BY <2>1 DEF SenderOK
  <2> QED BY <2>1, <2>2, <2>3, <2>4
<1> QED BY <1>1

LEMMA RecordsOf ==
  ASSUME NEW L \in Seq(Record), NEW n \in Node, NEW b \in Nat, NEW u \in Nat,
         SenderOK(L, n, b, u), NEW k \in Nat, u + k <= Len(L), NEW j \in 0..Len(n.txu),
         \A a \in 1..Len(L) : L[a].rel
  PROVE  LET recs == [i \in 1..k |-> n.txw[((n.unsent + i - 1) % SeqMod) % Window]]
                       \o SubSeq(n.txu, 1, j)
         IN  recs \in Seq(Record) /\ RecordsOK(L, Len(L), recs)
<1> DEFINE X == [i \in 1..k |-> L[u + i]]
           Y == SubSeq(n.txu, 1, j)
           recs == X \o Y
<1>1. Len(L) \in Nat /\ Len(L) - b <= Window /\ b <= u /\ n.txu \in Seq(Record)
  BY DEF SenderOK, Node
<1>2. \A i \in 1..k : u + i \in 1..Len(L) /\ Len(L) - (u + i) < Window
  BY <1>1, Sizes
<1>3. \A i \in 1..k : L[u + i] \in Record
  BY <1>2
<1>4. X \in Seq(Record) /\ Len(X) = k
  BY <1>3
<1>5. \A i \in 1..k : X[i] = L[u + i]
  OBVIOUS
<1>6. Y \in Seq(Record) /\ Len(Y) \in Nat /\ \A i \in 1..Len(Y) : Lossy(Y[i])
  <2>1. \A i \in 1..Len(n.txu) : Lossy(n.txu[i])
    BY DEF SenderOK, Lossy
  <2>2. 1 \in 1..(Len(n.txu) + 1)
    BY <1>1
  <2> QED BY <1>1, <2>1, <2>2, PieceOf
<1> HIDE DEF X, Y
<1>7. /\ recs \in Seq(Record) /\ Len(recs) = k + Len(Y)
      /\ \A i \in 1..(k + Len(Y)) : recs[i] = IF i <= k THEN X[i] ELSE Y[i - k]
  <2>1. /\ recs \in Seq(Record) /\ Len(recs) = Len(X) + Len(Y)
        /\ \A i \in 1..(Len(X) + Len(Y)) : recs[i] = IF i <= Len(X) THEN X[i] ELSE Y[i - Len(X)]
    BY <1>4, <1>6, ConcatProperties
  <2> QED BY <1>4, <2>1
<1> HIDE DEF recs
<1>8. ASSUME NEW i \in 1..Len(recs) PROVE RecordOK(L, Len(L), recs[i])
  <2>1. CASE i <= k
    <3>0. i \in 1..k /\ i \in 1..(k + Len(Y))
      BY <1>6, <1>7, <2>1
    <3>1. recs[i] = L[u + i] /\ u + i \in 1..Len(L) /\ Len(L) - (u + i) < Window
      BY <1>2, <1>5, <1>7, <2>1, <3>0
    <3>2. recs[i].rel
      BY <3>1
    <3> QED BY <3>1, <3>2 DEF RecordOK
  <2>2. CASE ~(i <= k)
    <3>1. i - k \in 1..Len(Y) /\ recs[i] = Y[i - k]
      BY <1>6, <1>7, <2>2
    <3>2. Lossy(recs[i])
      BY <1>6, <3>1
    <3> QED BY <3>2 DEF RecordOK, Lossy
  <2> QED BY <2>1, <2>2
<1>9. recs \in Seq(Record) /\ RecordsOK(L, Len(L), recs)
  BY <1>7, <1>8 DEF RecordsOK
<1>10. [i \in 1..k |-> n.txw[((n.unsent + i - 1) % SeqMod) % Window]] = X
  <2>1. \A i \in 1..k : n.txw[((n.unsent + i - 1) % SeqMod) % Window] = L[u + i]
    BY ResendOf
  <2> QED BY <2>1 DEF X
<1> QED BY <1>9, <1>10 DEF recs, Y

LEMMA SendDataKeeps ==
  ASSUME Inv, NEW e \in Ends, SendData(e)
  PROVE  Inv'
<1>1. PICK B \in [Ends -> Nat], U \in [Ends -> Nat], R \in [Ends -> Nat] : Good(B, U, R)
  BY DEF Inv
<1> DEFINE n == node[e]
           L == log[e]
           b == B[e]
           u == U[e]
           r == R[Peer(e)]
           rels == Least(Dist(n.unsent, n.next), PerPacket)
           unrels == Least(Len(n.txu), PerPacket - rels)
           recs == [i \in 1..rels |-> n.txw[((n.unsent + i - 1) % SeqMod) % Window]]
                     \o SubSeq(n.txu, 1, unrels)
           m == [n EXCEPT !.unsent = (@ + rels) % SeqMod,
                          !.armed = @ \/ n.base # n.next,
                          !.txu = SubSeq(@, unrels + 1, Len(@)),
                          !.ack_pending = FALSE]
<1>2. /\ NodeOK(e, n, b, u, r) /\ n \in Node /\ TypeOK /\ rare \in 0..MaxRare /\ net \subseteq Packet
      /\ b \in Nat /\ u \in Nat /\ r \in Nat /\ b <= R[e] /\ R[e] \in Nat
      /\ B[Peer(e)] \in Nat /\ B[Peer(e)] <= r
  BY <1>1, EndsAre DEF Good, TypeOK
<1>3. L \in Seq(Record) /\ Len(L) \in Nat /\ \A a \in 1..Len(L) : L[a].rel
  BY <1>1, <1>2, LogSizes DEF Good, LogOK
<1>4. /\ Emit(e, "DATA", n.rx_next, recs) /\ Become(e, m) /\ n.state = "CONNECTED"
      /\ UNCHANGED <<written, read, log, rare>>
  BY DEF SendData, hist
<1>5. SenderOK(L, n, b, u) /\ ReceiverOK(log[Peer(e)], written[Peer(e)], read[e], n, r)
  BY <1>2 DEF NodeOK
<1>6. \A s \in Nat : SenderOK(log[Peer(e)], node[Peer(e)], B[Peer(e)], s) => Len(log[Peer(e)]) - B[Peer(e)] <= Window
  BY DEF SenderOK
<1>7. Len(log[Peer(e)]) \in Nat /\ Len(log[Peer(e)]) - r <= Window /\ Age = Len(L) + Len(log[Peer(e)])
  <2>1. U[Peer(e)] \in Nat /\ SenderOK(log[Peer(e)], node[Peer(e)], B[Peer(e)], U[Peer(e)])
    BY <1>1, EndsAre DEF Good, NodeOK
  <2>2. Len(log[Peer(e)]) \in Nat /\ Age = Len(L) + Len(log[Peer(e)])
    BY <1>2, LogSizes
  <2>3. Len(log[Peer(e)]) - B[Peer(e)] <= Window
    BY <1>6, <2>1
  <2>4. Window \in Nat
    BY Sizes
  <2> QED BY <1>2, <2>2, <2>3, <2>4
<1> HIDE DEF n, L, b, u, r
<1>8. rels \in Nat /\ u + rels <= Len(L)
  <2>1. u <= Len(L) /\ Len(L) - u < SeqMod /\ n.unsent = Sq(u) /\ n.next = Sq(Len(L))
    BY <1>2, <1>3, <1>5, Sizes DEF SenderOK
  <2>2. Dist(n.unsent, n.next) = Len(L) - u
    BY <1>2, <1>3, <2>1, DistUp
  <2> QED BY <1>2, <1>3, <2>1, <2>2, MicroAssumption DEF Least
<1>9. n.txu \in Seq(Record) /\ Len(n.txu) \in Nat
  BY <1>2 DEF Node
<1>10. rels <= PerPacket /\ PerPacket \in Nat
  <2>1. Dist(n.unsent, n.next) \in Int
    <3>1. u <= Len(L) /\ Len(L) - u < SeqMod /\ n.unsent = Sq(u) /\ n.next = Sq(Len(L))
      BY <1>2, <1>3, <1>5, Sizes DEF SenderOK
    <3>2. Dist(n.unsent, n.next) = Len(L) - u
      BY <1>2, <1>3, <3>1, DistUp
    <3> QED BY <1>2, <1>3, <3>2
  <2> QED BY <2>1, MicroAssumption DEF Least
<1> HIDE DEF rels
<1>11. unrels \in 0..Len(n.txu)
  BY <1>8, <1>9, <1>10 DEF Least
<1> HIDE DEF unrels
<1>12. recs \in Seq(Record) /\ RecordsOK(L, Len(L), recs)
  BY <1>2, <1>3, <1>5, <1>8, <1>11, RecordsOf
<1> HIDE DEF recs
<1>13. n.rx_next \in Seqs /\ "DATA" \in Kinds /\ n.rx_next = Sq(r)
  BY <1>2, <1>5 DEF Node, Kinds, ReceiverOK
<1>14. ASSUME NEW p \in net', p \notin net
       PROVE  p \in Packet /\ p.to = Peer(e) /\ PacketOK(log, p, r)
  <2>1. /\ p \in Packet /\ p.to = Peer(e) /\ p.ack = n.rx_next /\ p.recs = recs
        /\ p.born = Age
    BY <1>2, <1>4, <1>12, <1>13, <1>14, Emitted
  <2>2. Peer(p.to) = e
    BY <2>1, EndsAre
  <2>3. RecordsOK(log[Peer(p.to)], Len(L), p.recs)
    BY <1>12, <2>1, <2>2 DEF L
  <2>4. \E a \in 0..r : p.ack = Sq(a) /\ Len(log[p.to]) - a <= Window
    <3>1. r \in 0..r
      BY <1>2
    <3> QED BY <1>7, <1>13, <2>1, <3>1
  <2>5. Len(L) \in 0..Len(log[Peer(p.to)]) /\ Len(log[p.to]) \in 0..Len(log[p.to])
    BY <1>3, <1>7, <2>1, <2>2 DEF L
  <2>6. p.born = Len(L) + Len(log[p.to])
    BY <1>7, <2>1
  <2> QED BY <2>1, <2>3, <2>4, <2>5, <2>6 DEF PacketOK
<1> DEFINE q == SubSeq(n.txu, unrels + 1, Len(n.txu))
<1>15. q \in Seq(Record) /\ \A i \in 1..Len(q) : Lossy(q[i])
  <2>1. unrels + 1 \in 1..(Len(n.txu) + 1) /\ Len(n.txu) \in 0..Len(n.txu)
    BY <1>9, <1>11
  <2>2. \A i \in 1..Len(n.txu) : Lossy(n.txu[i])
    BY <1>5 DEF SenderOK, Lossy
  <2> QED BY <1>9, <2>1, <2>2, PieceOf
<1>16. (n.unsent + rels) % SeqMod = Sq(u + rels) /\ Sq(u + rels) \in Seqs /\ u + rels \in Nat
  <2>1. u + rels \in Nat /\ n.unsent = Sq(u)
    BY <1>2, <1>5, <1>8 DEF SenderOK
  <2>2. (Sq(u) + rels) % SeqMod = Sq(u + rels)
    BY <1>2, <1>8, SqAdd
  <2> QED BY <2>1, <2>2, SqType
<1>m. m = [n EXCEPT !.unsent = (n.unsent + rels) % SeqMod, !.armed = n.armed \/ n.base # n.next,
                    !.txu = q, !.ack_pending = FALSE]
  BY <1>2 DEF Node
<1> HIDE DEF q, m
<1>17. /\ m \in Node /\ m.base = n.base /\ m.next = n.next /\ m.unsent = Sq(u + rels)
       /\ m.state = n.state /\ m.retries = n.retries
       /\ m.txw = n.txw /\ m.txu = q /\ m.rx_next = n.rx_next /\ m.rxq = n.rxq
       /\ m.used = n.used
  BY <1>2, <1>15, <1>16, <1>m DEF Node
<1>18. NodeOK(e, m, b, u + rels, r)
  <2>1. SenderOK(L, m, b, u + rels)
    <3>1. b <= u + rels
      BY <1>2, <1>5, <1>8 DEF SenderOK
    <3> QED BY <1>5, <1>8, <1>15, <1>17, <3>1 DEF SenderOK, Lossy
  <2>2. ReceiverOK(log[Peer(e)], written[Peer(e)], read[e], m, r)
    BY <1>5, <1>17 DEF ReceiverOK
  <2> QED BY <1>17, <2>1, <2>2 DEF NodeOK, L
<1>19. net' \subseteq Packet /\ \A p \in net' : p \in net \/ (p.to = Peer(e) /\ PacketOK(log, p, r))
  BY <1>2, <1>14
<1>20. r <= r
  BY <1>2
<1> QED BY <1>1, <1>2, <1>4, <1>16, <1>18, <1>19, <1>20, EndStep DEF r

-------------------------------------------------------------------------------
(* mc_feed: the acknowledgement of a datagram. *)

\* An ACK that is not too old: the window moves up to it or stays.
LEMMA Released ==
  ASSUME NEW W \in Nat, NEW b \in Nat, b <= W, W - b <= Window, NEW a \in Nat, a <= W,
         W - a <= MaxAge + Window
  PROVE  LET k == IF SeqAfter(Sq(a), Sq(b)) THEN Least(Dist(Sq(b), Sq(a)), Dist(Sq(b), Sq(W))) ELSE 0
             t == IF a > b THEN a ELSE b
         IN  (Sq(b) + k) % SeqMod = Sq(t)
<1> DEFINE k == IF SeqAfter(Sq(a), Sq(b)) THEN Least(Dist(Sq(b), Sq(a)), Dist(Sq(b), Sq(W))) ELSE 0
           t == IF a > b THEN a ELSE b
           g == SeqMod - (SeqMod - 1) \div 2
<1>1. /\ Window \in Nat /\ Window < SeqMod /\ SeqMod \in Nat /\ MaxAge \in Nat /\ g \in Int
      /\ MaxAge + Window <= g
  BY Sizes
<1>2. Dist(Sq(b), Sq(W)) = W - b
  BY <1>1, DistUp
<1>3. CASE a > b
  <2>1. a - b <= Window /\ a - b < SeqMod /\ b <= a
    BY <1>1, <1>3
  <2>2. Dist(Sq(b), Sq(a)) = a - b
    BY <2>1, DistUp
  <2>3. SeqAfter(Sq(a), Sq(b))
    BY <1>3, <2>1, After
  <2>4. k = a - b /\ a - b \in Nat /\ b + (a - b) = a /\ t = a
    BY <1>2, <1>3, <2>1, <2>2, <2>3 DEF Least
  <2>5. (Sq(b) + (a - b)) % SeqMod = Sq(b + (a - b))
    BY <2>4, SqAdd
  <2> QED BY <2>4, <2>5
<1>4. CASE ~(a > b)
  <2>1. k = 0
    <3>1. CASE b < W
      <4>1. a <= b /\ b - a < g
        BY <1>1, <1>4, <3>1
      <4>2. ~SeqAfter(Sq(a), Sq(b))
        BY <4>1, NotAfter
      <4> QED BY <4>2
    <3>2. CASE b = W
      <4> DEFINE d == Dist(Sq(b), Sq(a))
      <4>1. d \in Nat
        BY <1>1, SqType, Sizes DEF Dist
      <4>2. Least(d, 0) = 0
        <5> HIDE DEF d
        <5> QED BY <4>1 DEF Least
      <4>3. Dist(Sq(b), Sq(W)) = 0
        BY <1>2, <3>2
      <4> QED BY <4>2, <4>3
    <3> QED BY <3>1, <3>2
  <2>2. (Sq(b) + 0) % SeqMod = Sq(b + 0) /\ b + 0 = b /\ t = b
    BY <1>4, SqAdd
  <2> QED BY <2>1, <2>2
<1> QED BY <1>3, <1>4

LEMMA ProcessAckOK ==
  ASSUME TypeOK, NEW e \in Ends, NEW n, NEW b \in Nat, NEW u \in Nat, NEW r, NodeOK(e, n, b, u, r),
         NEW a \in Nat, a <= Len(log[e]), Len(log[e]) - a <= MaxAge + Window
  PROVE  \E t \in {a, b}, v \in Nat : NodeOK(e, ProcessAck(n, Sq(a)), t, v, r)
<1> DEFINE L == log[e]
           W == Len(L)
           k == IF SeqAfter(Sq(a), n.base) THEN Least(Dist(n.base, Sq(a)), Dist(n.base, n.next)) ELSE 0
           base == (n.base + k) % SeqMod
           unsent == IF SeqAfter(base, n.unsent) THEN base ELSE n.unsent
           m == ProcessAck(n, Sq(a))
           t == IF a > b THEN a ELSE b
           v == IF t > u THEN t ELSE u
<1>1. n \in Node /\ SenderOK(L, n, b, u) /\ ReceiverOK(log[Peer(e)], written[Peer(e)], read[e], n, r)
  BY DEF NodeOK
<1>2. /\ W \in Nat /\ b <= u /\ u <= W /\ W - b <= Window
      /\ n.base = Sq(b) /\ n.unsent = Sq(u) /\ n.next = Sq(W)
  BY <1>1, LogSizes DEF SenderOK
<1>w. a <= W /\ W - a <= MaxAge + Window
  OBVIOUS
<1> HIDE DEF W
<1>3. t \in Nat /\ v \in Nat /\ t \in {a, b} /\ b <= t /\ t <= W /\ t <= v /\ v <= W /\ W - t <= Window
  BY <1>2, <1>w, Sizes
<1>4. base = Sq(t)
  <2>1. b <= W
    BY <1>2
  <2> QED BY <1>2, <1>w, <2>1, Released
<1> HIDE DEF base
<1>5. unsent = Sq(v)
  <2>1. /\ Window \in Nat /\ Window < SeqMod - (SeqMod - 1) \div 2
        /\ SeqMod - (SeqMod - 1) \div 2 \in Int
    BY Sizes
  <2>2. CASE t > u
    <3>1. u < t /\ t - u <= Window
      BY <1>2, <1>3, <2>1, <2>2
    <3>2. SeqAfter(Sq(t), Sq(u))
      BY <1>3, <3>1, After
    <3> QED BY <1>2, <1>4, <2>2, <3>2
  <2>3. CASE ~(t > u)
    <3>1. t <= u /\ u - t <= Window
      BY <1>2, <1>3, <2>1, <2>3
    <3>2. u - t < SeqMod - (SeqMod - 1) \div 2
      BY <1>3, <2>1, <3>1
    <3>3. ~SeqAfter(Sq(t), Sq(u))
      BY <1>3, <3>1, <3>2, NotAfter
    <3> QED BY <1>2, <1>4, <2>3, <3>3
  <2> QED BY <2>2, <2>3
<1>6. base \in Seqs /\ unsent \in Seqs
  BY <1>3, <1>4, <1>5, SqType
<1> DEFINE armed == IF k > 0 THEN base # n.next ELSE n.armed
           att == IF k > 0 THEN 0 ELSE n.attempts
<1>7. m = [n EXCEPT !.base = base, !.unsent = IF SeqAfter(base, @) THEN base ELSE @,
                    !.attempts = IF k > 0 THEN 0 ELSE @,
                    !.armed = IF k > 0 THEN base # n.next ELSE @]
  BY DEF ProcessAck, base
<1>8. armed \in BOOLEAN /\ att \in 0..(Attempts + 1)
  <2> HIDE DEF k
  <2>1. n.armed \in BOOLEAN /\ (base # n.next) \in BOOLEAN
    BY <1>1 DEF Node
  <2>2. armed \in BOOLEAN
    BY <2>1, Zenon
  <2>3. n.attempts \in 0..(Attempts + 1) /\ 0 \in 0..(Attempts + 1)
    BY <1>1, MicroAssumption DEF Node
  <2> QED BY <2>2, <2>3
<1> HIDE DEF m, k
<1>9. /\ m \in Node /\ m.base = base /\ m.next = n.next /\ m.unsent = unsent
      /\ m.state = n.state /\ m.retries = n.retries
      /\ m.txw = n.txw /\ m.txu = n.txu /\ m.rx_next = n.rx_next /\ m.rxq = n.rxq
      /\ m.used = n.used
  <2>1. /\ m.base = base /\ m.next = n.next /\ m.unsent = unsent
        /\ m.state = n.state /\ m.retries = n.retries
        /\ m.txw = n.txw /\ m.txu = n.txu /\ m.rx_next = n.rx_next /\ m.rxq = n.rxq
        /\ m.used = n.used
    BY <1>1, <1>7 DEF Node
  <2>2. m \in Node
    BY <1>1, <1>6, <1>7, <1>8 DEF Node
  <2> QED BY <2>1, <2>2
<1> HIDE DEF unsent, armed, att
<1>10. SenderOK(L, m, t, v)
  <2>1. \A x \in 1..Len(L) : t < x => b < x
    BY <1>2, <1>3 DEF W
  <2> HIDE DEF t, v
  <2> QED BY <1>1, <1>2, <1>3, <1>4, <1>5, <1>9, <2>1 DEF SenderOK, W
<1>11. ReceiverOK(log[Peer(e)], written[Peer(e)], read[e], m, r)
  BY <1>1, <1>9 DEF ReceiverOK
<1>12. NodeOK(e, m, t, v, r)
  BY <1>9, <1>10, <1>11 DEF NodeOK
<1> HIDE DEF t, v
<1> QED BY <1>3, <1>12 DEF m

-------------------------------------------------------------------------------
(* mc_feed: the records of a datagram. *)

\* The next record is not of this channel, or the channel is closed.
LEMMA ChanOther ==
  ASSUME NEW L, NEW wr, NEW rd, NEW q, NEW open, NEW c, NEW r \in Nat,
         ChanOK(L, wr, rd, q, open, c, r),
         open => \A a \in 1..Len(L) : L[a].chan = c => a # r + 1
  PROVE  ChanOK(L, wr, rd, q, open, c, r + 1)
<1>1. \A a \in 1..Len(L) : a # r + 1 => (a <= r <=> a <= r + 1)
  OBVIOUS
<1> QED BY <1>1 DEF ChanOK

\* The next record is of this channel: it is the next message of the channel, and
\* the queue takes it.
LEMMA ChanPush ==
  ASSUME NEW L \in Seq(Record), NEW W, NEW max, LogOK(L, W, max), NEW c \in Reliable,
         NEW wr \in Seq(Messages), wr = W[c], NEW rd \in Seq(Messages), NEW q \in Seq(Messages),
         NEW r \in Nat, r + 1 \in 1..Len(L), L[r + 1].chan = c,
         ChanOK(L, wr, rd, q, TRUE, c, r)
  PROVE  ChanOK(L, wr, rd, Append(q, L[r + 1].msg), TRUE, c, r + 1)
<1> DEFINE a == r + 1
           j == Len(rd) + Len(q)
           msg == L[a].msg
<1>1. Len(L) \in Nat /\ Len(wr) \in Nat /\ Len(rd) \in Nat /\ Len(q) \in Nat /\ j \in Nat /\ a \in 1..Len(L)
  OBVIOUS
<1>2. msg \in 1..Len(wr) /\ msg \in Nat
  BY DEF LogOK
<1>3. /\ \A x \in 1..Len(L) : L[x].chan = c => (L[x].msg <= j <=> x <= r)
      /\ j <= Len(wr)
  BY DEF ChanOK
<1>4. \A x \in 1..Len(L) : L[x].msg \in Nat
  BY DEF LogOK
<1>5. \A x, y \in 1..Len(L) : x < y /\ L[x].chan = c /\ L[y].chan = c => L[x].msg < L[y].msg
  BY DEF LogOK
<1>6. msg = j + 1
  <2>1. ~(msg <= j)
    <3>1. ~(a <= r)
      OBVIOUS
    <3> QED BY <1>1, <1>3, <3>1
  <2>2. j + 1 \in 1..Len(wr)
    BY <1>1, <1>2, <2>1
  <2>w. \A y \in 1..Len(wr) : \E x \in 1..Len(L) : L[x].chan = c /\ L[x].msg = y
    BY DEF LogOK
  <2>3. PICK x \in 1..Len(L) : L[x].chan = c /\ L[x].msg = j + 1
    BY <2>2, <2>w
  <2>4. ~(L[x].msg <= j)
    BY <1>1, <2>3
  <2>5. ~(x <= r)
    BY <1>3, <2>3, <2>4
  <2>6. x = a \/ a < x
    BY <2>5
  <2>7. a < x => msg < j + 1
    BY <1>1, <1>5, <2>3
  <2> HIDE DEF a, j
  <2> QED BY <1>1, <1>2, <2>1, <2>3, <2>6, <2>7
<1> DEFINE p == Append(q, msg)
<1>7. msg \in Messages
  <2>1. L[a] \in Record
    BY <1>1
  <2> QED BY <2>1 DEF Record
<1>8. /\ Len(p) = Len(q) + 1 /\ p[Len(q) + 1] = msg
      /\ \A k \in 1..Len(q) : p[k] = q[k]
  <2> HIDE DEF msg
  <2> QED BY <1>7, AppendProperties
<1> HIDE DEF p
<1>9. Len(rd) + Len(p) = j + 1 /\ j + 1 <= Len(wr)
  <2>1. j + 1 <= Len(wr)
    BY <1>2, <1>6
  <2> QED BY <1>1, <1>8, <2>1
<1>10. ASSUME NEW k \in 1..Len(p) PROVE p[k] = Len(rd) + k
  <2>1. CASE k \in 1..Len(q)
    BY <1>8, <2>1 DEF ChanOK
  <2>2. CASE k = Len(q) + 1
    BY <1>1, <1>6, <1>8, <2>2
  <2> QED BY <1>1, <1>8, <2>1, <2>2
<1>11. ASSUME NEW x \in 1..Len(L), L[x].chan = c PROVE L[x].msg <= j + 1 <=> x <= r + 1
  <2>1. L[x].msg \in Nat
    BY <1>4
  <2>2. CASE x <= r
    <3>1. L[x].msg <= j
      BY <1>3, <1>11, <2>2
    <3> HIDE DEF j
    <3> QED BY <1>1, <2>1, <2>2, <3>1
  <2>3. CASE x = a
    <3>1. L[x].msg = j + 1
      BY <1>6, <2>3
    <3> HIDE DEF j
    <3> QED BY <1>1, <2>1, <2>3, <3>1
  <2>4. CASE a < x
    <3>1. msg < L[x].msg
      BY <1>1, <1>5, <1>11, <2>4
    <3>2. ~(L[x].msg <= j + 1)
      <4> HIDE DEF j, msg
      <4> QED BY <1>1, <1>2, <1>6, <2>1, <3>1
    <3> QED BY <2>4, <3>2
  <2> QED BY <2>2, <2>3, <2>4
<1>12. \A k \in 1..Len(rd) : rd[k] = k
  BY DEF ChanOK
<1>13. ChanOK(L, wr, rd, p, TRUE, c, r + 1)
  BY <1>9, <1>10, <1>11, <1>12 DEF ChanOK
<1> QED BY <1>13 DEF p

\* How far end e is behind its peer, and that what it holds is in order.
PassOK(e, n, b, u, r) == NodeOK(e, n, b, u, r) /\ Len(log[Peer(e)]) - r <= Window

\* A record of a channel without delivery guarantees only reaches that channel's queue.
LEMMA DeliverLossy ==
  ASSUME NEW e \in Ends, NEW n, NEW b, NEW u, NEW r, PassOK(e, n, b, u, r),
         NEW rec \in Record, Lossy(rec)
  PROVE  PassOK(e, Deliver(n, rec), b, u, r)
<1> DEFINE c == rec.chan
           m == [n EXCEPT !.rxq[c] = Append(@, rec.msg)]
<1>1. n \in Node /\ c \in Chans /\ c \notin Reliable /\ ~rec.rel /\ rec.msg \in Messages
  BY MicroAssumption DEF PassOK, NodeOK, Lossy, Chans, Record
<1>2. Deliver(n, rec) = n \/ Deliver(n, rec) = m
  BY <1>1 DEF Deliver, RxqPush
<1> HIDE DEF c
<1>3. n.rxq \in [Chans -> Seq(Messages)]
  BY <1>1 DEF Node
<1> DEFINE q == [n.rxq EXCEPT ![c] = Append(n.rxq[c], rec.msg)]
<1>4. q \in [Chans -> Seq(Messages)] /\ \A x \in Reliable : q[x] = n.rxq[x]
  BY <1>1, <1>3 DEF Chans
<1>5. m = [n EXCEPT !.rxq = q]
  BY <1>1, <1>3 DEF Node
<1> HIDE DEF m, q
<1>6. /\ m \in Node /\ m.base = n.base /\ m.next = n.next /\ m.unsent = n.unsent
      /\ m.state = n.state /\ m.retries = n.retries
      /\ m.txw = n.txw /\ m.txu = n.txu /\ m.rx_next = n.rx_next /\ m.rxq = q
      /\ m.used = n.used
  BY <1>1, <1>4, <1>5 DEF Node
<1>7. SenderOK(log[e], n, b, u) /\ ReceiverOK(log[Peer(e)], written[Peer(e)], read[e], n, r)
  BY DEF PassOK, NodeOK
<1>8. SenderOK(log[e], m, b, u)
  BY <1>6, <1>7 DEF SenderOK
<1>9. ReceiverOK(log[Peer(e)], written[Peer(e)], read[e], m, r)
  BY <1>4, <1>6, <1>7 DEF ReceiverOK
<1> QED BY <1>2, <1>6, <1>8, <1>9 DEF PassOK, NodeOK

\* A record that is not the next one, or finds the queue full, is only acknowledged.
LEMMA DeliverRefused ==
  ASSUME NEW e \in Ends, NEW n, NEW b, NEW u, NEW r, PassOK(e, n, b, u, r)
  PROVE  PassOK(e, [n EXCEPT !.ack_pending = TRUE], b, u, r)
<1>1. n \in Node /\ NodeOK(e, n, b, u, r) /\ (n.state = "CONNECTING" => n.retries <= Retries)
  BY DEF PassOK, NodeOK, SenderOK
<1>2. Quiet(n, [n EXCEPT !.ack_pending = TRUE])
  BY <1>1 DEF Quiet, Node
<1> QED BY <1>1, <1>2, QuietNode DEF PassOK

\* A reliable record under way that carries the number that is due is the next record
\* of the peer's log, not one whose number came round.
LEMMA DueIsNext ==
  ASSUME NEW L \in Seq(Record), NEW W, NEW max, LogOK(L, W, max), NEW r \in Nat, r <= Len(L),
         Len(L) - r <= Window, NEW w \in 0..Len(L), Len(L) - w <= MaxAge,
         NEW rec, rec.rel, RecordOK(L, w, rec), rec.seq = Sq(r)
  PROVE  r + 1 \in 1..Len(L) /\ rec = L[r + 1]
<1>1. PICK a \in 1..w : w - a < Window /\ rec = L[a]
  BY DEF RecordOK
<1>2. Len(L) \in Nat /\ a \in 1..Len(L) /\ a - 1 \in Nat
  OBVIOUS
<1>3. rec.seq = Sq(a - 1)
  BY <1>1, <1>2 DEF LogOK
<1>4. (a - 1) - r < SeqMod /\ r - (a - 1) < SeqMod
  BY <1>1, <1>2, Sizes
<1>5. a - 1 = r
  BY <1>2, <1>3, <1>4, SqSame
<1>6. a = r + 1
  BY <1>5
<1> QED BY <1>1, <1>2, <1>6

LEMMA DeliverNext ==
  ASSUME TypeOK, NEW e \in Ends, LogOK(log[Peer(e)], written[Peer(e)], MaxWrites[Peer(e)]),
         NEW n, NEW b, NEW u, NEW r \in Nat, PassOK(e, n, b, u, r),
         r + 1 \in 1..Len(log[Peer(e)]), NEW rec, rec = log[Peer(e)][r + 1],
         rec.chan \in n.used => Len(n.rxq[rec.chan]) < RecvQ
  PROVE  PassOK(e, [(IF rec.chan \in n.used THEN RxqPush(n, rec.chan, rec.msg) ELSE n)
                     EXCEPT !.rx_next = Inc(@), !.ack_pending = TRUE], b, u, r + 1)
<1> DEFINE L == log[Peer(e)]
           W == written[Peer(e)]
           rd == read[e]
           c == rec.chan
           q == IF c \in n.used THEN [n.rxq EXCEPT ![c] = Append(n.rxq[c], rec.msg)] ELSE n.rxq
           o == IF c \in n.used THEN RxqPush(n, c, rec.msg) ELSE n
           m == [o EXCEPT !.rx_next = Inc(@), !.ack_pending = TRUE]
<1>0. Peer(e) \in Ends
  BY EndsAre
<1>1. /\ n \in Node /\ SenderOK(log[e], n, b, u) /\ ReceiverOK(L, W, rd, n, r) /\ Len(L) - r <= Window
      /\ L \in Seq(Record) /\ Len(L) \in Nat /\ LogOK(L, W, MaxWrites[Peer(e)])
  BY <1>0, LogSizes DEF PassOK, NodeOK
<1>2. W \in [Reliable -> Seq(Messages)] /\ rd \in [Reliable -> Seq(Messages)]
  BY <1>0 DEF TypeOK
<1>3. rec = L[r + 1] /\ r + 1 \in 1..Len(L)
  OBVIOUS
<1>u. c \in n.used => Len(n.rxq[c]) < RecvQ
  OBVIOUS
<1> HIDE DEF L, W, rd
<1>4. c \in Reliable /\ c \in Chans /\ rec.msg \in Messages
  <2>1. L[r + 1] \in Record
    BY <1>1, <1>3
  <2>2. L[r + 1].chan \in Reliable
    BY <1>1, <1>3 DEF LogOK
  <2> QED BY <1>3, <2>1, <2>2 DEF Record, Chans
<1>5. n.rxq \in [Chans -> Seq(Messages)] /\ n.rx_next = Sq(r) /\ n.used \subseteq Chans
  BY <1>1 DEF Node, ReceiverOK
<1>6. Inc(n.rx_next) = Sq(r + 1) /\ Sq(r + 1) \in Seqs
  <2>1. (Sq(r) + 1) % SeqMod = Sq(r + 1)
    BY SqAdd
  <2>2. r + 1 \in Nat
    OBVIOUS
  <2> QED BY <1>5, <2>1, <2>2, SqType DEF Inc
<1>7. /\ q \in [Chans -> Seq(Messages)]
      /\ \A x \in Reliable : q[x] = IF x = c /\ c \in n.used THEN Append(n.rxq[c], rec.msg) ELSE n.rxq[x]
  <2> HIDE DEF c
  <2> QED BY <1>4, <1>5 DEF Chans
<1>8. o = [n EXCEPT !.rxq = q]
  <2> HIDE DEF c
  <2>1. CASE c \in n.used
    <3>1. ~(Len(n.rxq[c]) >= RecvQ)
      <4>1. Len(n.rxq[c]) \in Nat /\ RecvQ \in Nat
        BY <1>4, <1>5, MicroAssumption
      <4> QED BY <1>u, <2>1, <4>1
    <3>2. o = [n EXCEPT !.rxq[c] = Append(@, rec.msg)]
      BY <2>1, <3>1 DEF RxqPush
    <3>3. q = [n.rxq EXCEPT ![c] = Append(n.rxq[c], rec.msg)]
      BY <2>1
    <3> HIDE DEF o, q
    <3> QED BY <1>1, <1>4, <1>5, <3>2, <3>3 DEF Node
  <2>2. CASE c \notin n.used
    BY <1>1, <1>5, <2>2 DEF Node
  <2> QED BY <2>1, <2>2
<1>g. m = [o EXCEPT !.rx_next = Inc(@), !.ack_pending = TRUE]
  OBVIOUS
<1> HIDE DEF o, q, m
<1>9. /\ m \in Node /\ m.base = n.base /\ m.next = n.next /\ m.unsent = n.unsent
      /\ m.state = n.state /\ m.retries = n.retries
      /\ m.txw = n.txw /\ m.txu = n.txu /\ m.rx_next = Inc(n.rx_next) /\ m.rxq = q
      /\ m.used = n.used
  BY <1>1, <1>6, <1>7, <1>8, <1>g DEF Node
<1>10. SenderOK(log[e], m, b, u)
  BY <1>1, <1>9 DEF SenderOK
<1>11. ASSUME NEW x \in Reliable
       PROVE  ChanOK(L, W[x], rd[x], m.rxq[x], x \in m.used, x, r + 1)
  <2>1. ChanOK(L, W[x], rd[x], n.rxq[x], x \in n.used, x, r)
    BY <1>1 DEF ReceiverOK
  <2>2. CASE x = c /\ c \in n.used
    <3>1. m.rxq[x] = Append(n.rxq[x], L[r + 1].msg) /\ x \in m.used /\ L[r + 1].chan = x
      BY <1>3, <1>7, <1>9, <2>2
    <3>2. ChanOK(L, W[x], rd[x], n.rxq[x], TRUE, x, r)
      BY <2>1, <2>2 DEF ChanOK
    <3>3. /\ W[x] \in Seq(Messages) /\ rd[x] \in Seq(Messages) /\ n.rxq[x] \in Seq(Messages)
      BY <1>2, <1>4, <1>5, <2>2
    <3>4. ChanOK(L, W[x], rd[x], Append(n.rxq[x], L[r + 1].msg), TRUE, x, r + 1)
      BY <1>1, <1>3, <3>1, <3>2, <3>3, ChanPush
    <3> QED BY <3>1, <3>4 DEF ChanOK
  <2>3. CASE ~(x = c /\ c \in n.used)
    <3>1. m.rxq[x] = n.rxq[x] /\ (x \in m.used <=> x \in n.used)
      BY <1>7, <1>9, <2>3
    <3>2. x \in n.used => \A a \in 1..Len(L) : L[a].chan = x => a # r + 1
      BY <1>3, <2>3
    <3>3. ChanOK(L, W[x], rd[x], n.rxq[x], x \in n.used, x, r + 1)
      BY <2>1, <3>2, ChanOther
    <3> QED BY <3>1, <3>3 DEF ChanOK
  <2> QED BY <2>2, <2>3
<1>12. r + 1 <= Len(L) /\ Len(L) - (r + 1) <= Window
  BY <1>1, <1>3, Sizes
<1>13. ReceiverOK(L, W, rd, m, r + 1)
  BY <1>6, <1>5, <1>9, <1>11, <1>12 DEF ReceiverOK
<1>14. PassOK(e, m, b, u, r + 1)
  BY <1>9, <1>10, <1>12, <1>13 DEF PassOK, NodeOK, L, W, rd
<1> QED BY <1>14 DEF m, o

\* One record: the receiver passes it or stays where it is.
LEMMA DeliverOK ==
  ASSUME TypeOK, NEW e \in Ends, LogOK(log[Peer(e)], written[Peer(e)], MaxWrites[Peer(e)]),
         NEW n, NEW b, NEW u, NEW r \in Nat, PassOK(e, n, b, u, r),
         NEW w \in 0..Len(log[Peer(e)]), Len(log[Peer(e)]) - w <= MaxAge,
         NEW rec \in Record, RecordOK(log[Peer(e)], w, rec)
  PROVE  \E s \in Nat : r <= s /\ PassOK(e, Deliver(n, rec), b, u, s)
<1> DEFINE L == log[Peer(e)]
<1>0. r <= r /\ r <= r + 1 /\ r + 1 \in Nat
  OBVIOUS
<1>1. CASE ~rec.rel
  <2>1. Lossy(rec)
    BY <1>1 DEF RecordOK, Lossy
  <2> QED BY <1>0, <2>1, DeliverLossy
<1>2. CASE rec.rel /\ (rec.seq # n.rx_next \/ (rec.chan \in n.used /\ Len(n.rxq[rec.chan]) >= RecvQ))
  <2>1. Deliver(n, rec) = [n EXCEPT !.ack_pending = TRUE]
    BY <1>2 DEF Deliver
  <2> QED BY <1>0, <2>1, DeliverRefused
<1>3. CASE rec.rel /\ ~(rec.seq # n.rx_next \/ (rec.chan \in n.used /\ Len(n.rxq[rec.chan]) >= RecvQ))
  <2>0. n \in Node /\ L \in Seq(Record) /\ rec.chan \in Chans /\ RecvQ \in Nat
    BY LogSizes, MicroAssumption DEF PassOK, NodeOK, Record
  <2>1. rec.seq = Sq(r) /\ r <= Len(L) /\ Len(L) - r <= Window
    BY <1>3 DEF PassOK, NodeOK, ReceiverOK
  <2>2. r + 1 \in 1..Len(L) /\ rec = L[r + 1]
    <3>1. RecordOK(L, w, rec) /\ LogOK(L, written[Peer(e)], MaxWrites[Peer(e)])
      OBVIOUS
    <3>2. w \in 0..Len(L) /\ Len(L) - w <= MaxAge
      OBVIOUS
    <3> HIDE DEF L
    <3> QED BY <1>3, <2>0, <2>1, <3>1, <3>2, DueIsNext
  <2>3. rec.chan \in n.used => Len(n.rxq[rec.chan]) < RecvQ
    <3>1. Len(n.rxq[rec.chan]) \in Nat
      BY <2>0 DEF Node
    <3> QED BY <1>3, <2>0, <3>1
  <2>4. Deliver(n, rec) = [(IF rec.chan \in n.used THEN RxqPush(n, rec.chan, rec.msg) ELSE n)
                            EXCEPT !.rx_next = Inc(@), !.ack_pending = TRUE]
    BY <1>3 DEF Deliver
  <2>5. PassOK(e, [(IF rec.chan \in n.used THEN RxqPush(n, rec.chan, rec.msg) ELSE n)
                    EXCEPT !.rx_next = Inc(@), !.ack_pending = TRUE], b, u, r + 1)
    BY <2>2, <2>3, DeliverNext
  <2> QED BY <1>0, <2>4, <2>5
<1> QED BY <1>1, <1>2, <1>3

\* Every record of a datagram in turn: an induction over its records.
LEMMA DeliverAllOK ==
  ASSUME TypeOK, NEW e \in Ends, LogOK(log[Peer(e)], written[Peer(e)], MaxWrites[Peer(e)]),
         NEW c, NEW b, NEW u, NEW r \in Nat, PassOK(e, c, b, u, r),
         NEW w \in 0..Len(log[Peer(e)]), Len(log[Peer(e)]) - w <= MaxAge,
         NEW recs \in Seq(Record), RecordsOK(log[Peer(e)], w, recs)
  PROVE  \E s \in Nat : r <= s /\ PassOK(e, DeliverAll(c, recs), b, u, s)
<1> DEFINE n == Len(recs)
           S == {d \in Node : \E s \in Nat : r <= s /\ PassOK(e, d, b, u, s)}
           F == [k \in 1..n |-> [d \in S |-> Deliver(d, recs[k])]]
           Steps(g) == g = [k \in 0..n |-> IF k = 0 THEN c ELSE Deliver(g[k - 1], recs[k])]
           P == CHOOSE g : Steps(g)
<1>1. n \in Nat
  OBVIOUS
<1>2. c \in S
  <2>1. c \in Node /\ r <= r
    BY DEF PassOK, NodeOK
  <2> QED BY <2>1
<1>3. ASSUME NEW k \in 1..n, NEW d \in S PROVE Deliver(d, recs[k]) \in S
  <2>1. PICK s \in Nat : r <= s /\ PassOK(e, d, b, u, s)
    OBVIOUS
  <2>2. recs[k] \in Record /\ RecordOK(log[Peer(e)], w, recs[k])
    BY DEF RecordsOK
  <2>3. PICK t \in Nat : s <= t /\ PassOK(e, Deliver(d, recs[k]), b, u, t)
    BY <2>1, <2>2, DeliverOK
  <2>4. r <= t
    BY <2>1, <2>3
  <2>5. Deliver(d, recs[k]) \in Node
    BY <2>3 DEF PassOK, NodeOK
  <2> QED BY <2>3, <2>4, <2>5
<1>p. DeliverAll(c, recs) = P[n]
  BY DEF DeliverAll
<1> HIDE DEF S, n
<1>4. F \in [1..n -> [S -> S]]
  BY <1>3
<1>r. PICK g : IsRun(g, S, c, n, F)
  <2> HIDE DEF F
  <2> QED BY <1>1, <1>2, <1>4, RunExists
<1>5. g \in [0..n -> S] /\ g[0] = c /\ \A k \in 1..n : g[k] = F[k][g[k - 1]]
  BY <1>r DEF IsRun
<1>6. Steps(g)
  <2>1. ASSUME NEW k \in 1..n PROVE g[k] = Deliver(g[k - 1], recs[k])
    <3>1. k - 1 \in 0..n
      BY <1>1
    <3> QED BY <1>5, <3>1
  <2>2. \A k \in 0..n : k = 0 \/ k \in 1..n
    BY <1>1
  <2>3. \A k \in 0..n : g[k] = IF k = 0 THEN c ELSE Deliver(g[k - 1], recs[k])
    BY <1>5, <2>1, <2>2
  <2> QED BY <1>5, <2>3
<1>7. Steps(P)
  BY <1>6
<1> HIDE DEF P
<1>8. P[0] = c /\ \A k \in 1..n : P[k] = Deliver(P[k - 1], recs[k])
  <2>1. 0 \in 0..n /\ \A k \in 1..n : k \in 0..n /\ k # 0
    BY <1>1
  <2> QED BY <1>7, <2>1
<1> DEFINE T == {k \in 0..n : P[k] \in S}
<1>9. 0 \in T
  BY <1>1, <1>2, <1>8
<1>10. ASSUME NEW k \in 1..n, k - 1 \in T PROVE k \in T
  <2>1. k \in 0..n
    BY <1>1
  <2> QED BY <1>3, <1>8, <1>10, <2>1
<1>11. n \in T
  <2> HIDE DEF T
  <2>1. \A k \in 0..n : k \in T
    BY <1>1, <1>9, <1>10, CountedUp
  <2> QED BY <1>1, <2>1
<1>12. P[n] \in S
  BY <1>11
<1> QED BY <1>p, <1>12 DEF S

LEMMA FeedDataKeeps ==
  ASSUME Inv, NEW e \in Ends, NEW p, FeedData(e, p)
  PROVE  Inv'
<1>1. PICK B \in [Ends -> Nat], U \in [Ends -> Nat], R \in [Ends -> Nat] : Good(B, U, R)
  BY DEF Inv
<1> DEFINE o == node[e]
           n == IF e = "server" THEN Up(o) ELSE o
           m == DeliverAll(ProcessAck(n, p.ack), p.recs)
           L == log[e]
           V == log[Peer(e)]
           b == B[e]
           u == U[e]
           r == R[Peer(e)]
<1>2. /\ NodeOK(e, o, b, u, r) /\ o \in Node /\ TypeOK /\ net \subseteq Packet
      /\ b \in Nat /\ u \in Nat /\ r \in Nat /\ b <= R[e] /\ R[e] \in Nat /\ Peer(e) \in Ends
      /\ B[Peer(e)] \in Nat /\ B[Peer(e)] <= r /\ LogOK(V, written[Peer(e)], MaxWrites[Peer(e)])
  BY <1>1, EndsAre DEF Good, TypeOK
<1>3. /\ UNCHANGED <<written, read, log>> /\ rare' \in 0..MaxRare /\ net' \subseteq net
      /\ p \in net /\ p \in Packet /\ p.to = e /\ p.kind = "DATA" /\ Age - p.born <= MaxAge
  <2>1. Arrives(e, "DATA", p)
    BY DEF FeedData
  <2> QED BY <1>2, <2>1, Arrived
<1>4. Become(e, IF n.state # "CONNECTED" THEN n ELSE m)
  BY DEF FeedData
<1>5. Quiet(o, n)
  <2>1. (o.state = "CONNECTING" => o.retries <= Retries)
    BY <1>2 DEF NodeOK, SenderOK
  <2>2. Quiet(o, o)
    BY <1>2, <2>1 DEF Quiet
  <2> QED BY <1>2, <2>2, UpQuiet
<1>6. CASE n.state # "CONNECTED"
  <2> HIDE DEF n
  <2>1. Become(e, n)
    BY <1>4, <1>6
  <2> QED BY <1>3, <1>5, <2>1, QuietStep
<1>7. CASE n.state = "CONNECTED"
  <2> HIDE DEF n
  <2>1. NodeOK(e, n, b, u, r) /\ Become(e, m)
    BY <1>2, <1>4, <1>5, <1>7, QuietNode
  <2>2. PICK w \in 0..Len(V), v \in 0..Len(L) :
          /\ p.born = w + v
          /\ \E a \in 0..R[e] : p.ack = Sq(a) /\ v - a <= Window
          /\ RecordsOK(V, w, p.recs)
    <3>1. PacketOK(log, p, R[e])
      BY <1>1, <1>3 DEF Good
    <3> QED BY <1>3, <3>1 DEF PacketOK
  <2>3. PICK a \in 0..R[e] : p.ack = Sq(a) /\ v - a <= Window
    BY <2>2
  <2>4. L \in Seq(Record) /\ V \in Seq(Record) /\ Len(L) \in Nat /\ Len(V) \in Nat /\ Age = Len(L) + Len(V)
    BY <1>2, LogSizes
  <2>5. R[e] <= Len(L) /\ Len(V) - B[Peer(e)] <= Window
    <3>1. NodeOK(Peer(e), node[Peer(e)], B[Peer(e)], U[Peer(e)], R[e])
      BY <1>1, EndsAre DEF Good
    <3>2. Peer(Peer(e)) = e
      BY EndsAre
    <3> QED BY <3>1, <3>2 DEF NodeOK, SenderOK, ReceiverOK
  <2> DEFINE x == Len(L)
             y == Len(V)
  <2>6. /\ x \in Nat /\ y \in Nat /\ w \in 0..y /\ v \in 0..x /\ (x + y) - (w + v) <= MaxAge
        /\ R[e] <= x /\ y - B[Peer(e)] <= Window
    BY <1>3, <2>2, <2>4, <2>5
  <2>7. /\ a \in Nat /\ a <= x /\ x - a <= MaxAge + Window /\ y - w <= MaxAge
        /\ y - r <= Window /\ a <= R[e]
    <3>1. MaxAge \in Nat /\ Window \in Nat /\ a \in Nat /\ a <= R[e]
      BY <1>2, <2>3, Sizes
    <3> HIDE DEF x, y
    <3>2. w \in Nat /\ v \in Nat /\ w <= y /\ v <= x
      BY <2>6
    <3>3. x - v <= MaxAge /\ y - w <= MaxAge /\ v - a <= Window
      BY <2>3, <2>6, <3>1, <3>2
    <3>4. a <= x /\ x - a <= MaxAge + Window
      BY <1>2, <2>6, <3>1, <3>2, <3>3
    <3>5. y - r <= Window
      BY <1>2, <2>6, <3>1
    <3> QED BY <3>1, <3>3, <3>4, <3>5
  <2>8. PICK t \in {a, b}, z \in Nat : NodeOK(e, ProcessAck(n, p.ack), t, z, r)
    <3>1. NodeOK(e, n, b, u, r) /\ TypeOK /\ b \in Nat /\ u \in Nat
      BY <1>2, <2>1
    <3>2. a \in Nat /\ a <= Len(log[e]) /\ Len(log[e]) - a <= MaxAge + Window /\ p.ack = Sq(a)
      BY <2>3, <2>7
    <3> HIDE DEF b, u, r
    <3> QED BY <3>1, <3>2, ProcessAckOK
  <2>9. t \in Nat /\ t <= R[e]
    BY <1>2, <2>7
  <2>10. PassOK(e, ProcessAck(n, p.ack), t, z, r)
    BY <2>7, <2>8 DEF PassOK
  <2>11. p.recs \in Seq(Record)
    BY <1>3 DEF Packet
  <2>12. PICK s \in Nat : r <= s /\ PassOK(e, m, t, z, s)
    BY <1>2, <2>2, <2>6, <2>7, <2>10, <2>11, DeliverAllOK
  <2> HIDE DEF m
  <2>13. NodeOK(e, m, t, z, s)
    BY <2>12 DEF PassOK
  <2>14. net' \subseteq Packet /\ \A q \in net' : q \in net
    BY <1>2, <1>3
  <2> QED BY <1>1, <1>3, <2>1, <2>9, <2>12, <2>13, <2>14, EndStep
<1> QED BY <1>6, <1>7

-------------------------------------------------------------------------------
(* mc_write and mc_read. *)

\* One more record: rec is the last of M, which is otherwise L.
Longer(L, M, rec) ==
  /\ Len(L) \in Nat /\ Len(M) = Len(L) + 1 /\ M[Len(L) + 1] = rec
  /\ \A a \in 1..Len(L) : M[a] = L[a]

LEMMA LongerBy ==
  ASSUME NEW L \in Seq(Record), NEW rec \in Record
  PROVE  Longer(L, Append(L, rec), rec) /\ Append(L, rec) \in Seq(Record)
BY AppendProperties, LenProperties DEF Longer

LEMMA LongerRange ==
  ASSUME NEW L, NEW M, NEW rec, Longer(L, M, rec)
  PROVE  /\ Len(L) \in Nat /\ Len(M) \in Nat /\ Len(L) + 1 \in 1..Len(M)
         /\ \A a \in 1..Len(M) : a \in 1..Len(L) \/ a = Len(L) + 1
         /\ \A a \in 1..Len(L) : a \in 1..Len(M) /\ a < Len(L) + 1
BY DEF Longer

LEMMA LogGrows ==
  ASSUME NEW L, NEW M, NEW rec, Longer(L, M, rec), NEW wr \in [Reliable -> Seq(Messages)],
         NEW max \in Nat, LogOK(L, wr, max), Len(L) < max, NEW c \in Reliable,
         rec.rel, rec.chan = c, rec.seq = Sq(Len(L)), rec.msg = Len(wr[c]) + 1,
         rec.msg \in Messages
  PROVE  LogOK(M, [wr EXCEPT ![c] = Append(@, rec.msg)], max)
<1> DEFINE W == Len(L)
           j == Len(wr[c])
           wr2 == [wr EXCEPT ![c] = Append(@, rec.msg)]
<1>1. /\ W \in Nat /\ j \in Nat /\ Len(M) = W + 1 /\ W + 1 \in 1..Len(M) /\ M[W + 1] = rec
      /\ \A a \in 1..Len(M) : a \in 1..W \/ a = W + 1
      /\ \A a \in 1..W : a \in 1..Len(M) /\ a < W + 1 /\ M[a] = L[a]
  BY LongerRange DEF Longer
<1>2. /\ Len(wr2[c]) = j + 1 /\ wr2[c][j + 1] = j + 1 /\ \A k \in 1..j : wr2[c][k] = wr[c][k]
      /\ \A x \in Reliable : x # c => wr2[x] = wr[x]
  <2>1. wr2[c] = Append(wr[c], rec.msg) /\ \A x \in Reliable : x # c => wr2[x] = wr[x]
    OBVIOUS
  <2>2. wr[c] \in Seq(Messages)
    OBVIOUS
  <2>3. /\ Len(Append(wr[c], rec.msg)) = j + 1 /\ Append(wr[c], rec.msg)[j + 1] = rec.msg
        /\ \A k \in 1..j : Append(wr[c], rec.msg)[k] = wr[c][k]
    BY <2>2, AppendProperties
  <2> QED BY <2>1, <2>3
<1>m. rec.msg = j + 1 /\ rec.seq = Sq(W) /\ W < max
  OBVIOUS
<1>k. /\ \A x \in Reliable : Len(wr[x]) \in Nat
      /\ \A x \in Reliable : Len(wr2[x]) \in Nat /\ Len(wr[x]) <= Len(wr2[x])
  <2>1. \A x \in Reliable : Len(wr[x]) \in Nat
    OBVIOUS
  <2> HIDE DEF wr2
  <2> QED BY <1>1, <1>2, <2>1
<1> HIDE DEF W, j, wr2
<1>3. \A a \in 1..W : /\ L[a].rel /\ L[a].chan \in Reliable /\ L[a].seq = Sq(a - 1)
                      /\ L[a].msg \in 1..Len(wr[L[a].chan])
  BY DEF LogOK, W
<1>4. ASSUME NEW a \in 1..Len(M)
      PROVE  /\ M[a].rel /\ M[a].chan \in Reliable /\ M[a].seq = Sq(a - 1)
             /\ M[a].msg \in 1..Len(wr2[M[a].chan])
  <2>1. CASE a \in 1..W
    <3>1. M[a] = L[a] /\ L[a].chan \in Reliable /\ L[a].msg \in 1..Len(wr[L[a].chan])
      BY <1>1, <1>3, <2>1
    <3>2. L[a].msg \in 1..Len(wr2[L[a].chan])
      BY <1>k, <3>1
    <3> QED BY <1>3, <2>1, <3>1, <3>2
  <2>2. CASE a = W + 1
    <3>1. M[a] = rec /\ a - 1 = W /\ Len(wr2[c]) = j + 1
      BY <1>1, <1>2, <2>2
    <3>2. j + 1 \in 1..(j + 1)
      BY <1>1
    <3> QED BY <1>m, <3>1, <3>2
  <2> QED BY <1>1, <2>1, <2>2
<1>5. ASSUME NEW a \in 1..Len(M), NEW d \in 1..Len(M), a < d, M[a].chan = M[d].chan
      PROVE  M[a].msg < M[d].msg
  <2>1. a \in 1..W
    BY <1>1, <1>5
  <2>2. CASE d \in 1..W
    <3>1. M[a] = L[a] /\ M[d] = L[d]
      BY <1>1, <2>1, <2>2
    <3>2. \A x, y \in 1..W : x < y /\ L[x].chan = L[y].chan => L[x].msg < L[y].msg
      BY DEF LogOK, W
    <3> QED BY <1>5, <2>1, <2>2, <3>1, <3>2
  <2>3. CASE d = W + 1
    <3>1. M[a] = L[a] /\ M[d] = rec
      BY <1>1, <2>1, <2>3
    <3>2. L[a].msg \in 1..j
      BY <1>3, <1>5, <2>1, <3>1 DEF j
    <3> QED BY <1>1, <1>m, <3>1, <3>2
  <2> QED BY <1>1, <2>2, <2>3
<1>6. ASSUME NEW x \in Reliable, NEW k \in 1..Len(wr2[x])
      PROVE  \E a \in 1..Len(M) : M[a].chan = x /\ M[a].msg = k
  <2>1. CASE k \in 1..Len(wr[x])
    <3>1. PICK a \in 1..W : L[a].chan = x /\ L[a].msg = k
      BY <2>1 DEF LogOK, W
    <3> QED BY <1>1, <3>1
  <2>2. CASE x = c /\ k = j + 1
    BY <1>1, <1>m, <2>2
  <2>3. k \in 1..Len(wr[x]) \/ (x = c /\ k = j + 1)
    <3>1. CASE x = c
      <4>1. k \in 1..(j + 1)
        BY <1>2, <3>1
      <4>2. Len(wr[x]) = j
        BY <3>1 DEF j
      <4> QED BY <1>1, <3>1, <4>1, <4>2
    <3>2. CASE x # c
      BY <1>2, <3>2
    <3> QED BY <3>1, <3>2
  <2> QED BY <2>1, <2>2, <2>3
<1>7. ASSUME NEW x \in Reliable
      PROVE  Len(wr2[x]) <= Len(M) /\ \A k \in 1..Len(wr2[x]) : wr2[x][k] = k
  <2>1. Len(wr[x]) <= W /\ \A k \in 1..Len(wr[x]) : wr[x][k] = k
    BY DEF LogOK, W
  <2>2. CASE x = c
    <3>1. Len(wr[x]) = j /\ Len(wr2[x]) = j + 1
      BY <1>2, <2>2 DEF j
    <3>2. j + 1 <= W + 1
      BY <1>1, <2>1, <3>1
    <3>3. ASSUME NEW k \in 1..(j + 1) PROVE wr2[x][k] = k
      <4>1. k \in 1..j \/ k = j + 1
        BY <1>1
      <4> QED BY <1>2, <2>1, <2>2, <3>1, <4>1
    <3> QED BY <1>1, <3>1, <3>2, <3>3
  <2>3. CASE x # c
    <3>1. wr2[x] = wr[x]
      BY <1>2, <2>3
    <3>2. Len(wr[x]) \in Nat
      BY <1>k
    <3>3. Len(wr[x]) <= Len(M)
      BY <1>1, <2>1, <3>2
    <3> QED BY <2>1, <3>1, <3>3
  <2> QED BY <2>2, <2>3
<1>8. Len(M) <= max
  BY <1>1, <1>m
<1>9. LogOK(M, wr2, max)
  BY <1>4, <1>5, <1>6, <1>7, <1>8 DEF LogOK
<1> QED BY <1>9 DEF wr2

\* The peer of the writer has not seen the new record.
LEMMA ReceiverGrows ==
  ASSUME NEW L, NEW M, NEW rec, Longer(L, M, rec), NEW wr \in [Reliable -> Seq(Messages)],
         NEW rd \in [Reliable -> Seq(Messages)], NEW n \in Node, NEW r \in Nat,
         ReceiverOK(L, wr, rd, n, r), NEW c \in Reliable,
         rec.chan = c, rec.msg = Len(wr[c]) + 1, rec.msg \in Messages
  PROVE  ReceiverOK(M, [wr EXCEPT ![c] = Append(@, rec.msg)], rd, n, r)
<1> DEFINE wr2 == [wr EXCEPT ![c] = Append(@, rec.msg)]
           W == Len(L)
<1>1. /\ W \in Nat /\ Len(M) = W + 1 /\ M[W + 1] = rec
      /\ \A a \in 1..Len(M) : a \in 1..W \/ a = W + 1
      /\ \A a \in 1..W : M[a] = L[a]
  BY LongerRange DEF Longer
<1>2. r <= W /\ n.rx_next = Sq(r)
  BY DEF ReceiverOK
<1>3. r <= Len(M)
  BY <1>1, <1>2
<1>4. ASSUME NEW x \in Reliable PROVE ChanOK(M, wr2[x], rd[x], n.rxq[x], x \in n.used, x, r)
  <2> DEFINE j == Len(rd[x]) + Len(n.rxq[x])
             i == Len(wr[x])
  <2>0. n.rxq[x] \in Seq(Messages) /\ rd[x] \in Seq(Messages) /\ wr[x] \in Seq(Messages)
    BY DEF Node, Chans
  <2>1. j \in Nat /\ i \in Nat
    BY <2>0
  <2>2. ChanOK(L, wr[x], rd[x], n.rxq[x], x \in n.used, x, r)
    BY DEF ReceiverOK
  <2>3. j <= i
    BY <2>2 DEF ChanOK
  <2>4. Len(wr2[x]) \in Nat /\ i <= Len(wr2[x])
    <3>1. CASE x = c
      <4>1. wr2[x] = Append(wr[x], rec.msg)
        BY <3>1
      <4>2. Len(Append(wr[x], rec.msg)) = i + 1
        BY <2>0, AppendProperties
      <4> HIDE DEF i
      <4> QED BY <2>1, <4>1, <4>2
    <3>2. CASE x # c
      <4>1. wr2[x] = wr[x]
        BY <3>2
      <4> QED BY <2>1, <4>1
    <3> QED BY <3>1, <3>2
  <2>5. j <= Len(wr2[x])
    <3> HIDE DEF i, j
    <3> QED BY <2>1, <2>3, <2>4
  <2>6. ASSUME x \in n.used, NEW a \in 1..Len(M), M[a].chan = x
        PROVE  M[a].msg <= j <=> a <= r
    <3>1. CASE a \in 1..W
      BY <1>1, <2>2, <2>6, <3>1 DEF ChanOK
    <3>2. CASE a = W + 1
      <4>1. M[a] = rec /\ x = c
        BY <1>1, <2>6, <3>2
      <4>2. rec.msg = i + 1
        BY <4>1
      <4>3. ~(M[a].msg <= j) /\ ~(a <= r)
        <5> HIDE DEF i, j, W
        <5> QED BY <1>1, <1>2, <2>1, <2>3, <3>2, <4>1, <4>2
      <4> QED BY <4>3
    <3> QED BY <1>1, <3>1, <3>2
  <2> HIDE DEF wr2
  <2> QED BY <2>2, <2>5, <2>6 DEF ChanOK
<1>5. ReceiverOK(M, wr2, rd, n, r)
  BY <1>2, <1>3, <1>4 DEF ReceiverOK
<1> QED BY <1>5

\* The record is put into the slot of the number it has.
Stored(n, rec) == [n EXCEPT !.txw[n.next % Window] = rec, !.next = Inc(@)]

\* The new record takes a slot of its own.
LEMMA SenderGrows ==
  ASSUME NEW L, NEW M, NEW rec \in Record, Longer(L, M, rec), NEW n \in Node, NEW b \in Nat, NEW u \in Nat,
         SenderOK(L, n, b, u), Dist(n.base, n.next) < Window,
         NEW m, m = Stored(n, rec)
  PROVE  m \in Node /\ SenderOK(M, m, b, u) /\ m.rx_next = n.rx_next /\ m.rxq = n.rxq /\ m.used = n.used
<1> DEFINE W == Len(L)
           t == [n.txw EXCEPT ![n.next % Window] = rec]
<1>1. /\ W \in Nat /\ Len(M) = W + 1 /\ M[W + 1] = rec
      /\ \A a \in 1..Len(M) : a \in 1..W \/ a = W + 1
      /\ \A a \in 1..W : M[a] = L[a]
  BY LongerRange DEF Longer
<1>2. /\ b <= u /\ u <= W /\ W - b <= Window /\ n.base = Sq(b) /\ n.unsent = Sq(u) /\ n.next = Sq(W)
      /\ \A a \in 1..W : b < a => n.txw[Sq(a - 1) % Window] = L[a]
      /\ \A k \in 1..Len(n.txu) : ~n.txu[k].rel /\ n.txu[k].chan \in Unreliable
      /\ n.state = "CONNECTING" => n.retries <= Retries
  BY DEF SenderOK
<1> HIDE DEF W
<1>3. W - b < Window
  <2>1. b <= W /\ W - b < SeqMod
    BY <1>1, <1>2, Sizes
  <2>2. Dist(Sq(b), Sq(W)) = W - b
    BY <1>1, <2>1, DistUp
  <2> QED BY <1>2, <2>2
<1>4. n.next % Window \in Slots /\ Inc(n.next) = Sq(W + 1) /\ Sq(W + 1) \in Seqs
  <2>1. Sq(W) % Window \in Slots
    BY <1>1, SlotOf
  <2>2. (Sq(W) + 1) % SeqMod = Sq(W + 1)
    BY <1>1, SqAdd
  <2>3. W + 1 \in Nat
    BY <1>1
  <2> QED BY <1>2, <2>1, <2>2, <2>3, SqType DEF Inc
<1>5. /\ t \in [Slots -> Record \cup {<<>>}] /\ t[n.next % Window] = rec
      /\ \A s \in Slots : s # n.next % Window => t[s] = n.txw[s]
  BY <1>4 DEF Node
<1>6. m = [n EXCEPT !.txw = t, !.next = Inc(n.next)]
  BY <1>4 DEF Node, Stored
<1> HIDE DEF t
<1>7. /\ m \in Node /\ m.base = n.base /\ m.next = Sq(W + 1) /\ m.unsent = n.unsent
      /\ m.state = n.state /\ m.retries = n.retries
      /\ m.txw = t /\ m.txu = n.txu /\ m.rx_next = n.rx_next /\ m.rxq = n.rxq
      /\ m.used = n.used
  <2>1. /\ m.base = n.base /\ m.next = Inc(n.next) /\ m.unsent = n.unsent
        /\ m.state = n.state /\ m.retries = n.retries
        /\ m.txw = t /\ m.txu = n.txu /\ m.rx_next = n.rx_next /\ m.rxq = n.rxq
        /\ m.used = n.used
    BY <1>6 DEF Node
  <2>2. m \in Node
    <3>1. Inc(n.next) \in Seqs /\ t \in [Slots -> Record \cup {<<>>}]
      BY <1>4, <1>5
    <3> QED BY <1>6, <3>1 DEF Node
  <2> QED BY <1>4, <2>1, <2>2
<1>8. ASSUME NEW a \in 1..Len(M), b < a PROVE m.txw[Sq(a - 1) % Window] = M[a]
  <2>1. CASE a = W + 1
    <3>1. a - 1 = W
      BY <1>1, <2>1
    <3> QED BY <1>1, <1>2, <1>5, <1>7, <2>1, <3>1
  <2>2. CASE a \in 1..W
    <3>0. Window \in Nat
      BY Sizes
    <3>1. a - 1 \in Nat /\ a - 1 < W /\ W - (a - 1) < Window
      BY <1>1, <1>3, <1>8, <2>2, <3>0
    <3>2. Sq(a - 1) % Window # Sq(W) % Window
      BY <1>1, <3>1, SlotsDiffer
    <3>3. Sq(a - 1) % Window \in Slots
      BY <3>1, SlotOf
    <3>4. m.txw[Sq(a - 1) % Window] = n.txw[Sq(a - 1) % Window]
      BY <1>2, <1>5, <1>7, <3>2, <3>3
    <3> QED BY <1>1, <1>2, <1>8, <2>2, <3>4
  <2> QED BY <1>1, <2>1, <2>2
<1>9. u <= Len(M) /\ Len(M) - b <= Window
  BY <1>1, <1>2, <1>3, Sizes
<1>10. SenderOK(M, m, b, u)
  BY <1>1, <1>2, <1>7, <1>8, <1>9 DEF SenderOK
<1> QED BY <1>7, <1>10

LEMMA PacketGrows ==
  ASSUME NEW e \in Ends, NEW lg, NEW rec, NEW M, Longer(lg[e], M, rec),
         NEW lg2, lg2[e] = M, lg2[Peer(e)] = lg[Peer(e)], NEW r \in Nat,
         NEW p \in Packet, PacketOK(lg, p, r)
  PROVE  PacketOK(lg2, p, r)
<1> DEFINE to == p.to
           fr == Peer(p.to)
<1>1. p.to \in Ends /\ Peer(p.to) \in Ends /\ (p.to = e \/ p.to = Peer(e)) /\ Peer(Peer(e)) = e
  BY EndsAre DEF Packet
<1>2. PICK w \in 0..Len(lg[Peer(p.to)]), v \in 0..Len(lg[p.to]) :
        /\ p.born = w + v
        /\ p.kind = "DATA" => /\ \E a \in 0..r : p.ack = Sq(a) /\ v - a <= Window
                              /\ RecordsOK(lg[Peer(p.to)], w, p.recs)
  BY DEF PacketOK
<1>3. /\ Len(lg[e]) \in Nat /\ Len(M) \in Nat /\ \A x \in 0..Len(lg[e]) : x \in 0..Len(M)
      /\ \A a \in 1..Len(lg[e]) : M[a] = lg[e][a]
  BY LongerRange DEF Longer
<1>4. v \in 0..Len(lg2[p.to]) /\ w \in 0..Len(lg2[Peer(p.to)])
  BY <1>1, <1>2, <1>3
<1>5. ASSUME p.kind = "DATA" PROVE RecordsOK(lg2[Peer(p.to)], w, p.recs)
  <2>1. RecordsOK(lg[Peer(p.to)], w, p.recs)
    BY <1>2, <1>5
  <2>2. \A a \in 1..w : lg2[Peer(p.to)][a] = lg[Peer(p.to)][a]
    <3>1. CASE Peer(p.to) = e
      <4>1. \A a \in 1..w : a \in 1..Len(lg[e])
        BY <1>2, <1>3, <3>1
      <4> QED BY <1>3, <3>1, <4>1
    <3>2. CASE Peer(p.to) = Peer(e)
      BY <3>2
    <3> QED BY <1>1, <3>1, <3>2
  <2> QED BY <2>1, <2>2 DEF RecordsOK, RecordOK
<1> QED BY <1>2, <1>4, <1>5 DEF PacketOK

LEMMA WriteReliableKeeps ==
  ASSUME Inv, NEW e \in Ends, NEW c \in Reliable, WriteReliable(e, c)
  PROVE  Inv'
<1>1. PICK B \in [Ends -> Nat], U \in [Ends -> Nat], R \in [Ends -> Nat] : Good(B, U, R)
  BY DEF Inv
<1> DEFINE n == node[e]
           rec == [chan |-> c, rel |-> TRUE, seq |-> n.next, msg |-> Len(written[e][c]) + 1]
           m == [n EXCEPT !.txw[n.next % Window] = rec, !.next = Inc(@)]
           L == log[e]
           M == Append(L, rec)
           wr == written[e]
           wr2 == [wr EXCEPT ![c] = Append(@, rec.msg)]
<1>2. /\ TypeOK /\ n \in Node /\ NodeOK(e, n, B[e], U[e], R[Peer(e)])
      /\ NodeOK(Peer(e), node[Peer(e)], B[Peer(e)], U[Peer(e)], R[e]) /\ Peer(e) \in Ends
      /\ LogOK(L, wr, MaxWrites[e]) /\ L \in Seq(Record) /\ Len(L) \in Nat
      /\ wr \in [Reliable -> Seq(Messages)] /\ read[Peer(e)] \in [Reliable -> Seq(Messages)]
      /\ B[e] \in Nat /\ U[e] \in Nat /\ R[e] \in Nat
  <2>1. TypeOK /\ Peer(e) \in Ends /\ Peer(Peer(e)) = e
    BY <1>1, EndsAre DEF Good
  <2>2. /\ NodeOK(e, n, B[e], U[e], R[Peer(e)])
        /\ NodeOK(Peer(e), node[Peer(e)], B[Peer(e)], U[Peer(e)], R[e])
        /\ LogOK(L, wr, MaxWrites[e])
    BY <1>1, <2>1 DEF Good
  <2>3. n \in Node /\ L \in Seq(Record)
    BY <2>1 DEF TypeOK
  <2>4. wr \in [Reliable -> Seq(Messages)] /\ read[Peer(e)] \in [Reliable -> Seq(Messages)]
    BY <2>1 DEF TypeOK
  <2>5. Len(L) \in Nat
    BY <2>1, LogSizes
  <2> QED BY <2>1, <2>2, <2>3, <2>4, <2>5
<1>3. /\ Len(L) < MaxWrites[e] /\ Dist(n.base, n.next) < Window /\ Become(e, m)
      /\ log' = [log EXCEPT ![e] = Append(@, rec)]
      /\ written' = [written EXCEPT ![e][c] = Append(@, rec.msg)]
      /\ UNCHANGED <<net, read, rare>>
  BY DEF WriteReliable
<1>4. SenderOK(L, n, B[e], U[e]) /\ n.next = Sq(Len(L))
  BY <1>2 DEF NodeOK, SenderOK
<1>5. rec.msg \in Messages /\ rec \in Record
  <2>1. Len(wr[c]) \in Nat /\ Len(wr[c]) <= Len(L) /\ MaxWrites[e] \in Nat
    BY <1>2, SomeMessages DEF LogOK
  <2>2. Len(wr[c]) + 1 \in 0..MaxWrites[e]
    <3> DEFINE x == Len(wr[c])
               y == Len(L)
    <3>1. x \in Nat /\ y \in Nat /\ MaxWrites[e] \in Nat /\ x <= y /\ y < MaxWrites[e]
      BY <1>2, <1>3, <2>1
    <3> HIDE DEF x, y
    <3>2. x + 1 \in 0..MaxWrites[e]
      BY <3>1
    <3> QED BY <3>2 DEF x
  <2>3. Len(wr[c]) + 1 \in Messages
    BY <2>2, SomeMessages
  <2>4. n.next \in Seqs /\ c \in Chans
    BY <1>2 DEF Node, Chans
  <2> QED BY <2>3, <2>4 DEF Record
<1>f. rec.rel /\ rec.chan = c /\ rec.seq = Sq(Len(L)) /\ rec.msg = Len(wr[c]) + 1
  BY <1>4
<1>6. log' = [log EXCEPT ![e] = M]
  BY <1>2, <1>3 DEF TypeOK
<1>7. written' = [written EXCEPT ![e] = wr2]
  BY <1>2, <1>3 DEF TypeOK
<1>8. Longer(L, M, rec) /\ M \in Seq(Record)
  <2> HIDE DEF rec, L
  <2> QED BY <1>2, <1>5, LongerBy
<1>9. m \in Node /\ SenderOK(M, m, B[e], U[e]) /\ m.rx_next = n.rx_next /\ m.rxq = n.rxq /\ m.used = n.used
  <2>1. m = Stored(n, rec)
    BY DEF Stored
  <2> HIDE DEF rec, L, M, n, m
  <2> QED BY <1>2, <1>3, <1>4, <1>5, <1>8, <2>1, SenderGrows
<1>10. LogOK(M, wr2, MaxWrites[e])
  <2>1. MaxWrites[e] \in Nat
    BY SomeMessages
  <2> HIDE DEF rec, L, M, wr
  <2> QED BY <1>2, <1>3, <1>5, <1>f, <1>8, <2>1, LogGrows
<1>11. ReceiverOK(M, wr2, read[Peer(e)], node[Peer(e)], R[e]) /\ node[Peer(e)] \in Node
  <2>1. ReceiverOK(L, wr, read[Peer(e)], node[Peer(e)], R[e]) /\ node[Peer(e)] \in Node
    BY <1>2, EndsAre DEF NodeOK
  <2> HIDE DEF rec, L, M, wr
  <2> QED BY <1>2, <1>5, <1>f, <1>8, <2>1, ReceiverGrows
<1>12. wr2 \in [Reliable -> Seq(Messages)]
  <2> HIDE DEF rec, wr
  <2>1. wr[c] \in Seq(Messages)
    BY <1>2
  <2>2. Append(wr[c], rec.msg) \in Seq(Messages)
    BY <1>5, <2>1, AppendProperties
  <2> QED BY <1>2, <2>2
<1>13. /\ log'[e] = M /\ log'[Peer(e)] = log[Peer(e)]
       /\ written'[e] = wr2 /\ written'[Peer(e)] = written[Peer(e)]
       /\ node'[e] = m /\ node'[Peer(e)] = node[Peer(e)]
       /\ log' \in [Ends -> Seq(Record)] /\ written' \in [Ends -> [Reliable -> Seq(Messages)]]
       /\ node' \in [Ends -> Node] /\ Peer(e) # e /\ Peer(Peer(e)) = e
  <2>1. node' = [node EXCEPT ![e] = m] /\ log \in [Ends -> Seq(Record)] /\ node \in [Ends -> Node]
          /\ written \in [Ends -> [Reliable -> Seq(Messages)]]
    BY <1>2, <1>3 DEF Become, TypeOK
  <2>2. Peer(e) # e /\ Peer(Peer(e)) = e
    BY EndsAre
  <2> HIDE DEF m, M, wr2
  <2> QED BY <1>2, <1>6, <1>7, <1>8, <1>9, <1>12, <2>1, <2>2
<1>14. SenderOK(L, n, B[e], U[e]) /\ ReceiverOK(log[Peer(e)], written[Peer(e)], read[e], n, R[Peer(e)])
  BY <1>2 DEF NodeOK
<1> HIDE DEF m, M, wr2, rec, n
<1>15. TypeOK'
  BY <1>2, <1>3, <1>13 DEF TypeOK
<1>16. ASSUME NEW x \in Ends PROVE LogOK(log'[x], written'[x], MaxWrites[x])
  <2>1. CASE x = e
    BY <1>10, <1>13, <2>1
  <2>2. CASE x = Peer(e)
    BY <1>1, <1>13, <2>2 DEF Good
  <2> QED BY <2>1, <2>2, EndsAre
<1>17. ASSUME NEW x \in Ends PROVE NodeOK(x, node[x], B[x], U[x], R[Peer(x)])'
  <2>1. CASE x = e
    <3>1. ReceiverOK(log[Peer(e)], written[Peer(e)], read[e], m, R[Peer(e)])
      BY <1>9, <1>14 DEF ReceiverOK
    <3> QED BY <1>3, <1>9, <1>13, <2>1, <3>1 DEF NodeOK
  <2>2. CASE x = Peer(e)
    <3>1. SenderOK(log[x], node[x], B[x], U[x])
      BY <1>2, <2>2 DEF NodeOK
    <3> QED BY <1>3, <1>11, <1>13, <2>2, <3>1 DEF NodeOK
  <2> QED BY <2>1, <2>2, EndsAre
<1>18. ASSUME NEW p \in net PROVE PacketOK(log', p, R[p.to])
  <2>1. p \in Packet /\ p.to \in Ends /\ PacketOK(log, p, R[p.to]) /\ R[p.to] \in Nat
    BY <1>1, <1>2 DEF Good, TypeOK, Packet
  <2> QED BY <1>8, <1>13, <2>1, PacketGrows
<1>19. \A x \in Ends : B[x] <= R[x]
  BY <1>1 DEF Good
<1>20. Good(B, U, R)'
  BY <1>3, <1>15, <1>16, <1>17, <1>18, <1>19 DEF Good
<1> QED BY <1>20 DEF Inv

\* mc_read moves the head of the queue to what was read.
LEMMA ChanRead ==
  ASSUME NEW L, NEW wr, NEW rd \in Seq(Messages), NEW q \in Seq(Messages), NEW open, NEW c, NEW r,
         ChanOK(L, wr, rd, q, open, c, r), q # <<>>
  PROVE  /\ ChanOK(L, wr, Append(rd, Head(q)), Tail(q), open, c, r)
         /\ Head(q) = Len(rd) + 1 /\ Len(rd) + 1 <= Len(wr)
<1> DEFINE rd2 == Append(rd, Head(q))
           q2 == Tail(q)
           i == Len(rd)
           j == Len(q)
<1>1. /\ i \in Nat /\ j \in Nat /\ j > 0 /\ Head(q) = q[1] /\ Head(q) \in Messages
      /\ Len(q2) = j - 1 /\ \A k \in 1..(j - 1) : q2[k] = q[k + 1]
  BY HeadTailProperties, LenProperties, EmptySeq
<1>2. Len(rd2) = i + 1 /\ rd2[i + 1] = Head(q) /\ \A k \in 1..i : rd2[k] = rd[k]
  BY <1>1, AppendProperties
<1>3. /\ i + j <= Len(wr) /\ \A k \in 1..i : rd[k] = k
      /\ \A k \in 1..j : q[k] = i + k
      /\ open => \A a \in 1..Len(L) : L[a].chan = c => (L[a].msg <= i + j <=> a <= r)
  BY DEF ChanOK
<1> HIDE DEF rd2, q2, i, j
<1>4. Head(q) = i + 1
  BY <1>1, <1>3
<1>5. Len(rd2) + Len(q2) = i + j
  BY <1>1, <1>2
<1>6. \A k \in 1..Len(rd2) : rd2[k] = k
  <2>1. \A k \in 1..Len(rd2) : k \in 1..i \/ k = i + 1
    BY <1>1, <1>2
  <2> QED BY <1>2, <1>3, <1>4, <2>1
<1>7. \A k \in 1..Len(q2) : q2[k] = Len(rd2) + k
  <2>1. \A k \in 1..Len(q2) : k \in 1..(j - 1) /\ k + 1 \in 1..j /\ i + (k + 1) = (i + 1) + k
    BY <1>1
  <2> QED BY <1>1, <1>2, <1>3, <2>1
<1>8. ChanOK(L, wr, rd2, q2, open, c, r)
  BY <1>3, <1>5, <1>6, <1>7 DEF ChanOK
<1>9. i + j <= Len(wr) => i + 1 <= Len(wr)
  <2>1. CASE j = 1
    BY <2>1
  <2>2. CASE j > 1
    BY <1>1, <2>2
  <2> QED BY <1>1, <2>1, <2>2
<1> QED BY <1>3, <1>4, <1>8, <1>9 DEF rd2, q2, i

LEMMA ReadKeeps ==
  ASSUME Inv, NEW e \in Ends, NEW c \in Chans, Read(e, c)
  PROVE  Inv'
<1>1. PICK B \in [Ends -> Nat], U \in [Ends -> Nat], R \in [Ends -> Nat] : Good(B, U, R)
  BY DEF Inv
<1> DEFINE n == node[e]
           q == n.rxq[c]
           m == [n EXCEPT !.rxq[c] = Tail(@)]
           L == log[Peer(e)]
           W == written[Peer(e)]
           rd == read[e]
           rd2 == IF c \in Reliable THEN [rd EXCEPT ![c] = Append(@, Head(q))] ELSE rd
           rxq == [n.rxq EXCEPT ![c] = Tail(q)]
<1>2. /\ TypeOK /\ node \in [Ends -> Node] /\ read \in [Ends -> [Reliable -> Seq(Messages)]]
      /\ NodeOK(e, n, B[e], U[e], R[Peer(e)])
  BY <1>1 DEF Good, TypeOK
<1>3. /\ n \in Node /\ rd \in [Reliable -> Seq(Messages)] /\ n.rxq \in [Chans -> Seq(Messages)]
      /\ q \in Seq(Messages)
  BY <1>2 DEF Node
<1>4. Become(e, m) /\ q # <<>> /\ UNCHANGED <<net, written, log, rare>>
  BY DEF Read
<1>5. read' = [read EXCEPT ![e] = rd2]
  <2>1. CASE c \in Reliable
    <3>1. read' = [read EXCEPT ![e][c] = Append(@, Head(q))]
      BY <2>1 DEF Read
    <3>2. rd2 = [rd EXCEPT ![c] = Append(@, Head(q))]
      BY <2>1
    <3> HIDE DEF q, rd2
    <3> QED BY <1>2, <3>1, <3>2
  <2>2. CASE c \notin Reliable
    <3>1. read' = read /\ rd2 = rd
      BY <2>2 DEF Read
    <3> HIDE DEF rd2
    <3> QED BY <1>2, <3>1
  <2> QED BY <2>1, <2>2
<1>6. Tail(q) \in Seq(Messages) /\ Head(q) \in Messages
  BY <1>3, <1>4, HeadTailProperties
<1>7. m = [n EXCEPT !.rxq = rxq]
  BY <1>3 DEF Node
<1>s. n.rxq[c] = q
  OBVIOUS
<1> HIDE DEF q, m
<1>8. /\ rxq \in [Chans -> Seq(Messages)] /\ rxq[c] = Tail(q)
      /\ \A x \in Chans : x # c => rxq[x] = n.rxq[x]
  BY <1>3, <1>6
<1>9. /\ rd2 \in [Reliable -> Seq(Messages)]
      /\ c \in Reliable => rd2[c] = Append(rd[c], Head(q))
      /\ \A x \in Reliable : x # c => rd2[x] = rd[x]
  <2> HIDE DEF rd
  <2>1. CASE c \in Reliable
    <3>1. rd[c] \in Seq(Messages)
      BY <1>3, <2>1
    <3>2. Append(rd[c], Head(q)) \in Seq(Messages)
      BY <1>6, <3>1, AppendProperties
    <3> QED BY <1>3, <2>1, <3>2
  <2>2. CASE c \notin Reliable
    BY <1>3, <2>2
  <2> QED BY <2>1, <2>2
<1> HIDE DEF rxq, rd2
<1>10. /\ m \in Node /\ m.base = n.base /\ m.next = n.next /\ m.unsent = n.unsent
       /\ m.state = n.state /\ m.retries = n.retries
       /\ m.txw = n.txw /\ m.txu = n.txu /\ m.rx_next = n.rx_next /\ m.rxq = rxq
       /\ m.used = n.used
  BY <1>3, <1>7, <1>8 DEF Node
<1>11. SenderOK(log[e], m, B[e], U[e])
  BY <1>2, <1>10 DEF NodeOK, SenderOK
<1>12. ReceiverOK(L, W, rd2, m, R[Peer(e)])
  <2>0. ReceiverOK(L, W, rd, n, R[Peer(e)])
    BY <1>2 DEF NodeOK
  <2>1. ASSUME NEW x \in Reliable
        PROVE  ChanOK(L, W[x], rd2[x], m.rxq[x], x \in m.used, x, R[Peer(e)])
    <3>1. ChanOK(L, W[x], rd[x], n.rxq[x], x \in n.used, x, R[Peer(e)])
      BY <2>0 DEF ReceiverOK
    <3>2. CASE x = c
      <4>1. rd2[x] = Append(rd[x], Head(q)) /\ m.rxq[x] = Tail(q) /\ n.rxq[x] = q
        BY <1>8, <1>9, <1>10, <1>s, <3>2
      <4>2. rd[x] \in Seq(Messages)
        BY <1>3
      <4>3. ChanOK(L, W[x], Append(rd[x], Head(q)), Tail(q), x \in n.used, x, R[Peer(e)])
        <5> HIDE DEF L, W, rd, n
        <5> QED BY <1>3, <1>4, <3>1, <4>1, <4>2, ChanRead
      <4> QED BY <1>10, <4>1, <4>3
    <3>3. CASE x # c
      <4>1. x \in Chans
        BY DEF Chans
      <4>2. rd2[x] = rd[x] /\ m.rxq[x] = n.rxq[x]
        BY <1>8, <1>9, <1>10, <3>3, <4>1
      <4> QED BY <1>10, <3>1, <4>2
    <3> QED BY <3>2, <3>3
  <2> QED BY <1>10, <2>0, <2>1 DEF ReceiverOK
<1>13. /\ node'[e] = m /\ node'[Peer(e)] = node[Peer(e)] /\ node' \in [Ends -> Node]
       /\ read'[e] = rd2 /\ read'[Peer(e)] = read[Peer(e)]
       /\ read' \in [Ends -> [Reliable -> Seq(Messages)]] /\ Peer(Peer(e)) = e /\ Peer(e) \in Ends
  <2>1. Peer(e) # e /\ Peer(Peer(e)) = e /\ Peer(e) \in Ends /\ node' = [node EXCEPT ![e] = m]
    BY <1>4, EndsAre DEF Become
  <2> HIDE DEF n, rd
  <2> QED BY <1>2, <1>5, <1>9, <1>10, <2>1
<1>14. TypeOK'
  BY <1>2, <1>4, <1>13 DEF TypeOK
<1>15. ASSUME NEW x \in Ends PROVE NodeOK(x, node[x], B[x], U[x], R[Peer(x)])'
  <2>1. CASE x = e
    BY <1>4, <1>10, <1>11, <1>12, <1>13, <2>1 DEF NodeOK
  <2>2. CASE x = Peer(e)
    <3>1. NodeOK(x, node[x], B[x], U[x], R[Peer(x)])
      BY <1>1 DEF Good
    <3> QED BY <1>4, <1>13, <2>2, <3>1 DEF NodeOK
  <2> QED BY <2>1, <2>2, EndsAre
<1>16. Good(B, U, R)'
  BY <1>1, <1>4, <1>14, <1>15 DEF Good
<1> QED BY <1>16 DEF Inv

-------------------------------------------------------------------------------
(* The invariant. *)

LEMMA DropKeeps ==
  ASSUME Inv, NEW p, Drop(p) \/ UNCHANGED vars
  PROVE  Inv'
<1>1. PICK B \in [Ends -> Nat], U \in [Ends -> Nat], R \in [Ends -> Nat] : Good(B, U, R)
  BY DEF Inv
<1>2. net' \subseteq net /\ UNCHANGED <<node, written, read, log, rare>>
  BY DEF Drop, vars, hist
<1>3. TypeOK'
  BY <1>1, <1>2 DEF Good, TypeOK
<1>4. \A e \in Ends : NodeOK(e, node[e], B[e], U[e], R[Peer(e)])'
  BY <1>1, <1>2 DEF Good, NodeOK
<1>5. Good(B, U, R)'
  BY <1>1, <1>2, <1>3, <1>4 DEF Good
<1> QED BY <1>5 DEF Inv

LEMMA Stepwise ==
  ASSUME Inv, [Next]_vars
  PROVE  Inv'
<1>1. CASE Connect \/ Reconnect
  BY <1>1, ConnectKeeps
<1>2. ASSUME NEW e \in Ends, NEW c \in Reliable, WriteReliable(e, c) PROVE Inv'
  BY <1>2, WriteReliableKeeps
<1>3. ASSUME NEW e \in Ends, NEW c \in Unreliable, WriteUnreliable(e, c) PROVE Inv'
  BY <1>3, WriteUnreliableKeeps
<1>4. ASSUME NEW e \in Ends, NEW c \in Chans, Read(e, c) PROVE Inv'
  BY <1>4, ReadKeeps
<1>5. ASSUME NEW e \in Ends, NEW c \in Chans, ChanClose(e, c) PROVE Inv'
  BY <1>5, ChanCloseKeeps
<1>6. ASSUME NEW e \in Ends, NEW p, FeedData(e, p) PROVE Inv'
  BY <1>6, FeedDataKeeps
<1>7. ASSUME NEW e \in Ends, Send(e) PROVE Inv'
  BY <1>7, ControlKeeps, SendDataKeeps DEF Send
<1>8. ASSUME NEW e \in Ends, ConnectTimer(e) \/ IdleTimer(e) \/ RetransmitTimer(e) \/ KeepaliveTimer(e)
      PROVE  Inv'
  BY <1>8, ConnectTimerKeeps, IdleTimerKeeps, RetransmitKeeps
<1>9. ASSUME NEW p, FeedSyn(p) \/ FeedSynack(p) \/ FeedAck(p) \/ Drop(p) PROVE Inv'
  BY <1>9, FeedSynKeeps, FeedSynackKeeps, FeedAckKeeps, DropKeeps
<1>10. CASE UNCHANGED vars
  BY <1>10, DropKeeps
<1> QED BY <1>1, <1>2, <1>3, <1>4, <1>5, <1>6, <1>7, <1>8, <1>9, <1>10 DEF Next

LEMMA Initial == Init => Inv
<1> SUFFICES ASSUME Init PROVE Inv
  OBVIOUS
<1> DEFINE Z == [e \in Ends |-> 0]
           n == [state |-> "CLOSED", syn |-> FALSE, synack |-> FALSE, ack |-> FALSE, retries |-> 0,
                 txw |-> [i \in Slots |-> <<>>], base |-> First, next |-> First, unsent |-> First,
                 armed |-> FALSE, attempts |-> 0, rx_next |-> First, ack_pending |-> FALSE,
                 txu |-> <<>>, rxq |-> [c \in Chans |-> <<>>], used |-> Chans]
<1>1. /\ First \in Seqs /\ 0 \in 0..(Retries + 1) /\ 0 \in 0..(Attempts + 1) /\ 0 \in 0..MaxRare
      /\ <<>> \in Seq(Record) /\ <<>> \in Seq(Messages) /\ Window \in Nat
  BY MicroAssumption
<1>2. First = Sq(0)
  <2>1. First \in Nat /\ First < SeqMod /\ SeqMod \in Int /\ SeqMod > 0 /\ First + 0 = First
    BY Sizes
  <2>2. First % SeqMod = First
    BY <2>1, SmallMod
  <2> QED BY <2>1, <2>2 DEF Sq
<1>3. n \in Node
  BY <1>1 DEF Node
<1>f. /\ n.base = First /\ n.next = First /\ n.unsent = First /\ n.rx_next = First /\ n.txu = <<>>
      /\ n.state = "CLOSED" /\ n.rxq = [c \in Chans |-> <<>>]
  OBVIOUS
<1>g. node = [e \in Ends |-> n]
  BY DEF Init
<1> HIDE DEF n
<1>4. TypeOK
  BY <1>1, <1>3, <1>g DEF Init, TypeOK
<1>5. \A e \in Ends : /\ node[e] = n /\ log[e] = <<>> /\ Peer(e) \in Ends
                      /\ written[e] = [c \in Reliable |-> <<>>] /\ read[e] = [c \in Reliable |-> <<>>]
  BY <1>g, EndsAre DEF Init
<1>e. Len(<<>>) = 0 /\ \A x \in 1..Len(<<>>) : FALSE
  OBVIOUS
<1>6. ASSUME NEW e \in Ends PROVE LogOK(log[e], written[e], MaxWrites[e])
  <2> DEFINE W == [c \in Reliable |-> <<>>]
  <2>1. log[e] = <<>> /\ written[e] = W /\ \A c \in Reliable : W[c] = <<>>
    BY <1>5
  <2>2. 0 <= MaxWrites[e] /\ 0 <= 0
    BY SomeMessages
  <2> HIDE DEF W
  <2>3. LogOK(<<>>, W, MaxWrites[e])
    BY <1>e, <2>1, <2>2 DEF LogOK
  <2> QED BY <2>1, <2>3
<1>7. ASSUME NEW e \in Ends PROVE NodeOK(e, node[e], 0, 0, 0)
  <2>1. SenderOK(<<>>, n, 0, 0)
    <3>1. 0 <= 0 /\ 0 - 0 <= Window
      BY <1>1
    <3> QED BY <1>2, <1>e, <1>f, <3>1 DEF SenderOK
  <2>2. ASSUME NEW c \in Reliable PROVE ChanOK(<<>>, <<>>, <<>>, n.rxq[c], c \in n.used, c, 0)
    <3>1. n.rxq[c] = <<>> /\ 0 + 0 <= 0
      BY <1>f DEF Chans
    <3>2. ChanOK(<<>>, <<>>, <<>>, <<>>, c \in n.used, c, 0)
      BY <1>e, <3>1 DEF ChanOK
    <3> QED BY <3>1, <3>2
  <2>3. ReceiverOK(<<>>, [c \in Reliable |-> <<>>], [c \in Reliable |-> <<>>], n, 0)
    <3>1. 0 <= 0
      OBVIOUS
    <3> QED BY <1>2, <1>e, <1>f, <2>2, <3>1 DEF ReceiverOK
  <2> QED BY <1>3, <1>5, <2>1, <2>3 DEF NodeOK
<1>8. Z \in [Ends -> Nat] /\ \A e \in Ends : Z[e] = 0 /\ Z[Peer(e)] = 0
  BY EndsAre
<1>9. net = {}
  BY DEF Init
<1> HIDE DEF Z
<1>10. \A e \in Ends : NodeOK(e, node[e], Z[e], Z[e], Z[Peer(e)]) /\ Z[e] <= Z[e]
  BY <1>7, <1>8
<1>11. Good(Z, Z, Z)
  BY <1>4, <1>6, <1>9, <1>10 DEF Good
<1> QED BY <1>8, <1>11 DEF Inv

LEMMA Always == Spec => []Inv
<1>1. Inv /\ [Next]_vars => Inv'
  BY Stepwise
<1> QED BY <1>1, Initial, PTL DEF Spec

\* The counts of an end, seen through its 16-bit numbers.
LEMMA WindowFromInv == Inv => WindowSound
<1> SUFFICES ASSUME Inv PROVE WindowSound
  OBVIOUS
<1>1. PICK B \in [Ends -> Nat], U \in [Ends -> Nat], R \in [Ends -> Nat] : Good(B, U, R)
  BY DEF Inv
<1>2. TypeOK
  BY <1>1 DEF Good
<1>3. ASSUME NEW e \in Ends
      PROVE  LET n == node[e]
                 open == Dist(n.base, n.next)
             IN  /\ open <= Window
                 /\ Dist(n.base, n.unsent) <= open
                 /\ Dist(n.base, node[Peer(e)].rx_next) <= open
                 /\ \A i \in 0..(open - 1) :
                      n.txw[((n.base + i) % SeqMod) % Window].seq = (n.base + i) % SeqMod
  <2> DEFINE n == node[e]
             L == log[e]
             W == Len(L)
             b == B[e]
             u == U[e]
             r == R[e]
  <2>1. b \in Nat /\ u \in Nat /\ r \in Nat /\ b <= r /\ W \in Nat
    BY <1>1, <1>2, LogSizes DEF Good
  <2>2. SenderOK(L, n, b, u) /\ LogOK(L, written[e], MaxWrites[e])
    BY <1>1 DEF Good, NodeOK
  <2>3. node[Peer(e)].rx_next = Sq(r) /\ r <= W
    <3>1. Peer(e) \in Ends /\ Peer(Peer(e)) = e
      BY EndsAre
    <3>2. NodeOK(Peer(e), node[Peer(e)], B[Peer(e)], U[Peer(e)], r)
      BY <1>1, <3>1 DEF Good
    <3> QED BY <3>1, <3>2 DEF NodeOK, ReceiverOK
  <2>4. b <= u /\ u <= W /\ W - b <= Window /\ n.base = Sq(b) /\ n.unsent = Sq(u) /\ n.next = Sq(W)
    BY <2>2 DEF SenderOK
  <2> HIDE DEF b, u, r, n, W
  <2>5. /\ Window \in Nat /\ b <= W /\ W - b < SeqMod /\ u - b < SeqMod /\ r - b < SeqMod
        /\ u - b <= W - b /\ r - b <= W - b
    BY <2>1, <2>3, <2>4, Sizes
  <2>6. Dist(n.base, n.next) = W - b
    BY <2>1, <2>4, <2>5, DistUp
  <2>7. Dist(n.base, n.unsent) = u - b
    BY <2>1, <2>4, <2>5, DistUp
  <2>8. Dist(n.base, node[Peer(e)].rx_next) = r - b
    BY <2>1, <2>3, <2>4, <2>5, DistUp
  <2>9. ASSUME NEW i \in 0..((W - b) - 1)
        PROVE  n.txw[((n.base + i) % SeqMod) % Window].seq = (n.base + i) % SeqMod
    <3>1. i \in Nat /\ b + i + 1 \in 1..W /\ b < b + i + 1 /\ (b + i + 1) - 1 = b + i
      BY <2>1, <2>5
    <3>2. (n.base + i) % SeqMod = Sq(b + i)
      BY <2>1, <2>4, <3>1, SqAdd
    <3>3. n.txw[Sq((b + i + 1) - 1) % Window] = L[b + i + 1]
      BY <2>2, <3>1 DEF SenderOK, W
    <3>4. L[b + i + 1].seq = Sq((b + i + 1) - 1)
      BY <2>2, <3>1 DEF LogOK, W
    <3> QED BY <3>1, <3>2, <3>3, <3>4
  <2> QED BY <2>4, <2>5, <2>6, <2>7, <2>8, <2>9 DEF n
<1> QED BY <1>2, <1>3 DEF WindowSound

\* mc_write, mc_send_next, mc_feed and the timers keep the two ends of a connection in
\* agreement on the Go-Back-N window (WindowSound), whatever the network loses,
\* repeats or reorders, over any number of turns of the 16-bit numbers.
THEOREM WindowSoundHolds == Spec => []WindowSound
BY Always, WindowFromInv, PTL

-------------------------------------------------------------------------------
(* Every reliable channel is a Fifo. *)

Lanes == Ends \X Reliable
Sent == [l \in Lanes |-> written[l[1]][l[2]]]
Got == [l \in Lanes |-> read[Peer(l[1])][l[2]]]

\* mc_write adds to one lane.
LEMMA WritePuts ==
  ASSUME Inv, NEW e \in Ends, NEW c \in Reliable, WriteReliable(e, c)
  PROVE  Promise!Next
<1> DEFINE l == <<e, c>>
           m == Len(written[e][c]) + 1
<1>1. l \in Lanes
  BY DEF Lanes
<1>2. TypeOK /\ Inv'
  BY InvType, WriteReliableKeeps
<1>3. written \in [Ends -> [Reliable -> Seq(Messages)]]
  BY <1>2 DEF TypeOK
<1>4. written' = [written EXCEPT ![e][c] = Append(@, m)] /\ read' = read
  BY DEF WriteReliable
<1>5. m \in Messages
  <2>1. written' \in [Ends -> [Reliable -> Seq(Messages)]]
    BY <1>2 DEF Inv, Good, TypeOK
  <2>2. written[e][c] \in Seq(Messages) /\ written'[e][c] \in Seq(Messages)
    BY <1>3, <2>1
  <2>3. written'[e][c] = Append(written[e][c], m)
    BY <1>3, <1>4
  <2>4. Len(written[e][c]) \in Nat
    BY <2>2
  <2> HIDE DEF m
  <2>5. Append(written[e][c], m)[Len(written[e][c]) + 1] = m /\ Len(Append(written[e][c], m)) = Len(written[e][c]) + 1
    BY <2>2
  <2>6. Len(written[e][c]) + 1 \in 1..Len(written'[e][c])
    BY <2>3, <2>4, <2>5
  <2> QED BY <2>2, <2>3, <2>5, <2>6, ElementOfSeq
<1>6. Sent' = [Sent EXCEPT ![l] = Append(@, m)]
  <2>1. ASSUME NEW x \in Lanes PROVE Sent'[x] = [Sent EXCEPT ![l] = Append(@, m)][x]
    <3>1. x[1] \in Ends /\ x[2] \in Reliable /\ x = <<x[1], x[2]>>
      BY DEF Lanes
    <3>2. Sent[x] = written[x[1]][x[2]] /\ Sent'[x] = written'[x[1]][x[2]]
      BY DEF Sent
    <3>3. CASE x = l
      <4>1. x[1] = e /\ x[2] = c
        BY <3>3
      <4>2. written'[e][c] = Append(written[e][c], m)
        BY <1>3, <1>4
      <4> QED BY <3>2, <3>3, <4>1, <4>2 DEF Sent
    <3>4. CASE x # l
      <4>1. ~(x[1] = e /\ x[2] = c)
        BY <3>1, <3>4
      <4>2. written'[x[1]][x[2]] = written[x[1]][x[2]]
        BY <1>3, <1>4, <3>1, <4>1
      <4> QED BY <3>2, <3>4, <4>2 DEF Sent
    <3> QED BY <3>3, <3>4
  <2> QED BY <2>1 DEF Sent
<1>7. Got' = Got
  BY <1>4 DEF Got
<1>8. PICK k \in Messages : k = m
  BY <1>5
<1>9. Promise!Put(l, k)
  BY <1>6, <1>7, <1>8 DEF Promise!Put, Sent, Got, Lanes
<1>10. l \in Ends \X Reliable
  BY <1>1 DEF Lanes
<1> HIDE DEF l
<1> QED BY <1>9, <1>10 DEF Promise!Next

\* mc_read hands out the next message of one lane.
LEMMA ReadGets ==
  ASSUME Inv, NEW e \in Ends, NEW c \in Reliable, Read(e, c)
  PROVE  Promise!Next
<1>1. PICK B \in [Ends -> Nat], U \in [Ends -> Nat], R \in [Ends -> Nat] : Good(B, U, R)
  BY DEF Inv
<1> DEFINE f == Peer(e)
           l == <<f, c>>
           q == node[e].rxq[c]
           rd == read[e][c]
           wr == written[f][c]
<1>2. f \in Ends /\ Peer(f) = e /\ \A x \in Ends : Peer(x) = e => x = f
  BY EndsAre
<1>3. l \in Lanes
  BY <1>2 DEF Lanes
<1>4. /\ read \in [Ends -> [Reliable -> Seq(Messages)]]
      /\ written \in [Ends -> [Reliable -> Seq(Messages)]]
      /\ node[e].rxq \in [Chans -> Seq(Messages)]
  BY <1>1 DEF Good, TypeOK, Node
<1>5. rd \in Seq(Messages) /\ wr \in Seq(Messages) /\ q \in Seq(Messages) /\ q # <<>>
  BY <1>2, <1>4 DEF Read, Chans
<1>6. read' = [read EXCEPT ![e][c] = Append(@, Head(q))] /\ written' = written
  BY DEF Read
<1>7. ChanOK(log[f], wr, rd, q, c \in node[e].used, c, R[f])
  BY <1>1 DEF Good, NodeOK, ReceiverOK
<1>8. Head(q) = Len(rd) + 1 /\ Len(rd) + 1 <= Len(wr)
  <2> DEFINE open == c \in node[e].used
  <2>1. ChanOK(log[f], wr, rd, q, open, c, R[f])
    BY <1>7
  <2> HIDE DEF rd, wr, q, open, f
  <2> QED BY <1>5, <2>1, ChanRead
<1>9. Len(rd) \in Nat /\ Len(wr) \in Nat
  BY <1>5
<1>10. Head(q) = wr[Len(rd) + 1] /\ Len(rd) < Len(wr)
  <2>1. Len(rd) + 1 \in 1..Len(wr)
    BY <1>8, <1>9
  <2>2. \A k \in 1..Len(wr) : wr[k] = k
    BY <1>1, <1>2 DEF Good, LogOK
  <2> QED BY <1>8, <1>9, <2>1, <2>2
<1>11. Got[l] = rd /\ Sent[l] = wr /\ Sent' = Sent
  BY <1>2, <1>3, <1>6 DEF Got, Sent
<1>12. Got' = [Got EXCEPT ![l] = Append(@, Sent[l][Len(@) + 1])]
  <2>1. ASSUME NEW x \in Lanes PROVE Got'[x] = [Got EXCEPT ![l] = Append(@, Sent[l][Len(@) + 1])][x]
    <3>1. x[1] \in Ends /\ x[2] \in Reliable /\ x = <<x[1], x[2]>> /\ Peer(x[1]) \in Ends
      BY EndsAre DEF Lanes
    <3>2. Got[x] = read[Peer(x[1])][x[2]] /\ Got'[x] = read'[Peer(x[1])][x[2]]
      BY DEF Got
    <3>3. CASE x = l
      <4>1. Peer(x[1]) = e /\ x[2] = c
        BY <1>2, <3>3
      <4>2. read'[e][c] = Append(rd, Head(q))
        BY <1>4, <1>6
      <4>3. Got'[x] = Append(Got[l], Sent[l][Len(Got[l]) + 1])
        BY <1>10, <1>11, <3>2, <4>1, <4>2
      <4>4. l \in DOMAIN Got
        BY <1>3 DEF Got
      <4> QED BY <3>3, <4>3, <4>4
    <3>4. CASE x # l
      <4>1. ~(Peer(x[1]) = e /\ x[2] = c)
        BY <1>2, <3>1, <3>4
      <4>2. read'[Peer(x[1])][x[2]] = read[Peer(x[1])][x[2]]
        BY <1>4, <1>6, <3>1, <4>1
      <4>3. Got'[x] = Got[x] /\ x \in DOMAIN Got
        BY <3>2, <4>2 DEF Got
      <4> QED BY <3>4, <4>3
    <3> QED BY <3>3, <3>4
  <2> QED BY <2>1 DEF Got
<1>13. Len(Got[l]) < Len(Sent[l])
  BY <1>10, <1>11
<1>14. Promise!Get(l)
  BY <1>11, <1>12, <1>13 DEF Promise!Get, Sent, Got, Lanes
<1> QED BY <1>3, <1>14 DEF Promise!Next, Lanes

\* Nothing else touches what was written or read.
LEMMA OthersStutter ==
  ASSUME [Next]_vars
  PROVE  \/ \E e \in Ends, c \in Reliable : WriteReliable(e, c) \/ Read(e, c)
         \/ UNCHANGED <<written, read>>
<1>1. ASSUME NEW e, NEW k, NEW p, Arrives(e, k, p) PROVE UNCHANGED <<written, read>>
  BY <1>1 DEF Arrives, Rare, hist
<1>2. ASSUME NEW e \in Ends, NEW c \in Chans, Read(e, c), c \notin Reliable
      PROVE  UNCHANGED <<written, read>>
  BY <1>2 DEF Read
<1>3. CASE Connect \/ Reconnect
  BY <1>3 DEF Connect, Reconnect, Rare, hist
<1>4. ASSUME NEW e \in Ends, NEW c, WriteUnreliable(e, c) \/ ChanClose(e, c)
      PROVE  UNCHANGED <<written, read>>
  BY <1>4 DEF WriteUnreliable, ChanClose, Rare
<1>5. ASSUME NEW e \in Ends, Send(e) PROVE UNCHANGED <<written, read>>
  BY <1>5 DEF Send, SendSynack, SendAck, SendSyn, SendData, hist
<1>6. ASSUME NEW e \in Ends, ConnectTimer(e) \/ IdleTimer(e) \/ RetransmitTimer(e) \/ KeepaliveTimer(e)
      PROVE  UNCHANGED <<written, read>>
  BY <1>6 DEF ConnectTimer, IdleTimer, RetransmitTimer, KeepaliveTimer, Rare, hist
<1>7. ASSUME NEW e \in Ends, NEW p, FeedData(e, p) PROVE UNCHANGED <<written, read>>
  BY <1>1, <1>7 DEF FeedData
<1>8. ASSUME NEW p, FeedSyn(p) \/ FeedSynack(p) \/ FeedAck(p) \/ Drop(p) PROVE UNCHANGED <<written, read>>
  BY <1>1, <1>8 DEF FeedSyn, FeedSynack, FeedAck, Drop, hist
<1>9. CASE UNCHANGED vars
  BY <1>9 DEF vars, hist
<1> QED BY <1>2, <1>3, <1>4, <1>5, <1>6, <1>7, <1>8, <1>9 DEF Next

LEMMA StepOfFifo == Inv /\ [Next]_vars => [Promise!Next]_<<Sent, Got>>
<1> SUFFICES ASSUME Inv, [Next]_vars PROVE [Promise!Next]_<<Sent, Got>>
  OBVIOUS
<1>1. CASE \E e \in Ends, c \in Reliable : WriteReliable(e, c) \/ Read(e, c)
  BY <1>1, WritePuts, ReadGets
<1>2. CASE UNCHANGED <<written, read>>
  BY <1>2 DEF Sent, Got
<1> QED BY <1>1, <1>2, OthersStutter

LEMMA InitOfFifo == Init => Promise!Init
<1> SUFFICES ASSUME Init PROVE Promise!Init
  OBVIOUS
<1>1. \A l \in Ends \X Reliable : written[l[1]][l[2]] = <<>> /\ read[Peer(l[1])][l[2]] = <<>>
  BY EndsAre DEF Init
<1> QED BY <1>1 DEF Promise!Init

\* Every reliable channel is a FIFO (KeepsPromise): mc_read returns what the peer gave
\* to mc_write, in order and once, for every network that loses, repeats and reorders,
\* every resend of a window, every full queue and every revived connection.
THEOREM KeepsPromiseHolds == Spec => KeepsPromise
<1>1. Init => Promise!Init
  BY InitOfFifo
<1>2. Inv /\ [Next]_vars => [Promise!Next]_<<Sent, Got>>
  BY StepOfFifo
<1> QED BY <1>1, <1>2, Always, PTL DEF Spec, KeepsPromise, Promise!Spec, Sent, Got, Lanes
===============================================================================
