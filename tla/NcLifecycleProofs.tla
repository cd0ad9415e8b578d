--------------------------- MODULE NcLifecycleProofs ---------------------------
(***************************************************************************)
(* Channels opened and closed at both ends: the pool of channels leaks     *)
(* nothing, and the two ends mean the same channel by an identifier.       *)
(***************************************************************************)
EXTENDS NcLifecycle, NumberLemmas, FiniteSetTheorems, SequenceTheorems, TLAPS

\* The identifiers that an end opens, and the part it takes in such a channel.
Own(e) == {id \in Ids : id % 2 = IF e = "server" THEN 1 ELSE 0}
Side(dir) == IF dir = "SEND" THEN "sender" ELSE "receiver"
Turned(dir) == IF dir = "SEND" THEN "receiver" ELSE "sender"

\* What a frame of end q, whose connection is p, says of p.
FrameOf(q, p, f) ==
  /\ f \in Frame
  /\ f.kind = "OPEN" =>
       /\ f.id \in Own(q) /\ Has(p, f.id)
       /\ p.channels[f.id].type = f.type /\ p.channels[f.id].dir = f.dir
       /\ p.channels[f.id].role = Side(f.dir)
  /\ f.kind = "WINDOW" => Has(p, f.id) /\ p.channels[f.id].role = "receiver"

SlotsOf(c) ==
  /\ c.chan_used = {c.channels[id].slot : id \in {i \in Ids : Has(c, i)}}
  /\ \A i, j \in Ids :
       Has(c, i) /\ Has(c, j) /\ c.channels[i].slot = c.channels[j].slot => i = j

\* A channel of end e and what its peer p must know of it.
ChanOf(e, c, p, id) ==
  LET a == c.channels[id]
      b == p.channels[id]
  IN  /\ id \in Own(e) => a.role = Side(a.dir)
      /\ id \notin Own(e) => /\ b # NoChan /\ a.type = b.type /\ a.dir = b.dir
                             /\ a.role = Turned(a.dir)
      /\ a.role = "sender" /\ (a.state = 1 \/ a.credit) => b # NoChan /\ b.role = "receiver"

\* End e with connection c, beside a peer with connection p.
EndOK(e, c, p) ==
  /\ c \in Conn /\ Len(c.ctrl) <= CtrlCap /\ c.next_chan_id \in Own(e)
  /\ SlotsOf(c)
  /\ \A k \in 1..Len(c.ctrl) : FrameOf(e, c, c.ctrl[k])
  /\ \A id \in Ids : Has(c, id) => ChanOf(e, c, p, id)

\* The inductive invariant.
IInv ==
  /\ TypeOK /\ opens \in [Ends -> Nat]
  /\ \A e \in Ends : EndOK(e, conn[e], conn[Peer(e)])
  /\ \A e \in Ends : \A i \in 1..Len(net[e]) : \A k \in 1..Len(net[e][i].frames) :
       FrameOf(Peer(e), conn[Peer(e)], net[e][i].frames[k])

\* A channel is never freed, and keeps its slot, type, direction and role.
Grows(c, d) ==
  \A id \in Ids : Has(c, id) =>
    /\ Has(d, id)
    /\ d.channels[id].type = c.channels[id].type
    /\ d.channels[id].dir = c.channels[id].dir
    /\ d.channels[id].role = c.channels[id].role

-------------------------------------------------------------------------------
(* Operators. *)

LEMMA PeerIs ==
  /\ Peer("client") = "server" /\ Peer("server") = "client"
  /\ \A e \in Ends : Peer(e) \in Ends /\ Peer(e) # e /\ Peer(Peer(e)) = e
  /\ \A e, q \in Ends : q = e \/ q = Peer(e)
  BY DEF Peer, Ends

LEMMA ChanIsSome ==
  ASSUME NEW a \in Chan
  PROVE  a # NoChan
<1>1. DOMAIN a = {"slot", "type", "dir", "role", "state", "credit", "need_ack"}
  BY DEF Chan
<1>2. DOMAIN NoChan = {}
  BY DEF NoChan
<1> QED BY <1>1, <1>2

\* The least free slot of the pool.
LEMMA FreeSlot ==
  ASSUME NEW c \in Conn, ~Exhausted(c)
  PROVE  Min(Pool \ c.chan_used) \in Pool \ c.chan_used
<1> DEFINE T == Pool \ c.chan_used
<1>0. c.chan_used \subseteq Pool /\ c.chan_used # Pool
  BY DEF Conn, Exhausted
<1>1. T \in SUBSET Nat /\ T # {}
  <2>1. Pool \subseteq Nat
    BY LifecycleAssumption DEF Pool
  <2> QED BY <1>0, <2>1
<1> HIDE DEF T
<1>2. \E x \in T : \A y \in T : x <= y
  BY <1>1, LeastNatural
<1>3. Min(T) \in T
  BY <1>2 DEF Min
<1> QED BY <1>3 DEF T

\* The identifiers of an end keep their parity when the counter wraps.
LEMMA NextOwn ==
  ASSUME NEW e \in Ends, NEW id \in Own(e)
  PROVE  (id + 2) % IdMod \in Own(e)
<1> DEFINE b == IF e = "server" THEN 1 ELSE 0
<1>1. id \in Nat /\ id < IdMod /\ id % 2 = b /\ IdMod \in Nat /\ IdMod % 2 = 0 /\ IdMod > 0
  BY LifecycleAssumption DEF Own, Ids
<1>2. IdMod >= 2 /\ b \in {0, 1}
  BY <1>1
<1> HIDE DEF b
<1>3. CASE id + 2 < IdMod
  <2>1. (id + 2) % IdMod = id + 2
    BY <1>1, <1>3
  <2>2. (id + 2) % 2 = b /\ id + 2 \in Ids
    BY <1>1, <1>3 DEF Ids
  <2> QED BY <2>1, <2>2 DEF Own, b
<1>4. CASE id + 2 >= IdMod
  <2> DEFINE j == id + 2 - IdMod
  <2>1. j \in Nat /\ j < IdMod /\ id + 2 = j + IdMod
    BY <1>1, <1>2, <1>4
  <2>2. (j + IdMod) % IdMod = j
    <3>1. j % IdMod = j
      BY <1>1, <2>1
    <3> QED BY <1>1, <2>1, <3>1
  <2>3. j % 2 = b /\ j \in Ids
    BY <1>1, <2>1 DEF Ids
  <2> QED BY <2>1, <2>2, <2>3 DEF Own, b
<1> QED BY <1>1, <1>3, <1>4

LEMMA GrowsTrans ==
  ASSUME NEW c, NEW d, NEW x, Grows(c, d), Grows(d, x)
  PROVE  Grows(c, x)
  BY DEF Grows

LEMMA FrameStays ==
  ASSUME NEW q, NEW c, NEW d, NEW f, FrameOf(q, c, f), Grows(c, d)
  PROVE  FrameOf(q, d, f)
<1>1. f \in Frame /\ f.id \in Ids
  BY DEF FrameOf, Frame
<1> QED BY <1>1 DEF FrameOf, Grows

LEMMA PeerStays ==
  ASSUME NEW e, NEW c, NEW p, NEW x, EndOK(e, c, p), Grows(p, x)
  PROVE  EndOK(e, c, x)
<1>1. ASSUME NEW id \in Ids, Has(c, id) PROVE ChanOf(e, c, x, id)
  <2>1. ChanOf(e, c, p, id)
    BY <1>1 DEF EndOK
  <2> QED BY <2>1 DEF ChanOf, Grows, Has
<1> QED BY <1>1 DEF EndOK

\* A frame for the peer, kept or dropped.
LEMMA CtrlOK ==
  ASSUME NEW e, NEW c, NEW p, EndOK(e, c, p), NEW f, FrameOf(e, c, f)
  PROVE  LET d == Ctrl(c, f)
         IN  EndOK(e, d, p) /\ Grows(c, d) /\ d.channels = c.channels
<1> DEFINE d == [c EXCEPT !.ctrl = Append(@, f)]
<1>0. c \in Conn /\ f \in Frame
  BY DEF EndOK, FrameOf
<1>1. CASE Len(c.ctrl) < CtrlCap
  <2>1. Ctrl(c, f) = d
    BY <1>1 DEF Ctrl
  <2>2. c.ctrl \in Seq(Frame) /\ Append(c.ctrl, f) \in Seq(Frame)
    BY <1>0 DEF Conn
  <2>3. /\ d \in Conn /\ d.channels = c.channels /\ d.chan_used = c.chan_used
        /\ d.next_chan_id = c.next_chan_id /\ d.ctrl = Append(c.ctrl, f)
    BY <1>0, <2>2 DEF Conn
  <2> HIDE DEF d
  <2>4. Len(d.ctrl) = Len(c.ctrl) + 1 /\ Len(c.ctrl) \in Nat
    BY <2>2, <2>3
  <2>5. Len(d.ctrl) <= CtrlCap
    BY <1>1, <2>4, LifecycleAssumption
  <2>6. Grows(c, d)
    BY <2>3 DEF Grows, Has
  <2>7. ASSUME NEW k \in 1..Len(d.ctrl) PROVE FrameOf(e, d, d.ctrl[k])
    <3>1. CASE k \in 1..Len(c.ctrl)
      <4>1. d.ctrl[k] = c.ctrl[k]
        BY <2>2, <2>3, <3>1
      <4>2. FrameOf(e, c, c.ctrl[k])
        BY <3>1 DEF EndOK
      <4> QED BY <2>6, <4>1, <4>2, FrameStays
    <3>2. CASE k = Len(c.ctrl) + 1
      <4>1. d.ctrl[k] = f
        BY <2>2, <2>3, <3>2
      <4> QED BY <2>6, <4>1, FrameStays
    <3> QED BY <2>4, <3>1, <3>2
  <2>8. \A id \in Ids : Has(d, id) => ChanOf(e, d, p, id)
    BY <2>3 DEF EndOK, ChanOf, Has
  <2>9. SlotsOf(d) /\ d.next_chan_id \in Own(e)
    BY <2>3 DEF EndOK, SlotsOf, Has
  <2>10. EndOK(e, d, p)
    BY <2>3, <2>5, <2>7, <2>8, <2>9 DEF EndOK
  <2> QED BY <2>1, <2>3, <2>6, <2>10
<1>2. CASE ~(Len(c.ctrl) < CtrlCap)
  <2>1. Ctrl(c, f) = c
    BY <1>2 DEF Ctrl
  <2> QED BY <2>1 DEF Grows
<1> QED BY <1>1, <1>2

\* A channel of the connection changes its state, its credit or its need of an ACK.
LEMMA ChanSetOK ==
  ASSUME NEW e, NEW c, NEW p, EndOK(e, c, p), NEW d \in Conn, NEW id \in Ids, Has(c, id),
         d.chan_used = c.chan_used, d.next_chan_id = c.next_chan_id, d.ctrl = c.ctrl,
         \A i \in Ids : i # id => d.channels[i] = c.channels[i],
         LET a == c.channels[id]
             b == d.channels[id]
         IN  /\ b \in Chan /\ b.slot = a.slot /\ b.type = a.type /\ b.dir = a.dir
             /\ b.role = a.role
             /\ a.role = "sender" /\ (b.state = 1 \/ b.credit) =>
                  p.channels[id] # NoChan /\ p.channels[id].role = "receiver"
  PROVE  EndOK(e, d, p) /\ Grows(c, d)
<1>1. d.channels[id] # NoChan
  BY ChanIsSome
<1>2. \A i \in Ids : Has(d, i) <=> Has(c, i)
  BY <1>1 DEF Has
<1>3. Grows(c, d)
  BY <1>2 DEF Grows
<1>4. \A k \in 1..Len(d.ctrl) : FrameOf(e, d, d.ctrl[k])
  BY <1>3, FrameStays DEF EndOK
<1>5. \A i \in Ids : d.channels[i].slot = c.channels[i].slot
  OBVIOUS
<1>6. SlotsOf(d)
  <2>1. SlotsOf(c)
    BY DEF EndOK
  <2> QED BY <1>2, <1>5, <2>1 DEF SlotsOf
<1>7. ASSUME NEW i \in Ids, Has(d, i) PROVE ChanOf(e, d, p, i)
  <2>1. ChanOf(e, c, p, i)
    BY <1>2, <1>7 DEF EndOK
  <2>2. CASE i # id
    BY <2>1, <2>2 DEF ChanOf
  <2>3. CASE i = id
    BY <2>1, <2>3 DEF ChanOf
  <2> QED BY <2>2, <2>3
<1>8. EndOK(e, d, p)
  BY <1>4, <1>6, <1>7 DEF EndOK
<1> QED BY <1>3, <1>8

\* A new channel, in a free slot.
LEMMA ChanNewOK ==
  ASSUME NEW e, NEW c, NEW p, EndOK(e, c, p), NEW id \in Ids, ~Has(c, id), ~Exhausted(c),
         NEW type \in Types, NEW dir \in Dirs, NEW role \in {"sender", "receiver"},
         NEW state \in 0..3,
         id \in Own(e) => role = Side(dir),
         id \notin Own(e) => /\ Has(p, id) /\ p.channels[id].type = type
                             /\ p.channels[id].dir = dir /\ role = Turned(dir),
         role = "sender" /\ state = 1 => Has(p, id) /\ p.channels[id].role = "receiver"
  PROVE  LET d == ChanNew(c, id, type, dir, role, state)
         IN  /\ EndOK(e, d, p) /\ Grows(c, d)
             /\ Has(d, id) /\ d.channels[id].type = type /\ d.channels[id].dir = dir
             /\ d.channels[id].role = role
<1> DEFINE slot == Min(Pool \ c.chan_used)
           a == [slot |-> slot, type |-> type, dir |-> dir, role |-> role,
                 state |-> state, credit |-> FALSE, need_ack |-> FALSE]
           d == [c EXCEPT !.chan_used = @ \cup {slot}, !.channels[id] = a]
<1>0. ChanNew(c, id, type, dir, role, state) = d
  BY DEF ChanNew
<1>1. c \in Conn /\ SlotsOf(c)
  BY DEF EndOK
<1>2. slot \in Pool \ c.chan_used
  BY <1>1, FreeSlot
<1> HIDE DEF slot
<1>3. a \in Chan /\ a # NoChan
  <2>1. a \in Chan
    BY <1>2 DEF Chan
  <2> HIDE DEF a
  <2> QED BY <2>1, ChanIsSome
<1>4. /\ a.slot = slot /\ a.type = type /\ a.dir = dir /\ a.role = role /\ a.state = state
      /\ ~a.credit
  OBVIOUS
<1> HIDE DEF a
<1>5. d \in Conn
  BY <1>1, <1>2, <1>3 DEF Conn
<1>6. /\ d.next_chan_id = c.next_chan_id /\ d.ctrl = c.ctrl
      /\ d.chan_used = c.chan_used \cup {slot} /\ d.channels[id] = a
      /\ \A i \in Ids : i # id => d.channels[i] = c.channels[i]
  BY <1>1 DEF Conn
<1> HIDE DEF d
<1>7. \A i \in Ids : Has(d, i) <=> Has(c, i) \/ i = id
  BY <1>3, <1>6 DEF Has
<1>8. Grows(c, d)
  BY <1>6, <1>7 DEF Grows, Has
<1>9. \A k \in 1..Len(d.ctrl) : FrameOf(e, d, d.ctrl[k])
  BY <1>6, <1>8, FrameStays DEF EndOK
<1>10. SlotsOf(d)
  <2>1. ASSUME NEW i \in Ids, Has(c, i) PROVE c.channels[i].slot \in c.chan_used /\ i # id
    BY <1>1, <2>1 DEF SlotsOf
  <2>2. d.chan_used = {d.channels[i].slot : i \in {j \in Ids : Has(d, j)}}
    <3>1. ASSUME NEW s \in d.chan_used PROVE \E i \in Ids : Has(d, i) /\ d.channels[i].slot = s
      <4>1. CASE s = slot
        BY <1>4, <1>6, <1>7, <4>1
      <4>2. CASE s \in c.chan_used
        <5>1. PICK i \in Ids : Has(c, i) /\ c.channels[i].slot = s
          BY <1>1, <4>2 DEF SlotsOf
        <5> QED BY <1>6, <1>7, <2>1, <5>1
      <4> QED BY <1>6, <3>1, <4>1, <4>2
    <3>2. ASSUME NEW i \in Ids, Has(d, i) PROVE d.channels[i].slot \in d.chan_used
      BY <1>4, <1>6, <1>7, <2>1, <3>2
    <3> QED BY <3>1, <3>2
  <2>3. ASSUME NEW i \in Ids, NEW j \in Ids, Has(d, i), Has(d, j),
               d.channels[i].slot = d.channels[j].slot
        PROVE  i = j
    <3>1. CASE i # id /\ j # id
      BY <1>1, <1>6, <1>7, <2>3, <3>1 DEF SlotsOf
    <3>2. CASE i = id /\ j # id
      BY <1>2, <1>4, <1>6, <1>7, <2>1, <2>3, <3>2
    <3>3. CASE i # id /\ j = id
      BY <1>2, <1>4, <1>6, <1>7, <2>1, <2>3, <3>3
    <3> QED BY <3>1, <3>2, <3>3
  <2> QED BY <2>2, <2>3 DEF SlotsOf
<1>11. ASSUME NEW i \in Ids, Has(d, i) PROVE ChanOf(e, d, p, i)
  <2>1. CASE i # id
    <3>1. ChanOf(e, c, p, i)
      BY <1>7, <1>11, <2>1 DEF EndOK
    <3> QED BY <1>6, <2>1, <3>1 DEF ChanOf
  <2>2. CASE i = id
    BY <1>4, <1>6, <2>2 DEF ChanOf, Has
  <2> QED BY <2>1, <2>2
<1>12. EndOK(e, d, p)
  BY <1>5, <1>6, <1>9, <1>10, <1>11 DEF EndOK
<1> QED BY <1>0, <1>4, <1>6, <1>7, <1>8, <1>12

-------------------------------------------------------------------------------
(* parse_frames. *)

LEMMA CtrlCloseOK ==
  ASSUME NEW e, NEW c, NEW p, EndOK(e, c, p), NEW id \in Ids
  PROVE  LET d == CtrlClose(c, id)
         IN  EndOK(e, d, p) /\ Grows(c, d)
<1> DEFINE f == [kind |-> "CLOSE", id |-> id]
<1>1. f \in Frame /\ f.kind = "CLOSE"
  BY DEF Frame
<1> HIDE DEF f
<1>2. FrameOf(e, c, f)
  BY <1>1 DEF FrameOf
<1>3. CtrlClose(c, id) = Ctrl(c, f)
  BY DEF CtrlClose, f
<1> QED BY <1>2, <1>3, CtrlOK

LEMMA CtrlWindowOK ==
  ASSUME NEW e, NEW c, NEW p, EndOK(e, c, p), NEW id \in Ids,
         Has(c, id), c.channels[id].role = "receiver"
  PROVE  LET d == CtrlWindow(c, id)
         IN  EndOK(e, d, p) /\ Grows(c, d)
<1> DEFINE f == [kind |-> "WINDOW", id |-> id]
<1>1. f \in Frame /\ f.kind = "WINDOW" /\ f.id = id
  BY DEF Frame
<1> HIDE DEF f
<1>2. FrameOf(e, c, f)
  BY <1>1 DEF FrameOf
<1>3. CtrlWindow(c, id) = Ctrl(c, f)
  BY DEF CtrlWindow, f
<1> QED BY <1>2, <1>3, CtrlOK

LEMMA CtrlOpenOK ==
  ASSUME NEW e, NEW c, NEW p, EndOK(e, c, p), NEW id \in Own(e), NEW type \in Types,
         NEW dir \in Dirs, Has(c, id), c.channels[id].type = type, c.channels[id].dir = dir,
         c.channels[id].role = Side(dir)
  PROVE  LET d == CtrlOpen(c, id, type, dir)
         IN  EndOK(e, d, p) /\ Grows(c, d) /\ d.channels = c.channels
<1> DEFINE f == [kind |-> "OPEN", id |-> id, type |-> type, dir |-> dir]
<1>0. id \in Ids
  BY DEF Own
<1>1. f \in Frame /\ f.kind = "OPEN" /\ f.id = id /\ f.type = type /\ f.dir = dir
  BY <1>0 DEF Frame
<1> HIDE DEF f
<1>2. FrameOf(e, c, f)
  BY <1>1 DEF FrameOf
<1>3. CtrlOpen(c, id, type, dir) = Ctrl(c, f)
  BY DEF CtrlOpen, f
<1> QED BY <1>2, <1>3, CtrlOK

LEMMA ProcessOpenOK ==
  ASSUME NEW e \in Ends, NEW c, NEW p, EndOK(e, c, p), NEW f, FrameOf(Peer(e), p, f),
         f.kind = "OPEN"
  PROVE  EndOK(e, ProcessOpen(c, f), p) /\ Grows(c, ProcessOpen(c, f))
<1>1. /\ f.id \in Ids /\ f.type \in Types /\ f.dir \in Dirs /\ f.id \in Own(Peer(e))
      /\ Has(p, f.id) /\ p.channels[f.id].type = f.type /\ p.channels[f.id].dir = f.dir
  BY DEF FrameOf, Frame
<1>2. f.id \notin Own(e)
  BY <1>1, PeerIs DEF Own, Ends
<1>3. CASE Has(c, f.id) \/ Exhausted(c)
  BY <1>1, <1>3, CtrlCloseOK DEF ProcessOpen
<1>4. CASE ~Has(c, f.id) /\ ~Exhausted(c) /\ f.dir = "SEND"
  <2> DEFINE n == ChanNew(c, f.id, f.type, f.dir, "receiver", 1)
  <2>1. EndOK(e, n, p) /\ Grows(c, n) /\ Has(n, f.id) /\ n.channels[f.id].role = "receiver"
    BY <1>1, <1>2, <1>4, ChanNewOK DEF Turned
  <2>2. ProcessOpen(c, f) = CtrlWindow(n, f.id)
    BY <1>4 DEF ProcessOpen
  <2> HIDE DEF n
  <2> QED BY <1>1, <2>1, <2>2, CtrlWindowOK, GrowsTrans
<1>5. CASE ~Has(c, f.id) /\ ~Exhausted(c) /\ f.dir # "SEND"
  <2>1. ProcessOpen(c, f) = ChanNew(c, f.id, f.type, f.dir, "sender", 1)
    BY <1>5 DEF ProcessOpen
  <2>2. p.channels[f.id].role = "receiver"
    BY <1>5 DEF FrameOf, Side
  <2> QED BY <1>1, <1>2, <1>5, <2>1, <2>2, ChanNewOK DEF Turned
<1> QED BY <1>3, <1>4, <1>5

LEMMA ProcessCloseOK ==
  ASSUME NEW e, NEW c, NEW p, EndOK(e, c, p), NEW f, f.id \in Ids
  PROVE  EndOK(e, ProcessClose(c, f), p) /\ Grows(c, ProcessClose(c, f))
<1> DEFINE a == c.channels[f.id]
           b == [a EXCEPT !.state = 3]
           d == [c EXCEPT !.channels[f.id] = b]
<1>1. CASE ~Has(c, f.id)
  <2>1. ProcessClose(c, f) = c
    BY <1>1 DEF ProcessClose
  <2> QED BY <2>1 DEF Grows
<1>2. CASE Has(c, f.id)
  <2>1. c \in Conn /\ ChanOf(e, c, p, f.id)
    BY <1>2 DEF EndOK
  <2>2. a \in Chan
    BY <1>2, <2>1 DEF Conn, Has
  <2>3. /\ b \in Chan /\ b.slot = a.slot /\ b.type = a.type /\ b.dir = a.dir /\ b.role = a.role
        /\ b.state = 3 /\ b.credit = a.credit
    BY <2>2 DEF Chan
  <2>4. ProcessClose(c, f) = d
    BY <1>2, <2>1, <2>2 DEF ProcessClose, Conn, Chan
  <2>5. a.role = "sender" /\ (b.state = 1 \/ b.credit) =>
          p.channels[f.id] # NoChan /\ p.channels[f.id].role = "receiver"
    <3>1. a.role = "sender" /\ a.credit =>
            p.channels[f.id] # NoChan /\ p.channels[f.id].role = "receiver"
      BY <2>1 DEF ChanOf
    <3> QED BY <2>3, <3>1
  <2> HIDE DEF b
  <2>6. /\ d \in Conn /\ d.chan_used = c.chan_used /\ d.next_chan_id = c.next_chan_id
        /\ d.ctrl = c.ctrl /\ d.channels[f.id] = b
        /\ \A i \in Ids : i # f.id => d.channels[i] = c.channels[i]
    BY <2>1, <2>3 DEF Conn
  <2> HIDE DEF d
  <2> QED BY <1>2, <2>3, <2>4, <2>5, <2>6, ChanSetOK
<1> QED BY <1>1, <1>2

LEMMA ProcessWindowOK ==
  ASSUME NEW e, NEW c, NEW p, EndOK(e, c, p), NEW q, NEW f, FrameOf(q, p, f),
         f.kind = "WINDOW"
  PROVE  EndOK(e, ProcessWindow(c, f), p) /\ Grows(c, ProcessWindow(c, f))
<1> DEFINE a == c.channels[f.id]
           st == IF a.state = 0 THEN 1 ELSE a.state
           b == [a EXCEPT !.credit = TRUE, !.state = st]
           d == [c EXCEPT !.channels[f.id] = b]
<1>0. f.id \in Ids /\ Has(p, f.id) /\ p.channels[f.id].role = "receiver"
  BY DEF FrameOf, Frame
<1>1. CASE ~Has(c, f.id) \/ a.role # "sender"
  <2>1. ProcessWindow(c, f) = c
    BY <1>1 DEF ProcessWindow
  <2> QED BY <2>1 DEF Grows
<1>2. CASE Has(c, f.id) /\ a.role = "sender"
  <2>1. c \in Conn
    BY DEF EndOK
  <2>2. a \in Chan
    BY <1>0, <1>2, <2>1 DEF Conn, Has
  <2>s. st \in 0..3
    BY <2>2 DEF Chan
  <2>4. ProcessWindow(c, f) = d
    BY <1>0, <1>2, <2>1, <2>2 DEF ProcessWindow, Conn, Chan
  <2> HIDE DEF st
  <2>3. b \in Chan /\ b.slot = a.slot /\ b.type = a.type /\ b.dir = a.dir /\ b.role = a.role
    BY <2>2, <2>s DEF Chan
  <2> HIDE DEF b
  <2>6. /\ d \in Conn /\ d.chan_used = c.chan_used /\ d.next_chan_id = c.next_chan_id
        /\ d.ctrl = c.ctrl /\ d.channels[f.id] = b
        /\ \A i \in Ids : i # f.id => d.channels[i] = c.channels[i]
    BY <1>0, <2>1, <2>3 DEF Conn
  <2> HIDE DEF d
  <2> QED BY <1>0, <1>2, <2>3, <2>4, <2>6, ChanSetOK DEF Has
<1> QED BY <1>1, <1>2

LEMMA ProcessDataOK ==
  ASSUME NEW e, NEW c, NEW p, EndOK(e, c, p), NEW f, f.id \in Ids
  PROVE  EndOK(e, ProcessData(c, f), p) /\ Grows(c, ProcessData(c, f))
<1> DEFINE a == c.channels[f.id]
           b == [a EXCEPT !.need_ack = TRUE]
           d == [c EXCEPT !.channels[f.id] = b]
<1>1. CASE ~Has(c, f.id) \/ a.role # "receiver" \/ a.type = "unreliable"
  <2>1. ProcessData(c, f) = c
    BY <1>1 DEF ProcessData
  <2> QED BY <2>1 DEF Grows
<1>2. CASE Has(c, f.id) /\ a.role = "receiver" /\ a.type # "unreliable"
  <2>1. c \in Conn
    BY DEF EndOK
  <2>2. a \in Chan
    BY <1>2, <2>1 DEF Conn, Has
  <2>3. b \in Chan /\ b.slot = a.slot /\ b.type = a.type /\ b.dir = a.dir /\ b.role = a.role
    BY <2>2 DEF Chan
  <2>4. ProcessData(c, f) = d
    BY <1>2, <2>1, <2>2 DEF ProcessData, Conn, Chan
  <2> HIDE DEF b
  <2>6. /\ d \in Conn /\ d.chan_used = c.chan_used /\ d.next_chan_id = c.next_chan_id
        /\ d.ctrl = c.ctrl /\ d.channels[f.id] = b
        /\ \A i \in Ids : i # f.id => d.channels[i] = c.channels[i]
    BY <2>1, <2>3 DEF Conn
  <2> HIDE DEF d
  <2> QED BY <1>2, <2>3, <2>4, <2>6, ChanSetOK
<1> QED BY <1>1, <1>2

LEMMA ProcessOK ==
  ASSUME NEW e \in Ends, NEW c, NEW p, EndOK(e, c, p), NEW f, FrameOf(Peer(e), p, f)
  PROVE  EndOK(e, Process(c, f), p) /\ Grows(c, Process(c, f))
<1>1. f \in Frame
  BY DEF FrameOf
<1>2. f.id \in Ids /\ f.kind \in {"OPEN", "CLOSE", "WINDOW", "DATA", "ACK"}
  BY <1>1 DEF Frame
<1>3. CASE f.kind = "OPEN"
  BY <1>3, ProcessOpenOK DEF Process
<1>4. CASE f.kind = "CLOSE"
  BY <1>2, <1>4, ProcessCloseOK DEF Process
<1>5. CASE f.kind = "WINDOW"
  BY <1>5, ProcessWindowOK DEF Process
<1>6. CASE f.kind = "DATA"
  BY <1>2, <1>6, ProcessDataOK DEF Process
<1>7. CASE f.kind = "ACK"
  <2>1. Process(c, f) = c
    BY <1>7 DEF Process
  <2> QED BY <2>1 DEF Grows
<1> QED BY <1>2, <1>3, <1>4, <1>5, <1>6, <1>7

\* Every frame of a datagram in turn: an induction over its frames.
LEMMA ProcessAllOK ==
  ASSUME NEW e \in Ends, NEW c, NEW p, EndOK(e, c, p), NEW frames \in Seq(Frame),
         \A k \in 1..Len(frames) : FrameOf(Peer(e), p, frames[k])
  PROVE  EndOK(e, ProcessAll(c, frames), p) /\ Grows(c, ProcessAll(c, frames))
<1> DEFINE n == Len(frames)
           S == {d \in Conn : EndOK(e, d, p) /\ Grows(c, d)}
           F == [k \in 1..n |-> [d \in S |-> Process(d, frames[k])]]
           Steps(g) == g = [k \in 0..n |-> IF k = 0 THEN c ELSE Process(g[k - 1], frames[k])]
           P == CHOOSE g : Steps(g)
<1>1. n \in Nat
  OBVIOUS
<1>2. c \in S
  BY DEF EndOK, Grows
<1>3. ASSUME NEW k \in 1..n, NEW d \in S PROVE Process(d, frames[k]) \in S
  <2>1. EndOK(e, Process(d, frames[k]), p) /\ Grows(d, Process(d, frames[k]))
    BY ProcessOK
  <2>2. Grows(c, Process(d, frames[k]))
    BY <2>1, GrowsTrans
  <2> QED BY <2>1, <2>2 DEF EndOK
<1>p. ProcessAll(c, frames) = P[n]
  BY DEF ProcessAll
<1> HIDE DEF S, n
<1>4. F \in [1..n -> [S -> S]]
  BY <1>3
<1>r. PICK g : IsRun(g, S, c, n, F)
  <2> HIDE DEF F
  <2> QED BY <1>1, <1>2, <1>4, RunExists
<1>5. g \in [0..n -> S] /\ g[0] = c /\ \A k \in 1..n : g[k] = F[k][g[k - 1]]
  BY <1>r DEF IsRun
<1>6. Steps(g)
  <2>1. ASSUME NEW k \in 1..n PROVE g[k] = Process(g[k - 1], frames[k])
    <3>1. k - 1 \in 0..n
      BY <1>1
    <3> QED BY <1>5, <3>1
  <2>2. \A k \in 0..n : k = 0 \/ k \in 1..n
    BY <1>1
  <2>3. \A k \in 0..n : g[k] = IF k = 0 THEN c ELSE Process(g[k - 1], frames[k])
    BY <1>5, <2>1, <2>2
  <2> QED BY <1>5, <2>3
<1>7. Steps(P)
  BY <1>6
<1> HIDE DEF P
<1>8. P[0] = c /\ \A k \in 1..n : P[k] = Process(P[k - 1], frames[k])
  <2>1. 0 \in 0..n /\ \A k \in 1..n : k \in 0..n /\ k # 0
    BY <1>1
  <2> QED BY <1>7, <2>1
<1> DEFINE T == {k \in 0..n : P[k] \in S}
<1>9. 0 \in T
  BY <1>1, <1>2, <1>8
<1>10. ASSUME NEW k \in 1..n, k - 1 \in T PROVE k \in T
  <2>1. k \in 0..n
    BY <1>1
  <2> QED BY <1>3, <1>8, <1>10, <2>1
<1>11. n \in T
  <2> HIDE DEF T
  <2>1. \A k \in 0..n : k \in T
    BY <1>1, <1>9, <1>10, CountedUp
  <2> QED BY <1>1, <2>1
<1>12. P[n] \in S
  BY <1>11
<1> QED BY <1>p, <1>12 DEF S

-------------------------------------------------------------------------------
(* The actions. *)

\* End e goes to d, and the network gains at most a datagram of its frames.
LEMMA Stepped ==
  ASSUME IInv, NEW e \in Ends, NEW d, EndOK(e, d, conn[Peer(e)]), Grows(conn[e], d),
         Become(e, d),
         addr' \in Addrs, faults' \in 0..MaxFaults,
         opens' \in [Ends -> Nat], \A x \in Ends : opens'[x] \in 0..MaxOpens[x],
         net' \in [Ends -> Seq(Datagram)],
         \A x \in Ends : \A i \in 1..Len(net'[x]) :
           \/ \E j \in 1..Len(net[x]) : net'[x][i] = net[x][j]
           \/ x = Peer(e) /\ \A k \in 1..Len(net'[x][i].frames) : FrameOf(e, d, net'[x][i].frames[k])
  PROVE  IInv'
<1>1. conn \in [Ends -> Conn]
  BY DEF IInv, TypeOK
<1>2. conn'[e] = d /\ conn'[Peer(e)] = conn[Peer(e)] /\ DOMAIN conn' = Ends
  BY <1>1, PeerIs DEF Become
<1>3. EndOK(Peer(e), conn[Peer(e)], d)
  <2>1. EndOK(Peer(e), conn[Peer(e)], conn[e])
    BY PeerIs DEF IInv
  <2> QED BY <2>1, PeerStays
<1>4. \A x \in Ends : EndOK(x, conn'[x], conn'[Peer(x)])
  <2>1. EndOK(e, conn'[e], conn'[Peer(e)])
    BY <1>2
  <2>2. EndOK(Peer(e), conn'[Peer(e)], conn'[Peer(Peer(e))])
    BY <1>2, <1>3, PeerIs
  <2> QED BY <2>1, <2>2, PeerIs
<1>5. \A x \in Ends : conn'[x] \in Conn /\ Len(conn'[x].ctrl) <= CtrlCap
  BY <1>4 DEF EndOK
<1>6. conn' \in [Ends -> Conn]
  BY <1>1, <1>5 DEF Become
<1>7. TypeOK'
  BY <1>5, <1>6 DEF TypeOK
<1>8. \A x \in Ends : Grows(conn[x], conn'[x])
  <2>1. Grows(conn[Peer(e)], conn'[Peer(e)])
    BY <1>2 DEF Grows
  <2> QED BY <1>2, <2>1, PeerIs
<1>9. ASSUME NEW x \in Ends, NEW i \in 1..Len(net'[x]), NEW k \in 1..Len(net'[x][i].frames)
      PROVE  FrameOf(Peer(x), conn'[Peer(x)], net'[x][i].frames[k])
  <2>1. CASE \E j \in 1..Len(net[x]) : net'[x][i] = net[x][j]
    <3>1. PICK j \in 1..Len(net[x]) : net'[x][i] = net[x][j]
      BY <2>1
    <3>2. FrameOf(Peer(x), conn[Peer(x)], net[x][j].frames[k])
      BY <1>9, <3>1 DEF IInv
    <3> QED BY <1>8, <3>1, <3>2, PeerIs, FrameStays
  <2>2. CASE x = Peer(e) /\ \A h \in 1..Len(net'[x][i].frames) : FrameOf(e, d, net'[x][i].frames[h])
    <3>1. Peer(x) = e
      BY <2>2, PeerIs
    <3> QED BY <1>2, <1>9, <2>2, <3>1
  <2> QED BY <2>1, <2>2
<1> QED BY <1>4, <1>7, <1>9 DEF IInv

\* The same, with the network left alone.
LEMMA SteppedQuietly ==
  ASSUME IInv, NEW e \in Ends, NEW d, EndOK(e, d, conn[Peer(e)]), Grows(conn[e], d),
         Become(e, d), UNCHANGED <<addr, net, faults>>,
         opens' \in [Ends -> Nat], \A x \in Ends : opens'[x] \in 0..MaxOpens[x]
  PROVE  IInv'
<1>1. net' \in [Ends -> Seq(Datagram)] /\ addr' \in Addrs /\ faults' \in 0..MaxFaults
  BY DEF IInv, TypeOK
<1>2. \A x \in Ends : \A i \in 1..Len(net'[x]) : \E j \in 1..Len(net[x]) : net'[x][i] = net[x][j]
  OBVIOUS
<1> QED BY <1>1, <1>2, Stepped

LEMMA LocalOpenOK ==
  ASSUME NEW e, NEW c, NEW p, EndOK(e, c, p), NEW id \in Own(e), ~Has(c, id), ~Exhausted(c),
         NEW type \in Types, NEW dir \in Dirs
  PROVE  LET d == LocalOpen(c, id, type, dir)
         IN  EndOK(e, d, p) /\ Grows(c, d)
<1>0. id \in Ids
  BY DEF Own
<1>1. CASE dir = "SEND"
  <2> DEFINE n == ChanNew(c, id, type, dir, "sender", 0)
  <2>1. /\ EndOK(e, n, p) /\ Grows(c, n) /\ Has(n, id) /\ n.channels[id].type = type
        /\ n.channels[id].dir = dir /\ n.channels[id].role = "sender"
    BY <1>0, <1>1, ChanNewOK DEF Side
  <2>2. LocalOpen(c, id, type, dir) = CtrlOpen(n, id, type, dir)
    BY <1>1 DEF LocalOpen
  <2> HIDE DEF n
  <2>3. EndOK(e, CtrlOpen(n, id, type, dir), p) /\ Grows(n, CtrlOpen(n, id, type, dir))
    BY <1>1, <2>1, CtrlOpenOK DEF Side
  <2> QED BY <2>1, <2>2, <2>3, GrowsTrans
<1>2. CASE dir # "SEND"
  <2> DEFINE n == ChanNew(c, id, type, dir, "receiver", 1)
             m == CtrlOpen(n, id, type, dir)
  <2>1. /\ EndOK(e, n, p) /\ Grows(c, n) /\ Has(n, id) /\ n.channels[id].type = type
        /\ n.channels[id].dir = dir /\ n.channels[id].role = "receiver"
    BY <1>0, <1>2, ChanNewOK DEF Side
  <2>2. LocalOpen(c, id, type, dir) = CtrlWindow(m, id)
    BY <1>2 DEF LocalOpen
  <2> HIDE DEF n
  <2>3. EndOK(e, m, p) /\ Grows(n, m) /\ m.channels = n.channels
    BY <1>2, <2>1, CtrlOpenOK DEF Side
  <2> HIDE DEF m
  <2>4. EndOK(e, CtrlWindow(m, id), p) /\ Grows(m, CtrlWindow(m, id))
    BY <1>0, <2>1, <2>3, CtrlWindowOK DEF Has
  <2>5. Grows(n, CtrlWindow(m, id))
    BY <2>3, <2>4, GrowsTrans
  <2> QED BY <2>1, <2>2, <2>4, <2>5, GrowsTrans
<1> QED BY <1>1, <1>2

LEMMA ChanOpenOK ==
  ASSUME IInv, NEW e \in Ends, NEW type \in Types, NEW dir \in Dirs, ChanOpen(e, type, dir)
  PROVE  IInv'
<1> DEFINE c == conn[e]
           p == conn[Peer(e)]
           id == c.next_chan_id
           next == (id + 2) % IdMod
           n == [c EXCEPT !.next_chan_id = next]
           d == IF Exhausted(c) THEN n ELSE LocalOpen(n, id, type, dir)
<1>1. /\ opens[e] < MaxOpens[e] /\ ~Has(c, id) /\ Become(e, d)
      /\ opens' = [opens EXCEPT ![e] = @ + 1] /\ UNCHANGED <<addr, net, faults>>
  BY DEF ChanOpen
<1>2. EndOK(e, c, p)
  BY DEF IInv
<1>3. c \in Conn /\ id \in Own(e)
  BY <1>2 DEF EndOK
<1>4. next \in Own(e) /\ next \in Ids
  <2>1. next \in Own(e)
    BY <1>3, NextOwn
  <2> QED BY <2>1 DEF Own
<1> HIDE DEF next
<1>5. /\ n \in Conn /\ n.channels = c.channels /\ n.chan_used = c.chan_used /\ n.ctrl = c.ctrl
      /\ n.next_chan_id = next
  BY <1>3, <1>4 DEF Conn
<1> HIDE DEF n
<1>6. Grows(c, n)
  BY <1>5 DEF Grows, Has
<1>7. EndOK(e, n, p)
  <2>1. \A k \in 1..Len(n.ctrl) : FrameOf(e, n, n.ctrl[k])
    BY <1>2, <1>5, <1>6, FrameStays DEF EndOK
  <2>2. \A i \in Ids : Has(n, i) => ChanOf(e, n, p, i)
    BY <1>2, <1>5 DEF EndOK, ChanOf, Has
  <2>3. SlotsOf(n)
    BY <1>2, <1>5 DEF EndOK, SlotsOf, Has
  <2> QED BY <1>2, <1>4, <1>5, <2>1, <2>2, <2>3 DEF EndOK
<1>8. EndOK(e, d, p) /\ Grows(c, d)
  <2>1. CASE Exhausted(c)
    BY <1>6, <1>7, <2>1
  <2>2. CASE ~Exhausted(c)
    <3>1. ~Exhausted(n) /\ ~Has(n, id)
      BY <1>1, <1>5, <2>2 DEF Exhausted, Has
    <3>2. EndOK(e, LocalOpen(n, id, type, dir), p) /\ Grows(n, LocalOpen(n, id, type, dir))
      BY <1>3, <1>7, <3>1, LocalOpenOK
    <3> QED BY <1>6, <2>2, <3>2, GrowsTrans
  <2> QED BY <2>1, <2>2
<1>9. opens' \in [Ends -> Nat] /\ \A x \in Ends : opens'[x] \in 0..MaxOpens[x]
  <2>1. opens \in [Ends -> Nat] /\ \A x \in Ends : opens[x] \in 0..MaxOpens[x]
    BY DEF IInv, TypeOK
  <2>2. MaxOpens \in [Ends -> Nat]
    BY LifecycleAssumption
  <2> QED BY <1>1, <2>1, <2>2
<1> HIDE DEF d
<1> QED BY <1>1, <1>8, <1>9, SteppedQuietly

LEMMA ChanCloseOK ==
  ASSUME IInv, NEW e \in Ends, NEW id \in Ids, ChanClose(e, id)
  PROVE  IInv'
<1> DEFINE c == conn[e]
           p == conn[Peer(e)]
           a == c.channels[id]
           b == [a EXCEPT !.state = 2]
           d == [c EXCEPT !.channels[id] = b]
<1>1. EndOK(e, c, p) /\ Has(c, id)
  BY DEF IInv, ChanClose
<1>2. c \in Conn /\ ChanOf(e, c, p, id)
  BY <1>1 DEF EndOK
<1>3. a \in Chan
  BY <1>1, <1>2 DEF Conn, Has
<1>4. /\ b \in Chan /\ b.slot = a.slot /\ b.type = a.type /\ b.dir = a.dir /\ b.role = a.role
      /\ b.state = 2 /\ b.credit = a.credit
  BY <1>3 DEF Chan
<1>5. a.role = "sender" /\ (b.state = 1 \/ b.credit) =>
        p.channels[id] # NoChan /\ p.channels[id].role = "receiver"
  <2>1. a.role = "sender" /\ a.credit =>
          p.channels[id] # NoChan /\ p.channels[id].role = "receiver"
    BY <1>2 DEF ChanOf
  <2> QED BY <1>4, <2>1
<1>6. Become(e, CtrlClose(d, id)) /\ UNCHANGED <<addr, net, opens, faults>>
  BY <1>2, <1>3 DEF ChanClose, Conn, Chan, env
<1> HIDE DEF b
<1>7. /\ d \in Conn /\ d.chan_used = c.chan_used /\ d.next_chan_id = c.next_chan_id
      /\ d.ctrl = c.ctrl /\ d.channels[id] = b
      /\ \A i \in Ids : i # id => d.channels[i] = c.channels[i]
  BY <1>2, <1>4 DEF Conn
<1> HIDE DEF d
<1>8. EndOK(e, d, p) /\ Grows(c, d)
  BY <1>1, <1>4, <1>5, <1>7, ChanSetOK
<1>9. EndOK(e, CtrlClose(d, id), p) /\ Grows(d, CtrlClose(d, id))
  BY <1>8, CtrlCloseOK
<1>10. Grows(c, CtrlClose(d, id))
  BY <1>8, <1>9, GrowsTrans
<1>11. opens' \in [Ends -> Nat] /\ \A x \in Ends : opens'[x] \in 0..MaxOpens[x]
  BY <1>6 DEF IInv, TypeOK
<1> QED BY <1>6, <1>9, <1>10, <1>11, SteppedQuietly

\* A datagram taken from the network.
LEMMA Taken ==
  ASSUME NEW D, NEW q \in Seq(D), NEW i \in 1..Len(q)
  PROVE  /\ RemoveAt(q, i) \in Seq(D)
         /\ \A k \in 1..Len(RemoveAt(q, i)) : \E j \in 1..Len(q) : RemoveAt(q, i)[k] = q[j]
<1> DEFINE a == SubSeq(q, 1, i - 1)
           b == SubSeq(q, i + 1, Len(q))
<1>1. /\ a \in Seq(D) /\ b \in Seq(D)
  OBVIOUS
<1>2. Len(a) = i - 1 /\ \A k \in 1..Len(a) : a[k] = q[k]
  OBVIOUS
<1>3. Len(b) = Len(q) - i /\ \A k \in 1..Len(b) : b[k] = q[i + k]
  OBVIOUS
<1> HIDE DEF a, b
<1>4. RemoveAt(q, i) = a \o b
  BY DEF RemoveAt, a, b
<1>5. ASSUME NEW k \in 1..Len(a \o b) PROVE \E j \in 1..Len(q) : (a \o b)[k] = q[j]
  <2>1. Len(a \o b) = Len(a) + Len(b)
    BY <1>1
  <2>2. CASE k <= Len(a)
    <3>1. k \in 1..Len(a) /\ k \in 1..Len(q)
      BY <1>2, <1>5, <2>2
    <3>2. (a \o b)[k] = a[k]
      BY <1>1, <3>1
    <3> QED BY <1>2, <3>1, <3>2
  <2>3. CASE k > Len(a)
    <3>1. k - Len(a) \in 1..Len(b) /\ i + (k - Len(a)) \in 1..Len(q)
      BY <1>2, <1>3, <2>1, <2>3
    <3>2. (a \o b)[k] = b[k - Len(a)]
      BY <1>1, <2>1, <2>3
    <3> QED BY <1>3, <3>1, <3>2
  <2> QED BY <1>2, <2>2, <2>3
<1> QED BY <1>1, <1>4, <1>5

\* Only the peer's address may change before the frames are processed.
LEMMA MigratedOK ==
  ASSUME NEW e \in Ends, NEW c, NEW p, EndOK(e, c, p), NEW d \in Datagram
  PROVE  EndOK(e, Migrated(e, c, d), p) /\ Grows(c, Migrated(e, c, d))
<1> DEFINE n == [c EXCEPT !.peer_addr = d.from]
<1>0. c \in Conn
  BY DEF EndOK
<1>1. /\ n \in Conn /\ n.channels = c.channels /\ n.chan_used = c.chan_used /\ n.ctrl = c.ctrl
      /\ n.next_chan_id = c.next_chan_id
  BY <1>0 DEF Conn, Datagram
<1>2. Migrated(e, c, d) = n \/ Migrated(e, c, d) = c
  BY DEF Migrated
<1> HIDE DEF n
<1>3. Grows(c, n) /\ Grows(c, c)
  BY <1>1 DEF Grows, Has
<1>4. EndOK(e, n, p)
  <2>1. \A k \in 1..Len(n.ctrl) : FrameOf(e, n, n.ctrl[k])
    BY <1>1, <1>3, FrameStays DEF EndOK
  <2>2. \A i \in Ids : Has(n, i) => ChanOf(e, n, p, i)
    BY <1>1 DEF EndOK, ChanOf, Has
  <2>3. SlotsOf(n)
    BY <1>1 DEF EndOK, SlotsOf, Has
  <2> QED BY <1>1, <2>1, <2>2, <2>3 DEF EndOK
<1> QED BY <1>2, <1>3, <1>4

\* What is left of the network when a datagram to end e is taken, or stays.
LEMMA NetTaken ==
  ASSUME net \in [Ends -> Seq(Datagram)], NEW e \in Ends, NEW i \in 1..Len(net[e]),
         net' = net \/ net' = [net EXCEPT ![e] = RemoveAt(@, i)]
  PROVE  /\ net' \in [Ends -> Seq(Datagram)]
         /\ \A x \in Ends : \A k \in 1..Len(net'[x]) : \E j \in 1..Len(net[x]) : net'[x][k] = net[x][j]
<1>1. CASE net' = net
  BY <1>1
<1>2. CASE net' = [net EXCEPT ![e] = RemoveAt(@, i)]
  <2> DEFINE q == RemoveAt(net[e], i)
  <2>1. q \in Seq(Datagram) /\ \A k \in 1..Len(q) : \E j \in 1..Len(net[e]) : q[k] = net[e][j]
    <3>1. net[e] \in Seq(Datagram)
      OBVIOUS
    <3> QED BY <3>1, Taken
  <2> HIDE DEF q
  <2>2. net' = [net EXCEPT ![e] = q]
    BY <1>2 DEF q
  <2>3. net'[e] = q /\ \A x \in Ends : x # e => net'[x] = net[x]
    BY <2>2
  <2> QED BY <2>1, <2>2, <2>3
<1> QED BY <1>1, <1>2

LEMMA FeedOK ==
  ASSUME IInv, NEW e \in Ends, NEW i \in 1..Len(net[e]), NEW again \in BOOLEAN,
         Feed(e, i, again)
  PROVE  IInv'
<1> DEFINE g == net[e][i]
           c == conn[e]
           p == conn[Peer(e)]
           m == Migrated(e, c, g)
           d == ProcessAll(m, g.frames)
<1>1. /\ Become(e, d) /\ UNCHANGED <<addr, opens>>
      /\ net' = IF again THEN net ELSE [net EXCEPT ![e] = RemoveAt(@, i)]
      /\ faults' = IF again \/ i > 1 THEN faults + 1 ELSE faults
      /\ faults' <= MaxFaults
  BY DEF Feed
<1>2. net \in [Ends -> Seq(Datagram)] /\ addr \in Addrs /\ faults \in 0..MaxFaults
  BY DEF IInv, TypeOK
<1>3. g \in Datagram /\ g.frames \in Seq(Frame)
  <2>1. net[e] \in Seq(Datagram)
    BY <1>2
  <2>2. g \in Datagram
    BY <2>1
  <2> QED BY <2>2 DEF Datagram
<1>4. \A k \in 1..Len(g.frames) : FrameOf(Peer(e), p, g.frames[k])
  BY DEF IInv
<1>5. EndOK(e, c, p)
  BY DEF IInv
<1> HIDE DEF g, c, p
<1>6. EndOK(e, m, p) /\ Grows(c, m)
  BY <1>3, <1>5, MigratedOK
<1> HIDE DEF m
<1>7. EndOK(e, d, p) /\ Grows(m, d)
  BY <1>3, <1>4, <1>6, ProcessAllOK
<1> HIDE DEF d
<1>8. Grows(c, d)
  BY <1>6, <1>7, GrowsTrans
<1>9. /\ net' \in [Ends -> Seq(Datagram)]
      /\ \A x \in Ends : \A k \in 1..Len(net'[x]) : \E j \in 1..Len(net[x]) : net'[x][k] = net[x][j]
  <2>1. net' = net \/ net' = [net EXCEPT ![e] = RemoveAt(@, i)]
    BY <1>1
  <2> QED BY <1>2, <2>1, NetTaken
<1>10. faults' \in 0..MaxFaults /\ addr' \in Addrs
  BY <1>1, <1>2, LifecycleAssumption
<1>11. opens' \in [Ends -> Nat] /\ \A x \in Ends : opens'[x] \in 0..MaxOpens[x]
  BY <1>1 DEF IInv, TypeOK
<1>12. /\ EndOK(e, d, conn[Peer(e)]) /\ Grows(conn[e], d) /\ Become(e, d)
  BY <1>1, <1>7, <1>8 DEF c, p
<1>13. \A x \in Ends : \A k \in 1..Len(net'[x]) :
         \/ \E j \in 1..Len(net[x]) : net'[x][k] = net[x][j]
         \/ x = Peer(e) /\ \A f \in 1..Len(net'[x][k].frames) :
                              FrameOf(e, d, net'[x][k].frames[f])
  BY <1>9
<1> QED BY <1>9, <1>10, <1>11, <1>12, <1>13, Stepped

LEMMA LoseOK ==
  ASSUME IInv, NEW e \in Ends, NEW i \in 1..Len(net[e]), Lose(e, i)
  PROVE  IInv'
<1>1. net \in [Ends -> Seq(Datagram)] /\ conn \in [Ends -> Conn] /\ faults \in 0..MaxFaults
  BY DEF IInv, TypeOK
<1>2. /\ net' \in [Ends -> Seq(Datagram)]
      /\ \A x \in Ends : \A k \in 1..Len(net'[x]) : \E j \in 1..Len(net[x]) : net'[x][k] = net[x][j]
  BY <1>1, NetTaken DEF Lose
<1>d. PICK d : d = conn[e]
  OBVIOUS
<1>3. Become(e, d) /\ EndOK(e, d, conn[Peer(e)]) /\ Grows(conn[e], d)
  BY <1>1, <1>d DEF Lose, Become, IInv, Grows
<1>4. faults' \in 0..MaxFaults
  BY <1>1, LifecycleAssumption DEF Lose
<1>5. addr' \in Addrs /\ opens' \in [Ends -> Nat] /\ \A x \in Ends : opens'[x] \in 0..MaxOpens[x]
  BY DEF Lose, IInv, TypeOK
<1>6. addr' \in Addrs
  BY <1>5
<1>7. opens' \in [Ends -> Nat] /\ \A x \in Ends : opens'[x] \in 0..MaxOpens[x]
  BY <1>5
<1>8. \A x \in Ends : \A k \in 1..Len(net'[x]) :
           \/ \E j \in 1..Len(net[x]) : net'[x][k] = net[x][j]
           \/ x = Peer(e) /\ \A h \in 1..Len(net'[x][k].frames) : FrameOf(e, d, net'[x][k].frames[h])
  BY <1>2
<1>9. net' \in [Ends -> Seq(Datagram)]
  BY <1>2
<1> QED BY <1>3, <1>4, <1>6, <1>7, <1>8, <1>9, Stepped

\* Frames for channels of the connection: they claim nothing of it.
LEMMA FramesOK ==
  ASSUME NEW kind \in {"ACK", "DATA"}, NEW ids \in SUBSET Ids, NEW q \in Frames(kind, ids),
         NEW e, NEW c
  PROVE  q \in Seq(Frame) /\ \A k \in 1..Len(q) : FrameOf(e, c, q[k])
<1> DEFINE n == Cardinality(ids)
<1>1. n \in Nat
  <2>1. IsFiniteSet(Ids)
    BY LifecycleAssumption, FS_Interval DEF Ids
  <2>2. IsFiniteSet(ids)
    BY <2>1, FS_Subset
  <2> QED BY <2>2, FS_CardinalityType
<1>2. q \in [1..n -> [kind : {kind}, id : ids]]
  BY DEF Frames
<1> HIDE DEF n
<1>3. [kind : {kind}, id : ids] \subseteq Frame
  BY DEF Frame
<1>4. q \in Seq(Frame) /\ Len(q) = n
  BY <1>1, <1>2, <1>3
<1>5. ASSUME NEW k \in 1..Len(q) PROVE FrameOf(e, c, q[k])
  <2>1. q[k] \in [kind : {kind}, id : ids]
    BY <1>2, <1>4
  <2>2. q[k] \in Frame /\ q[k].kind \notin {"OPEN", "WINDOW"}
    BY <1>3, <2>1
  <2> QED BY <2>2 DEF FrameOf
<1> QED BY <1>4, <1>5

LEMMA Joined ==
  ASSUME NEW D, NEW a \in Seq(D), NEW b \in Seq(D)
  PROVE  /\ a \o b \in Seq(D)
         /\ \A k \in 1..Len(a \o b) : \/ \E j \in 1..Len(a) : (a \o b)[k] = a[j]
                                      \/ \E j \in 1..Len(b) : (a \o b)[k] = b[j]
<1>1. a \o b \in Seq(D) /\ Len(a \o b) = Len(a) + Len(b) /\ Len(a) \in Nat /\ Len(b) \in Nat
  OBVIOUS
<1>2. ASSUME NEW k \in 1..Len(a \o b), k <= Len(a) PROVE \E j \in 1..Len(a) : (a \o b)[k] = a[j]
  <2>1. k \in 1..Len(a)
    BY <1>1, <1>2
  <2>2. (a \o b)[k] = a[k]
    BY <2>1
  <2> QED BY <2>1, <2>2
<1>3. ASSUME NEW k \in 1..Len(a \o b), k > Len(a) PROVE \E j \in 1..Len(b) : (a \o b)[k] = b[j]
  <2>1. k - Len(a) \in 1..Len(b)
    BY <1>1, <1>3
  <2>2. (a \o b)[k] = b[k - Len(a)]
    BY <1>1, <1>3
  <2> QED BY <2>1, <2>2
<1>4. \A k \in 1..Len(a \o b) : k <= Len(a) \/ k > Len(a)
  BY <1>1
<1> QED BY <1>1, <1>2, <1>3, <1>4

\* The control frames go and the ACKs due are settled.
LEMMA EmptiedOK ==
  ASSUME NEW e, NEW c, NEW p, EndOK(e, c, p)
  PROVE  LET d == [c EXCEPT !.ctrl = <<>>,
                            !.channels = [id \in Ids |-> IF id \in Acks(c)
                                            THEN [@[id] EXCEPT !.need_ack = FALSE] ELSE @[id]]]
         IN  EndOK(e, d, p) /\ Grows(c, d)
<1> DEFINE h == [id \in Ids |-> IF id \in Acks(c)
                   THEN [c.channels[id] EXCEPT !.need_ack = FALSE] ELSE c.channels[id]]
           d == [c EXCEPT !.ctrl = <<>>, !.channels = h]
<1>0. c \in Conn
  BY DEF EndOK
<1>1. ASSUME NEW id \in Ids
      PROVE  /\ h[id] # NoChan <=> c.channels[id] # NoChan
             /\ h[id] \in Chan \cup {NoChan}
             /\ c.channels[id] # NoChan =>
                  /\ h[id].slot = c.channels[id].slot /\ h[id].type = c.channels[id].type
                  /\ h[id].dir = c.channels[id].dir /\ h[id].role = c.channels[id].role
                  /\ h[id].state = c.channels[id].state
                  /\ h[id].credit <=> c.channels[id].credit
  <2>1. CASE id \in Acks(c)
    <3> DEFINE a == c.channels[id]
               b == [a EXCEPT !.need_ack = FALSE]
    <3>1. h[id] = b
      BY <2>1
    <3>2. a \in Chan
      BY <1>0, <2>1 DEF Acks, Has, Conn
    <3>3. /\ b \in Chan /\ b.slot = a.slot /\ b.type = a.type /\ b.dir = a.dir /\ b.role = a.role
          /\ b.state = a.state /\ b.credit = a.credit
      BY <3>2 DEF Chan
    <3> HIDE DEF b, a, h
    <3>4. b # NoChan /\ a # NoChan
      BY <3>2, <3>3, ChanIsSome
    <3> QED BY <3>1, <3>3, <3>4 DEF a
  <2>2. CASE id \notin Acks(c)
    <3>1. h[id] = c.channels[id]
      BY <2>2
    <3>2. c.channels[id] \in Chan \cup {NoChan}
      BY <1>0 DEF Conn
    <3> QED BY <3>1, <3>2
  <2> QED BY <2>1, <2>2
<1>2. DOMAIN h = Ids /\ h = [id \in Ids |-> h[id]]
  OBVIOUS
<1> HIDE DEF h
<1>3. h \in [Ids -> Chan \cup {NoChan}]
  BY <1>1, <1>2
<1>4. /\ d \in Conn /\ d.chan_used = c.chan_used /\ d.next_chan_id = c.next_chan_id
      /\ d.ctrl = <<>> /\ d.channels = h
  <2>1. <<>> \in Seq(Frame)
    OBVIOUS
  <2> QED BY <1>0, <1>3, <2>1 DEF Conn
<1>5. [c EXCEPT !.ctrl = <<>>,
                !.channels = [id \in Ids |-> IF id \in Acks(c)
                                THEN [@[id] EXCEPT !.need_ack = FALSE] ELSE @[id]]] = d
  BY <1>0 DEF h, Conn
<1> HIDE DEF d
<1>6. Grows(c, d)
  BY <1>1, <1>4 DEF Grows, Has
<1>7. SlotsOf(d)
  <2>1. SlotsOf(c)
    BY DEF EndOK
  <2>2. \A i \in Ids : (Has(d, i) <=> Has(c, i)) /\ (Has(c, i) => d.channels[i].slot = c.channels[i].slot)
    BY <1>1, <1>4 DEF Has
  <2>3. \A i, j \in Ids :
          Has(d, i) /\ Has(d, j) /\ d.channels[i].slot = d.channels[j].slot => i = j
    BY <2>1, <2>2 DEF SlotsOf
  <2>4. {d.channels[id].slot : id \in {i \in Ids : Has(d, i)}}
          = {c.channels[id].slot : id \in {i \in Ids : Has(c, i)}}
    BY <2>2
  <2> QED BY <1>4, <2>1, <2>3, <2>4 DEF SlotsOf
<1>8. ASSUME NEW id \in Ids, Has(d, id) PROVE ChanOf(e, d, p, id)
  <2>1. Has(c, id)
    BY <1>1, <1>4, <1>8 DEF Has
  <2>2. ChanOf(e, c, p, id)
    BY <2>1 DEF EndOK
  <2> QED BY <1>1, <1>4, <2>1, <2>2 DEF ChanOf, Has
<1>9. Len(d.ctrl) = 0 /\ \A k : k \notin 1..Len(d.ctrl)
  BY <1>4
<1>10. EndOK(e, d, p)
  <2>1. Len(d.ctrl) <= CtrlCap
    BY <1>9, LifecycleAssumption
  <2> QED BY <1>4, <1>7, <1>8, <1>9, <2>1 DEF EndOK
<1> QED BY <1>5, <1>6, <1>10

LEMMA SendNextOK ==
  ASSUME IInv, NEW e \in Ends, NEW data \in SUBSET Ids, SendNext(e, data)
  PROVE  IInv'
<1> DEFINE c == conn[e]
           p == conn[Peer(e)]
           d == [c EXCEPT !.ctrl = <<>>,
                          !.channels = [id \in Ids |-> IF id \in Acks(c)
                                          THEN [@[id] EXCEPT !.need_ack = FALSE] ELSE @[id]]]
           Sent(a, b) == c.ctrl \o a \o b
           G(a, b) == [from |-> IF e = "client" THEN addr ELSE 0, frames |-> Sent(a, b)]
<1>1. PICK acks \in Frames("ACK", Acks(c)), datas \in Frames("DATA", data) :
         /\ Become(e, d)
         /\ net' = IF Reaches(e) THEN [net EXCEPT ![Peer(e)] = Append(@, G(acks, datas))] ELSE net
         /\ UNCHANGED <<addr, opens, faults>>
  BY DEF SendNext, env
<1>2. EndOK(e, c, p)
  BY DEF IInv
<1>3. EndOK(e, d, p) /\ Grows(c, d)
  BY <1>2, EmptiedOK
<1> HIDE DEF d
<1>4. /\ acks \in Seq(Frame) /\ \A k \in 1..Len(acks) : FrameOf(e, d, acks[k])
      /\ datas \in Seq(Frame) /\ \A k \in 1..Len(datas) : FrameOf(e, d, datas[k])
  <2>1. Acks(c) \in SUBSET Ids
    BY DEF Acks
  <2> QED BY <2>1, FramesOK
<1>5. c.ctrl \in Seq(Frame) /\ \A k \in 1..Len(c.ctrl) : FrameOf(e, d, c.ctrl[k])
  <2>1. \A k \in 1..Len(c.ctrl) : FrameOf(e, c, c.ctrl[k])
    BY <1>2 DEF EndOK
  <2>2. c.ctrl \in Seq(Frame)
    BY <1>2 DEF EndOK, Conn
  <2> QED BY <1>3, <2>1, <2>2, FrameStays
<1> DEFINE s == Sent(acks, datas)
           g == G(acks, datas)
<1>6. s \in Seq(Frame) /\ \A k \in 1..Len(s) : FrameOf(e, d, s[k])
  <2> DEFINE t == c.ctrl \o acks
  <2>1. t \in Seq(Frame) /\ \A k \in 1..Len(t) : FrameOf(e, d, t[k])
    <3>1. /\ t \in Seq(Frame)
          /\ \A k \in 1..Len(t) : \/ \E j \in 1..Len(c.ctrl) : t[k] = c.ctrl[j]
                                  \/ \E j \in 1..Len(acks) : t[k] = acks[j]
      <4>1. \A u, v \in Seq(Frame) :
              /\ u \o v \in Seq(Frame)
              /\ \A k \in 1..Len(u \o v) : \/ \E j \in 1..Len(u) : (u \o v)[k] = u[j]
                                           \/ \E j \in 1..Len(v) : (u \o v)[k] = v[j]
        BY Joined
      <4> HIDE DEF c
      <4> QED BY <1>4, <1>5, <4>1
    <3> HIDE DEF t
    <3> QED BY <1>4, <1>5, <3>1
  <2>2. s = t \o datas
    OBVIOUS
  <2> HIDE DEF t, s
  <2> QED BY <1>4, <2>1, <2>2, Joined
<1>7. g \in Datagram /\ g.frames = s
  <2>1. addr \in Addrs /\ 0 \in Addrs
    BY LifecycleAssumption DEF IInv, TypeOK, Addrs
  <2> HIDE DEF s
  <2>2. g = [from |-> IF e = "client" THEN addr ELSE 0, frames |-> s]
    BY DEF s
  <2> QED BY <1>6, <2>1, <2>2 DEF Datagram
<1>8. net' = net \/ net' = [net EXCEPT ![Peer(e)] = Append(@, g)]
  BY <1>1
<1> HIDE DEF g, s
<1>9. net \in [Ends -> Seq(Datagram)]
  BY DEF IInv, TypeOK
<1>10. /\ net' \in [Ends -> Seq(Datagram)]
       /\ \A x \in Ends : \A k \in 1..Len(net'[x]) :
            \/ \E j \in 1..Len(net[x]) : net'[x][k] = net[x][j]
            \/ x = Peer(e) /\ net'[x][k] = g
  <2>1. CASE net' = net
    BY <1>9, <2>1
  <2>2. CASE net' = [net EXCEPT ![Peer(e)] = Append(@, g)]
    <3>1. Peer(e) \in Ends /\ net[Peer(e)] \in Seq(Datagram)
      BY <1>9, PeerIs
    <3> DEFINE q == net[Peer(e)]
               r == Append(q, g)
    <3>2. r \in Seq(Datagram) /\ Len(r) = Len(q) + 1 /\ Len(q) \in Nat
      BY <1>7, <3>1
    <3>3. ASSUME NEW k \in 1..Len(r) PROVE (\E j \in 1..Len(q) : r[k] = q[j]) \/ r[k] = g
      <4>1. k \in 1..Len(q) \/ k = Len(q) + 1
        BY <3>2
      <4>2. CASE k \in 1..Len(q)
        <5>1. r[k] = q[k]
          BY <3>1, <4>2
        <5> QED BY <4>2, <5>1
      <4>3. CASE k = Len(q) + 1
        BY <3>1, <4>3
      <4> QED BY <4>1, <4>2, <4>3
    <3>4. net'[Peer(e)] = r /\ \A x \in Ends : x # Peer(e) => net'[x] = net[x]
      BY <1>9, <2>2, <3>1
    <3> HIDE DEF r
    <3>5. net' \in [Ends -> Seq(Datagram)]
      BY <1>9, <2>2, <3>2, <3>4
    <3> QED BY <3>3, <3>4, <3>5
  <2> QED BY <1>8, <2>1, <2>2
<1>11. \A x \in Ends : \A k \in 1..Len(net'[x]) :
         \/ \E j \in 1..Len(net[x]) : net'[x][k] = net[x][j]
         \/ x = Peer(e) /\ \A h \in 1..Len(net'[x][k].frames) : FrameOf(e, d, net'[x][k].frames[h])
  BY <1>6, <1>7, <1>10
<1>12. net' \in [Ends -> Seq(Datagram)]
  BY <1>10
<1>13. addr' \in Addrs /\ faults' \in 0..MaxFaults
  BY <1>1 DEF IInv, TypeOK
<1>14. opens' \in [Ends -> Nat] /\ \A x \in Ends : opens'[x] \in 0..MaxOpens[x]
  BY <1>1 DEF IInv, TypeOK
<1>15. Become(e, d)
  BY <1>1
<1> QED BY <1>3, <1>11, <1>12, <1>13, <1>14, <1>15, Stepped

LEMMA SendOK ==
  ASSUME IInv, NEW e \in Ends, Send(e)
  PROVE  IInv'
<1>1. PICK data \in SUBSET Sends(conn[e]) : SendNext(e, data)
  BY DEF Send
<1>2. data \in SUBSET Ids
  BY DEF Sends
<1> QED BY <1>1, <1>2, SendNextOK

LEMMA MoveOK ==
  ASSUME IInv, Move
  PROVE  IInv'
<1>1. conn' = conn /\ net' = net /\ opens' = opens /\ faults' = faults
  BY DEF Move, env
<1>2. addr' \in Addrs
  BY LifecycleAssumption DEF IInv, TypeOK, Move, Addrs
<1>3. TypeOK' /\ (opens \in [Ends -> Nat])'
  BY <1>1, <1>2 DEF IInv, TypeOK
<1> QED BY <1>1, <1>3 DEF IInv

LEMMA InitOK ==
  ASSUME Init
  PROVE  IInv
<1>0. 0 \in Ids /\ 1 \in Ids /\ 0 \in Addrs /\ 0 % 2 = 0 /\ 1 % 2 = 1
  BY LifecycleAssumption DEF Ids, Addrs
<1>1. ASSUME NEW e \in Ends PROVE EndOK(e, conn[e], conn[Peer(e)])
  <2> DEFINE c == conn[e]
  <2>1. c = [channels |-> [i \in Ids |-> NoChan], chan_used |-> {},
             next_chan_id |-> IF e = "server" THEN 1 ELSE 0, ctrl |-> <<>>, peer_addr |-> 0]
    BY DEF Init
  <2>2. /\ c \in Conn /\ c.chan_used = {} /\ c.ctrl = <<>>
        /\ c.next_chan_id = IF e = "server" THEN 1 ELSE 0
    <3>1. <<>> \in Seq(Frame)
      OBVIOUS
    <3> QED BY <1>0, <2>1, <3>1 DEF Conn
  <2>3. \A id \in Ids : ~Has(c, id)
    BY <2>1 DEF Has
  <2> HIDE DEF c
  <2>4. c.next_chan_id \in Own(e)
    BY <1>0, <2>2 DEF Own
  <2>5. Len(c.ctrl) = 0 /\ \A k : k \notin 1..Len(c.ctrl)
    BY <2>2
  <2>6. Len(c.ctrl) <= CtrlCap
    BY <2>5, LifecycleAssumption
  <2>7. SlotsOf(c)
    BY <2>2, <2>3 DEF SlotsOf
  <2>8. EndOK(e, c, conn[Peer(e)])
    BY <2>2, <2>3, <2>4, <2>5, <2>6, <2>7 DEF EndOK
  <2> QED BY <2>8 DEF c
<1>2. net \in [Ends -> Seq(Datagram)] /\ \A e \in Ends : \A i : i \notin 1..Len(net[e])
  <2>1. <<>> \in Seq(Datagram)
    OBVIOUS
  <2> QED BY <2>1 DEF Init
<1>3. opens \in [Ends -> Nat] /\ \A e \in Ends : opens[e] \in 0..MaxOpens[e]
  BY LifecycleAssumption DEF Init
<1>4. addr \in Addrs /\ faults \in 0..MaxFaults
  BY <1>0, LifecycleAssumption DEF Init
<1>5. conn \in [Ends -> Conn] /\ \A e \in Ends : Len(conn[e].ctrl) <= CtrlCap
  <2>1. \A e \in Ends : conn[e] \in Conn /\ Len(conn[e].ctrl) <= CtrlCap
    BY <1>1 DEF EndOK
  <2>2. DOMAIN conn = Ends /\ conn = [e \in Ends |-> conn[e]]
    BY DEF Init
  <2> QED BY <2>1, <2>2
<1>6. TypeOK
  BY <1>2, <1>3, <1>4, <1>5 DEF TypeOK
<1> QED BY <1>1, <1>2, <1>3, <1>6 DEF IInv

-------------------------------------------------------------------------------
\* Every step keeps the inductive invariant.
LEMMA Inductive ==
  ASSUME IInv, [Next]_vars
  PROVE  IInv'
<1>1. CASE UNCHANGED vars
  BY <1>1 DEF vars, env, IInv, TypeOK
<1>2. ASSUME NEW e \in Ends, NEW type \in Types, NEW dir \in Dirs, ChanOpen(e, type, dir)
      PROVE  IInv'
  BY <1>2, ChanOpenOK
<1>3. ASSUME NEW e \in Ends, NEW id \in Ids, ChanClose(e, id) PROVE IInv'
  BY <1>3, ChanCloseOK
<1>4. ASSUME NEW e \in Ends, NEW i \in 1..Len(net[e]), Lose(e, i) PROVE IInv'
  BY <1>4, LoseOK
<1>5. ASSUME NEW e \in Ends, NEW i \in 1..Len(net[e]), NEW again \in BOOLEAN, Feed(e, i, again)
      PROVE  IInv'
  BY <1>5, FeedOK
<1>6. ASSUME NEW e \in Ends, Send(e) PROVE IInv'
  BY <1>6, SendOK
<1>7. CASE Move
  BY <1>7, MoveOK
<1> QED BY <1>1, <1>2, <1>3, <1>4, <1>5, <1>6, <1>7 DEF Next

LEMMA Invariant == Spec => []IInv
<1>1. Init => IInv
  BY InitOK
<1>2. IInv /\ [Next]_vars => IInv'
  BY Inductive
<1> QED BY <1>1, <1>2, PTL DEF Spec

\* The pool of channels is exact: chan_new marks a slot for every channel and for nothing
\* else, whatever OPEN frames are refused, repeated, crossed or dropped on the way.
THEOREM SlotsExactHolds == Spec => []SlotsExact
<1>1. ASSUME IInv PROVE SlotsExact
  <2>1. TypeOK /\ \A e \in Ends : SlotsOf(conn[e])
    BY <1>1 DEF IInv, EndOK
  <2> QED BY <2>1 DEF SlotsExact, SlotsOf
<1> QED BY <1>1, Invariant, PTL

\* A channel that both ends hold is one channel: parse_frames turns the direction of an OPEN
\* round, keeps its type, and never puts the peer's identifier over one of its own.
THEOREM MatchedHolds == Spec => []Matched
<1>1. ASSUME IInv PROVE Matched
  <2> DEFINE c == conn["client"]
             s == conn["server"]
  <2>1. EndOK("client", c, s) /\ EndOK("server", s, c)
    <3>1. "client" \in Ends /\ "server" \in Ends
      BY DEF Ends
    <3> QED BY <1>1, <3>1, PeerIs DEF IInv
  <2>2. ASSUME NEW id \in Ids, c.channels[id] # NoChan, s.channels[id] # NoChan
        PROVE  /\ c.channels[id].type = s.channels[id].type
               /\ c.channels[id].dir = s.channels[id].dir
               /\ c.channels[id].role # s.channels[id].role
    <3>1. ChanOf("client", c, s, id) /\ ChanOf("server", s, c, id)
      BY <2>1, <2>2 DEF EndOK, Has
    <3>2. id \in Own("client") <=> id \notin Own("server")
      <4>1. id \in Nat /\ id % 2 \in {0, 1}
        BY DEF Ids
      <4> QED BY <4>1 DEF Own
    <3>3. c.channels[id].dir \in Dirs /\ s.channels[id].dir \in Dirs
      BY <2>1, <2>2 DEF EndOK, Conn, Chan
    <3> QED BY <3>1, <3>2, <3>3 DEF ChanOf, Side, Turned
  <2> QED BY <2>2 DEF Matched
<1> QED BY <1>1, Invariant, PTL

\* A sender with an open channel or with credit has a peer that receives: only the peer's
\* OPEN or its first window update gives either, and the peer never frees the channel.
THEOREM AcceptedByPeerHolds == Spec => []AcceptedByPeer
<1>1. ASSUME IInv PROVE AcceptedByPeer
  <2>1. ASSUME NEW e \in Ends, NEW id \in Ids, conn[e].channels[id] # NoChan
        PROVE  ChanOf(e, conn[e], conn[Peer(e)], id)
    BY <1>1, <2>1 DEF IInv, EndOK, Has
  <2> QED BY <2>1 DEF AcceptedByPeer, ChanOf
<1> QED BY <1>1, Invariant, PTL
===============================================================================
