---------------------------- MODULE NcConnProofs ----------------------------
(***************************************************************************)
(* Theorems about the connection of NcConn, for every number of retries,   *)
(* every timer, every size of the queues and every network.                *)
(***************************************************************************)
EXTENDS NcConn, SequenceTheorems, TLAPS

-----------------------------------------------------------------------------
(* The inductive invariant.                                                *)

\* netchan_accept has been called.
Past(s) == s.state \notin {"NEW", "CONNECTING"}

\* A CONNECT_ACCEPT among the frames q carries the server's id and was sent by
\* a server that has accepted.
FrameOK(f, s) == f.type = "CONNECT_ACCEPT" => f.arg = IdOf("server") /\ Past(s)
AcceptsOK(q, s) == \A i \in 1 .. Len(q) : FrameOK(q[i], s)

ServerOK(s) ==
    /\ s.state \notin {"NEW", "FREED"} => s.local = IdOf("server")
    /\ AcceptsOK(s.ctrl, s)
    /\ s.gone <= 1
    /\ s.gone = 1 => s.state \in {"CLOSED", "FREED"}
ClientOK(c, s) ==
    /\ AcceptsOK(c.inbox, s)
    /\ c.remote # NoId => c.remote = IdOf("server") /\ Past(s)
NetOK(n, s) == \A p \in n : p.to = "client" => AcceptsOK(p.frames, s)

Inv == /\ TypeOK
       /\ ServerOK(conn["server"])
       /\ ClientOK(conn["client"], conn["server"])
       /\ NetOK(net, conn["server"])

-----------------------------------------------------------------------------
(* The operators the actions are made of.                                  *)

\* The two ends.
LEMMA EndsFacts ==
    /\ "client" \in Ends /\ "server" \in Ends
    /\ \A e \in Ends : Peer(e) \in Ends /\ IdOf(e) \in Nat \ {NoId}
    /\ NoId \in Nat /\ IdOf("client") = 1 /\ IdOf("server") = 2
BY DEF Ends, Peer, IdOf, NoId

\* Appending to, and taking from, a sequence of frames.
LEMMA AppendAccepts ==
    ASSUME NEW q \in Seq(Frame), NEW f \in Frame, NEW s, AcceptsOK(q, s), FrameOK(f, s)
    PROVE  AcceptsOK(Append(q, f), s)
<1>1. Len(Append(q, f)) = Len(q) + 1 /\ Len(q) \in Nat
  BY AppendProperties, LenProperties
<1>2. ASSUME NEW i \in 1 .. Len(q) + 1
      PROVE  FrameOK(Append(q, f)[i], s)
  <2>1. CASE i = Len(q) + 1
    <3>1. Append(q, f)[i] = f
      BY <2>1, AppendProperties
    <3>2. QED
      BY <3>1
  <2>2. CASE i # Len(q) + 1
    <3>1. i \in 1 .. Len(q)
      BY <1>1, <2>2
    <3>2. Append(q, f)[i] = q[i]
      BY <3>1, AppendProperties
    <3>3. QED
      BY <3>1, <3>2 DEF AcceptsOK
  <2>3. QED
    BY <2>1, <2>2
<1>3. QED
  BY <1>1, <1>2 DEF AcceptsOK

LEMMA TailAccepts ==
    ASSUME NEW q \in Seq(Frame), q # << >>, NEW s, AcceptsOK(q, s)
    PROVE  /\ Head(q) \in Frame /\ FrameOK(Head(q), s)
           /\ Tail(q) \in Seq(Frame) /\ AcceptsOK(Tail(q), s)
<1>1. /\ Head(q) \in Frame /\ Tail(q) \in Seq(Frame) /\ Len(Tail(q)) = Len(q) - 1
      /\ \A i \in 1 .. Len(Tail(q)) : Tail(q)[i] = q[i + 1]
  BY HeadTailProperties
<1>2. Len(q) \in Nat /\ Len(q) > 0 /\ Head(q) = q[1]
  BY EmptySeq, LenProperties
<1>3. FrameOK(Head(q), s)
  BY <1>2 DEF AcceptsOK
<1>4. ASSUME NEW i \in 1 .. Len(Tail(q))
      PROVE  FrameOK(Tail(q)[i], s)
  <2>1. i + 1 \in 1 .. Len(q)
    BY <1>1, <1>2
  <2>2. FrameOK(q[i + 1], s)
    BY <2>1 DEF AcceptsOK
  <2>3. QED
    BY <1>1, <2>2
<1>5. QED
  BY <1>1, <1>3, <1>4 DEF AcceptsOK

\* A server that has accepted stays so.
LEMMA KeepAccepts ==
    ASSUME NEW q, NEW s, NEW t, Past(s) => Past(t), AcceptsOK(q, s)
    PROVE  AcceptsOK(q, t)
BY DEF AcceptsOK, FrameOK

\* An empty sequence of frames holds no CONNECT_ACCEPT.
LEMMA NoAccepts ==
    ASSUME NEW s
    PROVE  AcceptsOK(<< >>, s)
BY DEF AcceptsOK

\* ctrl_reserve keeps the bound of the control buffer and touches nothing else.
LEMMA CtrlConn ==
    ASSUME NEW c, ConnOK(c), NEW type \in FrameTypes, NEW arg \in Nat
    PROVE  LET d == Ctrl(c, type, arg)
           IN  /\ ConnOK(d)
               /\ d.state = c.state /\ d.local = c.local /\ d.remote = c.remote
               /\ d.inbox = c.inbox /\ d.events = c.events /\ d.gone = c.gone
               /\ d.attempts = c.attempts
               /\ \A s : /\ AcceptsOK(c.ctrl, s)
                         /\ FrameOK([type |-> type, arg |-> arg], s)
                         => AcceptsOK(d.ctrl, s)
<1> DEFINE d == Ctrl(c, type, arg)
           f == [type |-> type, arg |-> arg]
<1>1. f \in Frame /\ c \in Conn /\ c.ctrl \in Seq(Frame)
  BY DEF Frame, ConnOK, Conn
<1>2. CASE Len(c.ctrl) < CtrlSlots
  <2>1. d = [c EXCEPT !.ctrl = Append(@, f)]
    BY <1>2 DEF Ctrl
  <2>2. Append(c.ctrl, f) \in Seq(Frame) /\ Len(Append(c.ctrl, f)) = Len(c.ctrl) + 1
    BY <1>1, AppendProperties
  <2>3. Len(c.ctrl) \in Nat
    BY <1>1, LenProperties
  <2> HIDE DEF d, f
  <2>4. /\ d \in Conn /\ d.ctrl = Append(c.ctrl, f) /\ d.events = c.events
        /\ d.state = c.state /\ d.local = c.local /\ d.remote = c.remote
        /\ d.inbox = c.inbox /\ d.gone = c.gone /\ d.attempts = c.attempts
    BY <1>1, <2>1, <2>2 DEF Conn
  <2>5. Len(d.ctrl) <= CtrlSlots
    BY <1>2, <2>2, <2>3, <2>4, QueueAssumption
  <2>6. ConnOK(d)
    BY <2>4, <2>5 DEF ConnOK
  <2>7. \A s : AcceptsOK(c.ctrl, s) /\ FrameOK(f, s) => AcceptsOK(d.ctrl, s)
    BY <1>1, <2>4, AppendAccepts
  <2>8. QED
    BY <2>4, <2>6, <2>7 DEF d, f
<1>3. CASE ~ (Len(c.ctrl) < CtrlSlots)
  BY <1>3 DEF Ctrl
<1>4. QED
  BY <1>2, <1>3

\* ev_push keeps the bound of the event ring and touches nothing else.
LEMMA EvPushConn ==
    ASSUME NEW c, ConnOK(c), NEW ev \in {"CONNECTED", "DISCONNECTED"}
    PROVE  LET d == EvPush(c, ev)
           IN  /\ ConnOK(d)
               /\ d.state = c.state /\ d.local = c.local /\ d.remote = c.remote
               /\ d.inbox = c.inbox /\ d.ctrl = c.ctrl
               /\ d.gone = c.gone \/ (ev = "DISCONNECTED" /\ d.gone = c.gone + 1)
<1> DEFINE d == EvPush(c, ev)
           g == IF ev = "DISCONNECTED" THEN c.gone + 1 ELSE c.gone
           E == {"CONNECTED", "DISCONNECTED"}
<1>1. c \in Conn /\ c.events \in Seq(E) /\ c.gone \in Nat
  BY DEF ConnOK, Conn
<1>2. CASE Len(c.events) < EvSlots - 1
  <2>1. d = [c EXCEPT !.events = Append(@, ev), !.gone = g]
    BY <1>2 DEF EvPush
  <2>2. Append(c.events, ev) \in Seq(E) /\ Len(Append(c.events, ev)) = Len(c.events) + 1
    BY <1>1, AppendProperties
  <2>3. Len(c.events) \in Nat /\ g \in Nat
    BY <1>1, LenProperties
  <2> HIDE DEF d, g
  <2>4. /\ d \in Conn /\ d.events = Append(c.events, ev) /\ d.ctrl = c.ctrl
        /\ d.state = c.state /\ d.local = c.local /\ d.remote = c.remote
        /\ d.inbox = c.inbox /\ d.gone = g
    BY <1>1, <2>1, <2>2, <2>3 DEF Conn
  <2>5. Len(d.events) < EvSlots
    BY <1>2, <2>2, <2>3, <2>4, QueueAssumption
  <2>6. ConnOK(d)
    BY <2>4, <2>5 DEF ConnOK
  <2>7. QED
    BY <2>4, <2>6 DEF d, g
<1>3. CASE ~ (Len(c.events) < EvSlots - 1)
  BY <1>3 DEF EvPush
<1>4. QED
  BY <1>2, <1>3

\* A step of the server alone, and one of the client alone.
LEMMA ServerStep ==
    ASSUME Inv, NEW c, Local("server", c), ConnOK(c), ServerOK(c),
           Past(conn["server"]) => Past(c)
    PROVE  Inv'
<1>1. /\ conn' = [conn EXCEPT !["server"] = c] /\ net' = net /\ lost' = lost /\ dups' = dups
      /\ conn \in [Ends -> Conn]
  BY DEF Local, Becomes, Inv, TypeOK
<1>2. conn'["server"] = c /\ conn'["client"] = conn["client"]
  BY <1>1, EndsFacts
<1>3. TypeOK'
  <2>1. c \in Conn
    BY DEF ConnOK
  <2>2. conn' \in [Ends -> Conn]
    BY <1>1, <2>1
  <2>3. \A e \in Ends : ConnOK(conn'[e])
    BY <1>2 DEF Inv, TypeOK, Ends
  <2>4. QED
    BY <1>1, <2>2, <2>3 DEF Inv, TypeOK
<1>4. ClientOK(conn["client"], c)
  BY KeepAccepts DEF Inv, ClientOK
<1>5. NetOK(net, c)
  BY KeepAccepts DEF Inv, NetOK
<1>6. QED
  BY <1>1, <1>2, <1>3, <1>4, <1>5 DEF Inv

LEMMA ClientStep ==
    ASSUME Inv, NEW c, Local("client", c), ConnOK(c), ClientOK(c, conn["server"])
    PROVE  Inv'
<1>1. /\ conn' = [conn EXCEPT !["client"] = c] /\ net' = net /\ lost' = lost /\ dups' = dups
      /\ conn \in [Ends -> Conn]
  BY DEF Local, Becomes, Inv, TypeOK
<1>2. conn'["client"] = c /\ conn'["server"] = conn["server"]
  BY <1>1, EndsFacts
<1>3. TypeOK'
  <2>1. c \in Conn
    BY DEF ConnOK
  <2>2. conn' \in [Ends -> Conn]
    BY <1>1, <2>1
  <2>3. \A e \in Ends : ConnOK(conn'[e])
    BY <1>2 DEF Inv, TypeOK, Ends
  <2>4. QED
    BY <1>1, <2>2, <2>3 DEF Inv, TypeOK
<1>4. QED
  BY <1>1, <1>2, <1>3 DEF Inv

\* What the invariant says of each end.
LEMMA InvFacts ==
    ASSUME Inv
    PROVE  /\ \A e \in Ends : ConnOK(conn[e]) /\ conn[e] \in Conn
           /\ ServerOK(conn["server"]) /\ ClientOK(conn["client"], conn["server"])
BY DEF Inv, TypeOK, ConnOK

\* A new state for a connection, and nothing else.
LEMMA StateConn ==
    ASSUME NEW c, ConnOK(c), NEW st \in States
    PROVE  LET d == [c EXCEPT !.state = st]
           IN  /\ ConnOK(d) /\ d.state = st /\ d.local = c.local /\ d.remote = c.remote
               /\ d.inbox = c.inbox /\ d.ctrl = c.ctrl /\ d.gone = c.gone
BY DEF ConnOK, Conn

\* Taking the next frame off the inbox.
LEMMA RestConn ==
    ASSUME Inv, NEW e \in Ends, conn[e].inbox # << >>
    PROVE  /\ ConnOK(Rest(e)) /\ ConnOK(Refused(e)) /\ Arg(e) \in Nat
           /\ Rest(e).state = conn[e].state /\ Refused(e).state = conn[e].state
           /\ Rest(e).local = conn[e].local /\ Refused(e).local = conn[e].local
           /\ Rest(e).remote = conn[e].remote /\ Refused(e).remote = conn[e].remote
           /\ Rest(e).ctrl = conn[e].ctrl /\ Refused(e).ctrl = conn[e].ctrl
           /\ Rest(e).gone = conn[e].gone /\ Refused(e).gone = conn[e].gone
           /\ Rest(e).inbox = Tail(conn[e].inbox) /\ Refused(e).inbox = << >>
<1>1. conn[e] \in Conn /\ conn[e].inbox \in Seq(Frame) /\ ConnOK(conn[e])
  BY InvFacts DEF Conn
<1>2. Head(conn[e].inbox) \in Frame /\ Tail(conn[e].inbox) \in Seq(Frame)
  BY <1>1, HeadTailProperties
<1>3. << >> \in Seq(Frame)
  BY EmptySeq
<1>4. Arg(e) \in Nat
  BY <1>2 DEF Arg, Frame
<1>5. Rest(e) \in Conn /\ Refused(e) \in Conn
  BY <1>1, <1>2, <1>3 DEF Rest, Refused, Conn
<1>6. QED
  BY <1>1, <1>4, <1>5 DEF Rest, Refused, ConnOK, Conn

-----------------------------------------------------------------------------
(* One lemma per action.                                                   *)

\* netchan_open.
LEMMA InitInv == Init => Inv
<1> SUFFICES ASSUME Init PROVE Inv
  OBVIOUS
<1>1. << >> \in Seq(Frame) /\ << >> \in Seq({"CONNECTED", "DISCONNECTED"}) /\ Len(<< >>) = 0
  BY EmptySeq
<1>2. Opened \in Conn
  BY <1>1, RetryAssumption DEF Opened, Conn, States, Ages, NoId
<1>3. ConnOK(Opened)
  BY <1>1, <1>2, QueueAssumption DEF ConnOK, Opened
<1>4. ServerOK(Opened) /\ ClientOK(Opened, Opened)
  BY <1>1, NoAccepts DEF ServerOK, ClientOK, Opened
<1>5. \A e \in Ends : conn[e] = Opened
  BY DEF Init
<1>6. TypeOK
  BY <1>2, <1>3 DEF Init, TypeOK
<1>7. QED
  BY <1>4, <1>5, <1>6, EndsFacts DEF Inv, Init, NetOK

\* netchan_connect.
LEMMA ConnectInv == ASSUME Inv, Connect PROVE Inv'
<1> DEFINE c == conn["client"]
           d == [c EXCEPT !.local = IdOf("client"), !.state = "CONNECTING",
                          !.connect_age = 0, !.attempts = 1]
           u == Ctrl(d, "CONNECT_INIT", IdOf("client"))
<1>1. ConnOK(c) /\ c \in Conn /\ ClientOK(c, conn["server"])
  BY InvFacts, EndsFacts
<1>2. Local("client", u)
  BY DEF Connect
<1>3. 0 \in Ages(RetryTicks) /\ 1 \in 0 .. Retries /\ "CONNECTING" \in States
  BY RetryAssumption DEF Ages, States
<1>4. ConnOK(d) /\ d.inbox = c.inbox /\ d.remote = c.remote
  BY <1>1, <1>3, EndsFacts DEF ConnOK, Conn
<1> HIDE DEF d
<1>5. ConnOK(u) /\ u.inbox = c.inbox /\ u.remote = c.remote
  BY <1>4, CtrlConn, EndsFacts, ZenonT(60) DEF FrameTypes
<1> HIDE DEF u
<1>6. ClientOK(u, conn["server"])
  BY <1>1, <1>5 DEF ClientOK
<1>7. QED
  BY <1>2, <1>5, <1>6, ClientStep

\* netchan_accept: the one place a CONNECT_ACCEPT comes from.
LEMMA AcceptInv == ASSUME Inv, Accept PROVE Inv'
<1> DEFINE s == conn["server"]
           a == Ctrl(s, "CONNECT_ACCEPT", s.local)
           b == [a EXCEPT !.state = "CONNECTED"]
           u == EvPush(b, "CONNECTED")
<1>1. ConnOK(s) /\ s \in Conn /\ ServerOK(s) /\ s.state = "CONNECTING"
  BY InvFacts, EndsFacts DEF Accept
<1>2. Local("server", u)
  BY DEF Accept
<1>3. s.local = IdOf("server") /\ s.local \in Nat
  BY <1>1, EndsFacts DEF ServerOK
<1> HIDE DEF s
<1>4. /\ ConnOK(a) /\ a.local = s.local /\ a.gone = s.gone
      /\ \A t : AcceptsOK(s.ctrl, t) /\ FrameOK([type |-> "CONNECT_ACCEPT", arg |-> s.local], t)
                => AcceptsOK(a.ctrl, t)
  BY <1>1, <1>3, CtrlConn DEF FrameTypes
<1> HIDE DEF a
<1>5. /\ ConnOK(b) /\ b.state = "CONNECTED" /\ b.local = s.local /\ b.ctrl = a.ctrl
      /\ b.gone = s.gone
  BY <1>4, StateConn, ZenonT(60) DEF States
<1> HIDE DEF b
<1>6. /\ ConnOK(u) /\ u.state = "CONNECTED" /\ u.local = s.local /\ u.ctrl = a.ctrl
      /\ u.gone = s.gone
  BY <1>5, EvPushConn
<1> HIDE DEF u
<1>7. Past(u)
  BY <1>6 DEF Past
<1>8. AcceptsOK(u.ctrl, u)
  <2>1. AcceptsOK(s.ctrl, u)
    BY <1>1, <1>7, KeepAccepts DEF ServerOK
  <2>2. FrameOK([type |-> "CONNECT_ACCEPT", arg |-> s.local], u)
    BY <1>3, <1>7 DEF FrameOK
  <2>3. QED
    BY <1>4, <1>6, <2>1, <2>2
<1>9. s.gone # 1 /\ s.gone <= 1
  BY <1>1 DEF ServerOK
<1>10. ServerOK(u)
  BY <1>3, <1>6, <1>8, <1>9 DEF ServerOK
<1>11. QED
  BY <1>2, <1>6, <1>7, <1>10, ServerStep

\* What a step of either end has to show.
LEMMA EndStep ==
    ASSUME Inv, NEW e \in Ends, NEW c, Local(e, c), ConnOK(c),
           e = "client" => /\ AcceptsOK(c.inbox, conn["server"])
                           /\ c.remote = conn["client"].remote
           ,
           e = "server" => /\ AcceptsOK(c.ctrl, conn["server"])
                           /\ Past(conn["server"]) => Past(c)
                           /\ c.state \notin {"NEW", "FREED"} => c.local = IdOf("server")
                           /\ c.gone <= 1
                           /\ c.gone = 1 => c.state \in {"CLOSED", "FREED"}
    PROVE  Inv'
<1>1. CASE e = "client"
  <2>1. ClientOK(c, conn["server"])
    BY <1>1, InvFacts DEF ClientOK
  <2>2. QED
    BY <1>1, <2>1, ClientStep
<1>2. CASE e = "server"
  <2>1. AcceptsOK(c.ctrl, c)
    BY <1>2, KeepAccepts
  <2>2. ServerOK(c)
    BY <1>2, <2>1 DEF ServerOK
  <2>3. QED
    BY <1>2, <2>2, ServerStep
<1>3. QED
  BY <1>1, <1>2 DEF Ends

\* What the invariant gives for it.
LEMMA EndFacts ==
    ASSUME Inv, NEW e \in Ends
    PROVE  /\ ConnOK(conn[e]) /\ conn[e] \in Conn /\ conn[e].gone \in Nat
           /\ e = "client" => AcceptsOK(conn[e].inbox, conn["server"])
           /\ e = "server" =>
                /\ AcceptsOK(conn[e].ctrl, conn["server"])
                /\ conn[e].state \notin {"NEW", "FREED"} => conn[e].local = IdOf("server")
                /\ conn[e].gone <= 1
                /\ conn[e].gone = 1 => conn[e].state \in {"CLOSED", "FREED"}
BY InvFacts DEF ServerOK, ClientOK, Conn

\* A frame that is not a CONNECT_ACCEPT.
LEMMA OtherFrame ==
    ASSUME NEW type, type # "CONNECT_ACCEPT", NEW arg, NEW s
    PROVE  FrameOK([type |-> type, arg |-> arg], s)
BY DEF FrameOK

\* netchan_disconnect.
LEMMA DisconnectInv == ASSUME Inv, NEW e \in Ends, Disconnect(e) PROVE Inv'
<1> DEFINE c == conn[e]
           a == Ctrl(c, "DISCONNECT", 0)
           u == [a EXCEPT !.state = "CLOSING"]
<1>1. Local(e, u) /\ c.state = "CONNECTED"
  BY DEF Disconnect
<1>2. ConnOK(c) /\ FrameOK([type |-> "DISCONNECT", arg |-> 0], conn["server"])
  BY EndFacts, OtherFrame
<1> HIDE DEF c
<1>3. /\ ConnOK(a) /\ a.inbox = c.inbox /\ a.remote = c.remote /\ a.local = c.local
      /\ a.gone = c.gone
      /\ AcceptsOK(c.ctrl, conn["server"]) => AcceptsOK(a.ctrl, conn["server"])
  BY <1>2, CtrlConn DEF FrameTypes
<1> HIDE DEF a
<1>4. /\ ConnOK(u) /\ u.state = "CLOSING" /\ u.inbox = c.inbox /\ u.remote = c.remote
      /\ u.local = c.local /\ u.gone = c.gone /\ u.ctrl = a.ctrl
  BY <1>3, StateConn, ZenonT(60) DEF States
<1> HIDE DEF u
<1>5. Past(u)
  BY <1>4 DEF Past
<1>6. QED
  BY <1>1, <1>3, <1>4, <1>5, EndFacts, EndStep DEF c

\* netchan_close.
LEMMA CloseInv == ASSUME Inv, NEW e \in Ends, Close(e) PROVE Inv'
<1> DEFINE u == [Opened EXCEPT !.state = "FREED", !.gone = conn[e].gone]
<1>1. Local(e, u)
  BY DEF Close
<1>2. << >> \in Seq(Frame) /\ << >> \in Seq({"CONNECTED", "DISCONNECTED"}) /\ Len(<< >>) = 0
  BY EmptySeq
<1>3. ConnOK(u) /\ u.inbox = << >> /\ u.ctrl = << >> /\ u.state = "FREED"
      /\ u.gone = conn[e].gone /\ u.remote = NoId
  <2>1. /\ conn[e].gone \in Nat /\ 0 \in 0 .. Retries /\ Never \in Ages(RetryTicks)
        /\ Never \in Ages(IdleTicks) /\ Never \in Ages(PingTicks) /\ "FREED" \in States
    BY EndFacts, RetryAssumption DEF Ages, States
  <2>2. u \in Conn
    BY <1>2, <2>1 DEF Opened, Conn, NoId
  <2>3. u.inbox = << >> /\ u.ctrl = << >> /\ u.events = << >> /\ u.state = "FREED"
        /\ u.gone = conn[e].gone /\ u.remote = NoId
    BY DEF Opened
  <2>4. QED
    BY <1>2, <2>2, <2>3, QueueAssumption DEF ConnOK
<1> HIDE DEF u
<1>4. AcceptsOK(u.inbox, conn["server"]) /\ AcceptsOK(u.ctrl, conn["server"]) /\ Past(u)
  BY <1>3, NoAccepts DEF Past
<1>5. CASE e = "client"
  <2>1. ClientOK(u, conn["server"])
    BY <1>3, <1>4 DEF ClientOK
  <2>2. QED
    BY <1>1, <1>3, <1>5, <2>1, ClientStep
<1>6. CASE e = "server"
  BY <1>1, <1>3, <1>4, <1>6, EndFacts, EndStep
<1>7. QED
  BY <1>5, <1>6 DEF Ends

\* netchan_poll.
LEMMA PollInv == ASSUME Inv, NEW e \in Ends, Poll(e) PROVE Inv'
<1> DEFINE c == conn[e]
           u == [c EXCEPT !.events = Tail(@)]
           E == {"CONNECTED", "DISCONNECTED"}
<1>1. Local(e, u) /\ c.events # << >>
  BY DEF Poll
<1>2. ConnOK(c) /\ c \in Conn /\ c.events \in Seq(E)
  BY EndFacts DEF Conn
<1>3. Tail(c.events) \in Seq(E) /\ Len(Tail(c.events)) = Len(c.events) - 1
  BY <1>1, <1>2, HeadTailProperties
<1>4. Len(c.events) \in Nat
  BY <1>2, LenProperties
<1> HIDE DEF c
<1>5. /\ u \in Conn /\ u.inbox = c.inbox /\ u.ctrl = c.ctrl /\ u.state = c.state
      /\ u.gone = c.gone /\ u.remote = c.remote /\ u.local = c.local
      /\ u.events = Tail(c.events)
  BY <1>2, <1>3 DEF Conn
<1>6. ConnOK(u)
  BY <1>2, <1>3, <1>4, <1>5, QueueAssumption DEF ConnOK
<1> HIDE DEF u
<1>7. Past(c) => Past(u)
  BY <1>5 DEF Past
<1>8. QED
  BY <1>1, <1>5, <1>6, <1>7, EndFacts, EndStep DEF c

\* netchan_service: another CONNECT_INIT.
LEMMA RetryInv == ASSUME Inv, NEW e \in Ends, ServiceRetry(e) PROVE Inv'
<1> DEFINE c == conn[e]
           a == Ctrl(c, "CONNECT_INIT", c.local)
           u == [a EXCEPT !.connect_age = 0, !.attempts = @ + 1]
<1>1. Local(e, u) /\ c.attempts < Retries /\ e = "client"
  BY DEF ServiceRetry, RetryDue
<1>2. ConnOK(c) /\ c.local \in Nat /\ c.attempts \in 0 .. Retries
  BY EndFacts DEF Conn
<1>3. c.attempts + 1 \in 0 .. Retries /\ 0 \in Ages(RetryTicks)
  BY <1>1, <1>2, RetryAssumption DEF Ages
<1> HIDE DEF c
<1>4. /\ ConnOK(a) /\ a.inbox = c.inbox /\ a.remote = c.remote /\ a.attempts = c.attempts
  BY <1>2, CtrlConn DEF FrameTypes
<1> HIDE DEF a
<1>5. ConnOK(u) /\ u.inbox = c.inbox /\ u.remote = c.remote
  BY <1>3, <1>4 DEF ConnOK, Conn
<1> HIDE DEF u
<1>6. QED
  BY <1>1, <1>5, EndFacts, EndStep DEF c

\* netchan_service: the retries are exhausted, or the idle timeout has passed.
LEMMA TimeoutInv ==
    ASSUME Inv, NEW e \in Ends, ServiceGiveUp(e) \/ ServiceIdle(e)
    PROVE  Inv'
<1> DEFINE c == conn[e]
           a == [c EXCEPT !.state = "CLOSED"]
           u == EvPush(a, "DISCONNECTED")
<1>1. Local(e, u) /\ (e = "server" => c.state = "CONNECTED")
  BY DEF ServiceGiveUp, ServiceIdle, RetryDue, IdleDue
<1>2. ConnOK(c) /\ c.gone \in Nat
  BY EndFacts
<1>3. e = "server" => c.gone = 0 /\ c.local = IdOf("server")
  BY <1>1, <1>2, EndFacts
<1> HIDE DEF c
<1>4. /\ ConnOK(a) /\ a.inbox = c.inbox /\ a.remote = c.remote /\ a.local = c.local
      /\ a.gone = c.gone /\ a.ctrl = c.ctrl /\ a.state = "CLOSED"
  BY <1>2, StateConn DEF States
<1> HIDE DEF a
<1>5. /\ ConnOK(u) /\ u.state = "CLOSED" /\ u.inbox = c.inbox /\ u.remote = c.remote
      /\ u.local = c.local /\ u.ctrl = c.ctrl
      /\ u.gone = c.gone \/ u.gone = c.gone + 1
  BY <1>4, EvPushConn
<1> HIDE DEF u
<1>6. Past(u)
  BY <1>5 DEF Past
<1>7. e = "server" => u.gone <= 1
  BY <1>2, <1>3, <1>5
<1>8. QED
  BY <1>1, <1>3, <1>5, <1>6, <1>7, EndFacts, EndStep DEF c

\* netchan_service: a keepalive.
LEMMA PingInv == ASSUME Inv, NEW e \in Ends, ServicePing(e) PROVE Inv'
<1>1. PICK opaque \in Opaques :
         Local(e, [Ctrl(conn[e], "PING", opaque) EXCEPT !.ping_opaque = opaque,
                                                        !.ping_sent = TRUE])
  BY DEF ServicePing
<1> DEFINE c == conn[e]
           a == Ctrl(c, "PING", opaque)
           u == [a EXCEPT !.ping_opaque = opaque, !.ping_sent = TRUE]
<1>2. opaque \in Nat /\ ConnOK(c) /\ FrameOK([type |-> "PING", arg |-> opaque], conn["server"])
  BY OpaqueAssumption, EndFacts, OtherFrame
<1> HIDE DEF c
<1>3. /\ ConnOK(a) /\ a.inbox = c.inbox /\ a.remote = c.remote /\ a.local = c.local
      /\ a.gone = c.gone /\ a.state = c.state
      /\ AcceptsOK(c.ctrl, conn["server"]) => AcceptsOK(a.ctrl, conn["server"])
  BY <1>2, CtrlConn DEF FrameTypes
<1> HIDE DEF a
<1>4. /\ ConnOK(u) /\ u.inbox = c.inbox /\ u.remote = c.remote /\ u.local = c.local
      /\ u.gone = c.gone /\ u.state = c.state /\ u.ctrl = a.ctrl
  BY <1>2, <1>3 DEF ConnOK, Conn
<1>5. Local(e, u)
  BY <1>1 DEF a, c
<1> HIDE DEF u
<1>6. Past(c) => Past(u)
  BY <1>4 DEF Past
<1>7. QED
  BY <1>3, <1>4, <1>5, <1>6, EndFacts, EndStep DEF c

\* What is left of the inbox holds no worse CONNECT_ACCEPT than before.
LEMMA RestAccepts ==
    ASSUME Inv, NEW e \in Ends, conn[e].inbox # << >>
    PROVE  e = "client" => /\ AcceptsOK(Rest(e).inbox, conn["server"])
                           /\ AcceptsOK(Refused(e).inbox, conn["server"])
                           /\ FrameOK(Head(conn[e].inbox), conn["server"])
<1>1. conn[e].inbox \in Seq(Frame)
  BY EndFacts DEF Conn
<1>2. Rest(e).inbox = Tail(conn[e].inbox) /\ Refused(e).inbox = << >>
  BY RestConn
<1>3. QED
  BY <1>1, <1>2, EndFacts, TailAccepts, NoAccepts

\* process_connect_init: a server that has left NEW only learns the id again.
LEMMA ConnectInitInv == ASSUME Inv, NEW e \in Ends, ProcessConnectInit(e) PROVE Inv'
<1>1. conn[e].inbox # << >>
  BY DEF ProcessConnectInit, Next1
<1>2. CASE e = "client"
  <2>1. Local(e, Refused(e))
    BY <1>2 DEF ProcessConnectInit
  <2>2. QED
    BY <1>1, <1>2, <2>1, RestConn, RestAccepts, EndStep
<1>3. CASE e = "server"
  <2> DEFINE c == Rest(e)
             n == [c EXCEPT !.remote = Arg(e), !.local = IdOf(e), !.state = "CONNECTING"]
             o == [c EXCEPT !.remote = Arg(e)]
  <2>1. Local(e, IF conn[e].state = "NEW" THEN n ELSE o)
    BY <1>3 DEF ProcessConnectInit
  <2>2. /\ ConnOK(c) /\ Arg(e) \in Nat /\ IdOf(e) \in Nat
        /\ c.state = conn[e].state /\ c.local = conn[e].local /\ c.gone = conn[e].gone
        /\ c.ctrl = conn[e].ctrl
    BY <1>1, RestConn, EndsFacts
  <2> HIDE DEF c
  <2>3. /\ ConnOK(n) /\ n.state = "CONNECTING" /\ n.local = IdOf(e) /\ n.gone = c.gone
        /\ n.ctrl = c.ctrl
    <3>1. "CONNECTING" \in States
      BY DEF States
    <3>2. QED
      BY <2>2, <3>1 DEF ConnOK, Conn
  <2>4. ConnOK(o) /\ o.state = c.state /\ o.local = c.local /\ o.gone = c.gone /\ o.ctrl = c.ctrl
    BY <2>2 DEF ConnOK, Conn
  <2> HIDE DEF n, o
  <2>5. CASE conn[e].state = "NEW"
    <3>1. ~ Past(conn["server"]) /\ conn[e].gone # 1
      BY <1>3, <2>5, EndFacts DEF Past
    <3>2. QED
      BY <1>3, <2>1, <2>2, <2>3, <2>5, <3>1, EndFacts, EndStep
  <2>6. CASE conn[e].state # "NEW"
    <3>1. Past(conn["server"]) => Past(o)
      BY <1>3, <2>2, <2>4 DEF Past
    <3>2. QED
      BY <1>3, <2>1, <2>2, <2>4, <2>6, <3>1, EndFacts, EndStep
  <2>7. QED
    BY <2>5, <2>6
<1>4. QED
  BY <1>2, <1>3 DEF Ends

\* process_connect_accept: the frame itself shows that the server has accepted.
LEMMA ConnectAcceptInv == ASSUME Inv, NEW e \in Ends, ProcessConnectAccept(e) PROVE Inv'
<1>1. conn[e].inbox # << >> /\ Head(conn[e].inbox).type = "CONNECT_ACCEPT"
  BY DEF ProcessConnectAccept, Next1
<1>2. CASE e = "server"
  <2> DEFINE u == Refused(e)
  <2>1. Local(e, u)
    BY <1>2 DEF ProcessConnectAccept
  <2>2. /\ ConnOK(u) /\ u.state = conn[e].state /\ u.local = conn[e].local
        /\ u.ctrl = conn[e].ctrl /\ u.gone = conn[e].gone
    BY <1>1, RestConn
  <2> HIDE DEF u
  <2>3. Past(conn["server"]) => Past(u)
    BY <1>2, <2>2 DEF Past
  <2>4. QED
    BY <1>2, <2>1, <2>2, <2>3, EndFacts, EndStep
<1>3. CASE e = "client"
  <2> DEFINE c == Rest(e)
             a == [c EXCEPT !.remote = Arg(e), !.state = "CONNECTED"]
             u == EvPush(a, "CONNECTED")
  <2>1. Local(e, u)
    BY <1>3 DEF ProcessConnectAccept
  <2>2. ConnOK(c) /\ Arg(e) \in Nat /\ AcceptsOK(c.inbox, conn["server"])
    BY <1>1, <1>3, RestConn, RestAccepts
  <2>3. Arg(e) = IdOf("server") /\ Past(conn["server"])
    BY <1>1, <1>3, RestAccepts DEF Arg, FrameOK
  <2> HIDE DEF c
  <2>4. ConnOK(a) /\ a.remote = Arg(e) /\ a.inbox = c.inbox
    <3>1. "CONNECTED" \in States
      BY DEF States
    <3>2. QED
      BY <2>2, <3>1 DEF ConnOK, Conn
  <2> HIDE DEF a
  <2>5. ConnOK(u) /\ u.remote = Arg(e) /\ u.inbox = c.inbox
    BY <2>4, EvPushConn
  <2> HIDE DEF u
  <2>6. ClientOK(u, conn["server"])
    BY <2>2, <2>3, <2>5 DEF ClientOK
  <2>7. QED
    BY <1>3, <2>1, <2>5, <2>6, ClientStep
<1>4. QED
  BY <1>2, <1>3 DEF Ends

\* process_disconnect: only a live session has news to report.
LEMMA ProcessDisconnectInv == ASSUME Inv, NEW e \in Ends, ProcessDisconnect(e) PROVE Inv'
<1> DEFINE r == Rest(e)
           a == [r EXCEPT !.state = "CLOSED"]
           u == EvPush(a, "DISCONNECTED")
<1>1. conn[e].inbox # << >>
  BY DEF ProcessDisconnect, Next1
<1>2. /\ ConnOK(r) /\ r.state = conn[e].state /\ r.local = conn[e].local
      /\ r.remote = conn[e].remote /\ r.ctrl = conn[e].ctrl /\ r.gone = conn[e].gone
      /\ e = "client" => AcceptsOK(r.inbox, conn["server"])
  BY <1>1, RestConn, RestAccepts
<1>3. \/ conn[e].state \in {"CONNECTING", "CONNECTED"} /\ Local(e, u)
      \/ conn[e].state = "CLOSING" /\ Local(e, a)
      \/ Local(e, r)
  BY DEF ProcessDisconnect
<1> HIDE DEF r
<1>4. /\ ConnOK(a) /\ a.inbox = r.inbox /\ a.remote = r.remote /\ a.local = r.local
      /\ a.gone = r.gone /\ a.ctrl = r.ctrl /\ a.state = "CLOSED"
  BY <1>2, StateConn DEF States
<1> HIDE DEF a
<1>5. /\ ConnOK(u) /\ u.state = "CLOSED" /\ u.inbox = r.inbox /\ u.remote = r.remote
      /\ u.local = r.local /\ u.ctrl = r.ctrl
      /\ u.gone = r.gone \/ u.gone = r.gone + 1
  BY <1>4, EvPushConn
<1> HIDE DEF u
<1>6. Past(u) /\ Past(a) /\ (e = "server" => (Past(conn["server"]) => Past(r)))
  BY <1>2, <1>4, <1>5 DEF Past
<1>7. conn[e].gone \in Nat
  BY EndFacts
<1>8. CASE conn[e].state \in {"CONNECTING", "CONNECTED"} /\ Local(e, u)
  <2>1. e = "server" => conn[e].gone = 0 /\ conn[e].local = IdOf("server")
    BY <1>7, <1>8, EndFacts
  <2>2. e = "server" => u.gone <= 1
    BY <1>2, <1>5, <2>1
  <2>3. QED
    BY <1>2, <1>5, <1>6, <1>8, <2>1, <2>2, EndFacts, EndStep
<1>9. CASE conn[e].state = "CLOSING" /\ Local(e, a)
  BY <1>2, <1>4, <1>6, <1>9, EndFacts, EndStep
<1>10. CASE Local(e, r)
  BY <1>2, <1>6, <1>10, EndFacts, EndStep
<1>11. QED
  BY <1>3, <1>8, <1>9, <1>10

\* process_ping.
LEMMA ProcessPingInv == ASSUME Inv, NEW e \in Ends, ProcessPing(e) PROVE Inv'
<1> DEFINE r == Rest(e)
           u == Ctrl(r, "PONG", Arg(e))
<1>1. conn[e].inbox # << >> /\ Local(e, u)
  BY DEF ProcessPing, Next1
<1>2. /\ ConnOK(r) /\ r.state = conn[e].state /\ r.local = conn[e].local /\ Arg(e) \in Nat
      /\ r.remote = conn[e].remote /\ r.ctrl = conn[e].ctrl /\ r.gone = conn[e].gone
      /\ e = "client" => AcceptsOK(r.inbox, conn["server"])
  BY <1>1, RestConn, RestAccepts
<1>3. FrameOK([type |-> "PONG", arg |-> Arg(e)], conn["server"])
  BY OtherFrame
<1> HIDE DEF r
<1>4. /\ ConnOK(u) /\ u.inbox = r.inbox /\ u.remote = r.remote /\ u.local = r.local
      /\ u.gone = r.gone /\ u.state = r.state
      /\ AcceptsOK(r.ctrl, conn["server"]) => AcceptsOK(u.ctrl, conn["server"])
  BY <1>2, <1>3, CtrlConn DEF FrameTypes
<1> HIDE DEF u
<1>5. e = "server" => (Past(conn["server"]) => Past(u))
  BY <1>2, <1>4 DEF Past
<1>6. QED
  BY <1>1, <1>2, <1>4, <1>5, EndFacts, EndStep

\* process_pong.
LEMMA ProcessPongInv == ASSUME Inv, NEW e \in Ends, ProcessPong(e) PROVE Inv'
<1> DEFINE r == Rest(e)
           a == [r EXCEPT !.ping_sent = FALSE]
<1>1. conn[e].inbox # << >> /\ (Local(e, r) \/ Local(e, a))
  BY DEF ProcessPong, Next1
<1>2. /\ ConnOK(r) /\ r.state = conn[e].state /\ r.local = conn[e].local
      /\ r.remote = conn[e].remote /\ r.ctrl = conn[e].ctrl /\ r.gone = conn[e].gone
      /\ e = "client" => AcceptsOK(r.inbox, conn["server"])
  BY <1>1, RestConn, RestAccepts
<1> HIDE DEF r
<1>3. /\ ConnOK(a) /\ a.inbox = r.inbox /\ a.remote = r.remote /\ a.local = r.local
      /\ a.gone = r.gone /\ a.state = r.state /\ a.ctrl = r.ctrl
  BY <1>2 DEF ConnOK, Conn
<1> HIDE DEF a
<1>4. e = "server" => (Past(conn["server"]) => Past(r) /\ Past(a))
  BY <1>2, <1>3 DEF Past
<1>5. CASE Local(e, r)
  BY <1>2, <1>4, <1>5, EndFacts, EndStep
<1>6. CASE Local(e, a)
  BY <1>2, <1>3, <1>4, <1>6, EndFacts, EndStep
<1>7. QED
  BY <1>1, <1>5, <1>6

\* A step of one end that also touches the network.
LEMMA NetStep ==
    ASSUME Inv, NEW e \in Ends, NEW c, Becomes(e, c), ConnOK(c),
           c.state = conn[e].state, c.local = conn[e].local,
           c.remote = conn[e].remote, c.gone = conn[e].gone,
           AcceptsOK(c.ctrl, conn["server"]) \/ e = "client",
           AcceptsOK(c.inbox, conn["server"]) \/ e = "server",
           net' \subseteq Packet, NetOK(net', conn["server"]),
           lost' \in Nat, dups' \in Nat
    PROVE  Inv'
<1>1. conn' = [conn EXCEPT ![e] = c] /\ conn \in [Ends -> Conn] /\ c \in Conn
  BY DEF Becomes, Inv, TypeOK, ConnOK
<1>2. conn'[e] = c /\ conn' \in [Ends -> Conn] /\ \A f \in Ends \ {e} : conn'[f] = conn[f]
  BY <1>1
<1>3. TypeOK'
  <2>1. \A f \in Ends : ConnOK(conn'[f])
    BY <1>2, InvFacts
  <2>2. QED
    BY <1>2, <2>1 DEF TypeOK
<1>4. Past(conn["server"]) => Past(conn'["server"])
  BY <1>2, EndsFacts DEF Past
<1>5. NetOK(net', conn'["server"])
  BY <1>4, KeepAccepts DEF NetOK
<1>6. ServerOK(conn'["server"])
  <2>1. CASE e = "server"
    <3>1. AcceptsOK(c.ctrl, c)
      BY <1>2, <1>4, <2>1, KeepAccepts
    <3>2. QED
      BY <1>2, <2>1, <3>1, InvFacts DEF ServerOK
  <2>2. CASE e = "client"
    BY <1>2, <2>2, InvFacts, EndsFacts
  <2>3. QED
    BY <2>1, <2>2 DEF Ends
<1>7. ClientOK(conn'["client"], conn'["server"])
  <2>1. CASE e = "client"
    <3>1. conn'["server"] = conn["server"] /\ conn'["client"] = c
      BY <1>2, <2>1, EndsFacts
    <3>2. QED
      BY <2>1, <3>1, InvFacts DEF ClientOK
  <2>2. CASE e = "server"
    <3>1. conn'["client"] = conn["client"]
      BY <1>2, <2>2, EndsFacts
    <3>2. QED
      BY <1>4, <3>1, InvFacts, KeepAccepts DEF ClientOK
  <2>3. QED
    BY <2>1, <2>2 DEF Ends
<1>8. QED
  BY <1>3, <1>5, <1>6, <1>7 DEF Inv

\* netchan_send_next.
LEMMA SendNextInv == ASSUME Inv, NEW e \in Ends, SendNext(e) PROVE Inv'
<1> DEFINE c == conn[e]
           init == e = "client" /\ c.state = "CONNECTING"
           id == IF init THEN c.local ELSE c.remote
           p == [to |-> Peer(e), init |-> init, id |-> id, frames |-> c.ctrl]
           u == [c EXCEPT !.ctrl = << >>, !.send_age = 0]
<1>1. net' = net \cup {p} /\ Becomes(e, u) /\ lost' = lost /\ dups' = dups
  BY DEF SendNext
<1>2. ConnOK(c) /\ c \in Conn /\ c.ctrl \in Seq(Frame) /\ c.local \in Nat /\ c.remote \in Nat
  BY EndFacts DEF Conn
<1>3. p \in Packet
  <2>1. init \in BOOLEAN /\ id \in Nat /\ Peer(e) \in Ends
    BY <1>2, EndsFacts
  <2> HIDE DEF init, id, c
  <2>2. QED
    BY <1>2, <2>1 DEF Packet
<1>4. p.to = "client" => AcceptsOK(p.frames, conn["server"])
  <2>1. p.to = Peer(e) /\ p.frames = c.ctrl
    OBVIOUS
  <2>2. p.to = "client" => e = "server"
    BY <2>1 DEF Peer, Ends
  <2>3. QED
    BY <2>1, <2>2, EndFacts
<1> HIDE DEF p
<1>5. net' \subseteq Packet /\ NetOK(net', conn["server"]) /\ lost' \in Nat /\ dups' \in Nat
  BY <1>1, <1>3, <1>4 DEF Inv, TypeOK, NetOK
<1>6. << >> \in Seq(Frame) /\ Len(<< >>) = 0 /\ 0 \in Ages(PingTicks)
  BY EmptySeq, TimerAssumption DEF Ages
<1> HIDE DEF c
<1>7. /\ u \in Conn /\ u.state = c.state /\ u.local = c.local /\ u.remote = c.remote
      /\ u.gone = c.gone /\ u.ctrl = << >> /\ u.inbox = c.inbox /\ u.events = c.events
  BY <1>2, <1>6 DEF Conn
<1>8. ConnOK(u)
  BY <1>2, <1>6, <1>7, QueueAssumption DEF ConnOK
<1> HIDE DEF u
<1>9. /\ AcceptsOK(u.ctrl, conn["server"])
      /\ AcceptsOK(u.inbox, conn["server"]) \/ e = "server"
  BY <1>7, NoAccepts, EndFacts DEF c, Ends
<1>10. QED
  BY <1>1, <1>5, <1>7, <1>8, <1>9, NetStep DEF c

\* netchan_feed.
LEMMA FeedInv ==
    ASSUME Inv, NEW p \in net, NEW again \in BOOLEAN, Feed(p, again)
    PROVE  Inv'
<1> DEFINE e == p.to
           c == conn[e]
           a == [c EXCEPT !.inbox = p.frames, !.recv_age = 0]
           u == IF p.init \/ p.id = c.local THEN a ELSE c
<1>1. p \in Packet /\ e \in Ends /\ p.frames \in Seq(Frame)
  BY DEF Inv, TypeOK, Packet
<1>2. Becomes(e, u) /\ lost' = lost
  BY DEF Feed
<1>3. net' \subseteq net /\ dups' \in Nat /\ lost' \in Nat
  BY <1>2 DEF Feed, Inv, TypeOK
<1>4. net' \subseteq Packet /\ NetOK(net', conn["server"])
  BY <1>3 DEF Inv, TypeOK, NetOK
<1>5. ConnOK(c) /\ c \in Conn /\ 0 \in Ages(IdleTicks)
  BY <1>1, EndFacts, TimerAssumption DEF Ages
<1>6. e = "client" => AcceptsOK(p.frames, conn["server"])
  BY DEF Inv, NetOK
<1>7. /\ e = "server" => AcceptsOK(c.ctrl, conn["server"])
      /\ e = "client" => AcceptsOK(c.inbox, conn["server"])
  BY <1>1, EndFacts
<1> HIDE DEF c, e
<1>8. /\ ConnOK(a) /\ a.state = c.state /\ a.local = c.local /\ a.remote = c.remote
      /\ a.gone = c.gone /\ a.ctrl = c.ctrl /\ a.inbox = p.frames
  BY <1>1, <1>5 DEF ConnOK, Conn
<1> HIDE DEF a
<1>9. /\ ConnOK(u) /\ u.state = c.state /\ u.local = c.local /\ u.remote = c.remote
      /\ u.gone = c.gone /\ u.ctrl = c.ctrl /\ u.inbox \in {c.inbox, p.frames}
  BY <1>5, <1>8
<1> HIDE DEF u
<1>10. /\ AcceptsOK(u.ctrl, conn["server"]) \/ e = "client"
       /\ AcceptsOK(u.inbox, conn["server"]) \/ e = "server"
  BY <1>1, <1>6, <1>7, <1>9 DEF Ends
<1>11. QED
  BY <1>1, <1>2, <1>3, <1>4, <1>9, <1>10, NetStep DEF c

\* The passing of time.
LEMMA TickInv == ASSUME Inv, Tick PROVE Inv'
<1>1. /\ conn' = [e \in Ends |-> Aged(conn[e])] /\ net' = net /\ lost' = lost /\ dups' = dups
  BY DEF Tick
<1>2. ASSUME NEW limit \in Nat, NEW age \in Ages(limit)
      PROVE  Older(age, limit) \in Ages(limit)
  BY DEF Older, Ages, Never
<1>3. ASSUME NEW e \in Ends
      PROVE  LET d == Aged(conn[e])
             IN  /\ d \in Conn /\ ConnOK(d) /\ d.state = conn[e].state
                 /\ d.local = conn[e].local /\ d.remote = conn[e].remote
                 /\ d.gone = conn[e].gone /\ d.ctrl = conn[e].ctrl /\ d.inbox = conn[e].inbox
  <2> DEFINE c == conn[e]
             x == Older(c.connect_age, RetryTicks)
             y == Older(c.recv_age, IdleTicks)
             z == Older(c.send_age, PingTicks)
             d == [c EXCEPT !.connect_age = x, !.recv_age = y, !.send_age = z]
  <2>1. c \in Conn /\ ConnOK(c)
    BY EndFacts
  <2>2. x \in Ages(RetryTicks) /\ y \in Ages(IdleTicks) /\ z \in Ages(PingTicks)
    BY <1>2, <2>1, RetryAssumption, TimerAssumption DEF Conn
  <2>3. Aged(c) = d
    BY DEF Aged
  <2> HIDE DEF c, x, y, z
  <2>4. /\ d \in Conn /\ d.state = c.state /\ d.local = c.local /\ d.remote = c.remote
        /\ d.gone = c.gone /\ d.ctrl = c.ctrl /\ d.inbox = c.inbox /\ d.events = c.events
    BY <2>1, <2>2 DEF Conn
  <2>5. ConnOK(d)
    BY <2>1, <2>4 DEF ConnOK
  <2>6. QED
    BY <2>3, <2>4, <2>5 DEF c
<1>4. \A e \in Ends : conn'[e] = Aged(conn[e])
  BY <1>1
<1>5. TypeOK'
  <2>1. conn' \in [Ends -> Conn]
    BY <1>1, <1>3
  <2>2. QED
    BY <1>1, <1>3, <1>4, <2>1 DEF Inv, TypeOK
<1>6. Past(conn["server"]) => Past(conn'["server"])
  BY <1>3, <1>4, EndsFacts DEF Past
<1>7. ServerOK(conn'["server"])
  <2>1. AcceptsOK(conn["server"].ctrl, conn'["server"])
    BY <1>6, InvFacts, KeepAccepts DEF ServerOK
  <2>2. QED
    BY <1>3, <1>4, <2>1, InvFacts, EndsFacts DEF ServerOK
<1>8. ClientOK(conn'["client"], conn'["server"])
  <2>1. AcceptsOK(conn["client"].inbox, conn'["server"])
    BY <1>6, InvFacts, KeepAccepts DEF ClientOK
  <2>2. QED
    BY <1>3, <1>4, <1>6, <2>1, InvFacts, EndsFacts DEF ClientOK
<1>9. NetOK(net', conn'["server"])
  BY <1>1, <1>6, KeepAccepts DEF Inv, NetOK
<1>10. QED
  BY <1>5, <1>7, <1>8, <1>9 DEF Inv

\* Every step keeps the invariant.
LEMMA NextInv == Inv /\ [Next]_vars => Inv'
<1> SUFFICES ASSUME Inv, [Next]_vars PROVE Inv'
  OBVIOUS
<1>1. CASE Connect
  BY <1>1, ConnectInv
<1>2. CASE Accept
  BY <1>2, AcceptInv
<1>3. CASE Tick
  BY <1>3, TickInv
<1>4. ASSUME NEW e \in Ends,
             \/ Disconnect(e) \/ Close(e) \/ Poll(e)
             \/ ServiceRetry(e) \/ ServiceGiveUp(e) \/ ServiceIdle(e) \/ ServicePing(e)
             \/ SendNext(e)
             \/ ProcessConnectInit(e) \/ ProcessConnectAccept(e) \/ ProcessDisconnect(e)
             \/ ProcessPing(e) \/ ProcessPong(e)
      PROVE  Inv'
  BY <1>4, DisconnectInv, CloseInv, PollInv, RetryInv, TimeoutInv, PingInv, SendNextInv,
     ConnectInitInv, ConnectAcceptInv, ProcessDisconnectInv, ProcessPingInv, ProcessPongInv
<1>5. ASSUME NEW p \in net, Lose(p)
      PROVE  Inv'
  BY <1>5 DEF Lose, Inv, TypeOK, NetOK
<1>6. ASSUME NEW p \in net, NEW again \in BOOLEAN, Feed(p, again)
      PROVE  Inv'
  BY <1>6, FeedInv
<1>7. CASE UNCHANGED vars
  BY <1>7 DEF vars, Inv, TypeOK, NetOK
<1>8. QED
  BY <1>1, <1>2, <1>3, <1>4, <1>5, <1>6, <1>7 DEF Next

-----------------------------------------------------------------------------
(* The theorems.                                                           *)

\* The connection's fields keep their types, and the control buffer and the
\* event ring their bounds.
THEOREM ConnTypeCorrect == Spec => []TypeOK
<1>1. Inv => TypeOK
  BY DEF Inv
<1>2. QED
  BY <1>1, InitInv, NextInv, PTL DEF Spec

\* The client is connected only to a server whose application has accepted it,
\* and knows it by the id it has.
THEOREM AcceptedFirstHolds == Spec => []AcceptedFirst
<1>1. Inv => AcceptedFirst
  BY DEF Inv, ServerOK, ClientOK, AcceptedFirst, Past
<1>2. QED
  BY <1>1, InitInv, NextInv, PTL DEF Spec

\* The server's application hears of the end of a session at most once.
THEOREM ServerGoneOnceHolds == Spec => []ServerGoneOnce
<1>1. Inv => ServerGoneOnce
  BY DEF Inv, ServerOK, ServerGoneOnce
<1>2. QED
  BY <1>1, InitInv, NextInv, PTL DEF Spec

-----------------------------------------------------------------------------
(* The state machine of the server.                                        *)

\* Queueing a frame or an event leaves the state alone.
LEMMA StateKept ==
    ASSUME NEW c \in Conn, NEW t, NEW a, NEW ev
    PROVE  Ctrl(c, t, a).state = c.state /\ EvPush(c, ev).state = c.state
BY DEF Ctrl, EvPush, Conn

\* A step of one end replaces the object of that end and of no other.
LEMMA OneEnd ==
    ASSUME TypeOK, NEW e \in Ends, NEW c, Becomes(e, c)
    PROVE  conn'["server"] = IF e = "server" THEN c ELSE conn["server"]
BY EndsFacts DEF TypeOK, Becomes

LEMMA NextMovesOn == Inv /\ [Next]_vars => MovesOn("server")
<1> SUFFICES ASSUME Inv, [Next]_vars PROVE MovesOn("server")
  OBVIOUS
<1> DEFINE s == conn["server"]
<1>0. TypeOK /\ \A e \in Ends : conn[e] \in Conn
  BY DEF Inv, TypeOK
<1>0a. "server" \in Ends /\ "client" \in Ends /\ s \in Conn
  BY <1>0, EndsFacts
<1>0b. ASSUME NEW e \in Ends, NEW c, Becomes(e, c),
              \/ e # "server" \/ c.state = conn[e].state \/ c.state = "FREED"
              \/ <<conn[e].state, c.state>> \in Edges
       PROVE  MovesOn("server")
  BY <1>0, <1>0b, OneEnd DEF MovesOn
<1>1. CASE Connect
  BY <1>0a, <1>0b, <1>1 DEF Connect, Local
<1>2. CASE Accept
  <2> DEFINE c == Ctrl(s, "CONNECT_ACCEPT", s.local)
             d == [c EXCEPT !.state = "CONNECTED"]
  <2>1. c \in Conn
    <3>1. ConnOK(s) /\ s.local \in Nat /\ "CONNECT_ACCEPT" \in FrameTypes
      BY <1>0a DEF Inv, TypeOK, Conn, FrameTypes
    <3>2. QED
      BY <3>1, CtrlConn DEF ConnOK
  <2>2. d.state = "CONNECTED" /\ d \in Conn
    BY <2>1 DEF Conn, States
  <2>3. EvPush(d, "CONNECTED").state = "CONNECTED"
    BY <2>2, StateKept
  <2>4. s.state = "CONNECTING" /\ Becomes("server", EvPush(d, "CONNECTED"))
    BY <1>2 DEF Accept, Local
  <2>5. QED
    BY <1>0a, <1>0b, <2>3, <2>4 DEF Edges
<1>3. CASE Tick
  BY <1>0a, <1>3 DEF Tick, Aged, MovesOn, Conn
<1>4. ASSUME NEW e \in Ends, Disconnect(e) PROVE MovesOn("server")
  BY <1>0, <1>0b, <1>4 DEF Disconnect, Local, Edges, Ctrl, Conn
<1>5. ASSUME NEW e \in Ends, Close(e) PROVE MovesOn("server")
  BY <1>0, <1>0b, <1>5 DEF Close, Local, Opened
<1>6. ASSUME NEW e \in Ends, Poll(e) PROVE MovesOn("server")
  BY <1>0, <1>0b, <1>6 DEF Poll, Local, Conn
<1>7. ASSUME NEW e \in Ends, ServiceRetry(e) \/ ServiceGiveUp(e) PROVE MovesOn("server")
  BY <1>0, <1>0b, <1>7 DEF ServiceRetry, ServiceGiveUp, RetryDue, Local
<1>8. ASSUME NEW e \in Ends, ServiceIdle(e) PROVE MovesOn("server")
  <2> DEFINE c == [conn[e] EXCEPT !.state = "CLOSED"]
  <2>1. c \in Conn /\ c.state = "CLOSED" /\ conn[e].state = "CONNECTED"
    BY <1>0, <1>8 DEF ServiceIdle, IdleDue, Conn, States
  <2>2. EvPush(c, "DISCONNECTED").state = "CLOSED"
    BY <2>1, StateKept
  <2>3. QED
    BY <1>0b, <1>8, <2>1, <2>2 DEF ServiceIdle, Local, Edges
<1>9. ASSUME NEW e \in Ends, ServicePing(e) PROVE MovesOn("server")
  <2>1. PICK o \in Opaques : Becomes(e, [Ctrl(conn[e], "PING", o)
                                EXCEPT !.ping_opaque = o, !.ping_sent = TRUE])
    BY <1>9 DEF ServicePing, Local
  <2>2. [Ctrl(conn[e], "PING", o) EXCEPT !.ping_opaque = o, !.ping_sent = TRUE].state
          = conn[e].state
    BY <1>0 DEF Ctrl, Conn
  <2>3. QED
    BY <1>0b, <2>1, <2>2
<1>10. ASSUME NEW e \in Ends, SendNext(e) PROVE MovesOn("server")
  BY <1>0, <1>0b, <1>10 DEF SendNext, Conn
<1>11. ASSUME NEW e \in Ends, ProcessConnectInit(e) PROVE MovesOn("server")
  BY <1>0, <1>0b, <1>11 DEF ProcessConnectInit, Local, Rest, Refused, Conn, Edges
<1>12. ASSUME NEW e \in Ends, ProcessConnectAccept(e) PROVE MovesOn("server")
  BY <1>0, <1>0b, <1>12 DEF ProcessConnectAccept, Local, Refused, Conn
<1>13. ASSUME NEW e \in Ends, ProcessDisconnect(e) PROVE MovesOn("server")
  <2> DEFINE c == [Rest(e) EXCEPT !.state = "CLOSED"]
  <2>1. /\ c.state = "CLOSED" /\ Rest(e).state = conn[e].state
        /\ EvPush(c, "DISCONNECTED").state = "CLOSED"
    BY <1>0 DEF Rest, Conn, EvPush
  <2>2. CASE conn[e].state \in {"CONNECTING", "CONNECTED"}
    BY <1>0b, <1>13, <2>1, <2>2 DEF ProcessDisconnect, Local, Edges
  <2>3. CASE conn[e].state = "CLOSING"
    BY <1>0b, <1>13, <2>1, <2>3 DEF ProcessDisconnect, Local, Edges
  <2>4. CASE conn[e].state \notin {"CONNECTING", "CONNECTED", "CLOSING"}
    BY <1>0b, <1>13, <2>1, <2>4 DEF ProcessDisconnect, Local
  <2>5. QED
    BY <2>2, <2>3, <2>4
<1>14. ASSUME NEW e \in Ends, ProcessPing(e) PROVE MovesOn("server")
  BY <1>0, <1>0b, <1>14 DEF ProcessPing, Local, Rest, Ctrl, Conn
<1>15. ASSUME NEW e \in Ends, ProcessPong(e) PROVE MovesOn("server")
  BY <1>0, <1>0b, <1>15 DEF ProcessPong, Local, Rest, Conn
<1>16. ASSUME NEW p \in net, NEW again \in BOOLEAN, Feed(p, again) PROVE MovesOn("server")
  <2>1. p.to \in Ends
    BY <1>0 DEF TypeOK, Packet
  <2>2. QED
    BY <1>0, <1>0b, <1>16, <2>1 DEF Feed, Conn
<1>17. ASSUME NEW p \in net, Lose(p) PROVE MovesOn("server")
  BY <1>17 DEF Lose, MovesOn
<1>18. CASE UNCHANGED vars
  BY <1>18 DEF vars, MovesOn
<1>19. QED
  BY <1>1, <1>2, <1>3, <1>4, <1>5, <1>6, <1>7, <1>8, <1>9, <1>10, <1>11, <1>12, <1>13,
     <1>14, <1>15, <1>16, <1>17, <1>18 DEF Next

\* A server connection walks the states of states.dot and never goes back: whatever
\* is retried, repeated or late, nothing revives a session that has ended.
THEOREM ServerMovesOnHolds == Spec => ServerMovesOn
<1>1. QED
  BY InitInv, NextInv, NextMovesOn, PTL DEF Spec, ServerMovesOn
===============================================================================
