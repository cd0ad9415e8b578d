------------------------------- MODULE NcConn -------------------------------
(***************************************************************************)
(* The life of one connection: netchan_connect, netchan_accept,            *)
(* netchan_disconnect, netchan_close, the timers of netchan_service, and   *)
(* the connection frames of netchan_send_next and netchan_feed in          *)
(* src/netchan.c.                                                          *)
(*                                                                         *)
(* Two connection objects, the client's and the server's, exchange         *)
(* datagrams that may be lost, delayed, reordered and duplicated.          *)
(*                                                                         *)
(* Abstractions.  A time stamp is its age in ticks, up to the value where  *)
(* its timer expires.  netchan_feed hands the frames of a datagram to the  *)
(* inbox and parse_frames takes them one by one; no other call on that     *)
(* connection comes in between.  The control buffer is a sequence of       *)
(* frames, and one datagram takes all of it.  Addresses, and with them     *)
(* migration and redirection, are left out, and so are channels.           *)
(***************************************************************************)
EXTENDS Integers, Sequences, FiniteSets

CONSTANTS
    Retries,        \* NC_CONNECT_RETRIES
    RetryTicks,     \* NC_CONNECT_RETRY_MS
    PingTicks,      \* NC_PING_INTERVAL_MS
    IdleTicks,      \* cfg.idle_timeout_ms
    CtrlSlots,      \* NC_CTRL_BUF_SIZE, in frames
    EvSlots,        \* NC_EVENT_QUEUE
    Opaques,        \* values nc_random_id draws for a PING
    MaxNet,         \* bound: datagrams under way at a time
    MaxLoss,        \* bound: datagrams a timely network loses
    MaxDup,         \* bound: datagrams the network delivers twice
    Timely          \* TRUE: a tick passes only when nothing is left to do

ASSUME RetryAssumption == Retries \in Nat \ {0} /\ RetryTicks \in Nat \ {0}
ASSUME TimerAssumption == PingTicks \in Nat \ {0} /\ IdleTicks \in Nat \ {0}
ASSUME QueueAssumption == CtrlSlots \in Nat \ {0} /\ EvSlots \in Nat \ {0}
ASSUME OpaqueAssumption == Opaques \subseteq Nat
ASSUME NetworkAssumption ==
    MaxNet \in Nat \ {0} /\ MaxLoss \in Nat /\ MaxDup \in Nat /\ Timely \in BOOLEAN

VARIABLES
    conn,       \* struct netchan_conn of each end
    net,        \* the datagrams under way
    lost, dups  \* what the network has done so far

vars == <<conn, net, lost, dups>>

Ends == {"client", "server"}
Peer(e) == IF e = "client" THEN "server" ELSE "client"
Never == -1                                 \* a time stamp that is still 0
NoId == 0                                   \* local_id or remote_id not set
IdOf(e) == IF e = "client" THEN 1 ELSE 2    \* what nc_random_id gives it

States == {"NEW", "CONNECTING", "CONNECTED", "CLOSING", "CLOSED", "FREED"}
FrameTypes == {"CONNECT_INIT", "CONNECT_ACCEPT", "DISCONNECT", "PING", "PONG"}
\* arg is the id of CONNECT_INIT and CONNECT_ACCEPT, or the opaque of a PING.
Frame == [type : FrameTypes, arg : Nat]
Packet == [to : Ends, init : BOOLEAN, id : Nat, frames : Seq(Frame)]

-----------------------------------------------------------------------------
\* Mutant of Ctrl: the control buffer is not tested for room.
CtrlUnbounded(c, type, arg) ==
    [c EXCEPT !.ctrl = Append(@, [type |-> type, arg |-> arg])]

\* ctrl_reserve: a frame that finds the control buffer full is dropped.
Ctrl(c, type, arg) ==
    IF Len(c.ctrl) < CtrlSlots
    THEN [c EXCEPT !.ctrl = Append(@, [type |-> type, arg |-> arg])]
    ELSE c

\* ev_push: an event that finds the ring full is dropped.  gone counts the
\* NETCHAN_EV_DISCONNECTED that were not.
EvPush(c, ev) ==
    IF Len(c.events) < EvSlots - 1
    THEN [c EXCEPT !.events = Append(@, ev),
                   !.gone = IF ev = "DISCONNECTED" THEN @ + 1 ELSE @]
    ELSE c

\* netchan_open, at both ends.
Opened == [state |-> "NEW", local |-> NoId, remote |-> NoId, attempts |-> 0,
           connect_age |-> Never, recv_age |-> Never, send_age |-> Never,
           ping_sent |-> FALSE, ping_opaque |-> 0,
           ctrl |-> << >>, inbox |-> << >>, events |-> << >>, gone |-> 0]
Init ==
    /\ conn = [e \in Ends |-> Opened]
    /\ net = {} /\ lost = 0 /\ dups = 0

\* No datagram is being parsed, and the object has not been freed.
Ready(e) == conn[e].inbox = << >> /\ conn[e].state # "FREED"
Becomes(e, c) == conn' = [conn EXCEPT ![e] = c]
Local(e, c) == Becomes(e, c) /\ UNCHANGED <<net, lost, dups>>

-----------------------------------------------------------------------------
(* Calls of the application.                                               *)

\* netchan_connect.
Connect ==
    /\ Ready("client") /\ conn["client"].state = "NEW"
    /\ Local("client", Ctrl([conn["client"] EXCEPT
                                !.local = IdOf("client"), !.state = "CONNECTING",
                                !.connect_age = 0, !.attempts = 1],
                            "CONNECT_INIT", IdOf("client")))

\* Mutant of Accept: the ACCEPT is queued, the state is not changed.
AcceptStays ==
    /\ Ready("server") /\ conn["server"].state = "CONNECTING"
    /\ Local("server", EvPush(Ctrl(conn["server"], "CONNECT_ACCEPT", conn["server"].local),
                              "CONNECTED"))

\* netchan_accept.
Accept ==
    /\ Ready("server") /\ conn["server"].state = "CONNECTING"
    /\ Local("server", EvPush([Ctrl(conn["server"], "CONNECT_ACCEPT", conn["server"].local)
                                  EXCEPT !.state = "CONNECTED"],
                              "CONNECTED"))

\* netchan_disconnect.
Disconnect(e) ==
    /\ Ready(e) /\ conn[e].state = "CONNECTED"
    /\ Local(e, [Ctrl(conn[e], "DISCONNECT", 0) EXCEPT !.state = "CLOSING"])

\* netchan_close tells the peer nothing.
Close(e) ==
    /\ Ready(e)
    /\ Local(e, [Opened EXCEPT !.state = "FREED", !.gone = conn[e].gone])

\* netchan_poll.
Poll(e) ==
    /\ Ready(e) /\ conn[e].events # << >>
    /\ Local(e, [conn[e] EXCEPT !.events = Tail(@)])

-----------------------------------------------------------------------------
(* netchan_service: what a call does that finds a timer expired.           *)

\* The retry of the handshake.
RetryDue(e) == /\ e = "client" /\ conn[e].state = "CONNECTING"
               /\ conn[e].connect_age >= RetryTicks

\* Mutant of ServiceRetry: the attempts are not counted.
ServiceRetryForever(e) ==
    /\ Ready(e) /\ RetryDue(e) /\ conn[e].attempts < Retries
    /\ Local(e, [Ctrl(conn[e], "CONNECT_INIT", conn[e].local) EXCEPT !.connect_age = 0])

ServiceRetry(e) ==
    /\ Ready(e) /\ RetryDue(e) /\ conn[e].attempts < Retries
    /\ Local(e, [Ctrl(conn[e], "CONNECT_INIT", conn[e].local)
                    EXCEPT !.connect_age = 0, !.attempts = @ + 1])

ServiceGiveUp(e) ==
    /\ Ready(e) /\ RetryDue(e) /\ conn[e].attempts >= Retries
    /\ Local(e, EvPush([conn[e] EXCEPT !.state = "CLOSED"], "DISCONNECTED"))

\* The idle timeout.
IdleDue(e) == /\ conn[e].state = "CONNECTED" /\ conn[e].recv_age # Never
              /\ conn[e].recv_age >= IdleTicks

\* Mutant of ServiceIdle: the event is pushed, the session stays connected.
ServiceIdleStays(e) ==
    /\ Ready(e) /\ IdleDue(e)
    /\ Local(e, EvPush(conn[e], "DISCONNECTED"))

ServiceIdle(e) ==
    /\ Ready(e) /\ IdleDue(e)
    /\ Local(e, EvPush([conn[e] EXCEPT !.state = "CLOSED"], "DISCONNECTED"))

\* The keepalive.  No two PINGs of an end carry the same opaque value in a row.
PingDue(e) == /\ conn[e].state = "CONNECTED" /\ conn[e].send_age # Never
              /\ conn[e].send_age >= PingTicks /\ ~ conn[e].ping_sent
ServicePing(e) ==
    /\ Ready(e) /\ ~ IdleDue(e) /\ PingDue(e)
    /\ \E opaque \in Opaques \ {conn[e].ping_opaque} :
          Local(e, [Ctrl(conn[e], "PING", opaque)
                       EXCEPT !.ping_opaque = opaque, !.ping_sent = TRUE])

-----------------------------------------------------------------------------
(* Datagrams.                                                              *)

\* netchan_send_next: a client that is still connecting names itself in an
\* INIT header, everyone else names the peer.
SendNext(e) ==
    /\ Ready(e) /\ conn[e].ctrl # << >> /\ Cardinality(net) < MaxNet
    /\ LET init == e = "client" /\ conn[e].state = "CONNECTING"
       IN  net' = net \cup {[to |-> Peer(e), init |-> init,
                             id |-> IF init THEN conn[e].local ELSE conn[e].remote,
                             frames |-> conn[e].ctrl]}
    /\ Becomes(e, [conn[e] EXCEPT !.ctrl = << >>, !.send_age = 0])
    /\ UNCHANGED <<lost, dups>>

\* netchan_feed of p, which the network may keep to deliver again.
Feed(p, again) ==
    /\ Ready(p.to)
    /\ again => dups < MaxDup
    /\ net' = IF again THEN net ELSE net \ {p}
    /\ dups' = IF again THEN dups + 1 ELSE dups
    /\ Becomes(p.to, IF p.init \/ p.id = conn[p.to].local
                     THEN [conn[p.to] EXCEPT !.inbox = p.frames, !.recv_age = 0]
                     ELSE conn[p.to])
    /\ UNCHANGED lost

\* The network loses p.  The losses of a timely one are counted.
Lose(p) ==
    /\ Timely => lost < MaxLoss
    /\ net' = net \ {p} /\ lost' = IF Timely THEN lost + 1 ELSE lost
    /\ UNCHANGED <<conn, dups>>

\* parse_frames: the next frame, and the rest of the datagram.
Next1(e, type) == /\ conn[e].inbox # << >> /\ Head(conn[e].inbox).type = type
Arg(e) == Head(conn[e].inbox).arg
Rest(e) == [conn[e] EXCEPT !.inbox = Tail(@)]
\* NETCHAN_ERR_PROTO: the rest of the datagram is not parsed.
Refused(e) == [conn[e] EXCEPT !.inbox = << >>]

\* process_connect_init: a retried INIT changes nothing but remote_id.
ProcessConnectInit(e) ==
    /\ Next1(e, "CONNECT_INIT")
    /\ Local(e, IF e = "client" THEN Refused(e)
                ELSE IF conn[e].state = "NEW"
                THEN [Rest(e) EXCEPT !.remote = Arg(e), !.local = IdOf(e),
                                     !.state = "CONNECTING"]
                ELSE [Rest(e) EXCEPT !.remote = Arg(e)])

\* process_connect_accept: the client's state is not looked at.
ProcessConnectAccept(e) ==
    /\ Next1(e, "CONNECT_ACCEPT")
    /\ Local(e, IF e = "server" THEN Refused(e)
                ELSE EvPush([Rest(e) EXCEPT !.remote = Arg(e), !.state = "CONNECTED"],
                            "CONNECTED"))

\* Mutant of ProcessDisconnect: every DISCONNECT is news to the application.
ProcessDisconnectAlways(e) ==
    /\ Next1(e, "DISCONNECT")
    /\ Local(e, EvPush([Rest(e) EXCEPT !.state = "CLOSED"], "DISCONNECTED"))

\* process_disconnect: an end that closed the session itself is not told.
ProcessDisconnect(e) ==
    /\ Next1(e, "DISCONNECT")
    /\ Local(e, CASE conn[e].state \in {"CONNECTING", "CONNECTED"} ->
                       EvPush([Rest(e) EXCEPT !.state = "CLOSED"], "DISCONNECTED")
                  [] conn[e].state = "CLOSING" -> [Rest(e) EXCEPT !.state = "CLOSED"]
                  [] OTHER -> Rest(e))

\* process_ping.
ProcessPing(e) ==
    /\ Next1(e, "PING")
    /\ Local(e, Ctrl(Rest(e), "PONG", Arg(e)))

\* Mutant of ProcessPong: ping_sent_ms is not cleared.
ProcessPongLatched(e) == Next1(e, "PONG") /\ Local(e, Rest(e))

\* process_pong: ping_opaque is 0 only before the first PING was sent.
ProcessPong(e) ==
    /\ Next1(e, "PONG")
    /\ Local(e, IF Arg(e) = conn[e].ping_opaque
                THEN [Rest(e) EXCEPT !.ping_sent = FALSE] ELSE Rest(e))

-----------------------------------------------------------------------------
(* Time.                                                                   *)

\* A driver that is never late has sent, delivered and serviced everything.
Settled ==
    /\ \A p \in net : conn[p.to].state = "FREED"
    /\ \A e \in Ends :
         \/ conn[e].state = "FREED"
         \/ /\ conn[e].ctrl = << >> /\ conn[e].inbox = << >>
            /\ ~ RetryDue(e) /\ ~ IdleDue(e) /\ ~ PingDue(e)
            /\ e = "server" => conn[e].state # "CONNECTING"

Older(age, limit) == IF age = Never \/ age >= limit THEN age ELSE age + 1
Aged(c) == [c EXCEPT !.connect_age = Older(@, RetryTicks),
                     !.recv_age = Older(@, IdleTicks),
                     !.send_age = Older(@, PingTicks)]
Tick ==
    /\ Timely => Settled
    /\ conn' = [e \in Ends |-> Aged(conn[e])]
    /\ UNCHANGED <<net, lost, dups>>

Next ==
    \/ Connect
    \/ Accept
    \/ Tick
    \/ \E e \in Ends :
         \/ Disconnect(e) \/ Close(e) \/ Poll(e)
         \/ ServiceRetry(e) \/ ServiceGiveUp(e) \/ ServiceIdle(e) \/ ServicePing(e)
         \/ SendNext(e)
         \/ ProcessConnectInit(e) \/ ProcessConnectAccept(e) \/ ProcessDisconnect(e)
         \/ ProcessPing(e) \/ ProcessPong(e)
    \/ \E p \in net : Lose(p) \/ \E again \in BOOLEAN : Feed(p, again)

Spec == Init /\ [][Next]_vars

-----------------------------------------------------------------------------
(* What the connection must keep.                                          *)

Ages(limit) == {Never} \cup 0 .. limit
Conn == [state : States, local : Nat, remote : Nat, attempts : 0 .. Retries,
         connect_age : Ages(RetryTicks), recv_age : Ages(IdleTicks),
         send_age : Ages(PingTicks), ping_sent : BOOLEAN, ping_opaque : Nat,
         ctrl : Seq(Frame), inbox : Seq(Frame),
         events : Seq({"CONNECTED", "DISCONNECTED"}), gone : Nat]

ConnOK(c) == c \in Conn /\ Len(c.ctrl) <= CtrlSlots /\ Len(c.events) < EvSlots

\* Every field keeps its C type, the attempts and the two queues their bounds.
TypeOK ==
    /\ conn \in [Ends -> Conn] /\ \A e \in Ends : ConnOK(conn[e])
    /\ net \subseteq Packet
    /\ lost \in Nat /\ dups \in Nat

\* A client that has ever been connected talks to a server that accepted it,
\* under the id the server chose: netchan_accept comes before CONNECTED at the
\* client, whatever was retried, delayed or duplicated.
AcceptedFirst ==
    conn["client"].remote # NoId =>
        /\ conn["server"].state \notin {"NEW", "CONNECTING"}
        /\ conn["server"].state # "FREED" => conn["client"].remote = conn["server"].local

\* The server's application is told at most once that a session has ended,
\* though DISCONNECT may come twice and a timer may fire as it arrives, and
\* after that the session stays ended.
ServerGoneOnce ==
    /\ conn["server"].gone <= 1
    /\ conn["server"].gone = 1 => conn["server"].state \in {"CLOSED", "FREED"}

\* states.dot, with the edges it leaves out: a session ended by the peer before
\* it was accepted, and the object freed.
Edges == {<<"NEW", "CONNECTING">>, <<"CONNECTING", "CONNECTED">>,
          <<"CONNECTED", "CLOSING">>, <<"CLOSING", "CLOSED">>, <<"CONNECTED", "CLOSED">>,
          <<"CONNECTING", "CLOSED">>}
MovesOn(e) == \/ conn'[e].state = conn[e].state
              \/ conn'[e].state = "FREED"
              \/ <<conn[e].state, conn'[e].state>> \in Edges
ServerMovesOn == [][MovesOn("server")]_vars

\* docs/content/architecture/states.dot: nothing leads back to CONNECTED.  It does
\* not hold of the code: process_connect_accept does not look at the state, and a
\* CONNECT_ACCEPT that is late or comes twice revives a client that has left.
ClientMovesOn == [][MovesOn("client")]_vars

\* docs/content/protocol-reference/index.md:34: a PING after a few seconds of
\* silence keeps an idle session alive, so an end never times out on a peer that
\* is itself still connected.
NoFalseTimeout ==
    [][\A e \in Ends : ServiceIdle(e) => conn[Peer(e)].state # "CONNECTED"]_vars

\* docs/content/protocol/index.md:8: the server replies with CONNECT_ACCEPT and
\* both ends are then CONNECTED, so a client does not give up on a server that
\* has accepted it.  It does not hold of the code once a datagram is lost:
\* netchan_accept queues the ACCEPT once, and a CONNECT_INIT that comes again
\* is not answered (process_connect_init).
NoHalfOpen ==
    [][ServiceGiveUp("client") => conn["server"].state # "CONNECTED"]_vars

\* The drivers keep calling netchan_service, netchan_send_next and parse what
\* they feed, and time passes; the network owes nothing.
Parse(e) == \/ ProcessConnectInit(e) \/ ProcessConnectAccept(e) \/ ProcessDisconnect(e)
            \/ ProcessPing(e) \/ ProcessPong(e)
Service(e) == ServiceRetry(e) \/ ServiceGiveUp(e) \/ ServiceIdle(e) \/ ServicePing(e)
Fairness ==
    /\ WF_vars(Tick)
    /\ \A e \in Ends : WF_vars(Service(e)) /\ WF_vars(Parse(e))
FairSpec == Spec /\ Fairness

\* A connection attempt ends: the retries are counted and the last gives up.
ConnectDecides == conn["client"].state = "CONNECTING" ~> conn["client"].state # "CONNECTING"

\* A peer that vanishes (netchan_close without a DISCONNECT, or one that was
\* lost) is noticed: its other end does not stay connected for ever.
VanishedNoticed ==
    \A e \in Ends : conn[Peer(e)].state = "FREED" ~> conn[e].state # "CONNECTED"

=============================================================================
