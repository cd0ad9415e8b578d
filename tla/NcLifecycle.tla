------------------------------ MODULE NcLifecycle ------------------------------
(***************************************************************************)
(* netchan.c: channels opened and closed at both ends of a connection that *)
(* is up, and the peer address that follows the peer.  Frames travel in    *)
(* datagrams; the network keeps their order and loses none, but for a      *)
(* number of faults.  The payload of a DATA frame and its acknowledgement  *)
(* are NcChannel's; here a channel has credit to send or not.              *)
(***************************************************************************)
EXTENDS Naturals, Sequences, FiniteSets, FiniteSetsExt, SequencesExt

CONSTANTS
  IdMod,      \* 2^8, the channel identifiers: even ones are opened by the client
  MaxChan,    \* NC_MAX_CHAN
  CtrlCap,    \* frames that fit ctrl_buf
  Types,      \* NETCHAN_RELIABLE and NETCHAN_UNRELIABLE
  MaxOpens,   \* bound: calls of netchan_chan_open at each end, by end
  NetCap,     \* bound: datagrams under way to an end
  MaxFaults,  \* bound: datagrams lost, repeated or overtaken
  MaxMoves    \* bound: changes of the client's address

Ends == {"client", "server"}
Peer(e) == IF e = "client" THEN "server" ELSE "client"
Ids == 0..(IdMod - 1)
Pool == 1..MaxChan
Dirs == {"SEND", "RECV"}
Addrs == 0..MaxMoves

ASSUME LifecycleAssumption ==
  /\ IdMod \in Nat \ {0} /\ IdMod % 2 = 0 /\ MaxChan \in Nat \ {0} /\ CtrlCap \in Nat
  /\ MaxOpens \in [Ends -> Nat] /\ NetCap \in Nat \ {0} /\ MaxFaults \in Nat /\ MaxMoves \in Nat

VARIABLES
  conn,    \* struct netchan_conn of each end
  addr,    \* the address that the client's datagrams come from
  net,     \* datagrams under way, by the end they go to, oldest first
  opens,   \* calls of netchan_chan_open so far
  faults   \* faults so far

env == <<opens, faults>>
vars == <<conn, addr, net, env>>

NoChan == <<>>

\* struct netchan_chan: state 0 opening, 1 open, 2 closing, 3 closed.
Chan ==
  [slot : Pool, type : Types, dir : Dirs, role : {"sender", "receiver"}, state : 0..3,
   credit : BOOLEAN, need_ack : BOOLEAN]

Frame ==
  [kind : {"OPEN"}, id : Ids, type : Types, dir : Dirs]
    \cup [kind : {"CLOSE", "WINDOW", "DATA", "ACK"}, id : Ids]

Conn ==
  [channels : [Ids -> Chan \cup {NoChan}], chan_used : SUBSET Pool, next_chan_id : Ids,
   ctrl : Seq(Frame), peer_addr : Addrs]

Datagram == [from : Addrs, frames : Seq(Frame)]

TypeOK ==
  /\ conn \in [Ends -> Conn]
  /\ \A e \in Ends : Len(conn[e].ctrl) <= CtrlCap
  /\ addr \in Addrs
  /\ net \in [Ends -> Seq(Datagram)]
  /\ \A e \in Ends : opens[e] \in 0..MaxOpens[e]
  /\ faults \in 0..MaxFaults

\* Both ends are CONNECTED.
Init ==
  /\ conn = [e \in Ends |->
       [channels |-> [i \in Ids |-> NoChan], chan_used |-> {},
        next_chan_id |-> IF e = "server" THEN 1 ELSE 0, ctrl |-> <<>>, peer_addr |-> 0]]
  /\ addr = 0
  /\ net = [e \in Ends |-> <<>>]
  /\ opens = [e \in Ends |-> 0]
  /\ faults = 0

-------------------------------------------------------------------------------
Become(e, c) == conn' = [conn EXCEPT ![e] = c]

Has(c, id) == c.channels[id] # NoChan

\* A frame that does not fit the buffer is dropped.
Ctrl(c, f) == IF Len(c.ctrl) < CtrlCap THEN [c EXCEPT !.ctrl = Append(@, f)] ELSE c

CtrlOpen(c, id, type, dir) == Ctrl(c, [kind |-> "OPEN", id |-> id, type |-> type, dir |-> dir])
CtrlClose(c, id) == Ctrl(c, [kind |-> "CLOSE", id |-> id])
CtrlWindow(c, id) == Ctrl(c, [kind |-> "WINDOW", id |-> id])

\* Mutant of ChanNew: the slot is not marked.
UnmarkedNew(c, id, type, dir, role, state) ==
  [c EXCEPT !.channels[id] = [slot |-> Min(Pool \ c.chan_used), type |-> type, dir |-> dir,
                              role |-> role, state |-> state, credit |-> FALSE,
                              need_ack |-> FALSE]]

\* chan_new with a free slot of the pool.
ChanNew(c, id, type, dir, role, state) ==
  LET slot == Min(Pool \ c.chan_used)
  IN  [c EXCEPT !.chan_used = @ \cup {slot},
                !.channels[id] = [slot |-> slot, type |-> type, dir |-> dir, role |-> role,
                                  state |-> state, credit |-> FALSE, need_ack |-> FALSE]]

Exhausted(c) == c.chan_used = Pool

\* Mutant of LocalOpen: a sender's channel is open before the peer accepts it.
EagerOpen(c, id, type, dir) ==
  LET n == ChanNew(c, id, type, dir, IF dir = "SEND" THEN "sender" ELSE "receiver", 1)
  IN  IF dir = "SEND" THEN CtrlOpen(n, id, type, dir)
      ELSE CtrlWindow(CtrlOpen(n, id, type, dir), id)

\* The opener that receives is open at once and grants the window with its OPEN.
LocalOpen(c, id, type, dir) ==
  IF dir = "SEND" THEN CtrlOpen(ChanNew(c, id, type, dir, "sender", 0), id, type, dir)
  ELSE CtrlWindow(CtrlOpen(ChanNew(c, id, type, dir, "receiver", 1), id, type, dir), id)

\* netchan_chan_open: an exhausted pool costs the identifier and returns NULL.
ChanOpen(e, type, dir) ==
  LET c == conn[e]
      id == c.next_chan_id
      n == [c EXCEPT !.next_chan_id = (@ + 2) % IdMod]
  IN  /\ opens[e] < MaxOpens[e] /\ ~Has(c, id)
      /\ Become(e, IF Exhausted(c) THEN n ELSE LocalOpen(n, id, type, dir))
      /\ opens' = [opens EXCEPT ![e] = @ + 1]
      /\ UNCHANGED <<addr, net, faults>>

\* Mutant of ChanClose: the peer is not told.
SilentClose(e, id) ==
  /\ Has(conn[e], id) /\ conn[e].channels[id].state < 2
  /\ Become(e, [conn[e] EXCEPT !.channels[id].state = 2])
  /\ UNCHANGED <<addr, net, env>>

ChanClose(e, id) ==
  /\ Has(conn[e], id) /\ conn[e].channels[id].state < 2
  /\ Become(e, CtrlClose([conn[e] EXCEPT !.channels[id].state = 2], id))
  /\ UNCHANGED <<addr, net, env>>

-------------------------------------------------------------------------------
(* parse_frames: one definition per frame type. *)

\* Mutant of ProcessOpen: the direction is not turned round.
SameSide(c, f) ==
  IF Has(c, f.id) \/ Exhausted(c) THEN CtrlClose(c, f.id)
  ELSE IF f.dir = "SEND" THEN CtrlWindow(ChanNew(c, f.id, f.type, f.dir, "sender", 1), f.id)
  ELSE ChanNew(c, f.id, f.type, f.dir, "receiver", 1)

\* The peer's direction is turned round; an identifier in use, as by an OPEN that
\* comes twice, is answered with CLOSE.
ProcessOpen(c, f) ==
  IF Has(c, f.id) \/ Exhausted(c) THEN CtrlClose(c, f.id)
  ELSE IF f.dir = "SEND" THEN CtrlWindow(ChanNew(c, f.id, f.type, f.dir, "receiver", 1), f.id)
  ELSE ChanNew(c, f.id, f.type, f.dir, "sender", 1)

ProcessClose(c, f) == IF Has(c, f.id) THEN [c EXCEPT !.channels[f.id].state = 3] ELSE c

\* The first window update accepts the channel.
ProcessWindow(c, f) ==
  IF ~Has(c, f.id) \/ c.channels[f.id].role # "sender" THEN c
  ELSE [c EXCEPT !.channels[f.id].credit = TRUE,
                 !.channels[f.id].state = IF @ = 0 THEN 1 ELSE @]

\* The part of process_data that asks for an ACK, of a channel that sends them.
ProcessData(c, f) ==
  IF \/ ~Has(c, f.id)
     \/ c.channels[f.id].role # "receiver"
     \/ c.channels[f.id].type = "unreliable"
  THEN c
  ELSE [c EXCEPT !.channels[f.id].need_ack = TRUE]

Process(c, f) ==
  CASE f.kind = "OPEN" -> ProcessOpen(c, f)
    [] f.kind = "CLOSE" -> ProcessClose(c, f)
    [] f.kind = "WINDOW" -> ProcessWindow(c, f)
    [] f.kind = "DATA" -> ProcessData(c, f)
    [] f.kind = "ACK" -> c

\* The frames of a datagram, one after the other.
ProcessAll(c, frames) ==
  LET P[k \in 0..Len(frames)] == IF k = 0 THEN c ELSE Process(P[k - 1], frames[k])
  IN  P[Len(frames)]

-------------------------------------------------------------------------------
\* Mutant of ValidMigration: the datagram must end with the channel's frame.
LateValidMigration(c, frames) ==
  /\ Len(frames) > 1 /\ Last(frames).kind \in {"DATA", "ACK"}
  /\ Has(c, Last(frames).id)

\* Only the first frame is looked at: data or an ACK for a channel that exists.
ValidMigration(c, frames) ==
  /\ frames # <<>> /\ Head(frames).kind \in {"DATA", "ACK"}
  /\ Has(c, Head(frames).id)

\* Only the client moves, so only the server's peer changes its address.
Migrated(e, c, d) ==
  IF e = "server" /\ d.from # c.peer_addr /\ ValidMigration(c, d.frames)
  THEN [c EXCEPT !.peer_addr = d.from] ELSE c

\* netchan_feed of the i-th datagram under way; with again it stays under way.
Feed(e, i, again) ==
  LET d == net[e][i]
  IN  /\ Become(e, ProcessAll(Migrated(e, conn[e], d), d.frames))
      /\ net' = IF again THEN net ELSE [net EXCEPT ![e] = RemoveAt(@, i)]
      /\ faults' = IF again \/ i > 1 THEN faults + 1 ELSE faults
      /\ faults' <= MaxFaults
      /\ UNCHANGED <<addr, opens>>

Lose(e, i) ==
  /\ faults < MaxFaults /\ faults' = faults + 1
  /\ net' = [net EXCEPT ![e] = RemoveAt(@, i)]
  /\ UNCHANGED <<conn, addr, opens>>

-------------------------------------------------------------------------------
Acks(c) == {id \in Ids : Has(c, id) /\ c.channels[id].need_ack}
\* The channels that may have data to send: netchan_chan_write asks for credit on
\* a reliable channel only.
Sends(c) == {id \in Ids : Has(c, id) /\ c.channels[id].role = "sender"
                          /\ c.channels[id].state = 1
                          /\ (c.channels[id].type = "reliable" => c.channels[id].credit)}

\* What a datagram sent to an address that the client has left comes to.
Reaches(e) == e = "client" \/ conn[e].peer_addr = addr

\* A frame for each of the channels, in the order of the loop over them.
Frames(kind, ids) ==
  {q \in [1..Cardinality(ids) -> [kind : {kind}, id : ids]] :
     \A i, j \in 1..Cardinality(ids) : i < j => q[i].id < q[j].id}

\* netchan_send_next: the control frames, the ACKs due, then data of the channels
\* that the application has written to.
SendNext(e, data) ==
  \E acks \in Frames("ACK", Acks(conn[e])), datas \in Frames("DATA", data) :
  LET c == conn[e]
      sent == c.ctrl \o acks \o datas
      d == [from |-> IF e = "client" THEN addr ELSE 0, frames |-> sent]
  IN  /\ sent # <<>> /\ Len(net[Peer(e)]) < NetCap
      /\ Become(e, [c EXCEPT !.ctrl = <<>>,
                             !.channels = [id \in Ids |-> IF id \in Acks(c)
                                             THEN [@[id] EXCEPT !.need_ack = FALSE] ELSE @[id]]])
      /\ net' = IF Reaches(e) THEN [net EXCEPT ![Peer(e)] = Append(@, d)] ELSE net
      /\ UNCHANGED <<addr, env>>

\* The client's address changes: a new network, or a NAT that forgot its binding.
Move ==
  /\ addr < MaxMoves /\ addr' = addr + 1
  /\ UNCHANGED <<conn, net, env>>

-------------------------------------------------------------------------------
Send(e) == \E data \in SUBSET Sends(conn[e]) : SendNext(e, data)
SendsData(e) == \E data \in SUBSET Sends(conn[e]) : data # {} /\ SendNext(e, data)

Next ==
  \/ \E e \in Ends :
       \/ \E type \in Types, dir \in Dirs : ChanOpen(e, type, dir)
       \/ \E id \in Ids : ChanClose(e, id)
       \/ \E i \in 1..Len(net[e]) : Lose(e, i) \/ \E again \in BOOLEAN : Feed(e, i, again)
       \/ Send(e)
  \/ Move

Spec == Init /\ [][Next]_vars

\* The loop reads its socket and sends what is due; the application keeps writing
\* to a channel that it may write to.
Fairness ==
  \A e \in Ends :
    /\ WF_vars(Len(net[e]) > 0 /\ Feed(e, 1, FALSE))
    /\ WF_vars(Send(e) /\ conn[e].ctrl # <<>>)
    /\ SF_vars(SendsData(e))

FairSpec == Spec /\ Fairness

-------------------------------------------------------------------------------
(* Every slot of the pool that is taken belongs to one channel, and every      *)
(* channel has one: an OPEN refused, repeated or crossing another leaks none.  *)
SlotsExact == TypeOK /\
  \A e \in Ends :
    LET held == {id \in Ids : Has(conn[e], id)}
        slot(id) == conn[e].channels[id].slot
    IN  /\ conn[e].chan_used = {slot(id) : id \in held}
        /\ \A i, j \in held : slot(i) = slot(j) => i = j

(* A channel that both ends know is the same one: of one type, with one sender *)
(* and one receiver, whatever was lost, repeated or refused.                   *)
Matched ==
  \A id \in Ids :
    LET a == conn["client"].channels[id]
        b == conn["server"].channels[id]
    IN  a # NoChan /\ b # NoChan => a.type = b.type /\ a.dir = b.dir /\ a.role # b.role

(* A sender that may send has a peer that knows the channel as its receiver.   *)
AcceptedByPeer ==
  \A e \in Ends, id \in Ids :
    LET a == conn[e].channels[id]
        b == conn[Peer(e)].channels[id]
    IN  a # NoChan /\ a.role = "sender" /\ (a.state = 1 \/ a.credit)
          => b # NoChan /\ b.role = "receiver"

Agreed ==
  \A e \in Ends, id \in Ids : Has(conn[e], id) =>
    /\ conn[e].channels[id].state # 0
    /\ conn[e].channels[id].state >= 2 /\ Has(conn[Peer(e)], id)
         => conn[Peer(e)].channels[id].state >= 2

(* Without faults every netchan_chan_open is decided, the channel opens or is  *)
(* refused, and a channel that one end closes closes at the other.             *)
Converges == [](faults = 0 /\ addr = 0) => []<>Agreed

(* A server whose client moves follows it, as long as a channel of the client  *)
(* stays open and the client writes to it.                                     *)
Follows ==
  <>[](\E id \in Sends(conn["client"]) : Has(conn["server"], id))
    => <>[](conn["server"].peer_addr = addr)
===============================================================================
