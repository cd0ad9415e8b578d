------------------------------- MODULE Microchan -------------------------------
(***************************************************************************)
(* microchan.c: a client and a server connection object, and a network     *)
(* that loses, duplicates and reorders datagrams.  Reliable messages of    *)
(* all channels share one Go-Back-N window.  Message payloads are the      *)
(* order of their writes; times are left out, and a timer may run out      *)
(* whenever it is armed; the event queue, which only informs the           *)
(* application, is left out.                                               *)
(***************************************************************************)
EXTENDS Naturals, Sequences, FiniteSets, FiniteSetsExt

CONSTANTS
  SeqMod,      \* 2^16, the sequence numbers
  Window,      \* MC_WINDOW
  RecvQ,       \* MC_RECVQ
  UnrelTxQ,    \* MC_UNREL_TXQ
  PerPacket,   \* records that fit a datagram of MC_MTU bytes
  Attempts,    \* RT_ATTEMPTS
  Retries,     \* CONNECT_RETRIES
  Reliable, Unreliable,   \* the channels, by type; both ends open the same
  MaxWrites,   \* bound: reliable writes at each end, by end
  MaxAge,      \* bound: writes that a datagram may outlive on the network
  NetCap,      \* bound: datagrams the network holds at once
  First,       \* sequence number that an earlier connection of the objects left
  MaxRare      \* bound: rare events of one behaviour (an unreliable write, a
               \* keepalive, an idle timeout, a second mc_connect, a channel
               \* closed, a datagram that comes twice)

Ends == {"client", "server"}
Peer(e) == IF e = "client" THEN "server" ELSE "client"
Chans == Reliable \cup Unreliable
Seqs == 0..(SeqMod - 1)
Slots == 0..(Window - 1)

\* MC_WINDOW must divide 2^16, or the slots of a window that wraps collide.
ASSUME MicroAssumption ==
  /\ SeqMod \in Nat /\ Window \in Nat \ {0} /\ 2 * Window < SeqMod
  /\ SeqMod % Window = 0
  /\ RecvQ \in Nat /\ UnrelTxQ \in Nat \ {0} /\ PerPacket \in Nat \ {0}
  /\ Attempts \in Nat /\ Retries \in Nat
  /\ Reliable \cap Unreliable = {}
  /\ MaxWrites \in [Ends -> Nat] /\ MaxAge \in Nat /\ NetCap \in Nat /\ MaxRare \in Nat
  /\ First \in Seqs

\* No datagram lives on until its 16-bit numbers mean something else: an ACK must
\* not look new once the window has gone round to the other half of the numbers.
ASSUME LifetimeAssumption == MaxAge + Window <= (SeqMod \div 2) + 1

VARIABLES
  node,     \* struct microchan of each end
  net,      \* the datagrams under way
  written,  \* history: messages written, by end and reliable channel
  read,     \* history: messages read, by end and reliable channel
  log,      \* history: the reliable records of each end, over all its channels
  rare      \* rare events so far

hist == <<written, read, log, rare>>
vars == <<node, net, hist>>

Messages == 0..Max({MaxWrites[e] : e \in Ends})
Record == [chan : Chans, rel : BOOLEAN, seq : Seqs, msg : Messages]
Kinds == {"SYN", "SYNACK", "ACK", "DATA"}
Packet == [to : Ends, kind : Kinds, ack : Seqs, recs : Seq(Record), born : Nat]

Node ==
  [state : {"CLOSED", "CONNECTING", "CONNECTED"},
   syn : BOOLEAN, synack : BOOLEAN, ack : BOOLEAN, retries : 0..(Retries + 1),
   txw : [Slots -> Record \cup {<<>>}], base : Seqs, next : Seqs, unsent : Seqs,
   armed : BOOLEAN, attempts : 0..(Attempts + 1),
   rx_next : Seqs, ack_pending : BOOLEAN,
   txu : Seq(Record), rxq : [Chans -> Seq(Messages)], used : SUBSET Chans]

TypeOK ==
  /\ node \in [Ends -> Node]
  /\ net \subseteq Packet
  /\ written \in [Ends -> [Reliable -> Seq(Messages)]]
  /\ read \in [Ends -> [Reliable -> Seq(Messages)]]
  /\ log \in [Ends -> Seq(Record)]
  /\ rare \in 0..MaxRare

Init ==
  /\ node = [e \in Ends |->
       [state |-> "CLOSED", syn |-> FALSE, synack |-> FALSE, ack |-> FALSE, retries |-> 0,
        txw |-> [i \in Slots |-> <<>>], base |-> First, next |-> First, unsent |-> First,
        armed |-> FALSE, attempts |-> 0, rx_next |-> First, ack_pending |-> FALSE,
        txu |-> <<>>, rxq |-> [c \in Chans |-> <<>>], used |-> Chans]]
  /\ net = {}
  /\ written = [e \in Ends |-> [c \in Reliable |-> <<>>]]
  /\ read = [e \in Ends |-> [c \in Reliable |-> <<>>]]
  /\ log = [e \in Ends |-> <<>>]
  /\ rare = 0

-------------------------------------------------------------------------------
Least(a, b) == IF a < b THEN a ELSE b
Inc(s) == (s + 1) % SeqMod
Dist(a, b) == (b + SeqMod - a) % SeqMod

\* 16-bit serial number arithmetic: a strictly after b.
SeqAfter(a, b) == Dist(b, a) \in 1..((SeqMod - 1) \div 2)

\* The age of a datagram is the number of writes since it was sent.
Age == Len(log["client"]) + Len(log["server"])

Rare == rare < MaxRare /\ rare' = rare + 1 /\ UNCHANGED <<written, read, log>>

Become(e, n) == node' = [node EXCEPT ![e] = n]

\* A datagram that is sent is lost at once or is under way, until it is dropped or
\* received; seldom it stays under way when it is received, and comes again.
Emit(e, kind, ack, recs) ==
  LET p == [to |-> Peer(e), kind |-> kind, ack |-> ack, recs |-> recs, born |-> Age]
  IN  \/ net' = net
      \/ net' = net \cup {p} /\ Cardinality(net') <= NetCap

Arrives(e, kind, p) ==
  /\ p \in net /\ p.to = e /\ p.kind = kind /\ Age - p.born <= MaxAge
  /\ \/ net' = net \ {p} /\ UNCHANGED hist
     \/ net' = net /\ Rare

Drop(p) ==
  /\ net' = net \ {p}
  /\ UNCHANGED <<node, hist>>

-------------------------------------------------------------------------------
(* The application. *)

Connecting(n) == [n EXCEPT !.state = "CONNECTING", !.syn = TRUE, !.retries = 0]

Connect ==
  /\ node["client"].state = "CLOSED" /\ node["client"].retries = 0 /\ net = {} /\ Age = 0
  /\ Become("client", Connecting(node["client"]))
  /\ UNCHANGED <<net, hist>>

\* mc_connect on an object that was connected, or still is: only the handshake
\* starts over.
Reconnect ==
  /\ Become("client", Connecting(node["client"]))
  /\ Rare /\ UNCHANGED net

\* mc_write on a reliable channel: refused with MC_ERR_AGAIN by a full window.
WriteReliable(e, c) ==
  LET n == node[e]
      rec == [chan |-> c, rel |-> TRUE, seq |-> n.next, msg |-> Len(written[e][c]) + 1]
  IN  /\ c \in n.used /\ n.state = "CONNECTED" /\ Len(log[e]) < MaxWrites[e]
      /\ Dist(n.base, n.next) < Window
      /\ Become(e, [n EXCEPT !.txw[n.next % Window] = rec, !.next = Inc(@)])
      /\ written' = [written EXCEPT ![e][c] = Append(@, rec.msg)]
      /\ log' = [log EXCEPT ![e] = Append(@, rec)]
      /\ UNCHANGED <<net, read, rare>>

\* mc_write on an unreliable channel: a full queue drops its oldest entry.
WriteUnreliable(e, c) ==
  LET n == node[e]
      rec == [chan |-> c, rel |-> FALSE, seq |-> 0, msg |-> 0]
      kept == IF Len(n.txu) >= UnrelTxQ THEN Tail(n.txu) ELSE n.txu
  IN  /\ c \in n.used /\ n.state = "CONNECTED"
      /\ Become(e, [n EXCEPT !.txu = Append(kept, rec)])
      /\ Rare /\ UNCHANGED net

Read(e, c) ==
  LET n == node[e]
  IN  /\ n.rxq[c] # <<>>
      /\ Become(e, [n EXCEPT !.rxq[c] = Tail(@)])
      /\ read' = IF c \in Reliable THEN [read EXCEPT ![e][c] = Append(@, Head(n.rxq[c]))]
                  ELSE read
      /\ UNCHANGED <<net, written, log, rare>>

ChanClose(e, c) ==
  /\ c \in node[e].used
  /\ Become(e, [node[e] EXCEPT !.used = @ \ {c}])
  /\ Rare /\ UNCHANGED net

-------------------------------------------------------------------------------
(* mc_feed, one action per packet type. *)

FeedSyn(p) ==
  LET n == node["server"]
      m == IF n.state = "CLOSED" THEN [n EXCEPT !.state = "CONNECTING", !.retries = 0] ELSE n
  IN  /\ Arrives("server", "SYN", p)
      /\ Become("server", IF m.state = "CONNECTING" THEN [m EXCEPT !.synack = TRUE] ELSE m)

\* The handshake is over at this end.
Up(n) == IF n.state = "CONNECTING" THEN [n EXCEPT !.state = "CONNECTED"] ELSE n

FeedSynack(p) ==
  /\ Arrives("client", "SYNACK", p)
  /\ Become("client", [Up(node["client"]) EXCEPT !.ack = TRUE])

FeedAck(p) ==
  /\ Arrives("server", "ACK", p)
  /\ Become("server", Up(node["server"]))

\* Mutant of ProcessAck: a resend under way starts from what is released.
StaleResend(n, ack) ==
  LET k == IF SeqAfter(ack, n.base) THEN Least(Dist(n.base, ack), Dist(n.base, n.next)) ELSE 0
      base == (n.base + k) % SeqMod
  IN  [n EXCEPT !.base = base, !.attempts = IF k > 0 THEN 0 ELSE @,
                !.armed = IF k > 0 THEN base # n.next ELSE @]

\* Cumulative: everything before ack is released, and a resend under way skips it.
ProcessAck(n, ack) ==
  LET k == IF SeqAfter(ack, n.base) THEN Least(Dist(n.base, ack), Dist(n.base, n.next)) ELSE 0
      base == (n.base + k) % SeqMod
  IN  [n EXCEPT !.base = base,
                !.unsent = IF SeqAfter(base, @) THEN base ELSE @,
                !.attempts = IF k > 0 THEN 0 ELSE @,
                !.armed = IF k > 0 THEN base # n.next ELSE @]

RxqPush(n, c, msg) == IF Len(n.rxq[c]) >= RecvQ THEN n ELSE [n EXCEPT !.rxq[c] = Append(@, msg)]

\* Mutant of Deliver: a full queue drops the record and counts it as received.
LossyDeliver(n, r) ==
  IF r.rel /\ r.seq # n.rx_next THEN [n EXCEPT !.ack_pending = TRUE]
  ELSE [(IF r.chan \in n.used THEN RxqPush(n, r.chan, r.msg) ELSE n)
         EXCEPT !.rx_next = IF r.rel THEN Inc(@) ELSE @, !.ack_pending = @ \/ r.rel]

\* In order or not at all; a full queue refuses, and everything is acknowledged.
Deliver(n, r) ==
  IF ~r.rel THEN IF r.chan \in n.used THEN RxqPush(n, r.chan, r.msg) ELSE n
  ELSE IF r.seq # n.rx_next \/ (r.chan \in n.used /\ Len(n.rxq[r.chan]) >= RecvQ)
    THEN [n EXCEPT !.ack_pending = TRUE]
  ELSE [(IF r.chan \in n.used THEN RxqPush(n, r.chan, r.msg) ELSE n)
         EXCEPT !.rx_next = Inc(@), !.ack_pending = TRUE]

DeliverAll(n, recs) ==
  LET D[k \in 0..Len(recs)] == IF k = 0 THEN n ELSE Deliver(D[k - 1], recs[k])
  IN  D[Len(recs)]

\* Data implies that the peer is up, should its ACK be lost.
FeedData(e, p) ==
  LET n == IF e = "server" THEN Up(node[e]) ELSE node[e]
  IN  /\ Arrives(e, "DATA", p)
      /\ Become(e, IF n.state # "CONNECTED" THEN n
                   ELSE DeliverAll(ProcessAck(n, p.ack), p.recs))

-------------------------------------------------------------------------------
(* mc_send_next: control packets first. *)

SendSynack(e) ==
  /\ node[e].synack
  /\ Emit(e, "SYNACK", 0, <<>>)
  /\ Become(e, [node[e] EXCEPT !.synack = FALSE])
  /\ UNCHANGED hist

SendAck(e) ==
  /\ ~node[e].synack /\ node[e].ack
  /\ Emit(e, "ACK", 0, <<>>)
  /\ Become(e, [node[e] EXCEPT !.ack = FALSE])
  /\ UNCHANGED hist

SendSyn(e) ==
  /\ ~node[e].synack /\ ~node[e].ack /\ node[e].syn
  /\ Emit(e, "SYN", 0, <<>>)
  /\ Become(e, [node[e] EXCEPT !.syn = FALSE])
  /\ UNCHANGED hist

\* Unsent reliable records, then unreliable ones, as many as fit, and the ACK.
SendData(e) ==
  LET n == node[e]
      rels == Least(Dist(n.unsent, n.next), PerPacket)
      unrels == Least(Len(n.txu), PerPacket - rels)
      recs == [i \in 1..rels |-> n.txw[((n.unsent + i - 1) % SeqMod) % Window]]
                \o SubSeq(n.txu, 1, unrels)
  IN  /\ ~n.synack /\ ~n.ack /\ ~n.syn /\ n.state = "CONNECTED"
      /\ n.unsent # n.next \/ n.txu # <<>> \/ n.ack_pending
      /\ Emit(e, "DATA", n.rx_next, recs)
      /\ Become(e, [n EXCEPT !.unsent = (@ + rels) % SeqMod,
                             !.armed = @ \/ n.base # n.next,
                             !.txu = SubSeq(@, unrels + 1, Len(@)),
                             !.ack_pending = FALSE])
      /\ UNCHANGED hist

-------------------------------------------------------------------------------
(* mc_service, one action per timer. *)

Closed(n) == [n EXCEPT !.state = "CLOSED"]

ConnectTimer(e) ==
  LET n == [node[e] EXCEPT !.retries = @ + 1]
  IN  /\ n.state = "CONNECTING"
      /\ Become(e, IF n.retries > Retries THEN Closed(n)
                   ELSE IF e = "server" THEN [n EXCEPT !.synack = TRUE]
                   ELSE [n EXCEPT !.syn = TRUE])
      /\ UNCHANGED <<net, hist>>

\* Nothing came for IDLE_MS.
IdleTimer(e) ==
  /\ node[e].state = "CONNECTED"
  /\ Become(e, Closed(node[e]))
  /\ Rare /\ UNCHANGED net

\* Mutant of RetransmitTimer: the attempts are not counted.
EndlessRetransmit(e) ==
  /\ node[e].state = "CONNECTED" /\ node[e].base # node[e].next /\ node[e].armed
  /\ Become(e, [node[e] EXCEPT !.unsent = node[e].base])
  /\ UNCHANGED <<net, hist>>

\* The whole window is sent again.  Past RT_ATTEMPTS the count does not matter.
RetransmitTimer(e) ==
  LET n == [node[e] EXCEPT !.attempts = Least(@ + 1, Attempts + 1)]
  IN  /\ n.state = "CONNECTED" /\ n.base # n.next /\ n.armed
      /\ Become(e, IF n.attempts > Attempts THEN Closed(n) ELSE [n EXCEPT !.unsent = n.base])
      /\ UNCHANGED <<net, hist>>

KeepaliveTimer(e) ==
  /\ node[e].state = "CONNECTED" /\ ~node[e].ack_pending
  /\ Become(e, [node[e] EXCEPT !.ack_pending = TRUE])
  /\ Rare /\ UNCHANGED net

-------------------------------------------------------------------------------
Send(e) == SendSynack(e) \/ SendAck(e) \/ SendSyn(e) \/ SendData(e)

Next ==
  \/ Connect \/ Reconnect
  \/ \E e \in Ends :
       \/ \E c \in Reliable : WriteReliable(e, c)
       \/ \E c \in Unreliable : WriteUnreliable(e, c)
       \/ \E c \in Chans : Read(e, c) \/ ChanClose(e, c)
       \/ \E p \in net : FeedData(e, p)
       \/ Send(e)
       \/ ConnectTimer(e) \/ IdleTimer(e) \/ RetransmitTimer(e) \/ KeepaliveTimer(e)
  \/ \E p \in net : FeedSyn(p) \/ FeedSynack(p) \/ FeedAck(p) \/ Drop(p)

Spec == Init /\ [][Next]_vars

\* The loop keeps sending what is due and keeps servicing an armed timer.
Fairness ==
  \A e \in Ends : WF_vars(Send(e)) /\ WF_vars(ConnectTimer(e)) /\ WF_vars(RetransmitTimer(e))

FairSpec == Spec /\ Fairness

-------------------------------------------------------------------------------
Promise == INSTANCE Fifo WITH
  Lanes <- Ends \X Reliable,
  sent <- [l \in Ends \X Reliable |-> written[l[1]][l[2]]],
  got <- [l \in Ends \X Reliable |-> read[Peer(l[1])][l[2]]]

(* Every reliable channel is a FIFO: mc_read returns what the peer passed to   *)
(* mc_write, in order and once, through loss, duplication, reordering, a full  *)
(* receive queue, the resend of a whole window and a revived connection.       *)
KeepsPromise == Promise!Spec

(* The two ends agree on the window: what the sender released the receiver     *)
(* has, what the receiver expects the sender still holds, and the slots hold   *)
(* exactly the records that may have to be sent again.                         *)
WindowSound == TypeOK /\
  \A e \in Ends :
    LET n == node[e]
        open == Dist(n.base, n.next)
    IN  /\ open <= Window
        /\ Dist(n.base, n.unsent) <= open
        /\ Dist(n.base, node[Peer(e)].rx_next) <= open
        /\ \A i \in 0..(open - 1) :
             n.txw[((n.base + i) % SeqMod) % Window].seq = (n.base + i) % SeqMod

(* Whatever the network does, a connected sender gets rid of what it holds:    *)
(* the peer acknowledges or RT_ATTEMPTS runs out and the connection closes.    *)
Settles ==
  \A e \in Ends : []<>(node[e].base = node[e].next \/ node[e].state # "CONNECTED")
===============================================================================
