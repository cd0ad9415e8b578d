-------------------------------- MODULE AuthLink -------------------------------
(***************************************************************************)
(* The auth example: auth_link.c stacks the login of NcAuth on a netchan   *)
(* channel on an nc_crypto session, and auth_client.c and auth_server.c    *)
(* run one such link each over the files of Keystore.  Sessions follow one *)
(* another; the files stay.                                                *)
(*                                                                         *)
(* A callback of the event loop is a few steps in which its end does       *)
(* nothing else (phase).  netchan is what NcConn, NcLifecycle and          *)
(* NcChannel show of it: frames that are sent once, and a channel that     *)
(* keeps its messages in order once the peer has heard of it.              *)
(***************************************************************************)
EXTENDS NcAuth, Keystore

CONSTANTS
  Users, Passwords,
  MaxSessions,  \* bound: sessions, one after another
  HostKeys,     \* bound: the host keys that the server may make
  MaxFaults,    \* bound: datagrams lost, disks full, processes stopped or killed, --adduser run
  MaxNet,       \* bound: a datagram is repeated while fewer are under way
  MaxLines      \* bound: lines of application data typed in a session

ASSUME LinkAssumption ==
  /\ MaxSessions \in Nat \ {0} /\ MaxFaults \in Nat /\ MaxLines \in Nat /\ MaxNet \in Nat \ {0}

VARIABLES
  link,   \* struct auth_link of each end, and the state of its process
  prog,   \* struct client of auth_client.c
  net,    \* datagrams under way
  disk,   \* the files of both ends
  tool,   \* auth_server --adduser
  hist    \* what has happened: sessions, faults, what was promised and dropped

linkvars == <<link, prog, net, disk, tool, hist>>
allvars == <<vars, linkvars>>

Ends == {"client", "server"}
Peer(e) == IF e = "client" THEN "server" ELSE "client"
Host == "host:port"
Empty == "empty"
\* srv_methods: the same for every name.
SrvMethods == {"PUBKEY", "PASSWORD", "REGISTER"}
\* The callbacks that main registers.
SrvCallbacks == {"begin", "submit"}

\* The masks and callbacks of the two programs are those of NcAuth, a player sees
\* one form at least, what was never written as hex is no password and no key,
\* and an address is one word.
ASSUME DemoAssumption ==
  /\ SrvCallbacks \in Callbacks
  /\ Users \cup {Host} \subseteq DOMAIN FirstWord /\ Plain(Host)
  /\ SrvMethods \in Offers /\ {{"REGISTER"}, {"PUBKEY", "PASSWORD"}} \subseteq Choices
  /\ MaxForms # 0
  /\ Undecodable \notin Passwords \cup HostKeys

Link ==
  [run : {"on", "stopping", "exit"}, phase : {"idle", "recv", "pump", "need", "enrol"},
   ret : {"idle", "pump"}, ready : BOOLEAN, failed : BOOLEAN,
   conn : {"NEW", "CONNECTING", "CONNECTED", "CLOSED"}, gone : BOOLEAN, out : SUBSET {"INIT", "ACCEPT", "OPEN"},
   tx : BOOLEAN, rx : BOOLEAN, auth_started : BOOLEAN, need_fired : Needs, up : BOOLEAN,
   down : {None, "PEER", "AUTH", "HOSTKEY"}]
Datagram == [to : Ends, kind : {"HELLO", "INIT", "ACCEPT", "OPEN", "BYE"}]

LinkTypeOK ==
  /\ link \in [Ends -> Link] /\ net \subseteq Datagram
  /\ prog.asking \in Needs /\ prog.vals \in Seq(Users \cup Passwords \cup {Empty})
  /\ server.tries <= MaxTries

\* auth_link_open, the first tick left to the loop.
Opened0 ==
  [run |-> "on", phase |-> "idle", ret |-> "idle", ready |-> FALSE, failed |-> FALSE,
   conn |-> "NEW", gone |-> FALSE, out |-> {}, tx |-> FALSE, rx |-> FALSE, auth_started |-> FALSE,
   need_fired |-> "NOTHING", up |-> FALSE, down |-> None]

\* The identity files that nc_keygen leaves.
NcKeygen == {KeyfileGenerate(empty, cut) : empty \in BOOLEAN, cut \in Cuts}

\* The command lines of auth_client, with its key file.  A client without one is
\* a client with one that cannot be read.  The authorized key is the sealed one.
Progs == [user : Users, register : BOOLEAN, key : NcKeygen,
          asking : {"NOTHING"}, vals : {<<>>}, secret : {Empty}, lines : {0}]

\* A session starts: what main does at both ends.  A server without a usable
\* host key exits at once.
Started(key) ==
  /\ link' = [e \in Ends |-> IF e = "server" /\ key = "broken"
                             THEN [Opened0 EXCEPT !.run = "exit"] ELSE Opened0]
  /\ \E p \in Progs : prog' = p
  /\ net' = {}

Init0 ==
  /\ Init
  /\ link = [e \in Ends |-> [Opened0 EXCEPT !.run = "exit"]]
  /\ prog = CHOOSE p \in Progs : TRUE
  /\ net = {}
  /\ \E u \in Users : disk = [passwd |-> <<>>, authkeys |-> <<Line(u, "sealed", "whole")>>,
                              known |-> <<>>, hostkey |-> "absent"]
  /\ tool = [user |-> Empty, password |-> Empty]
  /\ hist = [sessions |-> 0, keys |-> {}, faults |-> 0, lost |-> FALSE, full |-> FALSE,
             promised |-> {}, harmed |-> {}, raced |-> {}, dropped |-> FALSE]

\* A write that the disk has no room for is a fault.
Fault(cut) == IF cut = "whole" THEN 0 ELSE 1
WriteOK(cut) == hist.faults + Fault(cut) <= MaxFaults
Wrote(h, cut) == [h EXCEPT !.faults = @ + Fault(cut), !.full = @ \/ cut # "whole"]

\* An account is written to passwd and its owner told so.  Harmed are the accounts
\* that a full disk may cost: the one that is cut and the one written on to its end.
Promised(h, user, password, cut) ==
  Wrote([h EXCEPT !.promised = @ \cup {<<user, password>>},
                  !.harmed = IF cut # "whole" \/ Torn(disk.passwd)
                             THEN @ \cup {<<FirstWord[user], password>>} ELSE @], cut)

\* The two mains, once both earlier processes are gone.  ks_host_key reads or
\* makes the host key.
NewSession(new, cut) ==
  LET key == HostKey(disk.hostkey, new, cut)
      made == key # disk.hostkey
  IN  /\ \A e \in Ends : link[e].run = "exit"
      /\ hist.sessions < MaxSessions
      /\ IF made THEN new \notin hist.keys /\ WriteOK(cut) ELSE cut = "whole"
      /\ disk' = [disk EXCEPT !.hostkey = key]
      /\ Started(key)
      /\ hist' = Wrote([hist EXCEPT !.sessions = @ + 1, !.lost = FALSE,
                                    !.keys = IF made THEN @ \cup {new} ELSE @], cut)
      /\ client' = ClientInit /\ server' = ServerIa(SrvCallbacks) /\ app' = AppInit
      /\ c2s' = <<>> /\ s2c' = <<>>
      /\ UNCHANGED tool

\* Between sessions the operator throws the host key away.
RemoveHostKey ==
  /\ \A e \in Ends : link[e].run = "exit"
  /\ disk.hostkey # "absent" /\ hist.sessions < MaxSessions
  /\ disk' = [disk EXCEPT !.hostkey = "absent"]
  /\ UNCHANGED <<vars, link, prog, net, tool, hist>>

-------------------------------------------------------------------------------
(* The link. *)

To(e, kinds) == {[to |-> e, kind |-> k] : k \in kinds}
On(e, phases) == link[e].run # "exit" /\ link[e].phase \in phases
\* A callback of one end begins when the other end is between two: they meet in
\* the queues only, so that a callback may be told as if it ran alone.
Idle(e) == link[e].run = "on" /\ \A x \in Ends : link[x].phase = "idle"
Inbound(e) == IF e = "server" THEN c2s ELSE s2c

\* fire_down, once, and on_down, which stops the loop of either program.
OnDown(l) == [l EXCEPT !.run = "stopping"]
FireDown(l, reason) == IF l.down # None THEN l ELSE OnDown([l EXCEPT !.down = reason])

\* pump_events: the events, before any message is read.
Pumped(l) ==
  LET p == [l EXCEPT !.phase = "pump", !.gone = FALSE]
  IN  IF l.gone THEN FireDown(p, "PEER") ELSE p

\* Mutant of VerifyHost: a changed key is added like a new one.
TrustingHost(known, pk) == IF KnownHost(known, Host, pk) = "MATCH" THEN "OK" ELSE "ADD"

\* verify_host: trust on first use.
VerifyHost(known, pk) ==
  CASE KnownHost(known, Host, pk) = "MATCH" -> "OK"
    [] KnownHost(known, Host, pk) = "UNKNOWN" -> "ADD"
    [] OTHER -> "REFUSE"

\* on_readable of the server: a HELLO is answered, however often it comes.
ServerHelloIn(d) ==
  /\ Idle("server") \/ On("server", {"recv"})
  /\ d \in net /\ d = [to |-> "server", kind |-> "HELLO"]
  /\ link' = [link EXCEPT !["server"].ready = TRUE, !["server"].phase = "recv"]
  /\ net' = (net \ {d}) \cup To("client", {"HELLO"})
  /\ UNCHANGED <<vars, prog, disk, tool, hist>>

\* on_readable of the client: its first HELLO asks for verify_host, and a refusal
\* ends the loop over the socket.
ClientHelloIn(d, cut) ==
  /\ Idle("client") \/ On("client", {"recv"})
  /\ d \in net /\ d = [to |-> "client", kind |-> "HELLO"]
  /\ net' = net \ {d}
  /\ LET l == [link["client"] EXCEPT !.phase = "recv"]
         v == IF l.ready THEN "LATE" ELSE VerifyHost(disk.known, disk.hostkey)
     IN  /\ IF v = "ADD" THEN WriteOK(cut) ELSE cut = "whole"
         /\ link' = [link EXCEPT !["client"] =
                        CASE v = "LATE" -> l
                          [] v = "REFUSE" -> Pumped([l EXCEPT !.failed = TRUE])
                          [] OTHER -> [l EXCEPT !.ready = TRUE]]
         /\ disk' = IF v = "ADD"
                    THEN [disk EXCEPT !.known = KnownHostAdd(@, Host, disk.hostkey, cut)]
                    ELSE disk
  /\ hist' = Wrote(hist, cut)
  /\ UNCHANGED <<vars, prog, tool>>

\* netchan_feed of what a sealed datagram holds: the server accepts the first,
\* an ACCEPT is believed in any state, an OPEN announces the channel to read.
Fed(e, l, kind) ==
  CASE kind = "INIT" -> IF l.conn = "NEW"
                        THEN [l EXCEPT !.conn = "CONNECTED", !.out = @ \cup {"ACCEPT"}] ELSE l
    [] kind = "ACCEPT" -> [l EXCEPT !.conn = "CONNECTED"]
    [] kind = "OPEN" -> [l EXCEPT !.rx = TRUE]
    [] kind = "BYE" -> IF l.conn \in {"CONNECTING", "CONNECTED"}
                       THEN [l EXCEPT !.conn = "CLOSED", !.gone = TRUE] ELSE l

DataIn(e, d) ==
  /\ Idle(e) \/ On(e, {"recv"})
  /\ d \in net /\ d.to = e /\ d.kind # "HELLO"
  /\ net' = net \ {d}
  /\ link' = [link EXCEPT ![e] =
       IF link[e].ready THEN Fed(e, [@ EXCEPT !.phase = "recv"], d.kind)
       ELSE [@ EXCEPT !.phase = "recv"]]
  /\ UNCHANGED <<vars, prog, disk, tool, hist>>

\* on_tick: a client says HELLO until it is answered, and INIT.
Repeats(l) == (IF l.ready THEN {} ELSE {"HELLO"})
                \cup (IF l.conn = "CONNECTING" THEN {"INIT"} ELSE {})
Tick ==
  /\ Idle("client") /\ Cardinality(net) < MaxNet
  /\ net' = net \cup To("server", Repeats(link["client"]))
  /\ UNCHANGED <<vars, link, prog, disk, tool, hist>>

\* on_tick or on_readable finds messages to read.
Wake(e) ==
  /\ Idle(e) /\ link[e].rx /\ Inbound(e) # <<>>
  /\ link' = [link EXCEPT ![e].phase = "pump"]
  /\ UNCHANGED <<vars, prog, net, disk, tool, hist>>

\* on_tick when netchan_service ends the connection: a client gives up connecting
\* where a datagram was lost or the server is gone, and an end whose peer has no
\* session any more runs into the idle timeout once nothing is under way.
Timeout(e) ==
  /\ Idle(e)
  /\ \/ /\ e = "client" /\ link[e].conn = "CONNECTING"
        /\ hist.lost \/ link["server"].run = "exit"
     \/ /\ link[e].conn = "CONNECTED" /\ ~\E d \in net : d.to = e
        /\ link[Peer(e)].run = "exit" \/ link[Peer(e)].conn = "CLOSED"
  /\ link' = [link EXCEPT ![e] = Pumped([@ EXCEPT !.conn = "CLOSED", !.gone = TRUE])]
  /\ UNCHANGED <<vars, prog, net, disk, tool, hist>>

\* Mutant of Advanced: the server's login waits until the client has opened its
\* channel.
LateAdvanced(e, l0) ==
  LET l1 == IF e = "client" /\ l0.ready /\ l0.conn = "NEW"
            THEN [l0 EXCEPT !.conn = "CONNECTING", !.out = @ \cup {"INIT"}] ELSE l0
      l2 == IF ~l1.tx /\ l1.conn = "CONNECTED"
            THEN [l1 EXCEPT !.tx = TRUE, !.out = @ \cup {"OPEN"}] ELSE l1
  IN  [l2 EXCEPT !.auth_started = @ \/ (l2.tx /\ (e = "server" => l2.rx))]

\* advance: each stage waits for the one below it.
Advanced(e, l0) ==
  LET l1 == IF e = "client" /\ l0.ready /\ l0.conn = "NEW"
            THEN [l0 EXCEPT !.conn = "CONNECTING", !.out = @ \cup {"INIT"}] ELSE l0
      l2 == IF ~l1.tx /\ l1.conn = "CONNECTED"
            THEN [l1 EXCEPT !.tx = TRUE, !.out = @ \cup {"OPEN"}] ELSE l1
  IN  [l2 EXCEPT !.auth_started = @ \/ l2.tx]

\* The end of a callback: advance and flush_out, which drops what cannot be sealed.
\* Every change of the login was settled where it happened.
Advance(e) ==
  /\ On(e, {"recv", "pump"})
  /\ LET l == Pumped(link[e])
         n == Advanced(e, l)
     IN  IF l.failed
         THEN /\ link' = [link EXCEPT ![e] = [FireDown(l, "HOSTKEY") EXCEPT !.phase = "idle"]]
              /\ UNCHANGED <<vars, net>>
         ELSE /\ link' = [link EXCEPT ![e] = [n EXCEPT !.out = {}, !.phase = "idle"]]
              /\ net' = IF n.ready THEN net \cup To(Peer(e), n.out) ELSE net
              /\ IF e = "client" /\ n.auth_started /\ ~l.auth_started
                 THEN Start ELSE UNCHANGED vars
  /\ UNCHANGED <<prog, disk, tool, hist>>

\* An end whose loop has stopped: auth_link_close tells the peer if it can.
Close(e) ==
  /\ link[e].run = "stopping" /\ link[e].phase = "idle"
  /\ link' = [link EXCEPT ![e].run = "exit"]
  /\ net' = IF link[e].ready /\ link[e].conn = "CONNECTED"
            THEN net \cup To(Peer(e), {"BYE"}) ELSE net
  /\ UNCHANGED <<vars, prog, disk, tool, hist>>

-------------------------------------------------------------------------------
(* The login on top, and what the two programs do in its callbacks. *)

\* on_up: only now does the client read the keyboard.
OnUp(l) == [l EXCEPT !.up = TRUE]

\* settle_auth: the verdict, reported once.
SettleAuth(l, state) ==
  CASE state = "OK" -> OnUp(l)
    [] state = "DENIED" -> FireDown(l, "AUTH")
    [] OTHER -> l

\* What the login has just done is settled before the callback goes on (ret): a
\* need not yet reported is on_need's, and then there is no verdict.
Settled(e, l, ret) ==
  LET done == [l EXCEPT !.phase = ret]
  IN  IF ~l.auth_started \/ l.up \/ l.down # None THEN done
      ELSE IF e = "server" THEN SettleAuth(done, server'.state)
      ELSE IF client'.need \notin {l.need_fired, "NOTHING"}
        THEN [l EXCEPT !.phase = "need", !.ret = ret]
      ELSE SettleAuth([done EXCEPT !.need_fired = client'.need], client'.state)
Settle(e, l, ret) == link' = [link EXCEPT ![e] = Settled(e, l, ret)]

\* A supply call forgets what was reported last.
Supplied(ret) == Settle("client", [link["client"] EXCEPT !.need_fired = "NOTHING"], ret)

\* supply_key_from_file, for a key that needs no passphrase.
SupplyKeyFromFile(ret) ==
  /\ SupplyKey(KeyfileLoad(prog.key, Empty))
  /\ Supplied(ret)
  /\ UNCHANGED prog

\* on_need: answered at once, or by a prompt on the terminal.
OnNeed ==
  LET ret == link["client"].ret
  IN  /\ On("client", {"need"})
      /\ CASE client.need = "METHOD" ->
                /\ SupplyMethod(IF prog.register THEN {"REGISTER"} ELSE {"PUBKEY", "PASSWORD"})
                /\ prog' = [prog EXCEPT !.register = FALSE]
                /\ Supplied(ret)
           [] client.need = "KEY" /\ ~KeyfileEncrypted(prog.key) -> SupplyKeyFromFile(ret)
           [] OTHER ->
                /\ prog' = [prog EXCEPT !.asking = client.need, !.vals = <<>>]
                /\ link' = [link EXCEPT !["client"].need_fired = client.need,
                                        !["client"].phase = ret]
                /\ UNCHANGED vars
      /\ UNCHANGED <<net, disk, tool, hist>>

\* A line typed at a prompt, or the end of the input; secret_complete and
\* on_secret_typed.  A player who has seen MaxForms forms gives up.
Prompted(what) == Idle("client") /\ prog.asking = what
Answered(p) == prog' = [p EXCEPT !.asking = "NOTHING"]

TypePassword(pw) ==
  /\ Prompted("PASSWORD") /\ SupplyPassword(TRUE)
  /\ Answered([prog EXCEPT !.secret = pw]) /\ Supplied("idle")
  /\ UNCHANGED <<net, disk, tool, hist>>

TypePassphrase(p) ==
  /\ Prompted("KEY") /\ SupplyKey(KeyfileLoad(prog.key, p))
  /\ Answered(prog) /\ Supplied("idle")
  /\ UNCHANGED <<net, disk, tool, hist>>

\* form_answer and form_next: one prompt for each field that takes an answer.
Fields == <<Users \cup {Empty}, Passwords, Passwords>>
TypeField(v) ==
  /\ Prompted("FORM") /\ app.forms < MaxForms
  /\ v \in Fields[Len(prog.vals) + 1]
  /\ LET p == [prog EXCEPT !.vals = Append(@, v)]
     IN  IF Len(p.vals) < Len(Fields)
         THEN prog' = p /\ UNCHANGED <<vars, link>>
         ELSE Submit("ANSWERS") /\ Answered(p) /\ Supplied("idle")
  /\ UNCHANGED <<net, disk, tool, hist>>

\* Mutant of EndOfInput: the prompt is closed and nothing is declined.
QuietEndOfInput ==
  /\ Idle("client") /\ prog.asking # "NOTHING"
  /\ Answered(prog) /\ UNCHANGED <<vars, link, net, disk, tool, hist>>

\* decline: giving up on a form is giving up on registering.
EndOfInput ==
  /\ Idle("client") /\ prog.asking # "NOTHING"
  /\ CASE prog.asking = "KEY" -> SupplyKey(FALSE)
       [] prog.asking = "PASSWORD" -> SupplyPassword(FALSE)
       [] prog.asking = "FORM" -> Cancel
  /\ Answered(prog) /\ Supplied("idle")
  /\ UNCHANGED <<net, disk, tool, hist>>

ChanSend(m) == c2s' = Append(c2s, m)

\* on_stdin, which on_up starts: a line is sent, and the end of the input stops
\* the loop after a while.
TypeLine ==
  /\ Idle("client") /\ link["client"].up /\ prog.lines < MaxLines
  /\ prog' = [prog EXCEPT !.lines = @ + 1]
  /\ ChanSend(Msg("APP"))
  /\ UNCHANGED <<client, server, app, s2c, link, net, disk, tool, hist>>

\* linger_done: the keyboard was closed, LINGER_MS ago.
LingerDone ==
  /\ Idle("client") /\ link["client"].up
  /\ link' = [link EXCEPT !["client"].run = "stopping"]
  /\ UNCHANGED <<vars, prog, net, disk, tool, hist>>

\* on_signal, at either end.
OnSignal(e) ==
  /\ Idle(e) /\ hist.faults < MaxFaults
  /\ link' = [link EXCEPT ![e].run = "stopping"]
  /\ hist' = [hist EXCEPT !.faults = @ + 1]
  /\ UNCHANGED <<vars, prog, net, disk, tool>>

-------------------------------------------------------------------------------
(* deliver: one message off the channel. *)

\* A login step is fed and settled; application data goes to a session that is up.
Delivers(e) == On(e, {"recv", "pump"}) /\ link[e].rx
LoginStep(e, types) ==
  /\ Delivers(e) /\ Inbound(e) # <<>> /\ Head(Inbound(e)).type \in types /\ link[e].auth_started
Fed1(e) == Settle(e, Pumped(link[e]), "pump") /\ UNCHANGED <<prog, net, tool>>
Kept == UNCHANGED <<disk, hist>>

ClientDeliver ==
  /\ LoginStep("client", {"METHODS", "OK", "FAIL", "IA_FORM"})
  /\ ClientMethods \/ ClientOk \/ ClientFail \/ ClientForm(TRUE) \/ ClientRefuses
  /\ Fed1("client") /\ Kept

\* srv_methods, srv_begin, srv_check_key and srv_check_password.
ServerDeliver ==
  /\ LoginStep("server", {"HELLO", "PUBKEY", "PASSWORD", "IA_BEGIN", "IA_SUBMIT", "IA_CANCEL"})
  /\ \/ ServerHello(SrvMethods)
     \/ ServerPubkey(AuthorizedKey(disk.authkeys, prog.user, prog.key))
     \/ ServerPassword(CheckPassword(disk.passwd, prog.user, prog.secret))
     \/ ServerBegin("MORE", SrvMethods)
     \/ ServerCancel(SrvMethods)
     \/ ServerRefuses
  /\ Fed1("server") /\ Kept

\* Mutant of FormErrors: a name that is taken is not looked for.
FewerFormErrors(passwd, vals) == vals[1] = Empty \/ vals[2] # vals[3]

\* What srv_submit finds wrong with the answers.
FormErrors(passwd, vals) ==
  vals[1] = Empty \/ UserExists(passwd, vals[1]) \/ vals[2] # vals[3]

Enrolling(l) == [Pumped(l) EXCEPT !.phase = "enrol"]

\* srv_submit: the answers are checked, and a good password is stretched, which
\* takes its time, before the account is written and the client is told.
SrvSubmit ==
  /\ LoginStep("server", {"IA_SUBMIT"}) /\ server.state = "PENDING"
  /\ IF server.ia = None \/ FormErrors(disk.passwd, prog.vals)
       THEN ServerSubmit("MORE", SrvMethods, FALSE, TRUE) /\ Fed1("server")
       ELSE link' = [link EXCEPT !["server"] = Enrolling(link["server"])]
            /\ UNCHANGED <<vars, prog, net, tool>>
  /\ Kept

SrvEnrol(cut) ==
  /\ On("server", {"enrol"}) /\ WriteOK(cut)
  /\ ServerSubmit("DONE", SrvMethods, FALSE, TRUE)
  /\ disk' = [disk EXCEPT !.passwd = PasswdAdd(@, prog.vals[1], prog.vals[2], cut)]
  /\ hist' = Promised(hist, prog.vals[1], prog.vals[2], cut)
  /\ Fed1("server")

\* ks_passwd_add has no random salt or cannot open the file: the form again.
SrvEnrolFails ==
  /\ On("server", {"enrol"}) /\ hist.faults < MaxFaults
  /\ ServerSubmit("MORE", SrvMethods, FALSE, TRUE)
  /\ hist' = [hist EXCEPT !.faults = @ + 1]
  /\ Fed1("server") /\ UNCHANGED disk

\* Anything else is application data, which the server echoes (on_data).  What
\* comes before its time is gone: the channel will not repeat it.
DeliverData(e) ==
  /\ Delivers(e) /\ Inbound(e) # <<>>
  /\ Head(Inbound(e)).type = "APP" \/ ~link[e].auth_started
  /\ hist' = [hist EXCEPT !.dropped = @ \/ ~link[e].up]
  /\ IF e = "server"
       THEN /\ c2s' = Tail(c2s)
            /\ s2c' = IF link[e].up THEN Append(s2c, Msg("APP")) ELSE s2c
       ELSE s2c' = Tail(s2c) /\ UNCHANGED c2s
  /\ link' = [link EXCEPT ![e] = Pumped(@)]
  /\ UNCHANGED <<client, server, app, prog, net, disk, tool>>

Deliver(e) ==
  \/ IF e = "client" THEN ClientDeliver
     ELSE ServerDeliver \/ SrvSubmit \/ SrvEnrolFails \/ \E cut \in Cuts : SrvEnrol(cut)
  \/ DeliverData(e)

-------------------------------------------------------------------------------
(* auth_server --adduser, beside the server: the name is looked up before the *)
(* password is asked for.                                                     *)
AddUserCheck(u, pw) ==
  /\ tool.user = Empty /\ ~UserExists(disk.passwd, u)
  /\ hist.faults < MaxFaults
  /\ tool' = [user |-> u, password |-> pw]
  /\ hist' = [hist EXCEPT !.faults = @ + 1]
  /\ UNCHANGED <<vars, link, prog, net, disk>>

\* Raced: the name was registered since it was looked up, or is about to be.
AddUser(cut) ==
  /\ tool.user \in Users /\ WriteOK(cut)
  /\ disk' = [disk EXCEPT !.passwd = PasswdAdd(@, tool.user, tool.password, cut)]
  /\ hist' = [Promised(hist, tool.user, tool.password, cut) EXCEPT !.raced =
       @ \cup {u \in {FirstWord[tool.user]} :
                 \/ Matches(disk.passwd, u) # {}
                 \/ On("server", {"enrol"}) /\ prog.vals[1] = u}]
  /\ tool' = [user |-> "added", password |-> Empty]
  /\ UNCHANGED <<vars, link, prog, net>>

(* The network loses a datagram; the server's process is killed. *)
Lose(d) ==
  /\ d \in net /\ hist.faults < MaxFaults
  /\ net' = net \ {d}
  /\ hist' = [hist EXCEPT !.faults = @ + 1, !.lost = TRUE]
  /\ UNCHANGED <<vars, link, prog, disk, tool>>

Crash ==
  /\ link["server"].run # "exit" /\ hist.faults < MaxFaults
  /\ link' = [link EXCEPT !["server"].run = "exit", !["server"].phase = "idle"]
  /\ hist' = [hist EXCEPT !.faults = @ + 1]
  /\ UNCHANGED <<vars, prog, net, disk, tool>>

Receive(e) ==
  \E d \in net :
    \/ e = "server" /\ ServerHelloIn(d)
    \/ e = "client" /\ \E cut \in Cuts : ClientHelloIn(d, cut)
    \/ DataIn(e, d)

Types ==
  \/ \E pw \in Passwords : TypePassword(pw)
  \/ \E p \in {"right", "wrong"} : TypePassphrase(p)
  \/ \E v \in Users \cup Passwords \cup {Empty} : TypeField(v)
  \/ EndOfInput

LinkNext ==
  \/ \E cut \in Cuts : AddUser(cut) \/ \E new \in HostKeys : NewSession(new, cut)
  \/ RemoveHostKey
  \/ \E e \in Ends :
       \/ Receive(e) \/ Wake(e) \/ Timeout(e) \/ Deliver(e)
       \/ Advance(e) \/ Close(e) \/ OnSignal(e)
  \/ Tick \/ OnNeed \/ Types \/ TypeLine \/ LingerDone
  \/ \E u \in Users, pw \in Passwords : AddUserCheck(u, pw)
  \/ \E d \in net : Lose(d)
  \/ Crash

LinkSpec == Init0 /\ [][LinkNext]_allvars

(* As long as an end has something to do or a player something to answer, some *)
(* of it is done; a client whose socket is readable reads it in the end, and a *)
(* callback does not find the channel empty for ever (netchan retransmits).    *)
(* That is less than two loops that turn on their own guarantee.               *)
Progress ==
  \/ \E e \in Ends :
       Receive(e) \/ Wake(e) \/ Timeout(e) \/ Deliver(e) \/ Advance(e) \/ Close(e)
  \/ Tick \/ OnNeed \/ Types
LinkFairness ==
  /\ WF_allvars(Progress)
  /\ SF_allvars(Receive("client")) /\ SF_allvars(\E e \in Ends : Deliver(e))

LinkFairSpec == LinkSpec /\ LinkFairness

-------------------------------------------------------------------------------
(* Nothing that reaches an end is thrown away: a login message never finds the *)
(* login not begun, nor application data a session that is not up (deliver).   *)
NothingDropped == LinkTypeOK /\ ~hist.dropped

(* A client that is up has a server that accepted it, a credential that the    *)
(* files hold, and a host key that is the one it wrote down first.             *)
UpTogether ==
  link["client"].up /\ link["client"].run # "exit" =>
    /\ server.state = "OK"
    /\ \/ CheckPassword(disk.passwd, prog.user, prog.secret)
       \/ AuthorizedKey(disk.authkeys, prog.user, prog.key)
       \/ hist.full
    /\ KnownHost(disk.known, Host, disk.hostkey) = "MATCH" \/ hist.full

(* A password that works goes on working: whoever adds lines to passwd, in     *)
(* whatever order and with whatever names, the first entry of a name is the    *)
(* one that counts; a full disk costs nobody the account but him whose line it *)
(* cut and the next one (AppendLine).                                          *)
PasswordsKept ==
  [][\A u \in Users, pw \in Passwords :
       CheckPassword(disk.passwd, u, pw) /\ <<u, pw>> \notin hist'.harmed
         => CheckPassword(disk.passwd', u, pw)]_allvars

(* Whoever was told that an account exists can log in with it, if the name is  *)
(* one word and no comment (srv_submit does not ask for that), unless the disk *)
(* had no room for that line or the one before it, or --adduser wrote the same *)
(* name while it was being registered.                                         *)
PromisesKept ==
  \A r \in hist.promised :
    Plain(r[1]) /\ r \notin hist.harmed /\ r[1] \notin hist.raced
      => CheckPassword(disk.passwd, r[1], r[2])

(* auth_server.c:150: "the client authenticates with the credential it just    *)
(* enrolled".  It does not hold of a name with a blank or a leading '#'.       *)
EnrolledWorks == \A r \in hist.promised : CheckPassword(disk.passwd, r[1], r[2])

(* When no datagram is lost, every session comes to an end that its player     *)
(* sees: up, or a loop that stops.  The one wait without end is for a server   *)
(* that is gone before it has answered a HELLO (on_tick repeats it for ever).  *)
LoginEnds ==
  \A n \in 1..MaxSessions :
    hist.sessions = n /\ link["client"].run = "on" ~>
      \/ hist.lost \/ link["client"].up \/ link["client"].run # "on"
      \/ ~link["client"].ready /\ link["server"].run = "exit"
================================================================================
