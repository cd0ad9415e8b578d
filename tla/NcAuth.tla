-------------------------------- MODULE NcAuth --------------------------------
(***************************************************************************)
(* The login conversation of nc_auth.c and nc_auth_ia.c: a client and a    *)
(* server state machine, fed whole messages by a session that keeps their  *)
(* order and loses none.  The applications around the two machines (the    *)
(* player, the account store) answer when and how they like.               *)
(***************************************************************************)
EXTENDS Naturals, Sequences, FiniteSets

CONSTANTS
  MaxTries,    \* NC_AUTH_MAX_TRIES
  Offers,      \* the masks the methods callback may return
  Choices,     \* the masks a player may answer NC_AUTH_NEED_METHOD with
  Callbacks,   \* the sets of callbacks that a server may have (struct nc_auth_ia_cb)
  MaxWishes,   \* bound: answers that name an interactive method
  MaxForms     \* bound: forms the server's callbacks issue

Interactive == {"REGISTER", "INTERACTIVE"}
Methods == {"PUBKEY", "PASSWORD"} \cup Interactive
\* The callbacks whose absence the code tests for; cancelled is taken as given.
CallbackNames == {"begin", "submit", "resume"}

ASSUME AuthAssumption ==
  /\ MaxTries \in Nat \ {0} /\ MaxWishes \in Nat /\ MaxForms \in Nat
  /\ Offers \subseteq SUBSET Methods /\ Choices \subseteq SUBSET Methods
  /\ Callbacks \subseteq SUBSET CallbackNames

VARIABLES
  client,  \* the client's struct nc_auth
  server,  \* the server's struct nc_auth
  app,     \* the server application, as its callbacks see the conversation
  c2s, s2c \* the messages under way, in order

vars == <<client, server, app, c2s, s2c>>

None == "NONE"
States == {"PENDING", "OK", "DENIED"}
Needs == {"NOTHING", "KEY", "PASSWORD", "METHOD", "FORM"}

ClientMsgs ==
  [type : {"HELLO", "PUBKEY", "PASSWORD", "IA_SUBMIT", "IA_CANCEL"}]
    \cup [type : {"IA_BEGIN"}, method : Interactive, token : BOOLEAN]
ServerMsgs ==
  [type : {"OK", "IA_FORM"}] \cup [type : {"METHODS", "FAIL"}, mask : SUBSET Methods]
    \cup [type : {"IA_WAIT"}, token : BOOLEAN]

\* err is why nc_auth_feed refused a message: it has no counterpart in the code.
Client ==
  [state : States, need : Needs, avail : SUBSET Methods, ia : Interactive \cup {None},
   chosen : SUBSET Methods, chose : BOOLEAN, asked : BOOLEAN, cancelling : BOOLEAN,
   registered : BOOLEAN, waiting : BOOLEAN, token : BOOLEAN, hello : BOOLEAN,
   wishes : 0..MaxWishes, err : {"NONE", "ORDER", "SIZE"}]
Server ==
  [state : States, greeted : BOOLEAN, avail : SUBSET Methods, tries : 0..MaxTries,
   ia : Interactive \cup {None}, fired : BOOLEAN, token : BOOLEAN,
   iacb : SUBSET CallbackNames, err : {"NONE", "ORDER", "SIZE", "CANCEL", "SUBMIT"}]
\* running: YES from a begun method to its end as the callbacks hear of it, and
\* UNTOLD when it ended because the application's own form did not encode;
\* waiting: a callback returned NC_AUTH_IA_WAIT and owes a resume;
\* strays: how often cancelled fired though nothing was running;
\* untaken: how many tokens were refused for want of a resume callback.
App ==
  [running : {"NO", "YES", "UNTOLD"}, waiting : BOOLEAN, strays : Nat, untaken : Nat,
   refusals : Nat, enrolled : Nat, announced : Nat, forms : 0..MaxForms, gone : BOOLEAN]

TypeOK ==
  /\ client \in Client
  /\ server \in Server
  /\ app \in App
  /\ c2s \in Seq(ClientMsgs)
  /\ s2c \in Seq(ServerMsgs)

ClientInit ==
  [state |-> "PENDING", need |-> "NOTHING", avail |-> {}, ia |-> None, chosen |-> {},
   chose |-> FALSE, asked |-> FALSE, cancelling |-> FALSE, registered |-> FALSE,
   waiting |-> FALSE, token |-> FALSE, hello |-> FALSE, wishes |-> 0, err |-> "NONE"]
ServerInit ==
  [state |-> "PENDING", greeted |-> FALSE, avail |-> {}, tries |-> 0, ia |-> None,
   fired |-> FALSE, token |-> FALSE, iacb |-> {}, err |-> "NONE"]
\* nc_auth_server_ia: the callbacks are registered before the first message.
ServerIa(cb) == [ServerInit EXCEPT !.iacb = cb]

\* The application before its first callback.
AppInit ==
  [running |-> "NO", waiting |-> FALSE, strays |-> 0, untaken |-> 0, refusals |-> 0,
   enrolled |-> 0, announced |-> 0, forms |-> 0, gone |-> FALSE]

Init ==
  /\ client = ClientInit
  /\ \E cb \in Callbacks : server = ServerIa(cb)
  /\ app = AppInit
  /\ c2s = <<>> /\ s2c = <<>>

-------------------------------------------------------------------------------
(* What the helpers leave behind: the changed struct and the messages sent. *)

Msg(t) == [type |-> t]

\* The publickey and password chain: what it asks for is dropped from avail.
Chain(c) ==
  IF "PUBKEY" \in c.avail
    THEN [c EXCEPT !.avail = @ \ {"PUBKEY"}, !.need = "KEY"]
  ELSE IF "PASSWORD" \in c.avail
    THEN [c EXCEPT !.avail = @ \ {"PASSWORD"}, !.need = "PASSWORD"]
  ELSE [c EXCEPT !.need = "NOTHING", !.state = "DENIED"]

\* The method that an answer opens: registration before interactive login.
Opened(want) == IF "REGISTER" \in want THEN "REGISTER" ELSE "INTERACTIVE"

IaChoose(c0) ==
  LET c == [c0 EXCEPT !.chose = FALSE]
      want == c.chosen \cap Interactive
      open == [c EXCEPT !.ia = Opened(want \cap c.avail), !.need = "NOTHING"]
  IN  IF c.chosen = {}
        THEN [c |-> [c EXCEPT !.need = "NOTHING", !.state = "DENIED"], out |-> <<>>]
      ELSE IF want # {} /\ want \cap c.avail = {}
        THEN [c |-> [c EXCEPT !.need = "METHOD"], out |-> <<>>]
      ELSE IF want = {}
        THEN [c |-> IF c.state = "PENDING" THEN Chain([c EXCEPT !.asked = TRUE])
                    ELSE [c EXCEPT !.asked = TRUE],
              out |-> <<>>]
      ELSE [c |-> open,
            out |-> <<[type |-> "IA_BEGIN", method |-> open.ia, token |-> c.token]>>]

TryNext(c) ==
  IF c.state # "PENDING" THEN [c |-> c, out |-> <<>>]
  ELSE IF ~c.asked /\ c.avail \cap Interactive # {}
    THEN IF c.chose THEN IaChoose(c)
         ELSE [c |-> [c EXCEPT !.need = "METHOD"], out |-> <<>>]
  ELSE [c |-> Chain(c), out |-> <<>>]

\* Mutant of Deny: a conversation that is over is not announced.
SilentDeny(s, spent) ==
  LET left == s.avail \ spent
      end == s.tries + 1 >= MaxTries \/ left = {}
      mask == IF end THEN {} ELSE left
  IN  [s |-> [s EXCEPT !.avail = mask, !.tries = @ + 1,
                       !.state = IF end THEN "DENIED" ELSE @],
       out |-> IF end THEN <<>> ELSE <<[type |-> "FAIL", mask |-> mask]>>]

Deny(s, spent) ==
  LET left == s.avail \ spent
      end == s.tries + 1 >= MaxTries \/ left = {}
      mask == IF end THEN {} ELSE left
  IN  [s |-> [s EXCEPT !.avail = mask, !.tries = @ + 1,
                       !.state = IF end THEN "DENIED" ELSE @],
       out |-> <<[type |-> "FAIL", mask |-> mask]>>]

\* Mutant of Offer: a new offer forgets the failed tries.
FreshOffer(s, mask) ==
  [s |-> [s EXCEPT !.avail = mask, !.state = IF mask = {} THEN "DENIED" ELSE @,
                   !.tries = 0],
   out |-> <<[type |-> "METHODS", mask |-> mask]>>]

Offer(s, mask) ==
  [s |-> [s EXCEPT !.avail = mask, !.state = IF mask = {} THEN "DENIED" ELSE @],
   out |-> <<[type |-> "METHODS", mask |-> mask]>>]

\* The cancelled callback, as the application takes it.
Cancelled(a) ==
  [a EXCEPT !.running = "NO", !.waiting = FALSE,
            !.strays = @ + (IF a.running = "YES" THEN 0 ELSE 1)]

\* nc_auth_i_ia_end, at the server.
EndedServer(s) == [s EXCEPT !.ia = None, !.fired = @ \/ s.ia # None]
EndedApp(s, a) == IF s.ia # None /\ ~s.fired THEN Cancelled(a) ELSE a

\* nc_auth_i_ia_end and nc_auth_i_server_deny together, as the callers use them.
EndAndDeny(s, spent) == Deny(EndedServer(s), spent)

\* What a callback or nc_auth_server_resume decided.  NOFORM is NC_AUTH_IA_MORE
\* without a form, UNFIT one whose form does not encode; mask answers the methods
\* callback that a finished registration asks again.
Verdict(s, a, v, mask) ==
  CASE v = "MORE" ->
         [s |-> s, a |-> [a EXCEPT !.forms = @ + 1, !.waiting = FALSE],
          out |-> <<Msg("IA_FORM")>>]
    [] v = "NOFORM" ->
         LET d == EndAndDeny(s, {s.ia})
         IN  [s |-> d.s, a |-> EndedApp(s, a), out |-> d.out]
    [] v = "UNFIT" ->
         LET d == EndAndDeny([s EXCEPT !.fired = TRUE], {s.ia})
         IN  [s |-> d.s, a |-> [a EXCEPT !.running = "UNTOLD", !.waiting = FALSE],
              out |-> d.out]
    [] v = "WAIT" ->
         [s |-> s, a |-> [a EXCEPT !.waiting = TRUE],
          out |-> <<[type |-> "IA_WAIT", token |-> s.token]>>]
    [] v = "DONE" /\ s.ia = "REGISTER" ->
         LET o == Offer([s EXCEPT !.ia = None, !.fired = FALSE], mask)
         IN  [s |-> o.s, out |-> o.out,
              a |-> [a EXCEPT !.running = "NO", !.waiting = FALSE, !.enrolled = @ + 1]]
    [] v = "DONE" /\ s.ia # "REGISTER" ->
         [s |-> [s EXCEPT !.ia = None, !.fired = TRUE, !.state = "OK"],
          a |-> [a EXCEPT !.running = "NO", !.waiting = FALSE], out |-> <<Msg("OK")>>]
    [] v = "DENIED" ->
         LET d == EndAndDeny([s EXCEPT !.fired = TRUE], {s.ia})
         IN  [s |-> d.s, out |-> d.out,
              a |-> [a EXCEPT !.running = "NO", !.waiting = FALSE, !.refusals = @ + 1]]

\* Forms are bounded: an application that has issued MaxForms asks no more.
Verdicts(a, vs) == IF a.forms < MaxForms THEN vs ELSE vs \ {"MORE"}

-------------------------------------------------------------------------------
(* The client's application. *)

\* The client's struct and the message it sends, if any.
ClientStep(r) ==
  /\ client' = r.c
  /\ c2s' = c2s \o r.out

Up == ~app.gone

Start ==
  /\ Up /\ ~client.hello /\ client.state = "PENDING"
  /\ client' = [client EXCEPT !.hello = TRUE]
  /\ c2s' = Append(c2s, Msg("HELLO"))
  /\ UNCHANGED <<server, app, s2c>>

\* nc_auth_supply_key, with a key or with NULL.
SupplyKey(have) ==
  /\ Up /\ client.need = "KEY"
  /\ LET c == [client EXCEPT !.need = "NOTHING"]
     IN  ClientStep(IF have THEN [c |-> c, out |-> <<Msg("PUBKEY")>>] ELSE TryNext(c))
  /\ UNCHANGED <<server, app, s2c>>

\* nc_auth_supply_password; one that is too long counts as none.
SupplyPassword(have) ==
  /\ Up /\ client.need = "PASSWORD"
  /\ LET c == [client EXCEPT !.need = "NOTHING"]
     IN  ClientStep(IF have THEN [c |-> c, out |-> <<Msg("PASSWORD")>>] ELSE TryNext(c))
  /\ UNCHANGED <<server, app, s2c>>

\* nc_auth_supply_method, in answer to the question or ahead of it.
SupplyMethod(m) ==
  LET wish == IF m \cap Interactive # {} THEN 1 ELSE 0
      c == [client EXCEPT !.chosen = m, !.chose = TRUE, !.wishes = @ + wish]
  IN  /\ Up /\ client.wishes + wish <= MaxWishes
      /\ ClientStep(IF c.need = "METHOD" THEN IaChoose([c EXCEPT !.need = "NOTHING"])
                    ELSE [c |-> c, out |-> <<>>])
      /\ UNCHANGED <<server, app, s2c>>

\* nc_auth_cancel: what it does when a method runs and none is being cancelled.
CancelStep(c) ==
  IF c.ia = None \/ c.cancelling THEN [c |-> c, out |-> <<>>]
  ELSE [c |-> [c EXCEPT !.cancelling = TRUE, !.need = "NOTHING", !.waiting = FALSE,
                        !.token = FALSE],
        out |-> <<Msg("IA_CANCEL")>>]

Cancel ==
  /\ Up /\ client.ia # None /\ ~client.cancelling
  /\ ClientStep(CancelStep(client))
  /\ UNCHANGED <<server, app, s2c>>

\* nc_auth_submit: answers, no answers, or answers that do not encode.
Submit(how) ==
  /\ Up /\ client.need = "FORM"
  /\ LET c == [client EXCEPT !.need = "NOTHING"]
     IN  ClientStep(CASE how = "NULL" -> CancelStep(c)
                      [] how = "UNFIT" -> [c |-> [c EXCEPT !.state = "DENIED"],
                                           out |-> <<>>]
                      [] how = "ANSWERS" -> [c |-> c, out |-> <<Msg("IA_SUBMIT")>>])
  /\ UNCHANGED <<server, app, s2c>>

\* nc_auth_resume_pending: a token saved from an earlier connection, at any time.
ResumePending ==
  /\ Up /\ ~client.token
  /\ client' = [client EXCEPT !.token = TRUE]
  /\ UNCHANGED <<server, app, c2s, s2c>>

\* nc_auth_registered: read once.
TakeRegistered ==
  /\ Up /\ client.registered
  /\ client' = [client EXCEPT !.registered = FALSE]
  /\ app' = [app EXCEPT !.announced = @ + 1]
  /\ UNCHANGED <<server, c2s, s2c>>

-------------------------------------------------------------------------------
(* nc_auth_feed at the client: one action per message. *)

\* Take the next message; a conversation that is over refuses it unread.
ClientFeed(type) ==
  /\ Up /\ s2c # <<>> /\ Head(s2c).type = type /\ client.state = "PENDING"
  /\ s2c' = Tail(s2c)
  /\ UNCHANGED <<server, app>>

ClientError(c, why) == [c EXCEPT !.state = "DENIED", !.err = why]

\* Mutant of ClientMethods: an offer that answers a cancel counts as a
\* completed registration.
CarelessMethods ==
  /\ ClientFeed("METHODS")
  /\ LET mask == Head(s2c).mask
         c == [client EXCEPT !.registered = @ \/ client.ia = "REGISTER",
                             !.ia = None, !.cancelling = FALSE, !.asked = FALSE,
                             !.waiting = FALSE, !.avail = mask]
     IN  ClientStep(IF mask = {} THEN [c |-> [c EXCEPT !.state = "DENIED"], out |-> <<>>]
                    ELSE TryNext(c))

ClientMethods ==
  /\ ClientFeed("METHODS")
  /\ LET mask == Head(s2c).mask
         c == [client EXCEPT
                !.registered = @ \/ (client.ia = "REGISTER" /\ ~client.cancelling),
                !.ia = None, !.cancelling = FALSE, !.asked = FALSE, !.waiting = FALSE,
                !.avail = mask]
     IN  ClientStep(IF mask = {} THEN [c |-> [c EXCEPT !.state = "DENIED"], out |-> <<>>]
                    ELSE TryNext(c))

ClientOk ==
  /\ ClientFeed("OK")
  /\ client' = [client EXCEPT !.state = "OK"]
  /\ UNCHANGED c2s

\* Mutant of ClientFail: the next method is not tried.
ParkingFail ==
  /\ ClientFeed("FAIL")
  /\ client' = [client EXCEPT !.avail = @ \cap Head(s2c).mask, !.ia = None,
                              !.cancelling = FALSE, !.asked = FALSE]
  /\ UNCHANGED c2s

ClientFail ==
  /\ ClientFeed("FAIL")
  /\ ClientStep(TryNext([client EXCEPT !.avail = @ \cap Head(s2c).mask, !.ia = None,
                                       !.cancelling = FALSE, !.asked = FALSE]))

\* fits: the form decodes into the buffer the caller supplied.
ClientForm(fits) ==
  /\ ClientFeed("IA_FORM")
  /\ client' =
       IF client.cancelling THEN client
       ELSE IF client.ia = None \/ client.need = "FORM" THEN ClientError(client, "ORDER")
       ELSE IF ~fits THEN ClientError(client, "SIZE")
       ELSE [client EXCEPT !.waiting = FALSE, !.need = "FORM"]
  /\ UNCHANGED c2s

ClientWait ==
  /\ ClientFeed("IA_WAIT")
  /\ client' =
       IF client.cancelling THEN client
       ELSE IF client.ia = None THEN ClientError(client, "ORDER")
       ELSE [client EXCEPT !.token = @ \/ Head(s2c).token, !.waiting = TRUE,
                           !.need = "NOTHING"]
  /\ UNCHANGED c2s

ClientRefuses ==
  /\ Up /\ s2c # <<>> /\ client.state # "PENDING"
  /\ s2c' = Tail(s2c)
  /\ UNCHANGED <<client, server, app, c2s>>

-------------------------------------------------------------------------------
(* nc_auth_feed at the server: one action per message. *)

ServerFeed(type) ==
  /\ Up /\ c2s # <<>> /\ Head(c2s).type = type /\ server.state = "PENDING"
  /\ c2s' = Tail(c2s)
  /\ UNCHANGED client

ServerError(why) ==
  /\ server' = [server EXCEPT !.state = "DENIED", !.err = why]
  /\ UNCHANGED <<app, s2c>>

ServerHello(mask) ==
  /\ ServerFeed("HELLO")
  /\ IF server.greeted THEN ServerError("ORDER")
     ELSE LET o == Offer([server EXCEPT !.greeted = TRUE], mask)
          IN  server' = o.s /\ s2c' = s2c \o o.out /\ UNCHANGED app

\* Mutant of Credential: success is announced and not remembered.
ForgottenCredential(method, good) ==
  IF ~server.greeted THEN ServerError("ORDER")
  ELSE IF method \notin server.avail
    THEN LET d == Deny(server, {})
         IN  server' = d.s /\ s2c' = s2c \o d.out /\ UNCHANGED app
  ELSE IF good
    THEN s2c' = Append(s2c, Msg("OK")) /\ UNCHANGED <<server, app>>
  ELSE LET d == Deny(server, {method})
       IN  /\ server' = d.s /\ s2c' = s2c \o d.out
           /\ app' = [app EXCEPT !.refusals = @ + 1]

\* A credential arrived, and the check says good or bad.
Credential(method, good) ==
  IF ~server.greeted THEN ServerError("ORDER")
  ELSE IF method \notin server.avail
    THEN LET d == Deny(server, {})
         IN  server' = d.s /\ s2c' = s2c \o d.out /\ UNCHANGED app
  ELSE IF good
    THEN /\ server' = [server EXCEPT !.state = "OK"]
         /\ s2c' = Append(s2c, Msg("OK"))
         /\ UNCHANGED app
  ELSE LET d == Deny(server, {method})
       IN  /\ server' = d.s /\ s2c' = s2c \o d.out
           /\ app' = [app EXCEPT !.refusals = @ + 1]

ServerPubkey(good) == ServerFeed("PUBKEY") /\ Credential("PUBKEY", good)
ServerPassword(good) == ServerFeed("PASSWORD") /\ Credential("PASSWORD", good)

Decide(s, a, v, mask) ==
  LET r == Verdict(s, a, v, mask)
  IN  server' = r.s /\ app' = r.a /\ s2c' = s2c \o r.out

\* begin or, with a token, resume: a form or a refusal.  A token that no callback
\* takes ends a method that the application never heard of, cancelled and all.
ServerBegin(v, mask) ==
  /\ ServerFeed("IA_BEGIN")
  /\ LET method == Head(c2s).method
         begun == [server EXCEPT !.ia = method, !.fired = FALSE]
     IN  IF ~server.greeted \/ server.ia # None THEN ServerError("ORDER")
         ELSE IF method \notin server.avail \/ "begin" \notin server.iacb
           THEN LET d == Deny(server, {})
                IN  server' = d.s /\ s2c' = s2c \o d.out /\ UNCHANGED app
         ELSE IF Head(c2s).token /\ "resume" \notin server.iacb
           THEN LET d == EndAndDeny(begun, {method})
                IN  /\ server' = d.s /\ s2c' = s2c \o d.out
                    /\ app' = [EndedApp(begun, app) EXCEPT !.untaken = @ + 1]
         ELSE Decide(begun, [app EXCEPT !.running = "YES", !.waiting = FALSE], v, mask)

\* issues: the callback hands over a resumption token first;
\* fits: the answers decode into the server's buffer.
ServerSubmit(v, mask, issues, fits) ==
  /\ ServerFeed("IA_SUBMIT")
  /\ IF server.ia = None THEN ServerError("ORDER")
     ELSE IF "submit" \notin server.iacb THEN ServerError("SUBMIT")
     ELSE IF ~fits THEN ServerError("SIZE")
     ELSE Decide([server EXCEPT !.token = @ \/ issues], app, v, mask)

\* Mutant of ServerCancel: the application is not told.
QuietCancel(mask) ==
  /\ ServerFeed("IA_CANCEL")
  /\ IF server.ia = None THEN ServerError("CANCEL")
     ELSE LET o == Offer([server EXCEPT !.ia = None], mask)
          IN  server' = o.s /\ s2c' = s2c \o o.out /\ UNCHANGED app

ServerCancel(mask) ==
  /\ ServerFeed("IA_CANCEL")
  /\ IF server.ia = None THEN ServerError("CANCEL")
     ELSE LET o == Offer(EndedServer(server), mask)
          IN  server' = o.s /\ s2c' = s2c \o o.out /\ app' = EndedApp(server, app)

ServerRefuses ==
  /\ Up /\ c2s # <<>> /\ server.state # "PENDING"
  /\ c2s' = Tail(c2s)
  /\ UNCHANGED <<client, server, app, s2c>>

\* nc_auth_server_resume: the slow thing is done.  A conversation that ended, or
\* a method that was cancelled meanwhile, ignores it.
ServerResume(v, mask) ==
  /\ Up /\ app.waiting
  /\ IF server.ia = None \/ server.state # "PENDING"
       THEN app' = [app EXCEPT !.waiting = FALSE] /\ UNCHANGED <<server, s2c>>
       ELSE Decide(server, app, v, mask)
  /\ UNCHANGED <<client, c2s>>

\* The session goes away: nc_auth_clear at both ends.
SessionEnds ==
  /\ Up
  /\ client' = ClientInit
  /\ server' = ServerInit
  /\ app' = [EndedApp(server, app) EXCEPT !.gone = TRUE, !.waiting = FALSE]
  /\ c2s' = <<>> /\ s2c' = <<>>

-------------------------------------------------------------------------------
ClientApp ==
  \/ Start
  \/ \E b \in BOOLEAN : SupplyKey(b) \/ SupplyPassword(b)
  \/ \E m \in Choices : SupplyMethod(m)
  \/ Cancel
  \/ \E how \in {"NULL", "UNFIT", "ANSWERS"} : Submit(how)
  \/ ResumePending
  \/ TakeRegistered

ClientFeeds ==
  \/ ClientMethods \/ ClientOk \/ ClientFail
  \/ \E b \in BOOLEAN : ClientForm(b)
  \/ ClientWait \/ ClientRefuses

BeginVerdicts == Verdicts(app, {"MORE", "DENIED", "UNFIT"})
SubmitVerdicts == Verdicts(app, {"MORE", "DENIED", "UNFIT", "DONE", "WAIT"})
ResumeVerdicts == Verdicts(app, {"MORE", "DENIED", "UNFIT", "DONE", "NOFORM"})

ServerFeeds ==
  \/ \E mask \in Offers :
       \/ ServerHello(mask)
       \/ ServerCancel(mask)
       \/ \E v \in BeginVerdicts : ServerBegin(v, mask)
       \/ \E v \in SubmitVerdicts, i, f \in BOOLEAN : ServerSubmit(v, mask, i, f)
  \/ \E b \in BOOLEAN : ServerPubkey(b) \/ ServerPassword(b)
  \/ ServerRefuses

ServerApp == \E mask \in Offers, v \in ResumeVerdicts : ServerResume(v, mask)

Next == ClientApp \/ ClientFeeds \/ ServerFeeds \/ ServerApp \/ SessionEnds

Spec == Init /\ [][Next]_vars

(* The session delivers, the two loops feed what arrives, a player answers what *)
(* the machine asks for, and the slow thing behind a wait ends some day.        *)
Answers ==
  \/ Start
  \/ \E b \in BOOLEAN : SupplyKey(b) \/ SupplyPassword(b)
  \/ client.need = "METHOD" /\ \E m \in Choices : SupplyMethod(m)
  \/ \E how \in {"NULL", "UNFIT", "ANSWERS"} : Submit(how)

Fairness ==
  WF_vars(ClientFeeds) /\ WF_vars(ServerFeeds) /\ WF_vars(ServerApp) /\ WF_vars(Answers)

FairSpec == Spec /\ Fairness

-------------------------------------------------------------------------------
(* Whatever the two applications do in the calls their header allows, neither  *)
(* machine sees a message out of order: no second form under the player's      *)
(* fingers, no method begun twice.  The one exception is a cancel that crosses *)
(* the server's verdict (server.err = "CANCEL").                               *)
Orderly == client.err # "ORDER" /\ server.err # "ORDER"

(* Neither end believes in a login the other does not: a client that is OK was *)
(* accepted by the server, and an acceptance is on its way until the client    *)
(* has it or has given up (MSG_OK and the state that server_feed and verdict   *)
(* set beside it); and neither sees a message out of its place.                *)
Agreement ==
  /\ TypeOK /\ Orderly
  /\ Up /\ client.state = "OK" => server.state = "OK"
  /\ Up /\ server.state = "OK" =>
       \/ client.state # "PENDING"
       \/ \E i \in DOMAIN s2c : s2c[i].type = "OK"

(* The application hears the end of every interactive method it was asked to   *)
(* begin, by its own verdict or by the cancelled callback; and the callback     *)
(* comes out of the blue for nothing but a token that a server without resume   *)
(* refuses (fired in nc_auth_i_ia_end).                                         *)
Accounted ==
  /\ app.strays = app.untaken
  /\ server.ia = None => app.running # "YES"

(* nc_auth.h:301: cancelled fires "not at all if nothing was running".  It does *)
(* not hold of the code: MSG_IA_BEGIN with a token sets the method before it    *)
(* looks for the resume callback, and nc_auth_i_ia_end then fires.              *)
NothingToCancel == app.strays = 0

(* A connection gets at most NC_AUTH_MAX_TRIES wrong answers, however often a  *)
(* finished or cancelled registration puts the methods on the table again.     *)
GuessesBounded == app.refusals <= MaxTries

(* nc_auth_registered says so at most once for each account that the server's  *)
(* application created, whatever offers and cancels cross.                     *)
RegisteredIsReal ==
  app.announced + (IF client.registered THEN 1 ELSE 0) <= app.enrolled

(* A conversation whose applications answer ends: it is never the case that    *)
(* each machine waits for the other.                                           *)
Concludes == <>(app.gone \/ client.state # "PENDING" \/ server.state # "PENDING")

(* A server that reached a verdict without a protocol error makes the client   *)
(* reach one: nobody is left at a login screen that no message will change.    *)
Informed ==
  server.state # "PENDING" /\ server.err = "NONE" ~>
    app.gone \/ client.state # "PENDING"
===============================================================================
