----------------------------- MODULE NcAuthProofs ------------------------------
(***************************************************************************)
(* The login conversation of NcAuth is kept in order by what the two       *)
(* machines and the messages between them say of each other.  The second   *)
(* half is about the example that runs it: AuthLink keeps that invariant   *)
(* until the client has its verdict, and its handshake, its files and its  *)
(* terminal keep invariants of their own.                                  *)
(***************************************************************************)
EXTENDS AuthLink, NumberLemmas, SequenceTheorems, TLAPS

Final == {"METHODS", "FAIL", "OK"}
Interim == {"IA_FORM", "IA_WAIT"}

\* Types of the messages under way.
Sent(type) == \E i \in 1..Len(s2c) : s2c[i].type = type

\* The server says no more: its conversation is over, or the next thing it reads
\* is a cancel for a method that it ended by itself.
Doomed ==
  \/ server.state # "PENDING"
  \/ c2s # <<>> /\ Head(c2s).type = "IA_CANCEL" /\ server.ia = None

\* What the server's messages say of the client they go to.
Heard ==
  /\ client.need # "NOTHING" => s2c = <<>>
  /\ \A i \in 1..Len(s2c) : i < Len(s2c) => s2c[i].type \in Interim
  /\ \A i \in 1..Len(s2c) : s2c[i].type \in Interim => client.ia # None
  /\ \A i \in 1..Len(s2c) : s2c[i].type = "IA_FORM" => client.cancelling \/ i = Len(s2c)
  /\ client.cancelling => client.need = "NOTHING" /\ client.ia # None
  /\ client.need \in {"KEY", "PASSWORD", "METHOD"} => client.ia = None
  /\ client.need = "FORM" => client.ia # None
  /\ client.need # "NOTHING" => client.state = "PENDING"
  /\ client.err # "ORDER"

\* The beginning: HELLO comes first and once.
Greeting ==
  /\ client.hello => server.greeted \/ (c2s = <<Msg("HELLO")>> /\ server.state = "PENDING")
  /\ c2s # <<>> => client.hello
  /\ \A i \in 1..Len(c2s) : c2s[i].type = "HELLO" =>
       /\ Len(c2s) = 1 /\ ~server.greeted
       /\ client.ia = None /\ client.need = "NOTHING" /\ s2c = <<>> /\ server.ia = None
  /\ ~client.hello =>
       /\ c2s = <<>> /\ s2c = <<>> /\ ~server.greeted /\ client.ia = None /\ server.ia = None
       /\ client.need = "NOTHING" /\ ~client.cancelling /\ server.state = "PENDING"
  /\ server.err # "ORDER"

\* While the server may still speak, at most one request and a cancel of it are
\* under way, and both ends mean the same method.
Turns ==
  ~Doomed =>
    /\ c2s # <<>> => client.need = "NOTHING"
    /\ \A i \in 1..Len(c2s) :
         /\ i = 1 \/ (i = 2 /\ c2s[i].type = "IA_CANCEL")
         /\ i = 1 /\ Len(c2s) = 2 => c2s[i].type \in {"IA_BEGIN", "IA_SUBMIT"}
         /\ c2s[i].type = "IA_CANCEL" => client.cancelling
         /\ c2s[i].type # "IA_CANCEL" => s2c = <<>> /\ ~app.waiting
         /\ c2s[i].type \in {"PUBKEY", "PASSWORD"} => server.ia = None /\ client.ia = None
         /\ c2s[i].type = "IA_BEGIN" => server.ia = None /\ client.ia = c2s[i].method
         /\ c2s[i].type = "IA_SUBMIT" => server.ia # None
    /\ client.need \in {"KEY", "PASSWORD", "METHOD"} => c2s = <<>> /\ server.ia = None
    /\ client.need = "FORM" => c2s = <<>> /\ server.ia # None /\ ~app.waiting
    /\ server.ia # None => client.ia = server.ia
    /\ \A i \in 1..Len(s2c) : s2c[i].type \in Final => c2s = <<>> /\ server.ia = None
    /\ \A i \in 1..Len(s2c) : s2c[i].type \in Interim /\ i = Len(s2c) => server.ia # None
    /\ app.waiting /\ server.ia # None => \A i \in 1..Len(s2c) : s2c[i].type = "IA_WAIT"

\* A verdict and its announcement.
Verdicted ==
  /\ Sent("OK") \/ client.state = "OK" => server.state = "OK"
  /\ server.state = "OK" => client.state # "PENDING" \/ Sent("OK")

\* A running method is one that the application was asked to begin.
Running ==
  /\ server.ia # None => ~server.fired /\ app.running = "YES"
  /\ server.ia = None => app.running # "YES" /\ ~app.waiting
  /\ app.strays = app.untaken

\* Every refusal spends a try, and a conversation that goes on has one left.
Tries ==
  /\ server.state = "PENDING" => server.tries < MaxTries
  /\ app.refusals <= server.tries

\* An offer that the client will take for a registration stands for an account.
Enrolment ==
  LET owed == client.ia = "REGISTER" /\ ~client.cancelling /\ Sent("METHODS")
  IN  app.announced + (IF client.registered THEN 1 ELSE 0) + (IF owed THEN 1 ELSE 0)
        <= app.enrolled

\* The inductive invariant; when the session is gone nothing more happens.
IInv ==
  /\ TypeOK
  /\ Running
  /\ app.refusals <= MaxTries
  /\ Enrolment
  /\ Up => Heard /\ Greeting /\ Turns /\ Verdicted /\ Tries
  /\ ~Up => Orderly

-------------------------------------------------------------------------------
(* Sequences of messages, by their indices. *)

LEMMA TailOf ==
  ASSUME NEW S, NEW q \in Seq(S), q # <<>>
  PROVE  /\ Tail(q) \in Seq(S) /\ Len(q) \in Nat /\ Len(q) >= 1 /\ Head(q) = q[1] /\ q[1] \in S
         /\ Len(Tail(q)) = Len(q) - 1
         /\ \A i \in 1..Len(Tail(q)) : Tail(q)[i] = q[i + 1]
         /\ Tail(q) = <<>> <=> Len(q) = 1
<1>1. /\ Tail(q) \in Seq(S) /\ Len(q) \in Nat /\ Len(q) >= 1 /\ Head(q) = q[1] /\ q[1] \in S
      /\ Len(Tail(q)) = Len(q) - 1
      /\ \A i \in 1..Len(Tail(q)) : Tail(q)[i] = q[i + 1]
  OBVIOUS
<1>2. Tail(q) = <<>> <=> Len(Tail(q)) = 0
  BY <1>1, EmptySeq
<1> QED BY <1>1, <1>2

LEMMA Extended ==
  ASSUME NEW S, NEW q \in Seq(S), NEW m \in S
  PROVE  /\ q \o <<m>> \in Seq(S) /\ q \o <<m>> = Append(q, m)
         /\ Len(q \o <<m>>) = Len(q) + 1 /\ Len(q) \in Nat
         /\ \A i \in 1..Len(q) : (q \o <<m>>)[i] = q[i]
         /\ (q \o <<m>>)[Len(q) + 1] = m
         /\ q # <<>> => Head(q \o <<m>>) = Head(q) /\ Len(q) >= 1
         /\ Head(q \o <<m>>) = (q \o <<m>>)[1]
         /\ q \o <<m>> # <<>>
  OBVIOUS

LEMMA NotExtended == ASSUME NEW S, NEW q \in Seq(S) PROVE q \o <<>> = q
  OBVIOUS

-------------------------------------------------------------------------------
(* What the helpers of the client leave behind. *)

\* The result r of a step of the client that starts from struct c, with no method
\* open: it gives up, asks its application, or sends one message.
Moved(c, r) ==
  /\ r.c \in Client
  /\ r.c.hello = c.hello /\ r.c.cancelling = c.cancelling /\ r.c.registered = c.registered
  /\ r.c.err = c.err
  /\ \/ /\ r.out = <<>> /\ r.c.ia = None /\ r.c.state = "DENIED" /\ r.c.need = "NOTHING"
     \/ /\ r.out = <<>> /\ r.c.ia = None /\ r.c.state = "PENDING"
        /\ r.c.need \in {"KEY", "PASSWORD", "METHOD"}
     \/ \E m \in ClientMsgs :
          /\ r.out = <<m>> /\ r.c.need = "NOTHING" /\ r.c.state = "PENDING"
          /\ \/ m.type \in {"PUBKEY", "PASSWORD"} /\ r.c.ia = None
             \/ m.type = "IA_BEGIN" /\ r.c.ia = m.method /\ m.method \in Interactive

LEMMA ChainMoves ==
  ASSUME NEW c \in Client, c.state = "PENDING", c.ia = None
  PROVE  Moved(c, [c |-> Chain(c), out |-> <<>>])
<1>1. Chain(c) \in Client
  BY DEF Chain, Client, Needs, States, Methods
<1> QED BY <1>1 DEF Chain, Moved, Client

LEMMA IaChooseMoves ==
  ASSUME NEW c0 \in Client, c0.state = "PENDING", c0.ia = None
  PROVE  Moved(c0, IaChoose(c0))
<1> DEFINE c == [c0 EXCEPT !.chose = FALSE]
           want == c.chosen \cap Interactive
           open == [c EXCEPT !.ia = Opened(want \cap c.avail), !.need = "NOTHING"]
           asked == [c EXCEPT !.asked = TRUE]
           begin == [type |-> "IA_BEGIN", method |-> open.ia, token |-> c.token]
<1>1. /\ c \in Client /\ c.state = "PENDING" /\ c.ia = None
      /\ c.hello = c0.hello /\ c.cancelling = c0.cancelling /\ c.registered = c0.registered
      /\ c.err = c0.err
  BY DEF Client
<1>2. CASE c.chosen = {}
  <2> DEFINE d == [c EXCEPT !.need = "NOTHING", !.state = "DENIED"]
  <2>1. IaChoose(c0) = [c |-> d, out |-> <<>>]
    BY <1>2 DEF IaChoose
  <2>2. d \in Client
    BY <1>1 DEF Client, Needs, States
  <2>3. /\ d.hello = c.hello /\ d.cancelling = c.cancelling /\ d.registered = c.registered
        /\ d.err = c.err /\ d.ia = None /\ d.state = "DENIED" /\ d.need = "NOTHING"
    BY <1>1 DEF Client
  <2> HIDE DEF d
  <2> QED BY <1>1, <2>1, <2>2, <2>3 DEF Moved
<1>3. CASE c.chosen # {} /\ want # {} /\ want \cap c.avail = {}
  <2> DEFINE d == [c EXCEPT !.need = "METHOD"]
  <2>1. IaChoose(c0) = [c |-> d, out |-> <<>>]
    BY <1>3 DEF IaChoose
  <2>2. d \in Client
    BY <1>1 DEF Client, Needs
  <2>3. /\ d.hello = c.hello /\ d.cancelling = c.cancelling /\ d.registered = c.registered
        /\ d.err = c.err /\ d.ia = None /\ d.state = "PENDING" /\ d.need = "METHOD"
    BY <1>1 DEF Client
  <2> HIDE DEF d
  <2> QED BY <1>1, <2>1, <2>2, <2>3 DEF Moved
<1>4. CASE c.chosen # {} /\ want = {}
  <2>1. IaChoose(c0) = [c |-> Chain(asked), out |-> <<>>]
    BY <1>1, <1>4 DEF IaChoose
  <2>2. asked \in Client /\ asked.state = "PENDING" /\ asked.ia = None
        /\ asked.hello = c0.hello /\ asked.cancelling = c0.cancelling
        /\ asked.registered = c0.registered /\ asked.err = c0.err
    BY <1>1 DEF Client
  <2>3. Moved(asked, [c |-> Chain(asked), out |-> <<>>])
    BY <2>2, ChainMoves
  <2> HIDE DEF asked
  <2> QED BY <2>1, <2>2, <2>3 DEF Moved
<1>5. CASE c.chosen # {} /\ want # {} /\ want \cap c.avail # {}
  <2>1. IaChoose(c0) = [c |-> open, out |-> <<begin>>]
    BY <1>5 DEF IaChoose
  <2>2. Opened(want \cap c.avail) \in Interactive
    BY DEF Opened, Interactive
  <2>3. open \in Client /\ open.ia \in Interactive
    BY <1>1, <2>2 DEF Client, Needs
  <2>4. begin \in ClientMsgs
    BY <1>1, <2>3 DEF ClientMsgs, Client
  <2>5. /\ open.state = "PENDING" /\ open.need = "NOTHING"
        /\ open.hello = c0.hello /\ open.cancelling = c0.cancelling
        /\ open.registered = c0.registered /\ open.err = c0.err
    BY <1>1 DEF Client
  <2>6. begin.type = "IA_BEGIN" /\ begin.method = open.ia
    OBVIOUS
  <2> HIDE DEF open, begin
  <2> QED BY <2>1, <2>3, <2>4, <2>5, <2>6 DEF Moved
<1> QED BY <1>2, <1>3, <1>4, <1>5

LEMMA TryNextMoves ==
  ASSUME NEW c \in Client, c.state = "PENDING", c.ia = None
  PROVE  Moved(c, TryNext(c))
<1>1. CASE ~c.asked /\ c.avail \cap Interactive # {} /\ c.chose
  BY <1>1, IaChooseMoves DEF TryNext
<1>2. CASE ~c.asked /\ c.avail \cap Interactive # {} /\ ~c.chose
  <2> DEFINE d == [c EXCEPT !.need = "METHOD"]
  <2>1. TryNext(c) = [c |-> d, out |-> <<>>]
    BY <1>2 DEF TryNext
  <2>2. d \in Client
    BY DEF Client, Needs
  <2> QED BY <2>1, <2>2 DEF Moved, Client
<1>3. CASE c.asked \/ c.avail \cap Interactive = {}
  BY <1>3, ChainMoves DEF TryNext
<1> QED BY <1>1, <1>2, <1>3

-------------------------------------------------------------------------------
(* What the helpers of the server leave behind. *)

LEMMA DenyResult ==
  ASSUME NEW s \in Server, NEW spent, s.tries < MaxTries
  PROVE  LET d == Deny(s, spent) IN
         /\ d.s \in Server
         /\ d.s.greeted = s.greeted /\ d.s.ia = s.ia /\ d.s.fired = s.fired /\ d.s.err = s.err
         /\ d.s.tries = s.tries + 1 /\ d.s.state \in {s.state, "DENIED"}
         /\ d.s.state = s.state /\ s.state # "DENIED" => d.s.tries < MaxTries
         /\ \E m \in ServerMsgs : d.out = <<m>> /\ m.type = "FAIL"
<1> DEFINE left == s.avail \ spent
           end == s.tries + 1 >= MaxTries \/ left = {}
           mask == IF end THEN {} ELSE left
           st == IF end THEN "DENIED" ELSE s.state
           n == [s EXCEPT !.avail = mask, !.tries = @ + 1, !.state = st]
           m == [type |-> "FAIL", mask |-> mask]
<1>1. Deny(s, spent) = [s |-> n, out |-> <<m>>]
  BY DEF Deny
<1>2. mask \subseteq Methods
  BY DEF Server
<1>s. st \in States /\ s.tries + 1 \in 0..MaxTries
  BY AuthAssumption DEF Server, States
<1> HIDE DEF mask, end, st
<1>3. n \in Server
  BY <1>2, <1>s DEF Server
<1>4. m \in ServerMsgs
  BY <1>2 DEF ServerMsgs
<1>5. /\ n.greeted = s.greeted /\ n.ia = s.ia /\ n.fired = s.fired /\ n.err = s.err
      /\ n.tries = s.tries + 1 /\ n.state \in {s.state, "DENIED"}
      /\ n.state = s.state /\ s.state # "DENIED" => n.tries < MaxTries
  BY AuthAssumption DEF Server, end, st
<1>6. m.type = "FAIL"
  OBVIOUS
<1> HIDE DEF n, m
<1> QED BY <1>1, <1>3, <1>4, <1>5, <1>6

LEMMA OfferResult ==
  ASSUME NEW s \in Server, NEW mask \in SUBSET Methods
  PROVE  LET o == Offer(s, mask) IN
         /\ o.s \in Server
         /\ o.s.greeted = s.greeted /\ o.s.ia = s.ia /\ o.s.fired = s.fired /\ o.s.err = s.err
         /\ o.s.tries = s.tries /\ o.s.state \in {s.state, "DENIED"}
         /\ \E m \in ServerMsgs : o.out = <<m>> /\ m.type = "METHODS"
<1> DEFINE n == [s EXCEPT !.avail = mask, !.state = IF mask = {} THEN "DENIED" ELSE @]
           m == [type |-> "METHODS", mask |-> mask]
<1>1. Offer(s, mask) = [s |-> n, out |-> <<m>>]
  BY DEF Offer
<1>2. n \in Server /\ m \in ServerMsgs
  BY DEF Server, ServerMsgs, States
<1>3. /\ n.greeted = s.greeted /\ n.ia = s.ia /\ n.fired = s.fired /\ n.err = s.err
      /\ n.tries = s.tries /\ n.state \in {s.state, "DENIED"}
  BY DEF Server
<1>4. m.type = "METHODS"
  OBVIOUS
<1> HIDE DEF n, m
<1> QED BY <1>1, <1>2, <1>3, <1>4

\* The result r of a verdict on the method that runs: the method goes on and the
\* client hears how, or it ends and the client hears the answer.
Decided(s, a, r) ==
  /\ r.s \in Server /\ r.a \in App
  /\ r.s.greeted = s.greeted /\ r.s.err = s.err
  /\ r.a.strays = r.a.untaken /\ r.a.announced = a.announced /\ r.a.gone = a.gone
  /\ r.a.refusals <= r.s.tries /\ (r.s.state = "PENDING" => r.s.tries < MaxTries)
  /\ \E m \in ServerMsgs :
       /\ r.out = <<m>>
       /\ \/ /\ m.type \in Interim /\ r.s = s /\ r.a.running = "YES" /\ r.a.enrolled = a.enrolled
             /\ r.a.waiting <=> m.type = "IA_WAIT"
          \/ /\ m.type \in Final /\ r.s.ia = None /\ r.a.running # "YES" /\ ~r.a.waiting
             /\ r.s.state = "OK" <=> m.type = "OK"
             /\ r.a.enrolled = a.enrolled + (IF m.type = "METHODS" THEN 1 ELSE 0)

\* A method that ends unasked is refused: what the three refusals share.
LEMMA EndAndDenyResult ==
  ASSUME NEW s \in Server, s.state = "PENDING", s.tries < MaxTries, NEW spent
  PROVE  LET d == EndAndDeny(s, spent) IN
         /\ d.s \in Server /\ d.s.ia = None
         /\ d.s.greeted = s.greeted /\ d.s.err = s.err /\ d.s.tries = s.tries + 1
         /\ d.s.state \in {"PENDING", "DENIED"}
         /\ d.s.state = "PENDING" => d.s.tries < MaxTries
         /\ \E m \in ServerMsgs : d.out = <<m>> /\ m.type = "FAIL"
<1> DEFINE n == [s EXCEPT !.ia = None, !.fired = @ \/ s.ia # None]
<1>1. n \in Server /\ n.state = "PENDING" /\ n.tries = s.tries /\ n.ia = None
      /\ n.greeted = s.greeted /\ n.err = s.err
  BY DEF Server
<1>2. EndAndDeny(s, spent) = Deny(n, spent)
  BY DEF EndAndDeny, EndedServer
<1> HIDE DEF n
<1> QED BY <1>1, <1>2, DenyResult

LEMMA VerdictResult ==
  ASSUME NEW s \in Server, NEW a \in App,
         s.state = "PENDING", s.tries < MaxTries, s.ia # None, ~s.fired,
         a.running = "YES", a.strays = a.untaken, a.refusals <= s.tries,
         NEW v \in {"MORE", "NOFORM", "UNFIT", "WAIT", "DONE", "DENIED"},
         v = "MORE" => a.forms < MaxForms, NEW mask \in SUBSET Methods
  PROVE  Decided(s, a, Verdict(s, a, v, mask))
<1> DEFINE r == Verdict(s, a, v, mask)
<1> SUFFICES Decided(s, a, r)
  OBVIOUS
<1>0. /\ s.tries \in Nat /\ a.refusals \in Nat /\ a.enrolled \in Nat
      /\ a.refusals + 1 \in Nat /\ a.enrolled + 1 \in Nat
  BY AuthAssumption DEF Server, App
<1>1. CASE v = "MORE"
  <2> DEFINE b == [a EXCEPT !.forms = @ + 1, !.waiting = FALSE]
             m == Msg("IA_FORM")
  <2>1. r = [s |-> s, a |-> b, out |-> <<m>>]
    BY <1>1 DEF Verdict
  <2>f. a.forms + 1 \in 0..MaxForms
    BY <1>1, AuthAssumption DEF App
  <2>b. b \in App
    BY <2>f DEF App
  <2>m. m \in ServerMsgs /\ m.type = "IA_FORM"
    BY DEF ServerMsgs, Msg
  <2>3. /\ b.strays = b.untaken /\ b.announced = a.announced /\ b.gone = a.gone /\ b.refusals = a.refusals
        /\ b.running = "YES" /\ ~b.waiting /\ b.enrolled = a.enrolled
    BY DEF App
  <2> HIDE DEF b, m, r
  <2>r. r.s = s /\ r.a = b /\ r.out = <<m>>
    BY <2>1
  <2> QED BY <2>b, <2>m, <2>3, <2>r DEF Decided, Interim
<1>2. CASE v = "WAIT"
  <2> DEFINE b == [a EXCEPT !.waiting = TRUE]
             m == [type |-> "IA_WAIT", token |-> s.token]
  <2>1. r = [s |-> s, a |-> b, out |-> <<m>>]
    BY <1>2 DEF Verdict
  <2>b. b \in App
    BY DEF App
  <2>m. m \in ServerMsgs /\ m.type = "IA_WAIT"
    BY DEF ServerMsgs, Server
  <2>3. /\ b.strays = b.untaken /\ b.announced = a.announced /\ b.gone = a.gone /\ b.refusals = a.refusals
        /\ b.running = "YES" /\ b.waiting /\ b.enrolled = a.enrolled
    BY DEF App
  <2> HIDE DEF b, m, r
  <2>r. r.s = s /\ r.a = b /\ r.out = <<m>>
    BY <2>1
  <2> QED BY <2>b, <2>m, <2>3, <2>r DEF Decided, Interim
<1>3. ASSUME NEW q \in Server, q.state = "PENDING", q.tries = s.tries, q.greeted = s.greeted,
             q.err = s.err, NEW b \in App, NEW spent,
             r = [s |-> EndAndDeny(q, spent).s, a |-> b, out |-> EndAndDeny(q, spent).out],
             b.strays = b.untaken, b.announced = a.announced, b.gone = a.gone, b.running # "YES",
             b.enrolled = a.enrolled, ~b.waiting, b.refusals <= a.refusals + 1
      PROVE  Decided(s, a, r)
  <2>1. PICK m \in ServerMsgs : EndAndDeny(q, spent).out = <<m>> /\ m.type = "FAIL"
    BY <1>3, EndAndDenyResult
  <2> DEFINE d == EndAndDeny(q, spent)
  <2>2. /\ d.s \in Server /\ d.s.ia = None
        /\ d.s.greeted = s.greeted /\ d.s.err = s.err /\ d.s.tries = s.tries + 1
        /\ d.s.state \in {"PENDING", "DENIED"}
        /\ d.s.state = "PENDING" => d.s.tries < MaxTries
    BY <1>3, EndAndDenyResult
  <2>3. b.refusals <= d.s.tries
    BY <1>0, <1>3, <2>2 DEF App
  <2>4. r.s = d.s /\ r.a = b /\ r.out = <<m>>
    BY <1>3, <2>1
  <2>5. a.enrolled \in Nat
    BY DEF App
  <2> HIDE DEF r, d
  <2> QED BY <1>3, <2>1, <2>2, <2>3, <2>4, <2>5 DEF Decided, Final
<1>4. CASE v = "NOFORM"
  <2> DEFINE n == a.strays + (IF a.running = "YES" THEN 0 ELSE 1)
             b == [a EXCEPT !.running = "NO", !.waiting = FALSE, !.strays = n]
  <2>1. r = [s |-> EndAndDeny(s, {s.ia}).s, a |-> b, out |-> EndAndDeny(s, {s.ia}).out]
    BY <1>4 DEF Verdict, EndedApp, Cancelled
  <2>n. n = a.strays /\ n \in Nat
    BY DEF App
  <2> HIDE DEF n
  <2>b. b \in App
    BY <2>n DEF App
  <2>2. b.strays = b.untaken /\ b.announced = a.announced /\ b.gone = a.gone
        /\ b.running # "YES" /\ b.enrolled = a.enrolled /\ ~b.waiting
        /\ b.refusals <= a.refusals + 1
    BY <2>n DEF App
  <2> HIDE DEF b, r
  <2> QED BY <1>3, <2>1, <2>2, <2>b
<1> DEFINE q == [s EXCEPT !.fired = TRUE]
<1>5. q \in Server /\ q.state = "PENDING" /\ q.tries = s.tries /\ q.greeted = s.greeted
      /\ q.err = s.err
  BY DEF Server
<1>6. CASE v = "UNFIT"
  <2> DEFINE b == [a EXCEPT !.running = "UNTOLD", !.waiting = FALSE]
  <2>1. r = [s |-> EndAndDeny(q, {s.ia}).s, a |-> b, out |-> EndAndDeny(q, {s.ia}).out]
    BY <1>6 DEF Verdict
  <2>b. b \in App
    BY DEF App
  <2>2. b.strays = b.untaken /\ b.announced = a.announced /\ b.gone = a.gone
        /\ b.running # "YES" /\ b.enrolled = a.enrolled /\ ~b.waiting
        /\ b.refusals <= a.refusals + 1
    BY DEF App
  <2> HIDE DEF b, r, q
  <2> QED BY <1>3, <1>5, <2>1, <2>2, <2>b
<1>7. CASE v = "DENIED"
  <2> DEFINE b == [a EXCEPT !.running = "NO", !.waiting = FALSE, !.refusals = @ + 1]
  <2>1. r = [s |-> EndAndDeny(q, {s.ia}).s, a |-> b, out |-> EndAndDeny(q, {s.ia}).out]
    BY <1>7 DEF Verdict
  <2>b. b \in App
    BY <1>0 DEF App
  <2>2. b.strays = b.untaken /\ b.announced = a.announced /\ b.gone = a.gone
        /\ b.running # "YES" /\ b.enrolled = a.enrolled /\ ~b.waiting
        /\ b.refusals <= a.refusals + 1
    BY DEF App
  <2> HIDE DEF b, r, q
  <2> QED BY <1>3, <1>5, <2>1, <2>2, <2>b
<1>8. CASE v = "DONE" /\ s.ia = "REGISTER"
  <2> DEFINE n == [s EXCEPT !.ia = None, !.fired = FALSE]
             b == [a EXCEPT !.running = "NO", !.waiting = FALSE, !.enrolled = @ + 1]
             o == Offer(n, mask)
  <2>1. r = [s |-> o.s, out |-> o.out, a |-> b]
    BY <1>8 DEF Verdict
  <2>2. n \in Server /\ n.ia = None /\ n.state = "PENDING" /\ n.tries = s.tries
        /\ n.greeted = s.greeted /\ n.err = s.err
    BY DEF Server
  <2>b. b \in App
    BY <1>0 DEF App
  <2>3. b.strays = b.untaken /\ b.announced = a.announced /\ b.gone = a.gone
        /\ b.running # "YES" /\ b.enrolled = a.enrolled + 1 /\ ~b.waiting
        /\ b.refusals = a.refusals
    BY DEF App
  <2> HIDE DEF n, b
  <2>4. PICK m \in ServerMsgs : o.out = <<m>> /\ m.type = "METHODS"
    BY <2>2, OfferResult
  <2>5. /\ o.s \in Server /\ o.s.ia = None /\ o.s.state \in {"PENDING", "DENIED"}
        /\ o.s.tries = s.tries /\ o.s.greeted = s.greeted /\ o.s.err = s.err
    BY <2>2, OfferResult
  <2>6. r.s = o.s /\ r.a = b /\ r.out = <<m>>
    BY <2>1, <2>4
  <2> HIDE DEF r, o
  <2> QED BY <2>3, <2>4, <2>5, <2>6, <2>b DEF Decided, Final
<1>9. CASE v = "DONE" /\ s.ia # "REGISTER"
  <2> DEFINE n == [s EXCEPT !.ia = None, !.fired = TRUE, !.state = "OK"]
             b == [a EXCEPT !.running = "NO", !.waiting = FALSE]
             m == Msg("OK")
  <2>1. r = [s |-> n, a |-> b, out |-> <<m>>]
    BY <1>9 DEF Verdict
  <2>2. n \in Server /\ n.ia = None /\ n.state = "OK" /\ n.tries = s.tries
        /\ n.greeted = s.greeted /\ n.err = s.err
    BY DEF Server, States
  <2>b. b \in App
    BY DEF App
  <2>3. b.strays = b.untaken /\ b.announced = a.announced /\ b.gone = a.gone
        /\ b.running # "YES" /\ b.enrolled = a.enrolled /\ ~b.waiting
        /\ b.refusals = a.refusals
    BY DEF App
  <2>4. m \in ServerMsgs /\ m.type = "OK" /\ a.enrolled \in Nat
    BY DEF ServerMsgs, Msg, App
  <2> HIDE DEF r, n, b, m
  <2>5. r.s = n /\ r.a = b /\ r.out = <<m>>
    BY <2>1
  <2> QED BY <2>2, <2>3, <2>4, <2>5, <2>b DEF Decided, Final
<1> HIDE DEF r, q
<1> QED BY <1>1, <1>2, <1>4, <1>6, <1>7, <1>8, <1>9

-------------------------------------------------------------------------------
(* Steps of the client. *)

\* The client's turn, or the last answer read: it goes on from struct c.
LEMMA ClientMoves ==
  ASSUME IInv, Up, NEW c \in Client, NEW r, Moved(c, r),
         client' = r.c, c2s' = c2s \o r.out, s2c' = <<>>, server' = server, app' = app,
         Doomed \/ (c2s = <<>> /\ server.ia = None),
         ~c.cancelling, c.hello, c.err # "ORDER", server.greeted, server.state # "OK",
         app.announced + (IF c.registered THEN 1 ELSE 0) <= app.enrolled
  PROVE  IInv'
<1> USE DEF IInv
<1>1. /\ client' \in Client /\ client'.hello /\ ~client'.cancelling /\ client'.err # "ORDER"
      /\ client'.registered = c.registered /\ client'.state # "OK"
  BY DEF Moved
<1>2. c2s \in Seq(ClientMsgs)
  BY DEF TypeOK
<1>3. /\ c2s' = c2s /\ client'.ia = None /\ client'.need \in {"NOTHING", "KEY", "PASSWORD", "METHOD"}
      \/ \E m \in ClientMsgs :
           /\ c2s' = c2s \o <<m>> /\ client'.need = "NOTHING"
           /\ \/ m.type \in {"PUBKEY", "PASSWORD"} /\ client'.ia = None
              \/ m.type = "IA_BEGIN" /\ client'.ia = m.method /\ m.method \in Interactive
  BY <1>2, NotExtended DEF Moved
<1>4. c2s' \in Seq(ClientMsgs)
  BY <1>2, <1>3, Extended, ZenonT(60)
<1>5. TypeOK'
  BY <1>1, <1>4, EmptySeq DEF TypeOK
<1>6. Running' /\ Up' /\ Tries'
  BY DEF Running, Up, Tries
<1>7. Enrolment' /\ app'.refusals <= MaxTries
  <2>1. ~Sent("METHODS")'
    BY DEF Sent
  <2>2. app.announced \in Nat /\ app.enrolled \in Nat
    BY DEF TypeOK, App
  <2> QED BY <1>1, <2>1, <2>2 DEF Enrolment
<1>8. Heard'
  <2>1. client'.need # "NOTHING" => client'.state = "PENDING"
    BY DEF Moved
  <2>2. client'.need # "NOTHING" => client'.ia = None
    BY <1>3
  <2>3. client'.need # "FORM"
    BY DEF Moved
  <2> QED BY <1>1, <2>1, <2>2, <2>3 DEF Heard
<1>9. \A i \in 1..Len(c2s) : c2s[i].type # "HELLO"
  BY DEF Greeting
<1>10. \A i \in 1..Len(c2s') : c2s'[i].type # "HELLO"
  <2>1. CASE c2s' = c2s
    BY <1>9, <2>1
  <2>2. ASSUME NEW m \in ClientMsgs, c2s' = c2s \o <<m>>, m.type # "HELLO"
        PROVE  \A i \in 1..Len(c2s') : c2s'[i].type # "HELLO"
    <3>1. \A i \in 1..Len(c2s') : i \in 1..Len(c2s) \/ i = Len(c2s) + 1
      BY <1>2, <2>2, Extended
    <3> QED BY <1>2, <1>9, <2>2, <3>1, Extended
  <2> QED BY <1>3, <2>1, <2>2
<1>11. Greeting'
  BY <1>1, <1>10 DEF Greeting
<1>12. Verdicted'
  BY <1>1 DEF Verdicted, Sent
<1>13. CASE Doomed
  <2>1. Doomed'
    <3>1. CASE c2s # <<>>
      BY <1>2, <1>3, <1>13, <3>1, Extended DEF Doomed
    <3> QED BY <1>13, <3>1 DEF Doomed
  <2> QED BY <1>5, <1>6, <1>7, <1>8, <1>11, <1>12, <2>1 DEF Turns
<1>14. CASE ~Doomed /\ c2s = <<>> /\ server.ia = None
  <2>1. ~app.waiting
    BY <1>14 DEF Running
  <2>2. ASSUME c2s' = c2s, client'.ia = None, client'.need # "FORM"
        PROVE  Turns'
    BY <1>1, <1>14, <2>1, <2>2 DEF Turns
  <2>3. ASSUME NEW m \in ClientMsgs, c2s' = c2s \o <<m>>, client'.need = "NOTHING",
               \/ m.type \in {"PUBKEY", "PASSWORD"} /\ client'.ia = None
               \/ m.type = "IA_BEGIN" /\ client'.ia = m.method
        PROVE  Turns'
    <3>1. Len(c2s') = 1 /\ c2s'[1] = m
      BY <1>2, <1>14, <2>3, Extended
    <3>2. \A i \in 1..Len(c2s') : i = 1 /\ c2s'[i] = m
      BY <3>1
    <3>3. c2s' # <<>> /\ Len(c2s') # 2 /\ server'.ia = None /\ ~app'.waiting
      BY <1>14, <2>1, <3>1
    <3> QED BY <2>3, <3>2, <3>3 DEF Turns
  <2>4. Turns'
    BY <1>3, <2>2, <2>3
  <2> QED BY <1>5, <1>6, <1>7, <1>8, <1>11, <1>12, <2>4
<1> QED BY <1>13, <1>14

\* The application was asked for a key, a password or a method.
LEMMA ClientTurn ==
  ASSUME IInv, Up, client.need \in {"KEY", "PASSWORD", "METHOD"}
  PROVE  /\ client.state = "PENDING" /\ client.ia = None /\ ~client.cancelling /\ client.hello
         /\ client.err # "ORDER" /\ s2c = <<>> /\ server.greeted /\ server.state # "OK"
         /\ Doomed \/ (c2s = <<>> /\ server.ia = None)
         /\ app.announced + (IF client.registered THEN 1 ELSE 0) <= app.enrolled
<1> USE DEF IInv
<1>1. /\ client.state = "PENDING" /\ client.ia = None /\ ~client.cancelling /\ s2c = <<>>
      /\ client.err # "ORDER"
  BY DEF Heard
<1>2. client.hello /\ server.greeted
  <2>1. client.hello
    BY DEF Greeting
  <2>2. ASSUME c2s = <<Msg("HELLO")>> PROVE FALSE
    <3>1. Len(c2s) = 1 /\ c2s[1].type = "HELLO"
      BY <2>2 DEF Msg
    <3> QED BY <3>1 DEF Greeting
  <2> QED BY <2>1, <2>2 DEF Greeting
<1>3. server.state # "OK"
  BY <1>1 DEF Verdicted, Sent
<1>4. Doomed \/ (c2s = <<>> /\ server.ia = None)
  BY DEF Turns
<1>5. app.announced + (IF client.registered THEN 1 ELSE 0) <= app.enrolled
  <2>1. app.announced \in Nat /\ app.enrolled \in Nat
    BY DEF TypeOK, App
  <2> QED BY <2>1 DEF Enrolment
<1> QED BY <1>1, <1>2, <1>3, <1>4, <1>5

\* A key or a password is sent, or the next method is tried.
LEMMA CredentialOK ==
  ASSUME IInv, Up, client.need \in {"KEY", "PASSWORD"}, NEW type \in {"PUBKEY", "PASSWORD"},
         NEW have \in BOOLEAN,
         LET c == [client EXCEPT !.need = "NOTHING"]
         IN  ClientStep(IF have THEN [c |-> c, out |-> <<Msg(type)>>] ELSE TryNext(c)),
         UNCHANGED <<server, app, s2c>>
  PROVE  IInv'
<1> DEFINE c == [client EXCEPT !.need = "NOTHING"]
           r == IF have THEN [c |-> c, out |-> <<Msg(type)>>] ELSE TryNext(c)
<1>1. c \in Client
  BY DEF IInv, TypeOK, Client, Needs
<1>2. /\ c.state = "PENDING" /\ c.ia = None /\ ~c.cancelling /\ c.hello /\ c.err # "ORDER"
      /\ c.registered = client.registered /\ c.need = "NOTHING"
  BY ClientTurn DEF IInv, TypeOK, Client
<1>3. Moved(c, r)
  <2>1. CASE have
    <3>1. Msg(type) \in ClientMsgs /\ Msg(type).type \in {"PUBKEY", "PASSWORD"}
      BY DEF Msg, ClientMsgs
    <3>2. r.c = c /\ r.out = <<Msg(type)>>
      BY <2>1
    <3> HIDE DEF c, r
    <3> QED BY <1>1, <1>2, <3>1, <3>2 DEF Moved
  <2>2. CASE ~have
    BY <1>1, <1>2, <2>2, TryNextMoves
  <2> QED BY <2>1, <2>2
<1>4. client' = r.c /\ c2s' = c2s \o r.out
  BY DEF ClientStep
<1> HIDE DEF c, r
<1> QED BY <1>1, <1>2, <1>3, <1>4, ClientTurn, ClientMoves

\* A step of the client that changes nothing the server or its messages rely on.
LEMMA ClientQuiet ==
  ASSUME IInv, Up, client' \in Client,
         client'.state = client.state, client'.need = client.need, client'.ia = client.ia,
         client'.cancelling = client.cancelling, client'.registered = client.registered,
         client'.hello = client.hello, client'.err = client.err,
         UNCHANGED <<server, app, c2s, s2c>>
  PROVE  IInv'
<1> USE DEF IInv
<1>1. TypeOK' /\ Running' /\ Up' /\ Tries' /\ Verdicted' /\ app'.refusals <= MaxTries
  BY DEF TypeOK, Running, Up, Tries, Verdicted, Sent
<1>2. Heard' /\ Greeting'
  BY DEF Heard, Greeting
<1>3. Turns' /\ Enrolment'
  BY DEF Turns, Doomed, Enrolment, Sent
<1> QED BY <1>1, <1>2, <1>3

LEMMA SupplyMethodOK ==
  ASSUME IInv, NEW m \in Choices, SupplyMethod(m)
  PROVE  IInv'
<1> DEFINE wish == IF m \cap Interactive # {} THEN 1 ELSE 0
           c == [client EXCEPT !.chosen = m, !.chose = TRUE, !.wishes = @ + wish]
           d == [c EXCEPT !.need = "NOTHING"]
<1>0. Up /\ UNCHANGED <<server, app, s2c>> /\ c2s \in Seq(ClientMsgs)
  BY DEF SupplyMethod, IInv, TypeOK
<1>1. c \in Client
  <2>1. client.wishes + wish \in 0..MaxWishes /\ m \in SUBSET Methods
    BY AuthAssumption DEF SupplyMethod, IInv, TypeOK, Client
  <2> HIDE DEF wish
  <2> QED BY <2>1 DEF IInv, TypeOK, Client
<1>2. /\ c.state = client.state /\ c.need = client.need /\ c.ia = client.ia
      /\ c.cancelling = client.cancelling /\ c.registered = client.registered
      /\ c.hello = client.hello /\ c.err = client.err
  BY DEF IInv, TypeOK, Client
<1>3. d \in Client /\ d.state = c.state /\ d.ia = c.ia /\ d.cancelling = c.cancelling
      /\ d.registered = c.registered /\ d.hello = c.hello /\ d.err = c.err
  <2> HIDE DEF c
  <2> QED BY <1>1 DEF Client, Needs
<1>4. ClientStep(IF c.need = "METHOD" THEN IaChoose(d) ELSE [c |-> c, out |-> <<>>])
  BY DEF SupplyMethod
<1> HIDE DEF c, d
<1>5. CASE client.need = "METHOD"
  <2>1. Moved(d, IaChoose(d))
    BY <1>0, <1>2, <1>3, <1>5, ClientTurn, IaChooseMoves
  <2>2. client' = IaChoose(d).c /\ c2s' = c2s \o IaChoose(d).out
    BY <1>2, <1>4, <1>5 DEF ClientStep
  <2> QED BY <1>0, <1>2, <1>3, <1>5, <2>1, <2>2, ClientTurn, ClientMoves
<1>6. CASE client.need # "METHOD"
  <2>1. client' = c /\ c2s' = c2s
    BY <1>0, <1>2, <1>4, <1>6, NotExtended DEF ClientStep
  <2> QED BY <1>0, <1>1, <1>2, <2>1, ClientQuiet
<1> QED BY <1>5, <1>6

LEMMA ResumePendingOK == IInv /\ ResumePending => IInv'
<1> SUFFICES ASSUME IInv, ResumePending PROVE IInv'
  OBVIOUS
<1> DEFINE c == [client EXCEPT !.token = TRUE]
<1>1. /\ c \in Client /\ c.state = client.state /\ c.need = client.need /\ c.ia = client.ia
      /\ c.cancelling = client.cancelling /\ c.registered = client.registered
      /\ c.hello = client.hello /\ c.err = client.err
  BY DEF IInv, TypeOK, Client
<1>2. client' = c /\ Up /\ UNCHANGED <<server, app, c2s, s2c>>
  BY DEF ResumePending
<1> HIDE DEF c
<1> QED BY <1>1, <1>2, ClientQuiet

LEMMA TakeRegisteredOK == IInv /\ TakeRegistered => IInv'
<1> SUFFICES ASSUME IInv, TakeRegistered PROVE IInv'
  OBVIOUS
<1> DEFINE c == [client EXCEPT !.registered = FALSE]
           a == [app EXCEPT !.announced = @ + 1]
<1> USE DEF IInv
<1>1. /\ c \in Client /\ c.state = client.state /\ c.need = client.need /\ c.ia = client.ia
      /\ c.cancelling = client.cancelling /\ ~c.registered
      /\ c.hello = client.hello /\ c.err = client.err
  BY DEF TypeOK, Client
<1>2. app.announced \in Nat /\ app.announced + 1 \in Nat /\ app.enrolled \in Nat
  BY DEF TypeOK, App
<1>3. a \in App
  BY <1>2 DEF TypeOK, App
<1>4. /\ a.running = app.running /\ a.waiting = app.waiting /\ a.strays = app.strays /\ a.untaken = app.untaken
      /\ a.refusals = app.refusals /\ a.gone = app.gone /\ a.enrolled = app.enrolled
      /\ a.announced = app.announced + 1
  BY DEF TypeOK, App
<1>5. /\ client' = c /\ app' = a /\ Up /\ client.registered
      /\ server' = server /\ c2s' = c2s /\ s2c' = s2c
  BY DEF TakeRegistered
<1> HIDE DEF c, a
<1>6. TypeOK' /\ Running' /\ Up' /\ Tries' /\ Verdicted' /\ app'.refusals <= MaxTries
  BY <1>1, <1>3, <1>4, <1>5 DEF TypeOK, Running, Up, Tries, Verdicted, Sent
<1>7. Heard' /\ Greeting'
  BY <1>1, <1>4, <1>5 DEF Heard, Greeting
<1>8. Turns'
  BY <1>1, <1>4, <1>5 DEF Turns, Doomed
<1>9. Enrolment'
  <2>1. Sent("METHODS")' <=> Sent("METHODS")
    BY <1>5 DEF Sent
  <2> QED BY <1>1, <1>2, <1>4, <1>5, <2>1 DEF Enrolment
<1> QED BY <1>6, <1>7, <1>8, <1>9

LEMMA StartOK == IInv /\ Start => IInv'
<1> SUFFICES ASSUME IInv, Start PROVE IInv'
  OBVIOUS
<1> DEFINE c == [client EXCEPT !.hello = TRUE]
<1> USE DEF IInv
<1>1. /\ c \in Client /\ c.state = client.state /\ c.need = client.need /\ c.ia = client.ia
      /\ c.cancelling = client.cancelling /\ c.registered = client.registered
      /\ c.hello /\ c.err = client.err
  BY DEF TypeOK, Client
<1>2. /\ client' = c /\ Up /\ ~client.hello /\ client.state = "PENDING"
      /\ server' = server /\ app' = app /\ s2c' = s2c /\ c2s' = Append(c2s, Msg("HELLO"))
  BY DEF Start
<1>3. /\ c2s = <<>> /\ s2c = <<>> /\ ~server.greeted /\ client.ia = None /\ server.ia = None
      /\ client.need = "NOTHING" /\ ~client.cancelling
  BY <1>2 DEF Greeting
<1>4. Msg("HELLO") \in ClientMsgs /\ Msg("HELLO").type = "HELLO"
  BY DEF Msg, ClientMsgs
<1>5. c2s' \in Seq(ClientMsgs) /\ c2s' = <<Msg("HELLO")>> /\ Len(c2s') = 1 /\ c2s'[1] = Msg("HELLO")
      /\ c2s' # <<>> /\ Head(c2s') = Msg("HELLO")
  BY <1>2, <1>3, <1>4
<1>6. \A i \in 1..Len(c2s') : i = 1 /\ c2s'[i].type = "HELLO"
  BY <1>4, <1>5
<1> HIDE DEF c
<1>7. TypeOK' /\ Running' /\ Up' /\ Tries' /\ app'.refusals <= MaxTries
  BY <1>1, <1>2, <1>5 DEF TypeOK, Running, Up, Tries
<1>8. Enrolment' /\ Verdicted'
  BY <1>1, <1>2 DEF Enrolment, Verdicted, Sent
<1>9. Heard'
  BY <1>1, <1>2, <1>3 DEF Heard
<1>10. server.state = "PENDING"
  BY <1>2, <1>3 DEF Greeting
<1>11. Greeting'
  BY <1>1, <1>2, <1>3, <1>5, <1>6, <1>10 DEF Greeting
<1>12. Turns'
  BY <1>1, <1>2, <1>3, <1>5, <1>6 DEF Turns, Running
<1> QED BY <1>7, <1>8, <1>9, <1>11, <1>12

\* Whatever the client adds, a server that says no more stays so.
LEMMA DoomedStays ==
  ASSUME TypeOK, Doomed, server' = server, NEW m \in ClientMsgs, c2s' = c2s \o <<m>>
  PROVE  Doomed'
<1>1. CASE c2s # <<>>
  BY <1>1, Extended DEF Doomed, TypeOK
<1> QED BY <1>1 DEF Doomed

\* With a method open the greeting is over.
LEMMA OpenIsGreeted ==
  ASSUME IInv, Up, client.ia # None
  PROVE  client.hello /\ server.greeted /\ \A i \in 1..Len(c2s) : c2s[i].type # "HELLO"
<1>1. client.hello /\ \A i \in 1..Len(c2s) : c2s[i].type # "HELLO"
  BY DEF IInv, Greeting
<1>2. ASSUME c2s = <<Msg("HELLO")>> PROVE FALSE
  <2>1. Len(c2s) = 1 /\ c2s[1].type = "HELLO"
    BY <1>2 DEF Msg
  <2> QED BY <1>1, <2>1
<1> QED BY <1>1, <1>2 DEF IInv, Greeting

\* What a cancel leaves behind.
LEMMA CancelSent ==
  ASSUME IInv, Up, client.ia # None, ~client.cancelling,
         client' = [client EXCEPT !.need = "NOTHING", !.cancelling = TRUE, !.waiting = FALSE,
                                  !.token = FALSE],
         c2s' = c2s \o <<Msg("IA_CANCEL")>>, UNCHANGED <<server, app, s2c>>
  PROVE  IInv'
<1> DEFINE m == Msg("IA_CANCEL")
<1> USE DEF IInv
<1>1. /\ client' \in Client /\ client'.state = client.state /\ client'.need = "NOTHING"
      /\ client'.ia = client.ia /\ client'.cancelling /\ client'.registered = client.registered
      /\ client'.hello = client.hello /\ client'.err = client.err
  BY DEF TypeOK, Client, Needs
<1>2. m \in ClientMsgs /\ m.type = "IA_CANCEL"
  BY DEF Msg, ClientMsgs
<1> HIDE DEF m
<1>3. c2s \in Seq(ClientMsgs) /\ c2s' = c2s \o <<m>>
  BY DEF TypeOK, m
<1>4. c2s' \in Seq(ClientMsgs) /\ Len(c2s') = Len(c2s) + 1 /\ Len(c2s) \in Nat
      /\ (\A i \in 1..Len(c2s) : c2s'[i] = c2s[i]) /\ c2s'[Len(c2s) + 1] = m /\ c2s' # <<>>
      /\ Head(c2s') = c2s'[1]
  BY <1>2, <1>3, Extended
<1>5. \A i \in 1..Len(c2s') : i \in 1..Len(c2s) \/ i = Len(c2s) + 1
  BY <1>4
<1>6. TypeOK' /\ Running' /\ Up' /\ Tries' /\ app'.refusals <= MaxTries
  BY <1>1, <1>4 DEF TypeOK, Running, Up, Tries
<1>7. Verdicted'
  BY <1>1 DEF Verdicted, Sent
<1>8. Enrolment'
  <2>1. app.announced \in Nat /\ app.enrolled \in Nat
    BY DEF TypeOK, App
  <2> QED BY <1>1, <2>1 DEF Enrolment
<1>9. Heard'
  BY <1>1 DEF Heard
<1>10. client.hello /\ server.greeted /\ \A i \in 1..Len(c2s') : c2s'[i].type # "HELLO"
  BY <1>2, <1>4, <1>5, OpenIsGreeted
<1>11. Greeting'
  BY <1>1, <1>10 DEF Greeting
<1>12. Turns'
  <2>1. CASE Doomed
    BY <1>2, <1>3, <2>1, DoomedStays DEF Turns
  <2>2. CASE ~Doomed /\ c2s = <<>>
    <3>1. CASE server.ia = None
      <4>1. Doomed'
        BY <1>2, <1>4, <2>2, <3>1 DEF Doomed
      <4> QED BY <4>1 DEF Turns
    <3>2. CASE server.ia # None
      <4>1. \A i \in 1..Len(c2s') : i = 1 /\ c2s'[i].type = "IA_CANCEL" /\ Len(c2s') = 1
        BY <1>2, <1>4, <1>5, <2>2
      <4> QED BY <1>1, <2>2, <3>2, <4>1 DEF Turns
    <3> QED BY <3>1, <3>2
  <2>3. CASE ~Doomed /\ c2s # <<>>
    <3>1. Len(c2s) >= 1
      BY <1>3, <2>3, EmptySeq
    <3>2. \A i \in 1..Len(c2s) : c2s[i].type # "IA_CANCEL"
      BY <2>3 DEF Turns
    <3>3. Len(c2s) = 1
      BY <1>4, <2>3, <3>1, <3>2 DEF Turns
    <3>4. c2s[1].type \in {"IA_BEGIN", "IA_SUBMIT"}
      <4>1. c2s[1] \in ClientMsgs
        BY <1>3, <3>3
      <4>2. c2s[1].type \in {"HELLO", "PUBKEY", "PASSWORD", "IA_SUBMIT", "IA_CANCEL", "IA_BEGIN"}
        BY <4>1 DEF ClientMsgs
      <4> QED BY <2>3, <3>2, <3>3, <4>2, OpenIsGreeted DEF Turns
    <3>5. \A i \in 1..Len(c2s') : i \in {1, 2}
      BY <1>5, <3>3
    <3>6. c2s'[1] = c2s[1] /\ c2s'[2] = m /\ Len(c2s') = 2 /\ Head(c2s') = c2s[1]
      BY <1>4, <3>3
    <3>7. ~Doomed'
      BY <2>3, <3>4, <3>6 DEF Doomed
    <3>8. s2c = <<>> /\ ~app.waiting
      BY <2>3, <3>3, <3>2 DEF Turns
    <3> QED BY <1>1, <1>2, <2>3, <3>3, <3>4, <3>5, <3>6, <3>8 DEF Turns
  <2> QED BY <2>1, <2>2, <2>3
<1> QED BY <1>6, <1>7, <1>8, <1>9, <1>11, <1>12

LEMMA CancelOK == IInv /\ Cancel => IInv'
<1> SUFFICES ASSUME IInv, Cancel PROVE IInv'
  OBVIOUS
<1>1. client' = [client EXCEPT !.need = "NOTHING", !.cancelling = TRUE, !.waiting = FALSE,
                               !.token = FALSE]
  BY DEF Cancel, ClientStep, CancelStep, IInv, TypeOK, Client
<1>2. c2s' = c2s \o <<Msg("IA_CANCEL")>>
  BY DEF Cancel, ClientStep, CancelStep
<1> QED BY <1>1, <1>2, CancelSent DEF Cancel

LEMMA SubmitOK ==
  ASSUME IInv, NEW how \in {"NULL", "UNFIT", "ANSWERS"}, Submit(how)
  PROVE  IInv'
<1> DEFINE c == [client EXCEPT !.need = "NOTHING"]
<1> USE DEF IInv
<1>0. /\ Up /\ client.need = "FORM" /\ client.ia # None /\ ~client.cancelling /\ s2c = <<>>
      /\ client.state = "PENDING" /\ UNCHANGED <<server, app, s2c>> /\ c2s \in Seq(ClientMsgs)
      /\ server.state # "OK"
  <2>1. Up /\ client.need = "FORM" /\ UNCHANGED <<server, app, s2c>>
    BY DEF Submit
  <2> QED BY <2>1 DEF Heard, TypeOK, Verdicted, Sent
<1>1. /\ c \in Client /\ c.state = client.state /\ c.need = "NOTHING"
      /\ c.ia = client.ia /\ ~c.cancelling /\ c.registered = client.registered
      /\ c.hello = client.hello /\ c.err = client.err
  BY <1>0 DEF TypeOK, Client, Needs
<1>2. CASE how = "NULL"
  <2>1. ClientStep(CancelStep(c))
    BY <1>2 DEF Submit
  <2> DEFINE d == [c EXCEPT !.cancelling = TRUE, !.need = "NOTHING", !.waiting = FALSE,
                            !.token = FALSE]
  <2>2. CancelStep(c) = [c |-> d, out |-> <<Msg("IA_CANCEL")>>]
    BY <1>0, <1>1 DEF CancelStep
  <2>3. d = [client EXCEPT !.need = "NOTHING", !.cancelling = TRUE, !.waiting = FALSE,
                           !.token = FALSE]
    BY DEF TypeOK, Client
  <2> HIDE DEF c, d
  <2>4. client' = d /\ c2s' = c2s \o <<Msg("IA_CANCEL")>>
    BY <2>1, <2>2 DEF ClientStep
  <2> QED BY <1>0, <2>3, <2>4, CancelSent
<1>3. CASE how = "UNFIT"
  <2> DEFINE d == [c EXCEPT !.state = "DENIED"]
  <2>1. client' = d /\ c2s' = c2s
    BY <1>0, <1>3, NotExtended DEF Submit, ClientStep
  <2>2. /\ d \in Client /\ d.state = "DENIED" /\ d.need = "NOTHING"
        /\ d.ia = client.ia /\ ~d.cancelling /\ d.registered = client.registered
        /\ d.hello = client.hello /\ d.err = client.err
    <3> HIDE DEF c
    <3> QED BY <1>1 DEF Client, States
  <2> HIDE DEF c, d
  <2>3. TypeOK' /\ Running' /\ Up' /\ Tries' /\ app'.refusals <= MaxTries
    BY <1>0, <2>1, <2>2 DEF TypeOK, Running, Up, Tries
  <2>n. app.announced \in Nat /\ app.enrolled \in Nat
    BY DEF TypeOK, App
  <2>s. ~Sent("METHODS") /\ ~Sent("METHODS")' /\ ~Sent("OK")'
    BY <1>0 DEF Sent
  <2>4. Verdicted' /\ Enrolment'
    BY <1>0, <2>1, <2>2, <2>n, <2>s DEF Verdicted, Enrolment
  <2>5. Heard' /\ Greeting'
    BY <1>0, <2>1, <2>2 DEF Heard, Greeting
  <2>6. Turns'
    BY <1>0, <2>1, <2>2 DEF Turns, Doomed
  <2> QED BY <2>3, <2>4, <2>5, <2>6
<1>4. CASE how = "ANSWERS"
  <2> DEFINE m == Msg("IA_SUBMIT")
  <2>1. client' = c /\ c2s' = c2s \o <<m>>
    BY <1>4 DEF Submit, ClientStep
  <2>2. m \in ClientMsgs /\ m.type = "IA_SUBMIT"
    BY DEF Msg, ClientMsgs
  <2> HIDE DEF c, m
  <2>3. c2s' \in Seq(ClientMsgs) /\ Len(c2s') = Len(c2s) + 1 /\ Len(c2s) \in Nat
        /\ (\A i \in 1..Len(c2s) : c2s'[i] = c2s[i]) /\ c2s'[Len(c2s) + 1] = m /\ c2s' # <<>>
    BY <1>0, <2>1, <2>2, Extended
  <2>4. \A i \in 1..Len(c2s') : i \in 1..Len(c2s) \/ i = Len(c2s) + 1
    BY <2>3
  <2>5. TypeOK' /\ Running' /\ Up' /\ Tries' /\ app'.refusals <= MaxTries
    BY <1>0, <1>1, <2>1, <2>3 DEF TypeOK, Running, Up, Tries
  <2>6. Verdicted' /\ Enrolment'
    BY <1>0, <1>1, <2>1 DEF Verdicted, Enrolment, Sent
  <2>7. Heard'
    BY <1>0, <1>1, <2>1 DEF Heard
  <2>8. client.hello /\ server.greeted /\ \A i \in 1..Len(c2s') : c2s'[i].type # "HELLO"
    BY <1>0, <2>2, <2>3, <2>4, OpenIsGreeted
  <2>9. Greeting'
    BY <1>0, <1>1, <2>1, <2>8 DEF Greeting
  <2>10. Turns'
    <3>1. CASE Doomed
      BY <1>0, <2>1, <2>2, <3>1, DoomedStays DEF Turns
    <3>2. CASE ~Doomed
      <4>1. c2s = <<>> /\ server.ia # None /\ ~app.waiting /\ client.ia = server.ia
        BY <1>0, <3>2 DEF Turns
      <4>2. \A i \in 1..Len(c2s') : i = 1 /\ c2s'[i].type = "IA_SUBMIT" /\ Len(c2s') = 1
        BY <2>2, <2>3, <2>4, <4>1
      <4> QED BY <1>0, <1>1, <2>1, <4>1, <4>2 DEF Turns
    <3> QED BY <3>1, <3>2
  <2> QED BY <2>5, <2>6, <2>7, <2>9, <2>10
<1> QED BY <1>2, <1>3, <1>4

-------------------------------------------------------------------------------
(* The client reads a message. *)

\* What is known when there is a message to read.
LEMMA Unread ==
  ASSUME IInv, Up, s2c # <<>>
  PROVE  /\ client.need = "NOTHING" /\ client.hello /\ server.greeted
         /\ s2c \in Seq(ServerMsgs) /\ Len(s2c) \in Nat /\ Len(s2c) >= 1 /\ Head(s2c) = s2c[1]
         /\ s2c[1] \in ServerMsgs
         /\ Tail(s2c) \in Seq(ServerMsgs) /\ Len(Tail(s2c)) = Len(s2c) - 1
         /\ \A i \in 1..Len(Tail(s2c)) : Tail(s2c)[i] = s2c[i + 1]
         /\ \A i \in 1..Len(Tail(s2c)) : i + 1 \in 1..Len(s2c)
         /\ \A i \in 1..Len(Tail(s2c)) : /\ i < Len(Tail(s2c)) <=> i + 1 < Len(s2c)
                                         /\ i = Len(Tail(s2c)) <=> i + 1 = Len(s2c)
         /\ Tail(s2c) = <<>> <=> Len(s2c) = 1
<1> USE DEF IInv
<1>1. s2c \in Seq(ServerMsgs)
  BY DEF TypeOK
<1>2. client.need = "NOTHING" /\ client.hello
  BY DEF Heard, Greeting
<1>3. ASSUME c2s = <<Msg("HELLO")>> PROVE FALSE
  <2>1. Len(c2s) = 1 /\ c2s[1].type = "HELLO"
    BY <1>3 DEF Msg
  <2> QED BY <2>1 DEF Greeting
<1>4. server.greeted
  BY <1>2, <1>3 DEF Greeting
<1>5. \A i \in 1..Len(Tail(s2c)) : /\ i + 1 \in 1..Len(s2c)
                                   /\ i < Len(Tail(s2c)) <=> i + 1 < Len(s2c)
                                   /\ i = Len(Tail(s2c)) <=> i + 1 = Len(s2c)
  BY <1>1, TailOf
<1> QED BY <1>1, <1>2, <1>4, <1>5, TailOf

\* A final answer is the last message, and the server waits for the next request.
LEMMA FinalRead ==
  ASSUME IInv, Up, s2c # <<>>, Head(s2c).type \in Final
  PROVE  /\ Tail(s2c) = <<>> /\ Len(s2c) = 1
         /\ Doomed \/ (c2s = <<>> /\ server.ia = None)
         /\ server.state = "OK" /\ client.state = "PENDING" => Head(s2c).type = "OK"
<1> USE DEF IInv
<1>1. Len(s2c) = 1
  BY Unread DEF Heard, Final, Interim
<1>2. Doomed \/ (c2s = <<>> /\ server.ia = None)
  BY <1>1, Unread DEF Turns
<1>3. server.state = "OK" /\ client.state = "PENDING" => Head(s2c).type = "OK"
  BY <1>1, Unread DEF Verdicted, Sent
<1> QED BY <1>1, <1>2, <1>3, Unread

\* A message that the client passes over, or that ends its conversation.
LEMMA ClientReads ==
  ASSUME IInv, Up, s2c # <<>>, Head(s2c).type \in Interim \/ client.state # "PENDING",
         client' \in Client, client'.need = client.need, client'.ia = client.ia,
         client'.cancelling = client.cancelling, client'.registered = client.registered,
         client'.hello = client.hello, client'.err # "ORDER",
         client'.state \in {client.state, "DENIED"},
         s2c' = Tail(s2c), UNCHANGED <<server, app, c2s>>
  PROVE  IInv'
<1> USE DEF IInv
<1>1. /\ client'.need = "NOTHING" /\ client.hello /\ server.greeted /\ s2c' \in Seq(ServerMsgs)
      /\ Len(s2c) \in Nat /\ Len(s2c') = Len(s2c) - 1
      /\ \A i \in 1..Len(s2c') : s2c'[i] = s2c[i + 1]
      /\ \A i \in 1..Len(s2c') : i + 1 \in 1..Len(s2c)
      /\ \A i \in 1..Len(s2c') : /\ i < Len(s2c') <=> i + 1 < Len(s2c)
                                 /\ i = Len(s2c') <=> i + 1 = Len(s2c)
  BY Unread
<1>2. TypeOK' /\ Running' /\ Up' /\ Tries' /\ app'.refusals <= MaxTries
  BY <1>1 DEF TypeOK, Running, Up, Tries
<1>3. \A type : Sent(type)' => Sent(type)
  BY <1>1 DEF Sent
<1>4. Enrolment'
  <2>1. app.announced \in Nat /\ app.enrolled \in Nat
    BY DEF TypeOK, App
  <2> QED BY <1>3, <2>1 DEF Enrolment
<1>5. Verdicted'
  <2>1. ASSUME server.state = "OK", client'.state = "PENDING" PROVE Sent("OK")'
    <3>1. client.state = "PENDING" /\ Head(s2c).type \in Interim
      BY <2>1
    <3>2. PICK i \in 1..Len(s2c) : s2c[i].type = "OK"
      BY <2>1, <3>1 DEF Verdicted, Sent
    <3>3. i # 1
      BY <3>1, <3>2, Unread DEF Interim
    <3>4. i - 1 \in 1..Len(s2c') /\ s2c'[i - 1] = s2c[i]
      BY <1>1, <3>2, <3>3
    <3> QED BY <3>2, <3>4 DEF Sent
  <2> QED BY <1>3, <2>1 DEF Verdicted
<1>6. Heard'
  <2>1. Heard /\ (client'.cancelling <=> client.cancelling)
    OBVIOUS
  <2>2. ASSUME NEW i \in 1..Len(s2c')
        PROVE  /\ i < Len(s2c') => s2c'[i].type \in Interim
               /\ s2c'[i].type \in Interim => client'.ia # None
               /\ s2c'[i].type = "IA_FORM" => client'.cancelling \/ i = Len(s2c')
    <3>1. i + 1 \in 1..Len(s2c) /\ s2c'[i] = s2c[i + 1]
      BY <1>1
    <3>2. /\ i < Len(s2c') => i + 1 < Len(s2c)
          /\ i + 1 = Len(s2c) => i = Len(s2c')
      BY <1>1
    <3> QED BY <2>1, <3>1, <3>2 DEF Heard
  <2>3. client'.cancelling => client'.ia # None
    BY <2>1 DEF Heard
  <2> QED BY <1>1, <2>2, <2>3 DEF Heard
<1>7. \A i \in 1..Len(c2s) : c2s[i].type # "HELLO"
  BY DEF Greeting
<1>8. Greeting'
  BY <1>1, <1>7 DEF Greeting
<1>9. Turns'
  <2>1. Doomed' <=> Doomed
    BY DEF Doomed
  <2>2. ASSUME ~Doomed PROVE \A i \in 1..Len(c2s) : c2s[i].type = "IA_CANCEL"
    BY <2>2 DEF Turns
  <2>3. client'.cancelling <=> client.cancelling
    OBVIOUS
  <2>4. ASSUME ~Doomed
        PROVE  /\ \A i \in 1..Len(s2c') : s2c'[i].type \in Final => c2s = <<>> /\ server.ia = None
               /\ \A i \in 1..Len(s2c') :
                    s2c'[i].type \in Interim /\ i = Len(s2c') => server.ia # None
               /\ app.waiting /\ server.ia # None =>
                    \A i \in 1..Len(s2c') : s2c'[i].type = "IA_WAIT"
    <3>1. ASSUME NEW i \in 1..Len(s2c')
          PROVE  /\ s2c'[i].type \in Final => c2s = <<>> /\ server.ia = None
                 /\ s2c'[i].type \in Interim /\ i = Len(s2c') => server.ia # None
                 /\ app.waiting /\ server.ia # None => s2c'[i].type = "IA_WAIT"
      <4>1. i + 1 \in 1..Len(s2c) /\ s2c'[i] = s2c[i + 1] /\ (i = Len(s2c') => i + 1 = Len(s2c))
        BY <1>1
      <4> QED BY <2>4, <4>1 DEF Turns
    <3> QED BY <3>1
  <2>5. ASSUME ~Doomed
        PROVE  \A i \in 1..Len(c2s) :
                 /\ i = 1 \/ (i = 2 /\ c2s[i].type = "IA_CANCEL")
                 /\ i = 1 /\ Len(c2s) = 2 => c2s[i].type \in {"IA_BEGIN", "IA_SUBMIT"}
                 /\ c2s[i].type = "IA_CANCEL" => client'.cancelling
    BY <2>3, <2>5 DEF Turns
  <2>6. ASSUME ~Doomed PROVE server.ia # None => client'.ia = server.ia
    BY <2>6 DEF Turns
  <2> QED BY <1>1, <2>1, <2>2, <2>4, <2>5, <2>6 DEF Turns
<1> QED BY <1>2, <1>4, <1>5, <1>6, <1>8, <1>9

LEMMA ClientRefusesOK == IInv /\ ClientRefuses => IInv'
<1> SUFFICES ASSUME IInv, ClientRefuses PROVE IInv'
  OBVIOUS
<1>1. /\ Up /\ s2c # <<>> /\ client.state # "PENDING" /\ s2c' = Tail(s2c)
      /\ UNCHANGED <<client, server, app, c2s>>
  BY DEF ClientRefuses
<1>2. client \in Client /\ client.err # "ORDER"
  BY <1>1 DEF IInv, TypeOK, Heard
<1> QED BY <1>1, <1>2, ClientReads

LEMMA ClientWaitOK == IInv /\ ClientWait => IInv'
<1> SUFFICES ASSUME IInv, ClientWait PROVE IInv'
  OBVIOUS
<1> DEFINE c == [client EXCEPT !.token = @ \/ Head(s2c).token, !.waiting = TRUE,
                               !.need = "NOTHING"]
<1>1. /\ Up /\ s2c # <<>> /\ Head(s2c).type = "IA_WAIT" /\ s2c' = Tail(s2c)
      /\ UNCHANGED <<server, app, c2s>>
  BY DEF ClientWait, ClientFeed
<1>2. client \in Client /\ client.err # "ORDER" /\ client.need = "NOTHING"
  BY <1>1, Unread DEF IInv, TypeOK, Heard
<1>3. client.ia # None
  BY <1>1, Unread DEF IInv, Heard, Interim
<1>4. client' \in {client, c}
  BY <1>3 DEF ClientWait
<1>5. Head(s2c).token \in BOOLEAN
  BY <1>1, Unread DEF ServerMsgs
<1>6. c \in Client
  BY <1>2, <1>5 DEF Client, Needs
<1>7. /\ c.need = client.need /\ c.ia = client.ia
      /\ c.cancelling = client.cancelling /\ c.registered = client.registered
      /\ c.hello = client.hello /\ c.err = client.err /\ c.state = client.state
  BY <1>2 DEF Client
<1> HIDE DEF c
<1> QED BY <1>1, <1>2, <1>4, <1>6, <1>7, ClientReads DEF Interim

LEMMA ClientFormOK ==
  ASSUME IInv, NEW fits \in BOOLEAN, ClientForm(fits)
  PROVE  IInv'
<1> DEFINE c == [client EXCEPT !.waiting = FALSE, !.need = "FORM"]
           d == [client EXCEPT !.state = "DENIED", !.err = "SIZE"]
<1> USE DEF IInv
<1>1. /\ Up /\ s2c # <<>> /\ Head(s2c).type = "IA_FORM" /\ s2c' = Tail(s2c)
      /\ UNCHANGED <<server, app, c2s>> /\ client.state = "PENDING"
  BY DEF ClientForm, ClientFeed
<1>2. client \in Client /\ client.err # "ORDER" /\ client.need = "NOTHING"
  BY <1>1, Unread DEF TypeOK, Heard
<1>3. client.ia # None
  BY <1>1, Unread DEF Heard, Interim
<1>4. \/ client' \in {client, d}
      \/ client' = c /\ ~client.cancelling
  BY <1>2, <1>3 DEF ClientForm, ClientError
<1>5. CASE client' \in {client, d}
  <2>1. d \in Client
    BY <1>2 DEF Client, States
  <2>2. /\ d.need = client.need /\ d.ia = client.ia
        /\ d.cancelling = client.cancelling /\ d.registered = client.registered
        /\ d.hello = client.hello /\ d.err # "ORDER" /\ d.state = "DENIED"
    BY <1>2 DEF Client
  <2> HIDE DEF d
  <2> QED BY <1>1, <1>2, <1>5, <2>1, <2>2, ClientReads DEF Interim
<1>6. CASE client' = c /\ ~client.cancelling
  <2>1. /\ client' \in Client /\ client'.need = "FORM" /\ client'.ia = client.ia
        /\ client'.cancelling = client.cancelling /\ client'.registered = client.registered
        /\ client'.hello = client.hello /\ client'.err = client.err /\ client'.state = "PENDING"
    BY <1>1, <1>2, <1>6 DEF Client, Needs
  <2> HIDE DEF c
  <2>2. Len(s2c) = 1 /\ s2c' = <<>>
    BY <1>1, <1>6, Unread DEF Heard
  <2>3. s2c' \in Seq(ServerMsgs) /\ \A type : ~Sent(type)'
    BY <2>2 DEF Sent
  <2>4. server.state # "OK"
    BY <1>1, <2>2, Unread DEF Verdicted, Sent
  <2>5. TypeOK' /\ Running' /\ Up' /\ Tries' /\ app'.refusals <= MaxTries
    BY <1>1, <2>1, <2>3 DEF TypeOK, Running, Up, Tries
  <2>6. Enrolment'
    <3>1. app.announced \in Nat /\ app.enrolled \in Nat
      BY DEF TypeOK, App
    <3> QED BY <1>1, <2>1, <2>3, <3>1 DEF Enrolment
  <2>7. Verdicted'
    BY <1>1, <2>1, <2>3, <2>4 DEF Verdicted
  <2>8. Heard'
    <3>1. ~client'.cancelling
      BY <1>6, <2>1
    <3>2. \A i \in 1..Len(s2c') : FALSE
      BY <2>2
    <3> QED BY <1>2, <1>3, <2>1, <2>2, <3>1, <3>2 DEF Heard
  <2>9. client.hello /\ server.greeted /\ \A i \in 1..Len(c2s) : c2s[i].type # "HELLO"
    BY <1>1, <1>3, OpenIsGreeted
  <2>10. Greeting'
    BY <1>1, <2>1, <2>9 DEF Greeting
  <2>11. Turns'
    <3>1. Doomed' <=> Doomed
      BY <1>1 DEF Doomed
    <3>2. CASE ~Doomed
      <4>1. c2s = <<>>
        <5>1. \A i \in 1..Len(c2s) : FALSE
          BY <1>1, <1>6, <3>2 DEF Turns
        <5> QED BY <5>1, EmptySeq DEF TypeOK
      <4>2. server.ia # None /\ ~app.waiting
        BY <1>1, <2>2, <3>2, Unread DEF Turns, Interim
      <4>3. client'.ia = server.ia
        BY <1>1, <2>1, <3>2, <4>2 DEF Turns
      <4>4. \A i : i \notin 1..Len(s2c') /\ i \notin 1..Len(c2s')
        BY <1>1, <2>2, <4>1
      <4>5. server' = server /\ app' = app /\ c2s' = <<>>
        BY <1>1, <4>1
      <4> QED BY <2>1, <4>2, <4>3, <4>4, <4>5 DEF Turns
    <3> QED BY <3>1, <3>2 DEF Turns
  <2> QED BY <2>5, <2>6, <2>7, <2>8, <2>10, <2>11
<1> QED BY <1>4, <1>5, <1>6

LEMMA ClientOkOK == IInv /\ ClientOk => IInv'
<1> SUFFICES ASSUME IInv, ClientOk PROVE IInv'
  OBVIOUS
<1> USE DEF IInv
<1>1. /\ Up /\ s2c # <<>> /\ Head(s2c).type = "OK" /\ s2c' = Tail(s2c)
      /\ UNCHANGED <<server, app, c2s>> /\ client' = [client EXCEPT !.state = "OK"]
  BY DEF ClientOk, ClientFeed
<1>2. /\ client' \in Client /\ client'.need = client.need /\ client'.ia = client.ia
      /\ client'.cancelling = client.cancelling /\ client'.registered = client.registered
      /\ client'.hello = client.hello /\ client'.err = client.err /\ client'.state = "OK"
  BY <1>1 DEF TypeOK, Client, States
<1>3. s2c' = <<>> /\ client.need = "NOTHING" /\ client.hello /\ server.greeted
  BY <1>1, Unread, FinalRead DEF Final
<1>4. s2c' \in Seq(ServerMsgs) /\ \A type : ~Sent(type)'
  BY <1>3 DEF Sent
<1>5. server.state = "OK"
  BY <1>1, Unread DEF Verdicted, Sent
<1>6. TypeOK' /\ Running' /\ Up' /\ Tries' /\ app'.refusals <= MaxTries
  BY <1>1, <1>2, <1>4 DEF TypeOK, Running, Up, Tries
<1>7. Enrolment'
  <2>1. app.announced \in Nat /\ app.enrolled \in Nat
    BY DEF TypeOK, App
  <2> QED BY <1>1, <1>2, <1>4, <2>1 DEF Enrolment
<1>8. Verdicted' /\ Turns'
  BY <1>1, <1>2, <1>5 DEF Verdicted, Turns, Doomed
<1>9. Heard'
  <2>1. client'.cancelling <=> client.cancelling
    BY <1>2
  <2>2. \A i : i \notin 1..Len(s2c')
    BY <1>3
  <2>3. client.cancelling => client.ia # None
    BY <1>1 DEF Heard
  <2>4. client'.err # "ORDER"
    BY <1>1, <1>2 DEF Heard
  <2> QED BY <1>2, <1>3, <2>1, <2>2, <2>3, <2>4 DEF Heard
<1>10. \A i \in 1..Len(c2s) : c2s[i].type # "HELLO"
  BY <1>1 DEF Greeting
<1>11. Greeting'
  BY <1>1, <1>2, <1>3, <1>10 DEF Greeting
<1> QED BY <1>6, <1>7, <1>8, <1>9, <1>11

\* An offer or a refusal: the client tries what is left.
LEMMA AnswerRead ==
  ASSUME IInv, Up, s2c # <<>>, Head(s2c).type \in {"METHODS", "FAIL"}, client.state = "PENDING",
         NEW c \in Client, NEW r, Moved(c, r), ClientStep(r),
         s2c' = Tail(s2c), UNCHANGED <<server, app>>,
         ~c.cancelling, c.hello = client.hello, c.err = client.err,
         c.registered => \/ client.registered
                         \/ /\ Head(s2c).type = "METHODS"
                            /\ client.ia = "REGISTER" /\ ~client.cancelling
  PROVE  IInv'
<1>1. /\ Tail(s2c) = <<>> /\ Len(s2c) = 1 /\ server.state # "OK"
      /\ Doomed \/ (c2s = <<>> /\ server.ia = None)
  BY FinalRead DEF Final
<1>2. client.hello /\ server.greeted /\ client.err # "ORDER"
  BY Unread DEF IInv, Heard
<1>3. app.announced + (IF c.registered THEN 1 ELSE 0) <= app.enrolled
  <2>1. app.announced \in Nat /\ app.enrolled \in Nat
    BY DEF IInv, TypeOK, App
  <2>2. Head(s2c).type = "METHODS" => Sent("METHODS")
    BY <1>1, Unread DEF Sent
  <2>3. Enrolment
    BY DEF IInv
  <2>4. c.registered => \/ client.registered
                        \/ client.ia = "REGISTER" /\ ~client.cancelling /\ Sent("METHODS")
    BY <2>2
  <2> QED BY <2>1, <2>3, <2>4 DEF Enrolment
<1>4. client' = r.c /\ c2s' = c2s \o r.out
  BY DEF ClientStep
<1> QED BY <1>1, <1>2, <1>3, <1>4, ClientMoves

LEMMA ClientFailOK == IInv /\ ClientFail => IInv'
<1> SUFFICES ASSUME IInv, ClientFail PROVE IInv'
  OBVIOUS
<1> DEFINE c == [client EXCEPT !.avail = @ \cap Head(s2c).mask, !.ia = None,
                               !.cancelling = FALSE, !.asked = FALSE]
<1>1. /\ Up /\ s2c # <<>> /\ Head(s2c).type = "FAIL" /\ s2c' = Tail(s2c)
      /\ UNCHANGED <<server, app>> /\ client.state = "PENDING" /\ ClientStep(TryNext(c))
  BY DEF ClientFail, ClientFeed
<1>2. c \in Client
  BY DEF IInv, TypeOK, Client
<1>3. /\ c.state = client.state /\ c.ia = None /\ ~c.cancelling /\ c.hello = client.hello
      /\ c.err = client.err /\ c.registered = client.registered
  BY DEF IInv, TypeOK, Client
<1> HIDE DEF c
<1>r. c.registered => client.registered
  BY <1>3
<1>4. Moved(c, TryNext(c))
  BY <1>1, <1>2, <1>3, TryNextMoves
<1> QED BY <1>1, <1>2, <1>3, <1>4, <1>r, AnswerRead

LEMMA ClientMethodsOK == IInv /\ ClientMethods => IInv'
<1> SUFFICES ASSUME IInv, ClientMethods PROVE IInv'
  OBVIOUS
<1> DEFINE mask == Head(s2c).mask
           reg == client.registered \/ (client.ia = "REGISTER" /\ ~client.cancelling)
           c == [client EXCEPT !.registered = reg, !.ia = None, !.cancelling = FALSE,
                               !.asked = FALSE, !.waiting = FALSE, !.avail = mask]
           d == [c EXCEPT !.state = "DENIED"]
           r == IF mask = {} THEN [c |-> d, out |-> <<>>] ELSE TryNext(c)
<1>1. /\ Up /\ s2c # <<>> /\ Head(s2c).type = "METHODS" /\ s2c' = Tail(s2c)
      /\ UNCHANGED <<server, app>> /\ client.state = "PENDING" /\ ClientStep(r)
  BY DEF ClientMethods, ClientFeed
<1>2. mask \in SUBSET Methods /\ reg \in BOOLEAN
  BY <1>1, Unread DEF ServerMsgs
<1>3. client \in Client /\ client.need = "NOTHING"
  BY <1>1, Unread DEF IInv, TypeOK
<1>r. (reg <=> client.registered \/ (client.ia = "REGISTER" /\ ~client.cancelling))
  OBVIOUS
<1> HIDE DEF mask, reg
<1>4. c \in Client
  BY <1>2, <1>3 DEF Client
<1>5. /\ c.state = client.state /\ c.ia = None /\ ~c.cancelling /\ c.hello = client.hello
      /\ c.err = client.err /\ c.registered = reg /\ c.need = "NOTHING"
  BY <1>3 DEF Client
<1> HIDE DEF c
<1>6. /\ d \in Client /\ d.state = "DENIED" /\ d.ia = None /\ d.cancelling = c.cancelling
      /\ d.hello = c.hello /\ d.err = c.err /\ d.registered = c.registered /\ d.need = "NOTHING"
  BY <1>4, <1>5 DEF Client, States
<1> HIDE DEF d
<1>7. Moved(c, r)
  <2>1. CASE mask = {}
    <3>1. r.c = d /\ r.out = <<>>
      BY <2>1
    <3> HIDE DEF r
    <3> QED BY <1>6, <3>1 DEF Moved
  <2>2. CASE mask # {}
    BY <1>1, <1>4, <1>5, <2>2, TryNextMoves
  <2> QED BY <2>1, <2>2
<1> HIDE DEF r
<1>8. c.registered => \/ client.registered
                      \/ client.ia = "REGISTER" /\ ~client.cancelling
  BY <1>5, <1>r
<1> QED BY <1>1, <1>4, <1>5, <1>7, <1>8, AnswerRead

-------------------------------------------------------------------------------
(* The server reads a message. *)

\* The rest of the requests, once the first is read: nothing, or a cancel of it.
Crossed == c2s' = <<>> \/ (Len(c2s') = 1 /\ c2s'[1].type = "IA_CANCEL" /\ client.cancelling)

LEMMA CrossedIs ==
  ASSUME Crossed
  PROVE  \A i \in 1..Len(c2s') : /\ i = 1 /\ Len(c2s') = 1 /\ c2s' # <<>>
                                 /\ c2s'[i].type = "IA_CANCEL" /\ client.cancelling
<1>1. CASE c2s' = <<>>
  BY <1>1
<1>2. CASE Len(c2s') = 1 /\ c2s'[1].type = "IA_CANCEL" /\ client.cancelling
  <2>1. c2s' # <<>>
    BY <1>2
  <2>2. \A i \in 1..Len(c2s') : i = 1
    BY <1>2
  <2> QED BY <1>2, <2>1, <2>2
<1> QED BY <1>1, <1>2 DEF Crossed

\* What is known when there is a request to read.
LEMMA Asked ==
  ASSUME IInv, Up, c2s # <<>>
  PROVE  /\ client.hello
         /\ c2s \in Seq(ClientMsgs) /\ Len(c2s) \in Nat /\ Len(c2s) >= 1 /\ Head(c2s) = c2s[1]
         /\ c2s[1] \in ClientMsgs /\ 1 \in 1..Len(c2s)
         /\ Tail(c2s) \in Seq(ClientMsgs) /\ Len(Tail(c2s)) = Len(c2s) - 1
         /\ \A i \in 1..Len(Tail(c2s)) : Tail(c2s)[i] = c2s[i + 1] /\ i + 1 \in 1..Len(c2s)
         /\ Tail(c2s) = <<>> <=> Len(c2s) = 1
<1>1. c2s \in Seq(ClientMsgs)
  BY DEF IInv, TypeOK
<1>2. client.hello
  BY DEF IInv, Greeting
<1>3. \A i \in 1..Len(Tail(c2s)) : i + 1 \in 1..Len(c2s)
  BY <1>1, TailOf
<1>4. 1 \in 1..Len(c2s)
  BY <1>1, TailOf
<1> QED BY <1>1, <1>2, <1>3, <1>4, TailOf

\* A request other than HELLO comes to a server that was greeted.
LEMMA AskedGreeted ==
  ASSUME IInv, Up, c2s # <<>>, Head(c2s).type # "HELLO" \/ server.state # "PENDING"
  PROVE  server.greeted /\ \A i \in 1..Len(c2s) : c2s[i].type # "HELLO"
<1> USE DEF IInv
<1>1. ASSUME NEW i \in 1..Len(c2s), c2s[i].type = "HELLO" PROVE FALSE
  <2>1. Len(c2s) = 1 /\ ~server.greeted
    BY <1>1 DEF Greeting
  <2>2. i = 1
    BY <1>1, <2>1
  <2>3. server.state # "PENDING"
    BY <1>1, <2>2, Asked
  <2> QED BY <2>1, <2>3, Asked DEF Greeting
<1>2. ASSUME c2s = <<Msg("HELLO")>> PROVE FALSE
  <2>1. Len(c2s) = 1 /\ c2s[1].type = "HELLO"
    BY <1>2 DEF Msg
  <2> QED BY <1>1, <2>1
<1> QED BY <1>1, <1>2, Asked DEF Greeting

\* A request that is not a cancel finds both ends waiting for the server.
LEMMA Requested ==
  ASSUME IInv, Up, c2s # <<>>, server.state = "PENDING", Head(c2s).type # "IA_CANCEL",
         c2s' = Tail(c2s)
  PROVE  /\ ~Doomed /\ client.need = "NOTHING" /\ s2c = <<>> /\ ~app.waiting /\ Crossed
         /\ Head(c2s).type \in {"HELLO", "PUBKEY", "PASSWORD"} => c2s' = <<>>
<1> USE DEF IInv
<1>1. ~Doomed
  BY DEF Doomed
<1>2. client.need = "NOTHING" /\ s2c = <<>> /\ ~app.waiting
  BY <1>1, Asked DEF Turns
<1>3. \A i \in 1..Len(c2s) : i \in {1, 2}
  BY <1>1 DEF Turns
<1>4. Len(c2s) \in {1, 2}
  <2>1. Len(c2s) \in 1..Len(c2s)
    BY Asked
  <2> QED BY <1>3, <2>1
<1>5. ASSUME Len(c2s) = 2
      PROVE  Crossed /\ Head(c2s).type \in {"IA_BEGIN", "IA_SUBMIT"}
  <2>1. 2 \in 1..Len(c2s) /\ Len(c2s') = 1 /\ c2s'[1] = c2s[2]
    BY <1>5, Asked
  <2>2. c2s[2].type = "IA_CANCEL" /\ client.cancelling
    BY <1>1, <2>1 DEF Turns
  <2> QED BY <1>1, <1>5, <2>1, <2>2, Asked DEF Turns, Crossed
<1>6. ASSUME Len(c2s) = 1 PROVE c2s' = <<>>
  BY <1>6, Asked
<1> QED BY <1>1, <1>2, <1>4, <1>5, <1>6 DEF Crossed

\* A request that the server passes over, or that ends its conversation.
LEMMA ServerReads ==
  ASSUME IInv, Up, c2s # <<>>, Head(c2s).type # "HELLO" \/ server.state # "PENDING",
         server' \in Server, server'.ia = server.ia, server'.greeted = server.greeted,
         server'.fired = server.fired, server'.tries = server.tries, server'.err # "ORDER",
         server'.state # "PENDING",
         server'.state = server.state \/ (server.state = "PENDING" /\ server'.state = "DENIED"),
         c2s' = Tail(c2s), UNCHANGED <<client, app, s2c>>
  PROVE  IInv'
<1> USE DEF IInv
<1>1. /\ client.hello /\ server.greeted /\ c2s' \in Seq(ClientMsgs)
      /\ \A i \in 1..Len(c2s') : c2s'[i].type # "HELLO"
  BY Asked, AskedGreeted
<1>2. TypeOK' /\ Up' /\ app'.refusals <= MaxTries
  BY <1>1 DEF TypeOK, Up
<1>3. Tries'
  BY DEF Tries
<1>4. Running'
  <2>1. server'.fired <=> server.fired
    OBVIOUS
  <2> QED BY <2>1 DEF Running
<1>5. Enrolment' /\ Heard'
  BY DEF Enrolment, Heard, Sent
<1>6. Verdicted'
  <2>1. \A type : Sent(type)' <=> Sent(type)
    BY DEF Sent
  <2> QED BY <2>1 DEF Verdicted
<1>7. Greeting'
  <2>1. server'.greeted
    BY <1>1
  <2> QED BY <1>1, <2>1 DEF Greeting
<1>8. Turns'
  BY DEF Turns, Doomed
<1> QED BY <1>2, <1>3, <1>4, <1>5, <1>6, <1>7, <1>8

LEMMA ServerRefusesOK == IInv /\ ServerRefuses => IInv'
<1> SUFFICES ASSUME IInv, ServerRefuses PROVE IInv'
  OBVIOUS
<1>1. /\ Up /\ c2s # <<>> /\ server.state # "PENDING" /\ c2s' = Tail(c2s)
      /\ UNCHANGED <<client, server, app, s2c>>
  BY DEF ServerRefuses
<1>2. server \in Server /\ server.err # "ORDER"
  BY <1>1 DEF IInv, TypeOK, Greeting
<1> QED BY <1>1, <1>2, ServerReads

LEMMA ServerDies ==
  ASSUME IInv, NEW type, ServerFeed(type), type # "HELLO",
         NEW why \in {"SIZE", "CANCEL", "SUBMIT"}, ServerError(why)
  PROVE  IInv'
<1> DEFINE n == [server EXCEPT !.state = "DENIED", !.err = why]
<1>1. /\ Up /\ c2s # <<>> /\ Head(c2s).type # "HELLO" /\ server.state = "PENDING"
      /\ c2s' = Tail(c2s) /\ UNCHANGED <<client, app, s2c>> /\ server' = n
  BY DEF ServerFeed, ServerError
<1>2. server \in Server
  BY DEF IInv, TypeOK
<1>3. n \in Server
  BY <1>2 DEF Server, States
<1>4. /\ n.ia = server.ia /\ n.greeted = server.greeted /\ n.fired = server.fired
      /\ n.tries = server.tries /\ n.err = why /\ n.state = "DENIED"
  BY <1>2 DEF Server
<1> HIDE DEF n
<1> QED BY <1>1, <1>3, <1>4, ServerReads

-------------------------------------------------------------------------------
(* The server speaks. *)

\* It answers for good: a new offer, a refusal or the acceptance.
LEMMA ServerAnswers ==
  ASSUME IInv, Up, server.state = "PENDING", client' = client, client.hello,
         client.need = "NOTHING",
         \A i \in 1..Len(s2c) : /\ s2c[i].type \in Interim
                                /\ s2c[i].type = "IA_FORM" => client.cancelling,
         NEW m \in ServerMsgs, m.type \in Final, s2c' = s2c \o <<m>>,
         server' \in Server, server'.greeted, server'.err = server.err, server'.ia = None,
         server'.state = "OK" <=> m.type = "OK",
         server'.state = "PENDING" => server'.tries < MaxTries,
         app' \in App, app'.running # "YES", ~app'.waiting, app'.strays = app'.untaken, ~app'.gone,
         app'.announced = app.announced, app'.refusals <= server'.tries,
         app.enrolled <= app'.enrolled,
         m.type = "METHODS" /\ client.ia = "REGISTER" /\ ~client.cancelling =>
           app.enrolled + 1 <= app'.enrolled,
         c2s' \in Seq(ClientMsgs), Crossed
  PROVE  IInv'
<1> USE DEF IInv
<1>1. /\ s2c \in Seq(ServerMsgs) /\ s2c' \in Seq(ServerMsgs)
      /\ Len(s2c') = Len(s2c) + 1 /\ Len(s2c) \in Nat
      /\ \A i \in 1..Len(s2c) : s2c'[i] = s2c[i]
      /\ s2c'[Len(s2c')] = m
  BY Extended DEF TypeOK
<1>2. \A i \in 1..Len(s2c') : i \in 1..Len(s2c) \/ i = Len(s2c')
  BY <1>1
<1>3. Len(s2c') \in 1..Len(s2c') /\ \A i \in 1..Len(s2c) : i < Len(s2c')
  BY <1>1
<1>4. \A type \in Final : Sent(type)' <=> m.type = type
  <2> SUFFICES ASSUME NEW type \in Final PROVE Sent(type)' <=> m.type = type
    OBVIOUS
  <2>1. Sent(type)' <=> \E i \in 1..Len(s2c') : s2c'[i].type = type
    BY DEF Sent
  <2>2. \A i \in 1..Len(s2c) : s2c'[i].type # type
    BY <1>1 DEF Final, Interim
  <2> QED BY <1>1, <1>2, <1>3, <2>1, <2>2
<1>5. c2s' # <<>> => c2s'[1].type = "IA_CANCEL" /\ Head(c2s').type = "IA_CANCEL"
  BY DEF Crossed
<1>6. \A i \in 1..Len(c2s') : c2s'[i].type # "HELLO"
  BY CrossedIs
<1>7. TypeOK' /\ Up'
  BY <1>1 DEF TypeOK, Up
<1>8. Tries' /\ app'.refusals <= MaxTries
  <2>1. server'.tries <= MaxTries /\ server'.tries \in Nat
    BY AuthAssumption DEF Server
  <2>2. app'.refusals \in Nat /\ MaxTries \in Nat
    BY AuthAssumption DEF App
  <2> QED BY <2>1, <2>2 DEF Tries
<1>9. Running'
  BY DEF Running
<1>10. Enrolment'
  <2>1. app.announced \in Nat /\ app.enrolled \in Nat /\ app'.enrolled \in Nat
    BY DEF TypeOK, App
  <2>2. Sent("METHODS")' <=> m.type = "METHODS"
    BY <1>4 DEF Final
  <2>3. app.announced + (IF client.registered THEN 1 ELSE 0) <= app.enrolled
    BY <2>1 DEF Enrolment
  <2>4. client'.registered <=> client.registered
    OBVIOUS
  <2>5. client'.cancelling <=> client.cancelling
    OBVIOUS
  <2> QED BY <2>1, <2>2, <2>3, <2>4, <2>5 DEF Enrolment
<1>11. Verdicted'
  <2>1. Sent("OK")' <=> m.type = "OK"
    BY <1>4 DEF Final
  <2>2. client'.state # "OK"
    BY DEF Verdicted
  <2> QED BY <2>1, <2>2 DEF Verdicted
<1>12. Heard'
  <2>1. Heard
    OBVIOUS
  <2>2. ASSUME NEW i \in 1..Len(s2c')
        PROVE  /\ i < Len(s2c') => s2c'[i].type \in Interim
               /\ s2c'[i].type \in Interim => client.ia # None
               /\ s2c'[i].type = "IA_FORM" => client.cancelling \/ i = Len(s2c')
    <3>1. CASE i \in 1..Len(s2c)
      BY <1>1, <2>1, <3>1 DEF Heard
    <3>2. CASE i = Len(s2c')
      BY <1>1, <3>2 DEF Final, Interim
    <3> QED BY <1>2, <3>1, <3>2
  <2> QED BY <2>1, <2>2 DEF Heard
<1>13. Greeting'
  <2>1. server'.err # "ORDER"
    BY DEF Greeting
  <2> QED BY <1>6, <2>1 DEF Greeting
<1>14. Turns'
  <2>1. CASE c2s' # <<>>
    <3>1. Doomed'
      BY <1>5, <2>1 DEF Doomed
    <3> QED BY <3>1 DEF Turns
  <2>2. CASE c2s' = <<>>
    <3>1. \A i : i \notin 1..Len(c2s')
      BY <2>2
    <3>2. \A i \in 1..Len(s2c') : ~(s2c'[i].type \in Interim /\ i = Len(s2c'))
      BY <1>1 DEF Interim, Final
    <3> QED BY <2>2, <3>1, <3>2 DEF Turns
  <2> QED BY <2>1, <2>2
<1> QED BY <1>7, <1>8, <1>9, <1>10, <1>11, <1>12, <1>13, <1>14

\* Or the method goes on, with a form or with a wait.
LEMMA ServerContinues ==
  ASSUME IInv, Up, server.state = "PENDING", client' = client, client.hello,
         client.need = "NOTHING",
         \A i \in 1..Len(s2c) : s2c[i].type = "IA_WAIT",
         NEW m \in ServerMsgs, m.type \in Interim, s2c' = s2c \o <<m>>,
         server' \in Server, server'.greeted, server'.err = server.err,
         server'.ia # None, server'.ia = client.ia, ~server'.fired,
         server'.state = "PENDING", server'.tries < MaxTries,
         app' \in App, app'.running = "YES", app'.waiting <=> m.type = "IA_WAIT",
         app'.strays = app'.untaken, ~app'.gone, app'.announced = app.announced,
         app'.refusals <= server'.tries, app'.enrolled = app.enrolled,
         c2s' \in Seq(ClientMsgs), Crossed
  PROVE  IInv'
<1> USE DEF IInv
<1>1. /\ s2c \in Seq(ServerMsgs) /\ s2c' \in Seq(ServerMsgs)
      /\ Len(s2c') = Len(s2c) + 1 /\ Len(s2c) \in Nat
      /\ \A i \in 1..Len(s2c) : s2c'[i] = s2c[i]
      /\ s2c'[Len(s2c')] = m
  BY Extended DEF TypeOK
<1>2. \A i \in 1..Len(s2c') : i \in 1..Len(s2c) \/ i = Len(s2c')
  BY <1>1
<1>3. Len(s2c') \in 1..Len(s2c') /\ \A i \in 1..Len(s2c) : i < Len(s2c')
  BY <1>1
<1>4. \A i \in 1..Len(s2c') : s2c'[i].type \in Interim
  BY <1>1, <1>2 DEF Interim
<1>5. ~Sent("METHODS")' /\ ~Sent("OK")'
  BY <1>4 DEF Sent, Interim
<1>6. \A i \in 1..Len(c2s') : i = 1 /\ c2s'[i].type = "IA_CANCEL" /\ client.cancelling /\ Len(c2s') = 1
  BY CrossedIs
<1>7. TypeOK' /\ Up'
  BY <1>1 DEF TypeOK, Up
<1>8. Tries' /\ app'.refusals <= MaxTries
  <2>1. server'.tries <= MaxTries /\ server'.tries \in Nat
    BY AuthAssumption DEF Server
  <2>2. app'.refusals \in Nat /\ MaxTries \in Nat
    BY AuthAssumption DEF App
  <2> QED BY <2>1, <2>2 DEF Tries
<1>9. Running'
  BY DEF Running
<1>10. Enrolment'
  <2>1. app.announced \in Nat /\ app.enrolled \in Nat /\ app'.enrolled \in Nat
    BY DEF TypeOK, App
  <2>2. app.announced + (IF client.registered THEN 1 ELSE 0) <= app.enrolled
    BY <2>1 DEF Enrolment
  <2>3. client'.registered <=> client.registered
    OBVIOUS
  <2> QED BY <1>5, <2>1, <2>2, <2>3 DEF Enrolment
<1>11. Verdicted'
  <2>1. client'.state # "OK"
    BY DEF Verdicted
  <2> QED BY <1>5, <2>1 DEF Verdicted
<1>12. Heard'
  <2>1. Heard
    OBVIOUS
  <2>2. ASSUME NEW i \in 1..Len(s2c')
        PROVE  s2c'[i].type = "IA_FORM" => client.cancelling \/ i = Len(s2c')
    BY <1>1, <1>2
  <2> QED BY <1>4, <2>1, <2>2 DEF Heard
<1>13. Greeting'
  <2>1. server'.err # "ORDER"
    BY DEF Greeting
  <2> QED BY <1>6, <2>1 DEF Greeting
<1>14. Turns'
  <2>1. app'.waiting => \A i \in 1..Len(s2c') : s2c'[i].type = "IA_WAIT"
    BY <1>1, <1>2
  <2>2. \A i \in 1..Len(s2c') : s2c'[i].type \notin Final
    BY <1>4 DEF Interim, Final
  <2>3. \A i \in 1..Len(c2s') : i = 1 /\ Len(c2s') # 2 /\ c2s'[i].type = "IA_CANCEL"
    <3>1. 1 # 2
      OBVIOUS
    <3> QED BY <1>6, <3>1, Zenon
  <2>c. \A i \in 1..Len(c2s') : client'.cancelling
    BY <1>6
  <2>4. client'.need = "NOTHING" /\ server'.ia = client'.ia
    OBVIOUS
  <2>5. \A i \in 1..Len(c2s') :
          /\ i = 1 \/ (i = 2 /\ c2s'[i].type = "IA_CANCEL")
          /\ i = 1 /\ Len(c2s') = 2 => c2s'[i].type \in {"IA_BEGIN", "IA_SUBMIT"}
          /\ c2s'[i].type = "IA_CANCEL"
    BY <2>3, Zenon
  <2> QED BY <2>1, <2>2, <2>4, <2>5, <2>c DEF Turns
<1> QED BY <1>7, <1>8, <1>9, <1>10, <1>11, <1>12, <1>13, <1>14

\* A verdict on the method that the client means.
LEMMA DecidedOK ==
  ASSUME IInv, Up, server.state = "PENDING", client' = client, client.hello,
         client.need = "NOTHING",
         \A i \in 1..Len(s2c) : s2c[i].type = "IA_WAIT",
         NEW s \in Server, NEW a \in App, NEW v, NEW mask \in SUBSET Methods,
         v \in {"MORE", "NOFORM", "UNFIT", "WAIT", "DONE", "DENIED"},
         v = "MORE" => a.forms < MaxForms,
         s.state = "PENDING", s.ia = client.ia, s.ia # None, ~s.fired, s.greeted,
         s.err = server.err, s.tries = server.tries,
         a.running = "YES", a.strays = a.untaken, ~a.gone,
         a.announced = app.announced, a.enrolled = app.enrolled, a.refusals = app.refusals,
         Decide(s, a, v, mask), c2s' \in Seq(ClientMsgs), Crossed
  PROVE  IInv'
<1> DEFINE r == Verdict(s, a, v, mask)
<1>1. s.tries < MaxTries /\ a.refusals <= s.tries
  BY DEF IInv, Tries
<1>2. Decided(s, a, r)
  BY <1>1, VerdictResult
<1>3. server' = r.s /\ app' = r.a /\ s2c' = s2c \o r.out
  BY DEF Decide
<1> HIDE DEF r
<1>4. PICK m \in ServerMsgs :
       /\ r.out = <<m>>
       /\ \/ /\ m.type \in Interim /\ r.s = s /\ r.a.running = "YES" /\ r.a.enrolled = a.enrolled
             /\ r.a.waiting <=> m.type = "IA_WAIT"
          \/ /\ m.type \in Final /\ r.s.ia = None /\ r.a.running # "YES" /\ ~r.a.waiting
             /\ r.s.state = "OK" <=> m.type = "OK"
             /\ r.a.enrolled = a.enrolled + (IF m.type = "METHODS" THEN 1 ELSE 0)
  BY <1>2 DEF Decided
<1>5. /\ server' \in Server /\ app' \in App /\ server'.greeted = s.greeted
      /\ server'.err = server.err
      /\ app'.strays = app'.untaken /\ app'.announced = app.announced /\ app'.gone = a.gone
      /\ app'.refusals <= server'.tries /\ (server'.state = "PENDING" => server'.tries < MaxTries)
      /\ s2c' = s2c \o <<m>>
  BY <1>2, <1>3, <1>4 DEF Decided
<1>6. server'.greeted /\ ~app'.gone
  BY <1>5
<1>7. CASE m.type \in Interim
  <2>1. server' = s /\ app'.running = "YES" /\ app'.enrolled = app.enrolled
        /\ (app'.waiting <=> m.type = "IA_WAIT")
    BY <1>3, <1>4, <1>7 DEF Interim, Final
  <2> QED BY <1>5, <1>6, <1>7, <2>1, ServerContinues
<1>8. CASE m.type \in Final
  <2>1. /\ server'.ia = None /\ app'.running # "YES" /\ ~app'.waiting
        /\ server'.state = "OK" <=> m.type = "OK"
        /\ app'.enrolled = app.enrolled + (IF m.type = "METHODS" THEN 1 ELSE 0)
    BY <1>3, <1>4, <1>8 DEF Interim, Final
  <2>2. /\ app.enrolled <= app'.enrolled
        /\ m.type = "METHODS" => app.enrolled + 1 <= app'.enrolled
    <3>1. app.enrolled \in Nat
      BY DEF IInv, TypeOK, App
    <3> QED BY <2>1, <3>1
  <2>3. \A i \in 1..Len(s2c) : s2c[i].type \in Interim /\ s2c[i].type # "IA_FORM"
    BY DEF Interim
  <2> QED BY <1>5, <1>6, <1>8, <2>1, <2>2, <2>3, ServerAnswers
<1> QED BY <1>4, <1>7, <1>8

-------------------------------------------------------------------------------
(* The actions of the server. *)

LEMMA ServerHelloOK ==
  ASSUME IInv, NEW mask \in Offers, ServerHello(mask)
  PROVE  IInv'
<1> USE DEF IInv
<1> DEFINE n == [server EXCEPT !.greeted = TRUE]
           o == Offer(n, mask)
<1>1. /\ Up /\ c2s # <<>> /\ Head(c2s).type = "HELLO" /\ server.state = "PENDING"
      /\ c2s' = Tail(c2s) /\ client' = client
  BY DEF ServerHello, ServerFeed
<1>2. ~server.greeted /\ client.ia = None /\ server.ia = None /\ server.err # "ORDER"
  BY <1>1, Asked DEF Greeting
<1>3. server' = o.s /\ s2c' = s2c \o o.out /\ app' = app
  BY <1>2 DEF ServerHello
<1>4. server \in Server /\ app \in App
  BY DEF TypeOK
<1>5. /\ n \in Server /\ n.greeted /\ n.ia = None /\ n.err = server.err /\ n.state = "PENDING"
      /\ n.tries = server.tries
  BY <1>1, <1>2, <1>4 DEF Server
<1> HIDE DEF n
<1>6. mask \in SUBSET Methods
  BY AuthAssumption
<1>7. /\ o.s \in Server /\ o.s.greeted = n.greeted /\ o.s.ia = n.ia /\ o.s.err = n.err
      /\ o.s.tries = n.tries /\ o.s.state \in {n.state, "DENIED"}
      /\ \E m \in ServerMsgs : o.out = <<m>> /\ m.type = "METHODS"
  BY <1>5, <1>6, OfferResult
<1> HIDE DEF o
<1>8. PICK m \in ServerMsgs : o.out = <<m>> /\ m.type = "METHODS"
  BY <1>7
<1>9. /\ server' \in Server /\ server'.greeted /\ server'.ia = None /\ server'.err = server.err
      /\ server'.tries = server.tries /\ server'.state \in {"PENDING", "DENIED"}
  BY <1>3, <1>5, <1>7
<1>10. app.running # "YES" /\ ~app.waiting /\ app.strays = app.untaken /\ ~app.gone
  BY <1>1, <1>2 DEF Running, Up
<1>11. server.tries < MaxTries /\ app.refusals <= server.tries /\ app.enrolled \in Nat
  BY <1>1, <1>4 DEF Tries, App
<1>12. /\ client.need = "NOTHING" /\ s2c = <<>> /\ Crossed /\ c2s' \in Seq(ClientMsgs)
       /\ client.hello
  BY <1>1, Requested, Asked
<1>13. app.enrolled <= app'.enrolled /\ m.type \in Final
  BY <1>3, <1>8, <1>11 DEF Final
<1>14. \A i : i \notin 1..Len(s2c)
  BY <1>12
<1> QED BY <1>1, <1>2, <1>3, <1>4, <1>8, <1>9, <1>10, <1>11, <1>12, <1>13, <1>14,
           ServerAnswers DEF None

\* A refusal, in answer to a request and with no method running.
LEMMA RefusedOK ==
  ASSUME IInv, Up, c2s # <<>>, server.state = "PENDING",
         Head(c2s).type \notin {"IA_CANCEL", "HELLO"}, c2s' = Tail(c2s), client' = client,
         server.ia = None, NEW spent, LET d == Deny(server, spent)
                                      IN  server' = d.s /\ s2c' = s2c \o d.out,
         app' = app \/ app' = [app EXCEPT !.refusals = @ + 1]
  PROVE  IInv'
<1> USE DEF IInv
<1> DEFINE d == Deny(server, spent)
<1>1. server' = d.s /\ s2c' = s2c \o d.out
  OBVIOUS
<1>2. server \in Server /\ app \in App /\ server.tries < MaxTries /\ app.refusals <= server.tries
  BY DEF TypeOK, Tries
<1>3. /\ d.s \in Server /\ d.s.greeted = server.greeted /\ d.s.ia = server.ia
      /\ d.s.err = server.err
      /\ d.s.tries = server.tries + 1 /\ d.s.state \in {server.state, "DENIED"}
      /\ d.s.state = server.state /\ server.state # "DENIED" => d.s.tries < MaxTries
      /\ \E m \in ServerMsgs : d.out = <<m>> /\ m.type = "FAIL"
  BY <1>2, DenyResult
<1> HIDE DEF d
<1>4. PICK m \in ServerMsgs : d.out = <<m>> /\ m.type = "FAIL"
  BY <1>3
<1>5. server.greeted /\ client.hello
  BY Asked, AskedGreeted
<1>6. /\ client.need = "NOTHING" /\ s2c = <<>> /\ ~app.waiting /\ Crossed
      /\ c2s' \in Seq(ClientMsgs)
  BY Requested, Asked
<1>7. /\ app' \in App /\ app'.running = app.running /\ app'.waiting = app.waiting
      /\ app'.strays = app.strays /\ app'.untaken = app.untaken /\ app'.gone = app.gone
      /\ app'.announced = app.announced /\ app'.enrolled = app.enrolled
  BY <1>2 DEF App
<1>8. app'.refusals \in {app.refusals, app.refusals + 1}
  BY <1>2 DEF App
<1>9. app'.refusals <= server'.tries
  <2>1. app.refusals \in Nat /\ server.tries \in Nat
    BY <1>2, AuthAssumption DEF App, Server
  <2> QED BY <1>1, <1>2, <1>3, <1>8, <2>1
<1>10. app'.running # "YES" /\ ~app'.waiting /\ app'.strays = app'.untaken /\ ~app'.gone
  <2>1. app.running # "YES" /\ ~app.waiting /\ app.strays = app.untaken /\ ~app.gone
    BY DEF Running, Up
  <2> QED BY <1>7, <2>1
<1>11. app.enrolled <= app'.enrolled
  BY <1>2, <1>7 DEF App
<1>12. /\ server' \in Server /\ server'.greeted /\ server'.ia = None /\ server'.err = server.err
       /\ server'.state \in {"PENDING", "DENIED"}
       /\ server'.state = "PENDING" => server'.tries < MaxTries
  BY <1>1, <1>3, <1>5
<1>13. \A i : i \notin 1..Len(s2c)
  BY <1>6
<1>14. m.type \in Final /\ s2c' = s2c \o <<m>>
  BY <1>1, <1>4 DEF Final
<1> HIDE DEF IInv
<1> QED BY <1>4, <1>5, <1>6, <1>7, <1>9, <1>10, <1>11, <1>12, <1>13, <1>14, ServerAnswers

LEMMA CredentialReadOK ==
  ASSUME IInv, NEW method \in {"PUBKEY", "PASSWORD"}, NEW good \in BOOLEAN,
         ServerFeed(method), Credential(method, good)
  PROVE  IInv'
<1> USE DEF IInv
<1>1. /\ Up /\ c2s # <<>> /\ Head(c2s).type = method /\ server.state = "PENDING"
      /\ c2s' = Tail(c2s) /\ client' = client
  BY DEF ServerFeed
<1>2. server.greeted /\ client.hello
  BY <1>1, Asked, AskedGreeted
<1>3. server.ia = None
  BY <1>1, Requested, Asked DEF Turns
<1>4. CASE method \notin server.avail
  <2>1. /\ server' = Deny(server, {}).s /\ s2c' = s2c \o Deny(server, {}).out /\ app' = app
    BY <1>2, <1>4 DEF Credential
  <2> QED BY <1>1, <1>3, <2>1, RefusedOK
<1>5. CASE method \in server.avail /\ ~good
  <2>1. /\ server' = Deny(server, {method}).s /\ s2c' = s2c \o Deny(server, {method}).out
        /\ app' = [app EXCEPT !.refusals = @ + 1]
    BY <1>2, <1>5 DEF Credential
  <2> QED BY <1>1, <1>3, <2>1, RefusedOK
<1>6. CASE method \in server.avail /\ good
  <2> DEFINE m == Msg("OK")
             n == [server EXCEPT !.state = "OK"]
  <2>1. m \in ServerMsgs /\ m.type = "OK" /\ m.type \in Final
    BY DEF Msg, ServerMsgs, Final
  <2>2. server \in Server /\ app \in App /\ app.refusals <= server.tries
    BY <1>1 DEF TypeOK, Tries
  <2>3. /\ n \in Server /\ n.greeted = server.greeted /\ n.ia = None /\ n.err = server.err
        /\ n.state = "OK" /\ n.tries = server.tries
    BY <1>3, <2>2 DEF Server, States
  <2> HIDE DEF m
  <2>4. server' = n /\ s2c' = Append(s2c, m) /\ app' = app
    BY <1>2, <1>6 DEF Credential, m
  <2> HIDE DEF n
  <2>5. s2c' = s2c \o <<m>>
    BY <2>1, <2>4, Extended DEF TypeOK
  <2>6. /\ client.need = "NOTHING" /\ s2c = <<>> /\ Crossed /\ c2s' \in Seq(ClientMsgs)
    BY <1>1, Requested, Asked
  <2>7. app.running # "YES" /\ ~app.waiting /\ app.strays = app.untaken /\ ~app.gone
    BY <1>1, <1>3 DEF Running, Up
  <2>8. app.enrolled <= app'.enrolled
    BY <2>2, <2>4 DEF App
  <2>9. \A i : i \notin 1..Len(s2c)
    BY <2>6
  <2>10. server'.greeted /\ app'.refusals <= server'.tries
    BY <1>2, <2>2, <2>3, <2>4
  <2> HIDE DEF IInv
  <2> QED BY <1>1, <1>2, <2>1, <2>2, <2>3, <2>4, <2>5, <2>6, <2>7, <2>8, <2>9, <2>10,
             ServerAnswers
<1> QED BY <1>4, <1>5, <1>6

\* What a callback may decide, and the forms it has left.
LEMMA VerdictsBound ==
  ASSUME NEW v \in BeginVerdicts \cup SubmitVerdicts \cup ResumeVerdicts
  PROVE  /\ v \in {"MORE", "NOFORM", "UNFIT", "WAIT", "DONE", "DENIED"}
         /\ v = "MORE" => app.forms < MaxForms
  BY DEF BeginVerdicts, SubmitVerdicts, ResumeVerdicts, Verdicts

\* A token that nobody takes: the method opens and ends in the same step.
LEMMA UntakenOK ==
  ASSUME IInv, Up, c2s # <<>>, Head(c2s).type = "IA_BEGIN", server.state = "PENDING",
         c2s' = Tail(c2s), client' = client, server.ia = None,
         NEW s \in Server, s.state = "PENDING", s.ia # None, ~s.fired,
         s.greeted = server.greeted, s.err = server.err, s.tries = server.tries,
         NEW spent, LET d == EndAndDeny(s, spent) IN server' = d.s /\ s2c' = s2c \o d.out,
         app' = [EndedApp(s, app) EXCEPT !.untaken = @ + 1]
  PROVE  IInv'
<1> USE DEF IInv
<1> DEFINE d == EndAndDeny(s, spent)
           n == app.strays + (IF app.running = "YES" THEN 0 ELSE 1)
           e == [app EXCEPT !.running = "NO", !.waiting = FALSE, !.strays = n]
           b == [e EXCEPT !.untaken = @ + 1]
<1>1. server' = d.s /\ s2c' = s2c \o d.out
  OBVIOUS
<1>2. /\ server \in Server /\ app \in App /\ server.tries < MaxTries
      /\ app.refusals <= server.tries
  BY DEF TypeOK, Tries
<1>3. /\ d.s \in Server /\ d.s.ia = None
      /\ d.s.greeted = s.greeted /\ d.s.err = s.err /\ d.s.tries = s.tries + 1
      /\ d.s.state \in {"PENDING", "DENIED"}
      /\ d.s.state = "PENDING" => d.s.tries < MaxTries
      /\ \E m \in ServerMsgs : d.out = <<m>> /\ m.type = "FAIL"
  BY <1>2, EndAndDenyResult
<1> HIDE DEF d
<1>4. PICK m \in ServerMsgs : d.out = <<m>> /\ m.type = "FAIL"
  BY <1>3
<1>5. server.greeted /\ client.hello
  BY Asked, AskedGreeted
<1>6. /\ client.need = "NOTHING" /\ s2c = <<>> /\ Crossed /\ c2s' \in Seq(ClientMsgs)
  BY Requested, Asked
<1>7. app.running # "YES" /\ app.strays = app.untaken /\ ~app.gone
  BY DEF Running, Up
<1>8. /\ app.untaken \in Nat /\ app.refusals \in Nat /\ app.enrolled \in Nat
      /\ server.tries \in Nat
  BY <1>2, AuthAssumption DEF App, Server
<1>9. n = app.untaken + 1 /\ n \in Nat
  BY <1>7, <1>8
<1> HIDE DEF n
<1>10. e \in App /\ e.running = "NO" /\ e.waiting = FALSE /\ e.strays = n
       /\ e.untaken = app.untaken /\ e.gone = app.gone /\ e.announced = app.announced
       /\ e.enrolled = app.enrolled /\ e.refusals = app.refusals
  BY <1>2, <1>9 DEF App
<1>11. app' = b
  BY DEF EndedApp, Cancelled, n
<1> HIDE DEF e
<1>12. e.untaken + 1 \in Nat
  BY <1>8, <1>10
<1>13. /\ b \in App /\ b.running = e.running /\ b.waiting = e.waiting /\ b.strays = e.strays
       /\ b.untaken = e.untaken + 1 /\ b.gone = e.gone /\ b.announced = e.announced
       /\ b.enrolled = e.enrolled /\ b.refusals = e.refusals
  BY <1>10, <1>12 DEF App
<1> HIDE DEF b
<1>14. /\ app' \in App /\ app'.running # "YES" /\ ~app'.waiting /\ app'.strays = app'.untaken
       /\ ~app'.gone /\ app'.announced = app.announced /\ app'.enrolled = app.enrolled
       /\ app'.refusals = app.refusals
  <2>1. b.strays = b.untaken /\ ~b.gone
    BY <1>7, <1>9, <1>10, <1>13
  <2> QED BY <1>10, <1>11, <1>13, <2>1
<1>15. app'.refusals <= server'.tries /\ app.enrolled <= app'.enrolled
  BY <1>1, <1>2, <1>3, <1>8, <1>14
<1>16. /\ server' \in Server /\ server'.greeted /\ server'.ia = None /\ server'.err = server.err
       /\ server'.state \in {"PENDING", "DENIED"}
       /\ server'.state = "PENDING" => server'.tries < MaxTries
  BY <1>1, <1>3, <1>5
<1>17. \A i : i \notin 1..Len(s2c)
  BY <1>6
<1>18. m.type \in Final /\ s2c' = s2c \o <<m>>
  BY <1>1, <1>4 DEF Final
<1> HIDE DEF IInv
<1> QED BY <1>4, <1>5, <1>6, <1>14, <1>15, <1>16, <1>17, <1>18, ServerAnswers

LEMMA ServerBeginOK ==
  ASSUME IInv, NEW mask \in Offers, NEW v \in BeginVerdicts, ServerBegin(v, mask)
  PROVE  IInv'
<1> USE DEF IInv
<1> DEFINE method == Head(c2s).method
           s == [server EXCEPT !.ia = method, !.fired = FALSE]
           a == [app EXCEPT !.running = "YES", !.waiting = FALSE]
<1>1. /\ Up /\ c2s # <<>> /\ Head(c2s).type = "IA_BEGIN" /\ server.state = "PENDING"
      /\ c2s' = Tail(c2s) /\ client' = client
  BY DEF ServerBegin, ServerFeed
<1>2. server.greeted /\ client.hello
  BY <1>1, Asked, AskedGreeted
<1>3. server.ia = None /\ client.ia = method
  BY <1>1, Requested, Asked DEF Turns
<1>s. /\ s \in Server /\ s.state = "PENDING" /\ s.ia = method /\ method # None /\ ~s.fired
      /\ s.greeted = server.greeted /\ s.err = server.err /\ s.tries = server.tries
  <2>1. method \in Interactive
    BY <1>1, Asked DEF ClientMsgs
  <2>2. method # None
    BY <2>1 DEF Interactive, None
  <2>3. server \in Server
    BY DEF TypeOK
  <2> HIDE DEF method
  <2> QED BY <1>1, <2>1, <2>2, <2>3 DEF Server
<1>4. CASE method \notin server.avail \/ "begin" \notin server.iacb
  <2>1. /\ server' = Deny(server, {}).s /\ s2c' = s2c \o Deny(server, {}).out /\ app' = app
    BY <1>2, <1>3, <1>4 DEF ServerBegin
  <2> QED BY <1>1, <1>3, <2>1, RefusedOK
<1>6. CASE /\ method \in server.avail /\ "begin" \in server.iacb
           /\ Head(c2s).token /\ "resume" \notin server.iacb
  <2>1. /\ server' = EndAndDeny(s, {method}).s /\ s2c' = s2c \o EndAndDeny(s, {method}).out
        /\ app' = [EndedApp(s, app) EXCEPT !.untaken = @ + 1]
    BY <1>2, <1>3, <1>6 DEF ServerBegin
  <2> HIDE DEF s, method, IInv
  <2> QED BY <1>1, <1>3, <1>s, <2>1, UntakenOK
<1>5. CASE /\ method \in server.avail /\ "begin" \in server.iacb
           /\ ~(Head(c2s).token /\ "resume" \notin server.iacb)
  <2>1. Decide(s, a, v, mask)
    BY <1>2, <1>3, <1>5 DEF ServerBegin
  <2>4. server \in Server /\ app \in App
    BY DEF TypeOK
  <2> HIDE DEF method
  <2>7. a \in App
    BY <2>4 DEF App
  <2>8. /\ a.running = "YES" /\ a.strays = app.strays /\ a.untaken = app.untaken /\ a.gone = app.gone
        /\ a.announced = app.announced /\ a.enrolled = app.enrolled
        /\ a.refusals = app.refusals /\ a.forms = app.forms
    BY <2>4 DEF App
  <2> HIDE DEF s, a
  <2>9. a.strays = a.untaken /\ ~a.gone /\ s.greeted
    BY <1>1, <1>2, <1>s, <2>8 DEF Running, Up
  <2>10. /\ v \in {"MORE", "NOFORM", "UNFIT", "WAIT", "DONE", "DENIED"}
         /\ v = "MORE" => a.forms < MaxForms
    BY <2>8, VerdictsBound
  <2>11. /\ client.need = "NOTHING" /\ s2c = <<>> /\ Crossed /\ c2s' \in Seq(ClientMsgs)
    BY <1>1, Requested, Asked
  <2>12. \A i : i \notin 1..Len(s2c)
    BY <2>11
  <2>13. mask \in SUBSET Methods
    BY AuthAssumption
  <2> HIDE DEF IInv
  <2> QED BY <1>1, <1>2, <1>3, <1>s, <2>1, <2>7, <2>8, <2>9, <2>10, <2>11, <2>12, <2>13,
             DecidedOK
<1> QED BY <1>4, <1>5, <1>6

LEMMA ServerSubmitOK ==
  ASSUME IInv, NEW mask \in Offers, NEW v \in SubmitVerdicts,
         NEW issues \in BOOLEAN, NEW fits \in BOOLEAN, ServerSubmit(v, mask, issues, fits)
  PROVE  IInv'
<1> USE DEF IInv
<1> DEFINE s == [server EXCEPT !.token = @ \/ issues]
<1>1. /\ Up /\ c2s # <<>> /\ Head(c2s).type = "IA_SUBMIT" /\ server.state = "PENDING"
      /\ c2s' = Tail(c2s) /\ client' = client /\ ServerFeed("IA_SUBMIT")
  BY DEF ServerSubmit, ServerFeed
<1>2. server.greeted /\ client.hello
  BY <1>1, Asked, AskedGreeted
<1>3. server.ia # None /\ client.ia = server.ia
  BY <1>1, Requested, Asked DEF Turns
<1>4. CASE ~fits \/ "submit" \notin server.iacb
  <2>1. ServerError("SIZE") \/ ServerError("SUBMIT")
    BY <1>3, <1>4 DEF ServerSubmit
  <2> QED BY <1>1, <2>1, ServerDies
<1>5. CASE fits /\ "submit" \in server.iacb
  <2>1. Decide(s, app, v, mask)
    BY <1>3, <1>5 DEF ServerSubmit
  <2>2. server \in Server /\ app \in App
    BY DEF TypeOK
  <2>3. s \in Server
    BY <2>2 DEF Server
  <2>4. /\ s.state = "PENDING" /\ s.ia = server.ia /\ s.fired = server.fired
        /\ s.greeted = server.greeted /\ s.err = server.err /\ s.tries = server.tries
    BY <1>1, <2>2 DEF Server
  <2> HIDE DEF s
  <2>5. ~s.fired /\ s.greeted /\ app.running = "YES" /\ app.strays = app.untaken /\ ~app.gone
    <3>1. ~server.fired /\ app.running = "YES" /\ app.strays = app.untaken /\ ~app.gone
      BY <1>1, <1>3 DEF Running, Up
    <3> QED BY <1>2, <2>4, <3>1
  <2>6. /\ v \in {"MORE", "NOFORM", "UNFIT", "WAIT", "DONE", "DENIED"}
        /\ v = "MORE" => app.forms < MaxForms
    BY VerdictsBound
  <2>7. /\ client.need = "NOTHING" /\ s2c = <<>> /\ Crossed /\ c2s' \in Seq(ClientMsgs)
    BY <1>1, Requested, Asked
  <2>8. \A i : i \notin 1..Len(s2c)
    BY <2>7
  <2>9. mask \in SUBSET Methods
    BY AuthAssumption
  <2> HIDE DEF IInv
  <2> QED BY <1>1, <1>2, <1>3, <2>1, <2>2, <2>3, <2>4, <2>5, <2>6, <2>7, <2>8, <2>9, DecidedOK
<1> QED BY <1>4, <1>5

\* The cancelled callback, when the method that runs has not been accounted for.
LEMMA EndedAppResult ==
  ASSUME NEW s \in Server, NEW a \in App, s.ia # None => ~s.fired /\ a.running = "YES",
         s.ia = None => a.running # "YES" /\ ~a.waiting, a.strays = a.untaken
  PROVE  LET e == EndedApp(s, a) IN
         /\ e \in App /\ e.running # "YES" /\ ~e.waiting /\ e.strays = e.untaken /\ e.gone = a.gone
         /\ e.announced = a.announced /\ e.enrolled = a.enrolled /\ e.refusals = a.refusals
<1> DEFINE n == a.strays + (IF a.running = "YES" THEN 0 ELSE 1)
           e == [a EXCEPT !.running = "NO", !.waiting = FALSE, !.strays = n]
<1>1. CASE s.ia = None
  <2>1. EndedApp(s, a) = a
    BY <1>1 DEF EndedApp
  <2> QED BY <1>1, <2>1
<1>2. CASE s.ia # None
  <2>1. EndedApp(s, a) = e
    BY <1>2 DEF EndedApp, Cancelled
  <2>2. n \in Nat /\ n = a.strays
    BY <1>2 DEF App
  <2> HIDE DEF n
  <2>3. e \in App
    BY <2>2 DEF App
  <2>4. /\ e.running = "NO" /\ e.waiting = FALSE /\ e.strays = n /\ e.untaken = a.untaken
        /\ e.gone = a.gone
        /\ e.announced = a.announced /\ e.enrolled = a.enrolled /\ e.refusals = a.refusals
    BY DEF App
  <2> HIDE DEF e
  <2> QED BY <2>1, <2>2, <2>3, <2>4
<1> QED BY <1>1, <1>2

LEMMA ServerCancelOK ==
  ASSUME IInv, NEW mask \in Offers, ServerCancel(mask)
  PROVE  IInv'
<1> USE DEF IInv
<1> DEFINE n == [server EXCEPT !.ia = None, !.fired = @ \/ server.ia # None]
           o == Offer(n, mask)
           e == EndedApp(server, app)
<1>1. /\ Up /\ c2s # <<>> /\ Head(c2s).type = "IA_CANCEL" /\ server.state = "PENDING"
      /\ c2s' = Tail(c2s) /\ client' = client /\ ServerFeed("IA_CANCEL")
  BY DEF ServerCancel, ServerFeed
<1>2. server.greeted /\ client.hello
  BY <1>1, Asked, AskedGreeted
<1>3. CASE server.ia = None
  <2>1. ServerError("CANCEL")
    BY <1>3 DEF ServerCancel
  <2> QED BY <1>1, <2>1, ServerDies
<1>4. CASE server.ia # None
  <2>1. server' = o.s /\ s2c' = s2c \o o.out /\ app' = e
    BY <1>4 DEF ServerCancel, EndedServer
  <2>2. server \in Server /\ app \in App
    BY DEF TypeOK
  <2>3. /\ n \in Server /\ n.greeted = server.greeted /\ n.ia = None /\ n.err = server.err
        /\ n.state = "PENDING" /\ n.tries = server.tries
    BY <1>1, <2>2 DEF Server
  <2> HIDE DEF n
  <2>4. mask \in SUBSET Methods
    BY AuthAssumption
  <2>5. /\ o.s \in Server /\ o.s.greeted = n.greeted /\ o.s.ia = n.ia /\ o.s.err = n.err
        /\ o.s.tries = n.tries /\ o.s.state \in {n.state, "DENIED"}
        /\ \E m \in ServerMsgs : o.out = <<m>> /\ m.type = "METHODS"
    BY <2>3, <2>4, OfferResult
  <2> HIDE DEF o
  <2>6. PICK m \in ServerMsgs : o.out = <<m>> /\ m.type = "METHODS"
    BY <2>5
  <2>7. /\ e \in App /\ e.running # "YES" /\ ~e.waiting /\ e.strays = e.untaken /\ e.gone = app.gone
        /\ e.announced = app.announced /\ e.enrolled = app.enrolled /\ e.refusals = app.refusals
    BY <2>2, EndedAppResult DEF Running
  <2> HIDE DEF e
  <2>8. ~Doomed
    BY <1>1, <1>4 DEF Doomed
  <2>9. client.cancelling /\ client.need = "NOTHING"
    BY <1>1, <2>8, Asked DEF Turns
  <2>10. c2s' = <<>>
    <3>1. \A i \in 1..Len(c2s) : i \in {1, 2}
      BY <1>1, <2>8 DEF Turns
    <3>2. Len(c2s) \in 1..Len(c2s)
      BY <1>1, Asked
    <3>3. Len(c2s) # 2
      BY <1>1, <2>8, Asked DEF Turns
    <3> QED BY <1>1, <3>1, <3>2, <3>3, Asked
  <2>11. ASSUME NEW i \in 1..Len(s2c) PROVE s2c[i].type \in Interim
    <3>1. s2c[i].type \notin Final
      BY <1>1, <2>8 DEF Turns
    <3>2. s2c[i] \in ServerMsgs
      BY DEF TypeOK
    <3>3. s2c[i].type \in Final \cup Interim
      BY <3>2 DEF ServerMsgs, Final, Interim
    <3> QED BY <3>1, <3>3
  <2>12. /\ server' \in Server /\ server'.greeted /\ server'.ia = None /\ server'.err = server.err
         /\ server'.state \in {"PENDING", "DENIED"} /\ server'.tries = server.tries
    BY <1>2, <2>1, <2>3, <2>5
  <2>13. server'.tries < MaxTries /\ app'.refusals <= server'.tries
    BY <1>1, <2>1, <2>7, <2>12 DEF Tries
  <2>14. app.enrolled <= app'.enrolled /\ ~app'.gone
    BY <1>1, <2>1, <2>2, <2>7 DEF App, Up
  <2>15. Crossed /\ c2s' \in Seq(ClientMsgs) /\ m.type \in Final /\ s2c' = s2c \o <<m>>
    BY <2>1, <2>6, <2>10 DEF Crossed, Final
  <2> HIDE DEF IInv
  <2> QED BY <1>1, <1>2, <2>1, <2>6, <2>7, <2>9, <2>11, <2>12, <2>13, <2>14, <2>15, ServerAnswers
<1> QED BY <1>3, <1>4

LEMMA ServerResumeOK ==
  ASSUME IInv, NEW mask \in Offers, NEW v \in ResumeVerdicts, ServerResume(v, mask)
  PROVE  IInv'
<1> USE DEF IInv
<1>1. Up /\ app.waiting /\ client' = client /\ c2s' = c2s
  BY DEF ServerResume
<1>2. server.ia # None /\ ~server.fired /\ app.running = "YES" /\ app.strays = app.untaken /\ ~app.gone
  BY <1>1 DEF Running, Up
<1>3. server \in Server /\ app \in App /\ c2s \in Seq(ClientMsgs)
  BY DEF TypeOK
<1>4. CASE server.state # "PENDING"
  <2> DEFINE b == [app EXCEPT !.waiting = FALSE]
  <2>1. app' = b /\ UNCHANGED <<server, s2c, client, c2s>>
    BY <1>1, <1>4 DEF ServerResume
  <2>2. b \in App
    BY <1>3 DEF App
  <2>3. /\ b.running = app.running /\ b.waiting = FALSE /\ b.strays = app.strays /\ b.untaken = app.untaken
        /\ b.gone = app.gone /\ b.announced = app.announced /\ b.enrolled = app.enrolled
        /\ b.refusals = app.refusals
    BY <1>3 DEF App
  <2> HIDE DEF b
  <2>4. TypeOK' /\ app'.refusals <= MaxTries /\ Tries' /\ Up'
    <3>1. ~b.gone
      BY <1>2, <2>3
    <3> QED BY <1>1, <2>1, <2>2, <2>3, <3>1 DEF TypeOK, Tries, Up
  <2>5. Running'
    <3>1. b.strays = b.untaken
      BY <1>2, <2>3
    <3> QED BY <1>2, <2>1, <2>3, <3>1 DEF Running
  <2>6. Enrolment'
    BY <2>1, <2>3 DEF Enrolment, Sent
  <2>7. Heard' /\ Greeting' /\ Verdicted'
    BY <1>1, <2>1 DEF Heard, Greeting, Verdicted, Sent
  <2>8. Turns'
    BY <1>4, <2>1 DEF Turns, Doomed
  <2> QED BY <2>4, <2>5, <2>6, <2>7, <2>8
<1>5. CASE server.state = "PENDING"
  <2>1. Decide(server, app, v, mask)
    BY <1>2, <1>5 DEF ServerResume
  <2>2. ~Doomed
    BY <1>2, <1>5 DEF Doomed
  <2>3. \A i \in 1..Len(c2s) : c2s[i].type = "IA_CANCEL" /\ client.cancelling /\ i \in {1, 2}
    BY <1>1, <2>2 DEF Turns
  <2>4. Crossed
    <3>1. CASE c2s = <<>>
      BY <1>1, <3>1 DEF Crossed
    <3>2. CASE c2s # <<>>
      <4>1. Len(c2s) \in 1..Len(c2s) /\ 1 \in 1..Len(c2s)
        BY <1>1, <3>2, Asked
      <4>2. Len(c2s) # 2
        BY <1>1, <2>2, <2>3, <4>1 DEF Turns
      <4>3. Len(c2s) = 1 /\ c2s[1].type = "IA_CANCEL" /\ client.cancelling
        BY <2>3, <4>1, <4>2
      <4> QED BY <1>1, <4>3 DEF Crossed
    <3> QED BY <3>1, <3>2
  <2>5. client.need = "NOTHING" /\ client.ia = server.ia
    <3>1. client.need \notin {"KEY", "PASSWORD", "METHOD", "FORM"}
      BY <1>1, <1>2, <2>2 DEF Turns
    <3>2. client.need \in Needs
      BY DEF TypeOK, Client
    <3> QED BY <1>1, <1>2, <2>2, <3>1, <3>2 DEF Turns, Needs
  <2>6. \A i \in 1..Len(s2c) : s2c[i].type = "IA_WAIT"
    BY <1>1, <1>2, <2>2 DEF Turns
  <2>7. client.hello /\ server.greeted
    BY <1>1, <1>2, <2>5, OpenIsGreeted
  <2>8. /\ v \in {"MORE", "NOFORM", "UNFIT", "WAIT", "DONE", "DENIED"}
        /\ v = "MORE" => app.forms < MaxForms
    BY VerdictsBound
  <2>9. mask \in SUBSET Methods
    BY AuthAssumption
  <2> HIDE DEF IInv
  <2> QED BY <1>1, <1>2, <1>3, <1>5, <2>1, <2>4, <2>5, <2>6, <2>7, <2>8, <2>9, DecidedOK
<1> QED BY <1>4, <1>5

-------------------------------------------------------------------------------
(* The beginning, the end of the session, and every step between. *)

LEMMA SessionEndsOK == IInv /\ SessionEnds => IInv'
<1> SUFFICES ASSUME IInv, SessionEnds PROVE IInv'
  OBVIOUS
<1> USE DEF IInv
<1> DEFINE e == EndedApp(server, app)
           b == [e EXCEPT !.gone = TRUE, !.waiting = FALSE]
<1>1. /\ Up /\ client' = ClientInit /\ server' = ServerInit /\ app' = b
      /\ c2s' = <<>> /\ s2c' = <<>>
  BY DEF SessionEnds
<1>2. /\ e \in App /\ e.running # "YES" /\ e.strays = e.untaken
      /\ e.announced = app.announced /\ e.enrolled = app.enrolled /\ e.refusals = app.refusals
  BY EndedAppResult DEF Running, TypeOK
<1> HIDE DEF e
<1>3. b \in App
  BY <1>2 DEF App
<1>4. /\ b.running = e.running /\ b.waiting = FALSE /\ b.strays = e.strays /\ b.untaken = e.untaken /\ b.gone = TRUE
      /\ b.announced = e.announced /\ b.enrolled = e.enrolled /\ b.refusals = e.refusals
  BY <1>2 DEF App
<1> HIDE DEF b
<1>5. client' \in Client /\ ~client'.registered
  BY <1>1, AuthAssumption DEF ClientInit, Client, States, Needs
<1>6. server' \in Server /\ server'.ia = None
  BY <1>1, AuthAssumption DEF ServerInit, Server, States
<1>7. TypeOK' /\ ~Up'
  BY <1>1, <1>3, <1>4, <1>5, <1>6 DEF TypeOK, Up
<1>8. Running'
  <2>1. b.strays = b.untaken
    BY <1>2, <1>4
  <2> QED BY <1>1, <1>2, <1>4, <1>6, <2>1 DEF Running
<1>9. app'.refusals <= MaxTries
  BY <1>1, <1>2, <1>4
<1>10. Enrolment'
  <2>1. ~Sent("METHODS")'
    BY <1>1 DEF Sent
  <2>2. app.announced \in Nat /\ app.enrolled \in Nat
    BY DEF TypeOK, App
  <2>3. app'.announced = app.announced /\ app'.enrolled = app.enrolled
    BY <1>1, <1>2, <1>4
  <2> QED BY <1>5, <2>1, <2>2, <2>3 DEF Enrolment
<1>11. Orderly'
  BY <1>1 DEF Orderly, ClientInit, ServerInit
<1> QED BY <1>7, <1>8, <1>9, <1>10, <1>11

LEMMA InitOK == Init => IInv
<1> SUFFICES ASSUME Init PROVE IInv
  OBVIOUS
<1>1. /\ client = ClientInit /\ app = AppInit /\ c2s = <<>> /\ s2c = <<>>
  BY DEF Init
<1>0. PICK cb \in Callbacks : server = ServerIa(cb)
  BY DEF Init
<1>2. client \in Client
  BY <1>1, AuthAssumption DEF ClientInit, Client, States, Needs
<1>3. server \in Server
  <2>1. ServerInit \in Server /\ cb \in SUBSET CallbackNames
    BY AuthAssumption DEF ServerInit, Server, States
  <2> QED BY <1>0, <2>1 DEF ServerIa, Server
<1>4. app \in App
  BY <1>1, AuthAssumption DEF AppInit, App
<1>5. /\ client.state = "PENDING" /\ client.need = "NOTHING" /\ client.ia = None
      /\ client.err = "NONE" /\ ~client.hello /\ ~client.registered /\ ~client.cancelling
  BY <1>1 DEF ClientInit
<1>6. /\ server.state = "PENDING" /\ server.tries = 0 /\ server.ia = None /\ server.err = "NONE"
      /\ ~server.greeted
  BY <1>0 DEF ServerIa, ServerInit
<1>7. /\ app.running = "NO" /\ ~app.waiting /\ app.strays = app.untaken /\ app.refusals = 0
      /\ app.enrolled = 0 /\ app.announced = 0
  BY <1>1 DEF AppInit
<1>8. \A i : i \notin 1..Len(c2s) /\ i \notin 1..Len(s2c)
  BY <1>1
<1>9. \A type : ~Sent(type)
  BY <1>8 DEF Sent
<1>10. TypeOK
  BY <1>1, <1>2, <1>3, <1>4 DEF TypeOK
<1>11. Running /\ app.refusals <= MaxTries /\ Tries /\ Enrolment
  BY <1>5, <1>6, <1>7, <1>9, AuthAssumption DEF Running, Tries, Enrolment
<1>12. Heard /\ Greeting
  BY <1>1, <1>5, <1>6, <1>8 DEF Heard, Greeting
<1>13. Turns /\ Verdicted
  BY <1>1, <1>5, <1>6, <1>7, <1>8, <1>9 DEF Turns, Verdicted
<1>14. Orderly
  BY <1>5, <1>6 DEF Orderly
<1> QED BY <1>10, <1>11, <1>12, <1>13, <1>14 DEF IInv

LEMMA Inductive == IInv /\ [Next]_vars => IInv'
<1> SUFFICES ASSUME IInv, [Next]_vars PROVE IInv'
  OBVIOUS
<1>1. CASE ClientApp
  <2>1. ASSUME NEW b \in BOOLEAN, SupplyKey(b) PROVE IInv'
    BY <2>1, CredentialOK DEF SupplyKey
  <2>2. ASSUME NEW b \in BOOLEAN, SupplyPassword(b) PROVE IInv'
    BY <2>2, CredentialOK DEF SupplyPassword
  <2> QED BY <1>1, <2>1, <2>2, StartOK, SupplyMethodOK, CancelOK, SubmitOK, ResumePendingOK,
             TakeRegisteredOK DEF ClientApp
<1>2. CASE ClientFeeds
  BY <1>2, ClientMethodsOK, ClientOkOK, ClientFailOK, ClientFormOK, ClientWaitOK,
     ClientRefusesOK DEF ClientFeeds
<1>3. CASE ServerFeeds
  BY <1>3, ServerHelloOK, ServerCancelOK, ServerBeginOK, ServerSubmitOK, CredentialReadOK,
     ServerRefusesOK DEF ServerFeeds, ServerPubkey, ServerPassword
<1>4. CASE ServerApp
  BY <1>4, ServerResumeOK DEF ServerApp
<1>5. CASE SessionEnds
  BY <1>5, SessionEndsOK
<1>6. CASE UNCHANGED vars
  BY <1>6 DEF vars, IInv, TypeOK, Running, Enrolment, Up, Heard, Greeting, Turns, Doomed,
     Verdicted, Tries, Sent, Orderly
<1> QED BY <1>1, <1>2, <1>3, <1>4, <1>5, <1>6 DEF Next

LEMMA Invariant == Spec => []IInv
  BY InitOK, Inductive, PTL DEF Spec

-------------------------------------------------------------------------------
(* Whatever the two applications offer, choose and decide, and however a       *)
(* cancel crosses a form, a verdict or a new offer, neither machine sees a     *)
(* message out of order, a client that is OK was accepted, and an acceptance   *)
(* is on its way until the client has it or has given up (nc_auth_feed).       *)
THEOREM AgreementHolds == Spec => []Agreement
<1>1. IInv => Agreement
  <2> SUFFICES ASSUME IInv PROVE Agreement
    OBVIOUS
  <2>1. CASE Up
    <3>1. DOMAIN s2c = 1..Len(s2c)
      BY DEF IInv, TypeOK
    <3>2. client.err # "ORDER" /\ server.err # "ORDER"
      BY <2>1 DEF IInv, Heard, Greeting
    <3> QED BY <2>1, <3>1, <3>2 DEF IInv, Verdicted, Sent, Agreement, Orderly
  <2>2. CASE ~Up
    BY <2>2 DEF IInv, Agreement, Orderly
  <2> QED BY <2>1, <2>2
<1> QED BY <1>1, Invariant, PTL

(* Whatever callbacks it has, the application hears the end of every method it *)
(* was asked to begin, from its own verdict or from cancelled; and cancelled   *)
(* comes with nothing running once for every token that was refused for want   *)
(* of a resume callback, and never else (nc_auth_i_ia_end, nc_auth_ia.c:1099). *)
THEOREM AccountedHolds == Spec => []Accounted
<1>1. IInv => Accounted
  BY DEF IInv, Running, Accounted
<1> QED BY <1>1, Invariant, PTL

(* No interleaving of wrong credentials, finished registrations and cancels    *)
(* gives a connection more than NC_AUTH_MAX_TRIES wrong answers                *)
(* (nc_auth_i_server_deny counts across offers).                               *)
THEOREM GuessesBoundedHolds == Spec => []GuessesBounded
<1>1. IInv => GuessesBounded
  BY DEF IInv, GuessesBounded
<1> QED BY <1>1, Invariant, PTL

(* A client announces a registration at most once for each account that the    *)
(* server's application created, although the same METHODS message also        *)
(* answers a cancel (the registered flag of client_feed).                      *)
THEOREM RegisteredIsRealHolds == Spec => []RegisteredIsReal
<1>1. IInv => RegisteredIsReal
  <2> SUFFICES ASSUME IInv PROVE RegisteredIsReal
    OBVIOUS
  <2>1. app.announced \in Nat /\ app.enrolled \in Nat
    BY DEF IInv, TypeOK, App
  <2> QED BY <2>1 DEF IInv, Enrolment, RegisteredIsReal
<1> QED BY <1>1, Invariant, PTL

-------------------------------------------------------------------------------
(* The auth example.  Until the client has its verdict the two machines keep   *)
(* the invariant above; afterwards only application data is under way, and the *)
(* handshake below decides when a message may be read at all.                  *)

\* The link of each end.
LC == link["client"]
LS == link["server"]

App1 == [type : {"APP"}]
AnyClient == ClientMsgs \cup App1

\* A line of a file, and the files.
Secrets == Passwords \cup HostKeys \cup {Empty, "absent", "broken"}
FileLine ==
  [name : {FirstWord[u] : u \in Users \cup {Host}} \cup {OtherName}, cut : Cuts,
   value : Secrets \cup {Undecodable}]
Disk == [passwd : Seq(FileLine), authkeys : {<<Line(u, "sealed", "whole")>> : u \in Users},
         known : Seq(FileLine), hostkey : HostKeys \cup {"absent", "broken"}]
Prog == [user : Users, register : BOOLEAN, key : NcKeygen,
         asking : {"NOTHING", "KEY", "PASSWORD", "FORM"},
         vals : Seq(Users \cup Passwords \cup {Empty}),
         secret : Passwords \cup {Empty}, lines : Nat]
Tool == [user : Users \cup {Empty, "added"}, password : Passwords \cup {Empty}]
Hist == [sessions : Nat, keys : SUBSET HostKeys, faults : Nat, lost : BOOLEAN,
         full : BOOLEAN, promised : SUBSET (Users \X (Passwords \cup {Empty})),
         harmed : SUBSET ({FirstWord[u] : u \in Users} \X (Passwords \cup {Empty})),
         raced : SUBSET {FirstWord[u] : u \in Users}, dropped : BOOLEAN]

LinkTypes ==
  /\ link \in [Ends -> Link] /\ net \subseteq Datagram /\ prog \in Prog
  /\ disk \in Disk /\ tool \in Tool /\ hist \in Hist

\* The login before and after the client's verdict.
Conversation ==
  /\ Up
  /\ client.state # "OK" => IInv
  /\ client.state = "OK" =>
       /\ client \in Client /\ server \in Server /\ app \in App
       /\ c2s \in Seq(AnyClient) /\ s2c \in Seq(App1)
       /\ server.state = "OK" /\ client.need = "NOTHING" /\ client.hello
       /\ (\E i \in 1..Len(c2s) : c2s[i].type = "APP") \/ s2c # <<>> => LC.up
  /\ LC.up => client.state = "OK"
  /\ client.hello => LC.auth_started

\* What the server's callbacks leave to be decided.
Choosing ==
  /\ ~client.chose
  /\ server.avail \subseteq SrvMethods /\ server.ia \in {None, "REGISTER"}

\* Nothing reaches the server's channel before its login has begun.
Shaken ==
  /\ LC.out = {} /\ "INIT" \notin LS.out /\ ~LS.failed
  /\ LS.run # "exit" /\ LS.phase = "idle" => LS.out = {}
  /\ \A d \in net : d.kind = "INIT" => d.to = "server"
  /\ LC.conn # "NEW" \/ LC.tx \/ LC.auth_started => LC.ready
  /\ LC.up => LC.auth_started
  /\ ~LS.auth_started =>
       /\ ~LS.rx /\ LC.conn # "CONNECTED" /\ ~LC.tx
       /\ \A d \in net : d.kind # "ACCEPT" /\ (d.to = "server" => d.kind \notin {"OPEN", "BYE"})
       /\ LS.run # "exit" /\ "ACCEPT" \in LS.out => LS.conn = "CONNECTED"

\* An end that was told of the end has stopped its loop.
Calm(l) == l.down # None => l.run # "on"

\* A server that has said OK is up, or its loop has stopped before.
ServerUp ==
  /\ Calm(LC) /\ Calm(LS)
  /\ server.state = "OK" => LS.up \/ LS.run # "on"
  /\ (\E i \in 1..Len(c2s) : c2s[i].type = "APP") =>
       LS.up \/ LS.run = "exit" \/ (LS.run = "stopping" /\ LS.phase = "idle")

\* The terminal asks what the login needs.
Asking ==
  /\ prog.asking # "NOTHING" => prog.asking = client.need
  /\ LC.phase = "need" => client.need # "NOTHING" /\ prog.asking = "NOTHING"

\* The form: answers of their kinds, complete before they are sent.
Filling ==
  /\ Len(prog.vals) <= 3 /\ \A i \in 1..Len(prog.vals) : prog.vals[i] \in Fields[i]
  /\ prog.asking = "FORM" => Len(prog.vals) < 3
  /\ prog.register =>
       /\ app.forms = 0 /\ server.ia = None
       /\ ~Doomed => \A i \in 1..Len(c2s) : c2s[i].type # "IA_BEGIN"
  /\ ~Doomed => \A i \in 1..Len(c2s) :
       /\ c2s[i].type = "IA_BEGIN" => app.forms = 0
       /\ c2s[i].type = "IA_SUBMIT" => app.forms < MaxForms /\ Len(prog.vals) = 3

\* The files.
Whole(file) == \A i \in 1..Len(file) : file[i].cut = "whole"
\* An entry that works though its line was cut is one that the next writer spoils.
Last(file) == file[Len(file)]
Working(line) == line.value # Undecodable /\ line.name # OtherName
TornHarmed ==
  Torn(disk.passwd) /\ Working(Last(disk.passwd)) =>
    <<Last(disk.passwd).name, Last(disk.passwd).value>> \in hist.harmed
Files ==
  /\ ~hist.full => Whole(disk.passwd) /\ Whole(disk.known)
  /\ TornHarmed
  /\ PromisesKept
Credentials ==
  server.state = "OK" =>
    \/ CheckPassword(disk.passwd, prog.user, prog.secret)
    \/ AuthorizedKey(disk.authkeys, prog.user, prog.key)
    \/ hist.full
Trusted ==
  LC.ready /\ LC.run # "exit" => KnownHost(disk.known, Host, disk.hostkey) = "MATCH" \/ hist.full

LinkInv ==
  /\ LinkTypes /\ Conversation /\ Choosing /\ Shaken /\ ServerUp
  /\ Asking /\ Filling /\ Files /\ Credentials /\ Trusted /\ ~hist.dropped

-------------------------------------------------------------------------------
(* The files of the keystore. *)

LEMMA FirstOfThem ==
  ASSUME NEW S \in SUBSET Nat, S # {}
  PROVE  First(S) \in S /\ \A j \in S : First(S) <= j
<1>1. \E i \in S : \A j \in S : i <= j
  BY LeastNatural
<1> QED BY <1>1 DEF First

LEMMA LineTyped ==
  ASSUME NEW name \in Users \cup {Host}, NEW value \in Secrets, NEW cut \in Cuts
  PROVE  LET l == Line(name, value, cut) IN
         /\ l \in FileLine /\ l.cut = cut /\ l.name \in {FirstWord[name], OtherName}
         /\ l.value \in {value, Undecodable}
         /\ Plain(name) /\ cut = "whole" => l.name = name /\ l.value = value
<1>1. name \in DOMAIN FirstWord
  BY DemoAssumption
<1>2. Plain(name) => name \notin Split
  BY <1>1, NameAssumption
<1> QED BY <1>2 DEF Line, FileLine, Plain

LEMMA JoinedIs ==
  ASSUME NEW last \in FileLine, NEW line \in FileLine
  PROVE  LET j == Joined(last, line) IN
         /\ j \in FileLine /\ j.name = last.name /\ j.cut = line.cut
         /\ ~Working(j)
  BY DEF Joined, FileLine, Working

\* A file after a write: as it was, one line longer, or with another last line.
LEMMA AppendIs ==
  ASSUME NEW file \in Seq(FileLine), NEW name \in Users \cup {Host}, NEW value \in Secrets,
         NEW cut \in Cuts
  PROVE  LET after == AppendLine(file, name, value, cut)
             n == Len(file)
         IN  /\ n \in Nat /\ after \in Seq(FileLine)
             /\ cut = "nothing" => after = file
             /\ cut # "nothing" /\ ~Torn(file) =>
                  /\ Len(after) = n + 1 /\ after[n + 1] = Line(name, value, cut)
                  /\ \A i \in 1..n : after[i] = file[i]
             /\ cut # "nothing" /\ Torn(file) =>
                  /\ Len(after) = n /\ n \in 1..n
                  /\ after[n] = Joined(file[n], Line(name, value, cut))
                  /\ \A i \in 1..n : i # n => after[i] = file[i]
<1> DEFINE new == Line(name, value, cut)
           n == Len(file)
<1>1. new \in FileLine
  BY LineTyped
<1> HIDE DEF new
<1>2. n \in Nat
  OBVIOUS
<1>3. CASE cut = "nothing"
  BY <1>2, <1>3 DEF AppendLine
<1>4. CASE cut # "nothing" /\ ~Torn(file)
  <2>1. AppendLine(file, name, value, cut) = Append(file, new)
    BY <1>4 DEF AppendLine, new
  <2> QED BY <1>1, <1>4, <2>1 DEF new
<1>5. CASE cut # "nothing" /\ Torn(file)
  <2> DEFINE j == Joined(file[n], new)
             after == [file EXCEPT ![n] = j]
  <2>1. file # <<>>
    BY <1>5 DEF Torn
  <2>2. n \in 1..n /\ file[n] \in FileLine /\ file \in [1..n -> FileLine]
    BY <2>1
  <2>3. AppendLine(file, name, value, cut) = after
    BY <1>5 DEF AppendLine, new
  <2>4. j \in FileLine
    BY <1>1, <2>2, JoinedIs
  <2> HIDE DEF j
  <2> HIDE DEF n
  <2>5. after \in [1..n -> FileLine]
    BY <2>2, <2>4
  <2>6. after \in Seq(FileLine) /\ Len(after) = n
    BY <1>2, <2>5, IsASeq
  <2>7. after[n] = j /\ \A i \in 1..n : i # n => after[i] = file[i]
    BY <2>2
  <2> HIDE DEF after
  <2> QED BY <1>2, <1>5, <2>2, <2>3, <2>6, <2>7 DEF j, new, n
<1> QED BY <1>3, <1>4, <1>5

\* The scan for a name after a write.  What was found first is found first, unless
\* it is the line that is written on to.
LEMMA AppendScan ==
  ASSUME NEW file \in Seq(FileLine), NEW name \in Users \cup {Host}, NEW value \in Secrets,
         NEW cut \in Cuts, NEW u, Torn(file) => u # OtherName
  PROVE  LET after == AppendLine(file, name, value, cut) IN
         /\ \A pw : /\ CheckPassword(file, u, pw)
                    /\ ~(Torn(file) /\ Last(file).name = u /\ Last(file).value = pw)
                    => CheckPassword(after, u, pw)
         /\ u # OtherName /\ u # FirstWord[name] /\ Matches(file, u) = {} => Matches(after, u) = {}
<1> DEFINE new == Line(name, value, cut)
           after == AppendLine(file, name, value, cut)
           n == Len(file)
           m == Matches(file, u)
           k == Matches(after, u)
<1>1. /\ n \in Nat /\ after \in Seq(FileLine)
      /\ cut = "nothing" => after = file
      /\ cut # "nothing" /\ ~Torn(file) =>
           /\ Len(after) = n + 1 /\ after[n + 1] = new
           /\ \A i \in 1..n : after[i] = file[i]
      /\ cut # "nothing" /\ Torn(file) =>
           /\ Len(after) = n /\ n \in 1..n
           /\ after[n] = Joined(file[n], new)
           /\ \A i \in 1..n : i # n => after[i] = file[i]
  BY AppendIs
<1>2. new \in FileLine /\ new.name \in {FirstWord[name], OtherName}
  BY LineTyped
<1> HIDE DEF new, after
<1>3. /\ m \subseteq 1..n /\ 1..n \subseteq Nat
      /\ \A i \in 1..n : i \in m <=> file[i].name = u /\ file[i].value # Undecodable
  BY <1>1 DEF Matches
<1>4. /\ k \subseteq 1..Len(after) /\ 1..Len(after) \subseteq Nat
      /\ \A i \in 1..Len(after) : i \in k <=> after[i].name = u /\ after[i].value # Undecodable
  BY <1>1 DEF Matches
<1>5. CASE cut = "nothing"
  BY <1>1, <1>5 DEF after
<1>6. CASE cut # "nothing" /\ ~Torn(file)
  <2>1. /\ \A i \in 1..n : i \in 1..Len(after) /\ (i \in k <=> i \in m)
        /\ \A i \in k : i \in m \/ (i = n + 1 /\ new.name = u)
    BY <1>1, <1>3, <1>4, <1>6
  <2> HIDE DEF m, k
  <2>2. ASSUME NEW pw, CheckPassword(file, u, pw) PROVE CheckPassword(after, u, pw)
    <3>1. m # {} /\ file[First(m)].value = pw
      BY <2>2 DEF CheckPassword, m
    <3>2. m \in SUBSET Nat /\ k \in SUBSET Nat
      BY <1>3, <1>4
    <3>3. First(m) \in m /\ \A j \in m : First(m) <= j
      BY <3>1, <3>2, FirstOfThem
    <3>4. First(m) \in k /\ First(m) \in 1..n
      BY <1>3, <2>1, <3>3
    <3>5. First(k) \in k /\ \A j \in k : First(k) <= j
      BY <3>2, <3>4, FirstOfThem
    <3>6. First(k) = First(m)
      <4>1. First(k) <= First(m)
        BY <3>4, <3>5
      <4>2. First(k) \in m
        BY <1>1, <2>1, <3>4, <3>5, <4>1
      <4>3. First(m) <= First(k) /\ First(k) \in Nat /\ First(m) \in Nat
        BY <3>2, <3>3, <3>4, <4>2
      <4> QED BY <4>1, <4>3
    <3>7. after[First(k)].value = pw
      BY <1>1, <1>6, <3>1, <3>4, <3>6
    <3> QED BY <3>4, <3>7 DEF CheckPassword, k
  <2>3. ASSUME u # OtherName, u # FirstWord[name], m = {} PROVE k = {}
    BY <1>2, <2>1, <2>3
  <2> QED BY <2>2, <2>3 DEF after, m, k
<1>7. CASE cut # "nothing" /\ Torn(file)
  <2>0. file[n] \in FileLine
    BY <1>1, <1>7
  <2>1. after[n].name = file[n].name /\ ~Working(after[n])
    BY <1>1, <1>2, <1>7, <2>0, JoinedIs
  <2>2. n \notin k
    BY <1>4, <1>7, <2>1 DEF Working
  <2>3. /\ \A i \in 1..n : i # n => (i \in k <=> i \in m)
        /\ k \subseteq m
    BY <1>1, <1>3, <1>4, <1>7, <2>2
  <2> HIDE DEF m, k
  <2>4. ASSUME NEW pw, CheckPassword(file, u, pw), ~(file[n].name = u /\ file[n].value = pw)
        PROVE  CheckPassword(after, u, pw)
    <3>1. m # {} /\ file[First(m)].value = pw
      BY <2>4 DEF CheckPassword, m
    <3>2. m \in SUBSET Nat /\ k \in SUBSET Nat
      BY <1>3, <1>4
    <3>3. First(m) \in m /\ \A j \in m : First(m) <= j
      BY <3>1, <3>2, FirstOfThem
    <3>4. First(m) \in 1..n /\ file[First(m)].name = u
      BY <1>3, <3>3
    <3>5. First(m) # n
      BY <2>4, <3>1, <3>4
    <3>6. First(m) \in k
      BY <2>3, <3>3, <3>4, <3>5
    <3>7. First(k) \in k /\ \A j \in k : First(k) <= j
      BY <3>2, <3>6, FirstOfThem
    <3>8. First(k) = First(m)
      <4>1. First(k) <= First(m) /\ First(m) <= First(k)
        BY <2>3, <3>3, <3>6, <3>7
      <4>2. First(k) \in Nat /\ First(m) \in Nat
        BY <3>2, <3>6, <3>7
      <4> QED BY <4>1, <4>2
    <3>9. after[First(k)].value = pw
      BY <1>1, <1>7, <3>1, <3>4, <3>5, <3>8
    <3> QED BY <3>6, <3>9 DEF CheckPassword, k
  <2> QED BY <1>7, <2>3, <2>4 DEF after, m, k, Last, n
<1> QED BY <1>5, <1>6, <1>7

\* A plain name that was written whole behind a whole line works.
LEMMA AppendWorks ==
  ASSUME NEW file \in Seq(FileLine), NEW name \in Users \cup {Host}, NEW value \in Secrets,
         ~Torn(file), Plain(name), Matches(file, name) = {}
  PROVE  CheckPassword(AppendLine(file, name, value, "whole"), name, value)
<1> DEFINE new == Line(name, value, "whole")
           after == AppendLine(file, name, value, "whole")
           n == Len(file)
           k == Matches(after, name)
<1>0. PICK cut \in Cuts : cut = "whole"
  BY DEF Cuts
<1>1. /\ n \in Nat /\ Len(after) = n + 1 /\ after[n + 1] = new
      /\ \A i \in 1..n : after[i] = file[i]
  <2>1. cut # "nothing"
    BY <1>0
  <2> QED BY <1>0, <2>1, AppendIs
<1>2. new.name = name /\ new.value = value
  BY <1>0, LineTyped
<1>3. value # Undecodable
  BY DemoAssumption DEF Undecodable, Empty, Secrets
<1> HIDE DEF new, after, n
<1>4. k = {n + 1}
  <2>1. n + 1 \in k
    BY <1>1, <1>2, <1>3 DEF Matches
  <2>2. ASSUME NEW i \in k PROVE i = n + 1
    <3>1. i \in 1..(n + 1) /\ after[i].name = name /\ after[i].value # Undecodable
      BY <1>1, <2>2 DEF Matches
    <3>2. i \notin 1..n
      BY <1>1, <3>1 DEF Matches, n
    <3> QED BY <1>1, <3>1, <3>2
  <2> QED BY <2>1, <2>2
<1> HIDE DEF k
<1>5. First(k) = n + 1
  <2>1. k \in SUBSET Nat /\ k # {}
    BY <1>1, <1>4
  <2>2. First(k) \in k
    BY <2>1, FirstOfThem
  <2> QED BY <1>4, <2>2
<1> QED BY <1>1, <1>2, <1>4, <1>5 DEF CheckPassword, k, after

\* Which of the lines are whole after a write, and what a torn one says.
LEMMA AppendTorn ==
  ASSUME NEW file \in Seq(FileLine), NEW name \in Users \cup {Host}, NEW value \in Secrets,
         NEW cut \in Cuts
  PROVE  LET after == AppendLine(file, name, value, cut) IN
         /\ Whole(file) => ~Torn(file)
         /\ Whole(file) /\ cut = "whole" => Whole(after)
         /\ Torn(after) /\ Working(Last(after)) =>
              \/ Torn(file) /\ Last(after) = Last(file)
              \/ cut # "whole" /\ Last(after).name = FirstWord[name] /\ Last(after).value = value
<1> DEFINE new == Line(name, value, cut)
           after == AppendLine(file, name, value, cut)
           n == Len(file)
<1>1. /\ n \in Nat /\ after \in Seq(FileLine)
      /\ cut = "nothing" => after = file
      /\ cut # "nothing" /\ ~Torn(file) =>
           /\ Len(after) = n + 1 /\ after[n + 1] = new
           /\ \A i \in 1..n : after[i] = file[i]
      /\ cut # "nothing" /\ Torn(file) =>
           /\ Len(after) = n /\ n \in 1..n
           /\ after[n] = Joined(file[n], new)
           /\ \A i \in 1..n : i # n => after[i] = file[i]
  BY AppendIs
<1>2. /\ new \in FileLine /\ new.cut = cut /\ new.name \in {FirstWord[name], OtherName}
      /\ new.value \in {value, Undecodable}
  BY LineTyped
<1> HIDE DEF new, after
<1>3. Whole(file) => ~Torn(file)
  BY DEF Whole, Torn
<1>4. CASE cut = "nothing"
  BY <1>1, <1>3, <1>4 DEF after
<1>5. CASE cut # "nothing" /\ ~Torn(file)
  <2>1. ASSUME Whole(file), cut = "whole" PROVE Whole(after)
    <3> SUFFICES ASSUME NEW i \in 1..(n + 1) PROVE after[i].cut = "whole"
      BY <1>1, <1>5 DEF Whole
    <3>1. i \in 1..n \/ i = n + 1
      BY <1>1
    <3> QED BY <1>1, <1>2, <1>5, <2>1, <3>1 DEF Whole
  <2>2. Last(after) = new /\ (Torn(after) => cut # "whole")
    BY <1>1, <1>2, <1>5 DEF Last, Torn
  <2> QED BY <1>2, <1>3, <2>1, <2>2 DEF Working, after
<1>6. CASE cut # "nothing" /\ Torn(file)
  <2>1. file[n] \in FileLine
    BY <1>1, <1>6
  <2>2. ~Working(after[n])
    BY <1>1, <1>2, <1>6, <2>1, JoinedIs
  <2> QED BY <1>1, <1>3, <1>6, <2>2 DEF Last, after
<1> QED BY <1>4, <1>5, <1>6

LEMMA KnownIsChecked ==
  ASSUME NEW file, NEW host, NEW pk
  PROVE  /\ KnownHost(file, host, pk) = "MATCH" <=> CheckPassword(file, host, pk)
         /\ KnownHost(file, host, pk) = "UNKNOWN" <=> Matches(file, host) = {}
  BY DEF KnownHost, CheckPassword

\* What works was written as hex.
LEMMA WorksDecoded ==
  ASSUME NEW file \in Seq(FileLine), NEW u, NEW pw, CheckPassword(file, u, pw)
  PROVE  pw # Undecodable
<1> DEFINE m == Matches(file, u)
<1>1. m \in SUBSET Nat /\ \A i \in m : file[i].value # Undecodable
  BY DEF Matches
<1>2. m # {} /\ file[First(m)].value = pw
  BY DEF CheckPassword
<1> HIDE DEF m
<1>3. First(m) \in m
  BY <1>1, <1>2, FirstOfThem
<1> QED BY <1>1, <1>2, <1>3

\* A name that no line begins with has no password.
LEMMA NewName ==
  ASSUME NEW file, NEW u, ~UserExists(file, u)
  PROVE  Matches(file, u) = {}
  BY DEF UserExists, Matches

-------------------------------------------------------------------------------
(* What the helpers of auth_link.c leave of a link. *)

\* The stages of two links.
Alike(a, b) ==
  /\ a.ready = b.ready /\ a.conn = b.conn /\ a.out = b.out /\ a.tx = b.tx /\ a.rx = b.rx
  /\ a.auth_started = b.auth_started

LEMMA FireDownIs ==
  ASSUME NEW l \in Link, l.run # "exit", Calm(l), NEW reason \in {"PEER", "AUTH", "HOSTKEY"}
  PROVE  LET f == FireDown(l, reason) IN
         /\ f \in Link /\ Alike(f, l) /\ f.up = l.up /\ f.phase = l.phase /\ f.failed = l.failed
         /\ f.run = "stopping" /\ f.down # None
<1> DEFINE f == [[l EXCEPT !.down = reason] EXCEPT !.run = "stopping"]
<1>1. CASE l.down # None
  BY <1>1 DEF FireDown, Alike, Calm, Link
<1>2. CASE l.down = None
  <2>1. FireDown(l, reason) = f
    BY <1>2 DEF FireDown, OnDown
  <2>2. f \in Link
    BY DEF Link
  <2>3. /\ f.up = l.up /\ f.phase = l.phase /\ f.failed = l.failed /\ f.run = "stopping"
        /\ f.down = reason /\ f.ready = l.ready /\ f.conn = l.conn /\ f.out = l.out
        /\ f.tx = l.tx /\ f.rx = l.rx /\ f.auth_started = l.auth_started
    BY DEF Link
  <2>4. reason # None
    BY DEF None
  <2> HIDE DEF f
  <2> QED BY <2>1, <2>2, <2>3, <2>4 DEF Alike
<1> QED BY <1>1, <1>2

LEMMA PumpedIs ==
  ASSUME NEW l \in Link, l.run # "exit", Calm(l)
  PROVE  LET p == Pumped(l) IN
         /\ p \in Link /\ Alike(p, l) /\ p.up = l.up /\ p.phase = "pump" /\ p.failed = l.failed
         /\ p.run # "exit" /\ Calm(p) /\ (l.run = "stopping" => p.run = "stopping")
<1> DEFINE p == [l EXCEPT !.phase = "pump", !.gone = FALSE]
<1>1. p \in Link
  BY DEF Link
<1>2. /\ p.up = l.up /\ p.phase = "pump" /\ p.failed = l.failed /\ p.run = l.run
      /\ p.down = l.down /\ p.ready = l.ready /\ p.conn = l.conn /\ p.out = l.out
      /\ p.tx = l.tx /\ p.rx = l.rx /\ p.auth_started = l.auth_started
  BY DEF Link
<1>3. Pumped(l) = IF l.gone THEN FireDown(p, "PEER") ELSE p
  BY DEF Pumped
<1> HIDE DEF p
<1>4. CASE l.gone
  <2>1. p.run # "exit" /\ Calm(p)
    BY <1>2 DEF Calm
  <2>2. LET f == FireDown(p, "PEER") IN
        /\ f \in Link /\ Alike(f, p) /\ f.up = p.up /\ f.phase = p.phase /\ f.failed = p.failed
        /\ f.run = "stopping" /\ f.down # None
    BY <1>1, <2>1, FireDownIs
  <2> QED BY <1>2, <1>3, <1>4, <2>2 DEF Alike, Calm
<1>5. CASE ~l.gone
  BY <1>1, <1>2, <1>3, <1>5 DEF Alike, Calm
<1> QED BY <1>4, <1>5

LEMMA AdvancedIs ==
  ASSUME NEW e \in Ends, NEW l \in Link
  PROVE  LET a == Advanced(e, l) IN
         /\ a \in Link /\ a.run = l.run /\ a.phase = l.phase /\ a.down = l.down /\ a.up = l.up
         /\ a.rx = l.rx /\ a.ready = l.ready
         /\ a.conn = l.conn \/ (a.conn = "CONNECTING" /\ e = "client" /\ l.ready)
         /\ a.tx <=> l.tx \/ l.conn = "CONNECTED"
         /\ a.auth_started <=> l.auth_started \/ a.tx
         /\ \A k \in a.out : \/ k \in l.out \/ (k = "INIT" /\ e = "client")
                             \/ (k = "OPEN" /\ a.tx)
<1> DEFINE connects == e = "client" /\ l.ready /\ l.conn = "NEW"
           l1 == IF connects THEN [l EXCEPT !.conn = "CONNECTING", !.out = @ \cup {"INIT"}] ELSE l
           opens == ~l1.tx /\ l1.conn = "CONNECTED"
           l2 == IF opens THEN [l1 EXCEPT !.tx = TRUE, !.out = @ \cup {"OPEN"}] ELSE l1
           b == l2.auth_started \/ l2.tx
           a == [l2 EXCEPT !.auth_started = b]
<1>1. /\ l1 \in Link /\ l1.run = l.run /\ l1.phase = l.phase /\ l1.down = l.down /\ l1.up = l.up
      /\ l1.rx = l.rx /\ l1.ready = l.ready /\ l1.tx = l.tx /\ l1.auth_started = l.auth_started
      /\ l1.conn = l.conn \/ (l1.conn = "CONNECTING" /\ e = "client" /\ l.ready)
      /\ l1.conn = "CONNECTED" <=> l.conn = "CONNECTED"
      /\ \A k \in l1.out : k \in l.out \/ (k = "INIT" /\ e = "client")
  <2>1. CASE connects
    <3> DEFINE m == [l EXCEPT !.conn = "CONNECTING", !.out = l.out \cup {"INIT"}]
    <3>1. l1 = m
      BY <2>1
    <3>2. m \in Link
      BY DEF Link
    <3>3. /\ m.run = l.run /\ m.phase = l.phase /\ m.down = l.down /\ m.up = l.up
          /\ m.rx = l.rx /\ m.ready = l.ready /\ m.tx = l.tx /\ m.auth_started = l.auth_started
          /\ m.conn = "CONNECTING" /\ m.out = l.out \cup {"INIT"}
      BY DEF Link
    <3> HIDE DEF m, l1
    <3> QED BY <2>1, <3>1, <3>2, <3>3
  <2>2. CASE ~connects
    BY <2>2
  <2> QED BY <2>1, <2>2
<1> HIDE DEF l1
<1>2. /\ l2 \in Link /\ l2.run = l1.run /\ l2.phase = l1.phase /\ l2.down = l1.down /\ l2.up = l1.up
      /\ l2.rx = l1.rx /\ l2.ready = l1.ready /\ l2.auth_started = l1.auth_started
      /\ l2.conn = l1.conn /\ (l2.tx <=> l1.tx \/ l1.conn = "CONNECTED")
      /\ \A k \in l2.out : k \in l1.out \/ (k = "OPEN" /\ l2.tx)
  <2>1. CASE opens
    <3> DEFINE m == [l1 EXCEPT !.tx = TRUE, !.out = l1.out \cup {"OPEN"}]
    <3>1. l2 = m
      BY <2>1
    <3>2. m \in Link
      BY <1>1 DEF Link
    <3>3. /\ m.run = l1.run /\ m.phase = l1.phase /\ m.down = l1.down /\ m.up = l1.up
          /\ m.rx = l1.rx /\ m.ready = l1.ready /\ m.tx = TRUE /\ m.auth_started = l1.auth_started
          /\ m.conn = l1.conn /\ m.out = l1.out \cup {"OPEN"}
      BY <1>1 DEF Link
    <3> HIDE DEF m, l2
    <3> QED BY <2>1, <3>1, <3>2, <3>3
  <2>2. CASE ~opens
    BY <1>1, <2>2
  <2> QED BY <2>1, <2>2
<1>3. Advanced(e, l) = a
  BY DEF Advanced, l1
<1> HIDE DEF l2
<1>4. b \in BOOLEAN
  BY <1>2 DEF Link
<1> HIDE DEF b
<1>5. a \in Link
  BY <1>2, <1>4 DEF Link
<1>6. /\ a.run = l2.run /\ a.phase = l2.phase /\ a.down = l2.down /\ a.up = l2.up
      /\ a.rx = l2.rx /\ a.ready = l2.ready /\ a.tx = l2.tx /\ a.auth_started = b
      /\ a.conn = l2.conn /\ a.out = l2.out
  BY <1>2 DEF Link
<1> HIDE DEF a
<1>7. a.auth_started <=> l.auth_started \/ a.tx
  BY <1>1, <1>2, <1>6 DEF b
<1> QED BY <1>1, <1>2, <1>3, <1>5, <1>6, <1>7

\* A verdict is reported once, and never to a loop that has stopped: n is link l
\* of end e after settle_auth.
Settlement(e, l, ret, n) ==
  /\ n \in Link /\ Alike(n, l) /\ n.run # "exit" /\ Calm(n)
  /\ (l.run = "stopping" => n.run = "stopping") /\ (l.up => n.up) /\ n.failed = l.failed
  /\ n.phase = ret \/ (n.phase = "need" /\ e = "client" /\ client'.need # "NOTHING")
  /\ n.up => l.up \/ (IF e = "client" THEN client'.state = "OK" ELSE server'.state = "OK")
  /\ n.up => l.up \/ l.auth_started
  /\ e = "server" /\ l.auth_started /\ server'.state = "OK" => n.up \/ n.run # "on"

LEMMA SettledIs ==
  ASSUME NEW e \in Ends, NEW l \in Link, l.run # "exit", Calm(l), NEW ret \in {"idle", "pump"},
         client'.need \in Needs
  PROVE  Settlement(e, l, ret, Settled(e, l, ret))
<1> USE DEF Settlement
<1> DEFINE done == [l EXCEPT !.phase = ret]
           ask == [l EXCEPT !.phase = "need", !.ret = ret]
           fired == [done EXCEPT !.need_fired = client'.need]
<1>1. done \in Link /\ ask \in Link /\ fired \in Link
  BY DEF Link
<1>2. /\ done.failed = l.failed /\ ask.failed = l.failed /\ fired.failed = l.failed
      /\ done.run = l.run /\ done.down = l.down /\ done.up = l.up /\ done.phase = ret /\ Alike(done, l)
      /\ ask.run = l.run /\ ask.down = l.down /\ ask.up = l.up /\ ask.phase = "need" /\ Alike(ask, l)
      /\ fired.run = l.run /\ fired.down = l.down /\ fired.up = l.up /\ fired.phase = ret
      /\ Alike(fired, l)
  BY DEF Link, Alike
<1> HIDE DEF done, ask, fired
<1>3. ASSUME NEW d \in Link, d.run = l.run, d.down = l.down, d.up = l.up, d.phase = ret, Alike(d, l), d.failed = l.failed,
             l.down = None, l.auth_started, NEW state
      PROVE  LET n == SettleAuth(d, state) IN
             /\ n \in Link /\ Alike(n, l) /\ n.run # "exit" /\ Calm(n)
             /\ (l.run = "stopping" => n.run = "stopping") /\ (l.up => n.up)
             /\ n.failed = l.failed /\ n.phase = ret /\ (n.up => l.up \/ state = "OK") /\ (state = "OK" => n.up)
  <2>1. CASE state = "OK"
    <3> DEFINE u == [d EXCEPT !.up = TRUE]
    <3>1. u \in Link
      BY <1>3 DEF Link
    <3>2. u.run = d.run /\ u.down = d.down /\ u.up /\ u.phase = d.phase /\ Alike(u, d) /\ u.failed = d.failed
      BY <1>3 DEF Link, Alike
    <3>3. SettleAuth(d, state) = u
      BY <2>1 DEF SettleAuth, OnUp
    <3> HIDE DEF u
    <3> QED BY <1>3, <2>1, <3>1, <3>2, <3>3 DEF Alike, Calm
  <2>2. CASE state = "DENIED"
    <3>1. SettleAuth(d, state) = FireDown(d, "AUTH")
      BY <2>2 DEF SettleAuth
    <3>2. Calm(d) /\ d.run # "exit"
      BY <1>3 DEF Calm
    <3>3. LET f == FireDown(d, "AUTH") IN
          /\ f \in Link /\ Alike(f, d) /\ f.up = d.up /\ f.phase = d.phase /\ f.failed = d.failed
          /\ f.run = "stopping" /\ f.down # None
      BY <1>3, <3>2, FireDownIs
    <3> QED BY <1>3, <2>2, <3>1, <3>3 DEF Alike, Calm
  <2>3. CASE state \notin {"OK", "DENIED"}
    <3>1. SettleAuth(d, state) = d
      BY <2>3 DEF SettleAuth
    <3> QED BY <1>3, <2>3, <3>1 DEF Calm
  <2> QED BY <2>1, <2>2, <2>3
<1>4. CASE ~l.auth_started \/ l.up \/ l.down # None
  <2>1. Settled(e, l, ret) = done
    BY <1>4 DEF Settled, done
  <2> QED BY <1>1, <1>2, <1>4, <2>1 DEF Calm
<1>5. CASE l.auth_started /\ ~l.up /\ l.down = None /\ e = "server"
  <2>1. Settled(e, l, ret) = SettleAuth(done, server'.state)
    BY <1>5 DEF Settled, done
  <2> QED BY <1>1, <1>2, <1>3, <1>5, <2>1
<1>6. CASE l.auth_started /\ ~l.up /\ l.down = None /\ e # "server"
  <2>0. e = "client"
    BY <1>6 DEF Ends
  <2>1. CASE client'.need \notin {l.need_fired, "NOTHING"}
    <3>1. Settled(e, l, ret) = ask
      BY <1>6, <2>1 DEF Settled, ask
    <3> QED BY <1>1, <1>2, <1>6, <2>0, <2>1, <3>1 DEF Calm
  <2>2. CASE client'.need \in {l.need_fired, "NOTHING"}
    <3>1. Settled(e, l, ret) = SettleAuth(fired, client'.state)
      BY <1>6, <2>2 DEF Settled, done, fired
    <3> QED BY <1>1, <1>2, <1>3, <1>6, <2>0, <3>1
  <2> QED BY <2>1, <2>2
<1> QED BY <1>4, <1>5, <1>6

-------------------------------------------------------------------------------
(* Steps of one end in which neither the login nor a file changes. *)

LEMMA OneEnd ==
  ASSUME link \in [Ends -> Link], NEW e \in Ends, NEW n \in Link, link' = [link EXCEPT ![e] = n]
  PROVE  /\ link' \in [Ends -> Link] /\ link[e] \in Link
         /\ e = "client" => LC' = n /\ LS' = LS /\ link[e] = LC
         /\ e = "server" => LS' = n /\ LC' = LC /\ link[e] = LS
  BY DEF Ends, LC, LS

LEMMA LinkStep ==
  ASSUME LinkInv, UNCHANGED <<vars, prog, disk, tool>>, hist' \in Hist,
         hist'.full = hist.full, hist'.raced = hist.raced, hist'.harmed = hist.harmed, hist'.promised = hist.promised,
         hist'.dropped = hist.dropped,
         link' \in [Ends -> Link], net' \subseteq Datagram, LC'.up = LC.up,
         LC.auth_started => LC'.auth_started, LC'.phase = "need" => LC.phase = "need",
         LC'.ready /\ LC'.run # "exit" => LC.ready /\ LC.run # "exit",
         Shaken', ServerUp'
  PROVE  LinkInv'
<1>0. /\ client' = client /\ server' = server /\ app' = app /\ c2s' = c2s /\ s2c' = s2c
      /\ prog' = prog /\ disk' = disk /\ tool' = tool
  BY DEF vars
<1>1. LinkTypes'
  BY <1>0 DEF LinkInv, LinkTypes
<1>2. IInv => IInv'
  BY <1>0, Inductive DEF vars
<1>3. Conversation'
  BY <1>0, <1>2 DEF LinkInv, Conversation, Up
<1>4. Choosing' /\ Asking' /\ Filling'
  BY <1>0 DEF LinkInv, Choosing, Asking, Filling, Doomed
<1>5. Files' /\ Credentials' /\ Trusted' /\ ~hist'.dropped
  BY <1>0 DEF LinkInv, Files, TornHarmed, PromisesKept, Credentials, Trusted
<1> QED BY <1>1, <1>3, <1>4, <1>5 DEF LinkInv

\* The same, for a step that takes no note of a fault.
LEMMA LinkStepOnly ==
  ASSUME LinkInv, UNCHANGED <<vars, prog, disk, tool, hist>>,
         link' \in [Ends -> Link], net' \subseteq Datagram, LC'.up = LC.up,
         LC.auth_started => LC'.auth_started, LC'.phase = "need" => LC.phase = "need",
         LC'.ready /\ LC'.run # "exit" => LC.ready /\ LC.run # "exit",
         Shaken', ServerUp'
  PROVE  LinkInv'
<1>1. hist' \in Hist /\ hist' = hist
  BY DEF LinkInv, LinkTypes
<1>2. UNCHANGED <<vars, prog, disk, tool>>
  OBVIOUS
<1> QED BY <1>1, <1>2, LinkStep

\* What a fault leaves of the history.
LEMMA FaultNoted ==
  ASSUME hist \in Hist,
         \/ hist' = [hist EXCEPT !.faults = @ + 1]
         \/ hist' = [hist EXCEPT !.faults = @ + 1, !.lost = TRUE]
  PROVE  /\ hist' \in Hist /\ hist'.full = hist.full /\ hist'.raced = hist.raced /\ hist'.harmed = hist.harmed
         /\ hist'.promised = hist.promised /\ hist'.dropped = hist.dropped
<1>1. hist.faults \in Nat /\ hist.faults + 1 \in Nat
  BY DEF Hist
<1>2. CASE hist' = [hist EXCEPT !.faults = @ + 1]
  BY <1>1, <1>2 DEF Hist
<1>3. CASE hist' = [hist EXCEPT !.faults = @ + 1, !.lost = TRUE]
  BY <1>1, <1>3 DEF Hist
<1> QED BY <1>2, <1>3

LEMMA LinkFacts ==
  ASSUME LinkInv
  PROVE  /\ link \in [Ends -> Link] /\ net \subseteq Datagram /\ LC \in Link /\ LS \in Link
         /\ hist \in Hist /\ Shaken /\ ServerUp /\ Calm(LC) /\ Calm(LS)
         /\ \A e \in Ends : link[e] \in Link /\ Calm(link[e])
  BY DEF LinkInv, LinkTypes, LC, LS, Ends, ServerUp, Calm

LEMMA ServerHelloInOK ==
  ASSUME LinkInv, NEW d, ServerHelloIn(d)
  PROVE  LinkInv'
<1> DEFINE n == [LS EXCEPT !.ready = TRUE, !.phase = "recv"]
<1>0. /\ link \in [Ends -> Link] /\ net \subseteq Datagram /\ LC \in Link /\ LS \in Link
      /\ Shaken /\ ServerUp
  BY LinkFacts
<1>1. n \in Link
  BY <1>0 DEF Link
<1>2. /\ n.run = LS.run /\ n.out = LS.out /\ n.auth_started = LS.auth_started /\ n.rx = LS.rx
      /\ n.conn = LS.conn /\ n.up = LS.up /\ n.down = LS.down /\ n.phase = "recv"
      /\ n.failed = LS.failed
  BY <1>0 DEF Link
<1>3. /\ link' = [link EXCEPT !["server"] = n] /\ UNCHANGED <<vars, prog, disk, tool, hist>>
      /\ net' = (net \ {d}) \cup To("client", {"HELLO"})
      /\ LS.run # "exit" /\ (LS.run = "on" \/ LS.phase = "recv")
  <2>1. link' = [link EXCEPT !["server"].ready = TRUE, !["server"].phase = "recv"]
    BY DEF ServerHelloIn
  <2>2. link' = [link EXCEPT !["server"] = n]
    BY <1>0, <2>1 DEF LS, Ends
  <2> QED BY <2>2 DEF ServerHelloIn, Idle, On, LS
<1> HIDE DEF n
<1>4. link' \in [Ends -> Link] /\ LS' = n /\ LC' = LC
  BY <1>0, <1>1, <1>3, OneEnd DEF Ends
<1>5. \A x \in net' : x \in net \/ x = [to |-> "client", kind |-> "HELLO"]
  BY <1>3 DEF To
<1>6. net' \subseteq Datagram
  BY <1>0, <1>5 DEF Datagram, Ends
<1>7. Shaken'
  BY <1>0, <1>2, <1>4, <1>5 DEF Shaken
<1>8. ServerUp'
  BY <1>0, <1>2, <1>3, <1>4 DEF ServerUp, vars, Calm
<1> QED BY <1>3, <1>4, <1>6, <1>7, <1>8, LinkStepOnly

LEMMA FedIs ==
  ASSUME NEW e \in Ends, NEW l \in Link, NEW kind \in {"INIT", "ACCEPT", "OPEN", "BYE"}
  PROVE  LET f == Fed(e, l, kind) IN
         /\ f \in Link /\ f.run = l.run /\ f.phase = l.phase /\ f.down = l.down /\ f.up = l.up
         /\ f.ready = l.ready /\ f.tx = l.tx /\ f.auth_started = l.auth_started
         /\ f.failed = l.failed
         /\ f.rx => l.rx \/ kind = "OPEN"
         /\ f.conn = l.conn \/ (f.conn = "CONNECTED" /\ kind \in {"INIT", "ACCEPT"})
                            \/ (f.conn = "CLOSED" /\ kind = "BYE" /\ l.conn # "NEW")
         /\ f.out = l.out \/ (f.out = l.out \cup {"ACCEPT"} /\ kind = "INIT" /\ f.conn = "CONNECTED")
<1>1. CASE kind = "INIT" /\ l.conn = "NEW"
  <2> DEFINE f == [l EXCEPT !.conn = "CONNECTED", !.out = l.out \cup {"ACCEPT"}]
  <2>1. Fed(e, l, kind) = f
    BY <1>1 DEF Fed
  <2>2. f \in Link
    BY DEF Link
  <2>3. /\ f.run = l.run /\ f.phase = l.phase /\ f.down = l.down /\ f.up = l.up
        /\ f.ready = l.ready /\ f.tx = l.tx /\ f.auth_started = l.auth_started
        /\ f.failed = l.failed /\ f.rx = l.rx /\ f.conn = "CONNECTED" /\ f.out = l.out \cup {"ACCEPT"}
    BY DEF Link
  <2> HIDE DEF f
  <2> QED BY <1>1, <2>1, <2>2, <2>3
<1>2. CASE kind = "ACCEPT"
  <2> DEFINE f == [l EXCEPT !.conn = "CONNECTED"]
  <2>1. Fed(e, l, kind) = f
    BY <1>2 DEF Fed
  <2>2. f \in Link
    BY DEF Link
  <2>3. /\ f.run = l.run /\ f.phase = l.phase /\ f.down = l.down /\ f.up = l.up
        /\ f.ready = l.ready /\ f.tx = l.tx /\ f.auth_started = l.auth_started
        /\ f.failed = l.failed /\ f.rx = l.rx /\ f.conn = "CONNECTED" /\ f.out = l.out
    BY DEF Link
  <2> HIDE DEF f
  <2> QED BY <1>2, <2>1, <2>2, <2>3
<1>3. CASE kind = "OPEN"
  <2> DEFINE f == [l EXCEPT !.rx = TRUE]
  <2>1. Fed(e, l, kind) = f
    BY <1>3 DEF Fed
  <2>2. f \in Link
    BY DEF Link
  <2>3. /\ f.run = l.run /\ f.phase = l.phase /\ f.down = l.down /\ f.up = l.up
        /\ f.ready = l.ready /\ f.tx = l.tx /\ f.auth_started = l.auth_started
        /\ f.failed = l.failed /\ f.conn = l.conn /\ f.out = l.out
    BY DEF Link
  <2> HIDE DEF f
  <2> QED BY <1>3, <2>1, <2>2, <2>3
<1>4. CASE kind = "BYE" /\ l.conn \in {"CONNECTING", "CONNECTED"}
  <2> DEFINE f == [l EXCEPT !.conn = "CLOSED", !.gone = TRUE]
  <2>1. Fed(e, l, kind) = f
    BY <1>4 DEF Fed
  <2>2. f \in Link
    BY DEF Link
  <2>3. /\ f.run = l.run /\ f.phase = l.phase /\ f.down = l.down /\ f.up = l.up
        /\ f.ready = l.ready /\ f.tx = l.tx /\ f.auth_started = l.auth_started
        /\ f.failed = l.failed /\ f.rx = l.rx /\ f.conn = "CLOSED" /\ f.out = l.out
    BY DEF Link
  <2> HIDE DEF f
  <2> QED BY <1>4, <2>1, <2>2, <2>3
<1>5. CASE \/ kind = "INIT" /\ l.conn # "NEW"
           \/ kind = "BYE" /\ l.conn \notin {"CONNECTING", "CONNECTED"}
  <2>1. Fed(e, l, kind) = l
    BY <1>5 DEF Fed
  <2> QED BY <2>1
<1> QED BY <1>1, <1>2, <1>3, <1>4, <1>5

LEMMA DataInOK ==
  ASSUME LinkInv, NEW e \in Ends, NEW d, DataIn(e, d)
  PROVE  LinkInv'
<1> DEFINE l == [link[e] EXCEPT !.phase = "recv"]
           n == IF link[e].ready THEN Fed(e, l, d.kind) ELSE l
<1>0. /\ link \in [Ends -> Link] /\ net \subseteq Datagram /\ LC \in Link /\ LS \in Link
      /\ Shaken /\ ServerUp /\ link[e] \in Link
  BY LinkFacts
<1>1. /\ d \in net /\ d.to = e /\ d.kind \in {"INIT", "ACCEPT", "OPEN", "BYE"}
      /\ net' = net \ {d} /\ UNCHANGED <<vars, prog, disk, tool, hist>>
      /\ link[e].run # "exit" /\ (link[e].run = "on" \/ link[e].phase = "recv")
  BY <1>0 DEF DataIn, Datagram, Idle, On
<1>2. link' = [link EXCEPT ![e] = n]
  BY DEF DataIn
<1>3. l \in Link
  BY <1>0 DEF Link
<1>4. /\ l.run = link[e].run /\ l.phase = "recv" /\ l.down = link[e].down /\ l.up = link[e].up
      /\ l.ready = link[e].ready /\ l.tx = link[e].tx /\ l.auth_started = link[e].auth_started
      /\ l.failed = link[e].failed /\ l.rx = link[e].rx /\ l.conn = link[e].conn
      /\ l.out = link[e].out
  BY <1>0 DEF Link
<1> HIDE DEF l
<1>5. /\ n \in Link /\ n.run = l.run /\ n.phase = l.phase /\ n.down = l.down /\ n.up = l.up
      /\ n.ready = l.ready /\ n.tx = l.tx /\ n.auth_started = l.auth_started
      /\ n.failed = l.failed
      /\ n.rx => l.rx \/ d.kind = "OPEN"
      /\ n.conn = l.conn \/ l.ready
      /\ n.conn = l.conn \/ (n.conn = "CONNECTED" /\ d.kind \in {"INIT", "ACCEPT"})
                         \/ (n.conn = "CLOSED" /\ d.kind = "BYE" /\ l.conn # "NEW")
      /\ n.out = l.out \/ (n.out = l.out \cup {"ACCEPT"} /\ d.kind = "INIT" /\ n.conn = "CONNECTED")
  <2>1. CASE ~link[e].ready
    BY <1>3, <2>1
  <2>2. CASE link[e].ready
    <3>1. n = Fed(e, l, d.kind) /\ l.ready
      BY <1>4, <2>2
    <3> HIDE DEF n
    <3>2. LET f == Fed(e, l, d.kind) IN
          /\ f \in Link /\ f.run = l.run /\ f.phase = l.phase /\ f.down = l.down /\ f.up = l.up
          /\ f.ready = l.ready /\ f.tx = l.tx /\ f.auth_started = l.auth_started
          /\ f.failed = l.failed
          /\ f.rx => l.rx \/ d.kind = "OPEN"
          /\ f.conn = l.conn \/ (f.conn = "CONNECTED" /\ d.kind \in {"INIT", "ACCEPT"})
                             \/ (f.conn = "CLOSED" /\ d.kind = "BYE" /\ l.conn # "NEW")
          /\ f.out = l.out \/ (f.out = l.out \cup {"ACCEPT"} /\ d.kind = "INIT" /\ f.conn = "CONNECTED")
      <4>1. PICK k : k = d.kind
        OBVIOUS
      <4>2. k \in {"INIT", "ACCEPT", "OPEN", "BYE"}
        BY <1>1, <4>1
      <4> QED BY <1>3, <4>1, <4>2, FedIs
    <3> QED BY <3>1, <3>2
  <2> QED BY <2>1, <2>2
<1> HIDE DEF n
<1>6. /\ link' \in [Ends -> Link]
      /\ e = "client" => LC' = n /\ LS' = LS /\ link[e] = LC
      /\ e = "server" => LS' = n /\ LC' = LC /\ link[e] = LS
  BY <1>0, <1>2, <1>5, OneEnd
<1>7. net' \subseteq Datagram
  BY <1>0, <1>1
<1>8. CASE e = "client"
  <2>1. Shaken'
    BY <1>0, <1>1, <1>4, <1>5, <1>6, <1>8 DEF Shaken
  <2>2. ServerUp'
    BY <1>0, <1>1, <1>4, <1>5, <1>6, <1>8 DEF ServerUp, vars, Calm
  <2> QED BY <1>1, <1>4, <1>5, <1>6, <1>7, <1>8, <2>1, <2>2, LinkStepOnly
<1>9. CASE e = "server"
  <2>1. Shaken'
    BY <1>0, <1>1, <1>4, <1>5, <1>6, <1>9 DEF Shaken
  <2>2. ServerUp'
    BY <1>0, <1>1, <1>4, <1>5, <1>6, <1>9 DEF ServerUp, vars, Calm
  <2> QED BY <1>1, <1>6, <1>7, <1>9, <2>1, <2>2, LinkStepOnly
<1> QED BY <1>8, <1>9 DEF Ends

-------------------------------------------------------------------------------
(* The clock, the end of a link, and the faults. *)

LEMMA TickOK == ASSUME LinkInv, Tick PROVE LinkInv'
<1>0. link \in [Ends -> Link] /\ net \subseteq Datagram /\ Shaken /\ ServerUp
  BY LinkFacts
<1>1. /\ net' = net \cup To("server", Repeats(link["client"])) /\ link' = link
      /\ UNCHANGED <<vars, prog, disk, tool, hist>>
  BY DEF Tick
<1>2. Repeats(link["client"]) \subseteq {"HELLO", "INIT"}
  BY DEF Repeats
<1>3. \A x \in net' : x \in net \/ (x.to = "server" /\ x.kind \in {"HELLO", "INIT"} /\ x \in Datagram)
  BY <1>1, <1>2 DEF To, Datagram, Ends
<1>4. LC' = LC /\ LS' = LS
  BY <1>1 DEF LC, LS
<1>5. net' \subseteq Datagram /\ link' \in [Ends -> Link]
  BY <1>0, <1>1, <1>3
<1>6. Shaken'
  BY <1>0, <1>3, <1>4 DEF Shaken
<1>7. ServerUp'
  BY <1>0, <1>1, <1>4 DEF ServerUp, vars, Calm
<1> QED BY <1>1, <1>4, <1>5, <1>6, <1>7, LinkStepOnly

LEMMA LoseOK == ASSUME LinkInv, NEW d, Lose(d) PROVE LinkInv'
<1>0. link \in [Ends -> Link] /\ net \subseteq Datagram /\ Shaken /\ ServerUp /\ hist \in Hist
  BY LinkFacts
<1>1. /\ net' = net \ {d} /\ link' = link /\ hist' = [hist EXCEPT !.faults = @ + 1, !.lost = TRUE]
      /\ UNCHANGED <<vars, prog, disk, tool>>
  BY DEF Lose
<1>2. /\ hist' \in Hist /\ hist'.full = hist.full /\ hist'.raced = hist.raced /\ hist'.harmed = hist.harmed
      /\ hist'.promised = hist.promised /\ hist'.dropped = hist.dropped
  BY <1>0, <1>1, FaultNoted
<1>3. LC' = LC /\ LS' = LS /\ net' \subseteq net
  BY <1>1 DEF LC, LS
<1>4. Shaken'
  BY <1>0, <1>3 DEF Shaken
<1>5. ServerUp'
  BY <1>0, <1>1, <1>3 DEF ServerUp, vars, Calm
<1>6. net' \subseteq Datagram /\ link' \in [Ends -> Link]
  BY <1>0, <1>1
<1> QED BY <1>1, <1>2, <1>3, <1>4, <1>5, <1>6, LinkStep

\* One end is n after a step: the stages and the stop of its loop apart it is as it was.
LEMMA Paused ==
  ASSUME LinkInv, NEW e \in Ends, NEW n \in Link, link' = [link EXCEPT ![e] = n],
         net' = net, c2s' = c2s, server' = server,
         Alike(n, link[e]), n.up = link[e].up, n.failed = link[e].failed,
         Calm(n), link[e].run = "on", n.run # "exit",
         n.phase \in {"idle", "pump"}, n.phase = "idle" => link[e].phase = "idle"
  PROVE  /\ link' \in [Ends -> Link] /\ net' \subseteq Datagram /\ LC'.up = LC.up
         /\ LC'.auth_started = LC.auth_started /\ (LC'.phase = "need" => LC.phase = "need")
         /\ LC'.ready /\ LC'.run # "exit" => LC.ready /\ LC.run # "exit"
         /\ Shaken' /\ ServerUp'
<1>0. link \in [Ends -> Link] /\ net \subseteq Datagram /\ Shaken /\ ServerUp
  BY LinkFacts
<1>1. /\ link' \in [Ends -> Link]
      /\ e = "client" => LC' = n /\ LS' = LS /\ link[e] = LC
      /\ e = "server" => LS' = n /\ LC' = LC /\ link[e] = LS
  BY <1>0, OneEnd
<1>2. Shaken'
  BY <1>0, <1>1 DEF Shaken, Alike, Ends
<1>3. ServerUp'
  BY <1>0, <1>1 DEF ServerUp, Calm, Ends
<1> QED BY <1>0, <1>1, <1>2, <1>3 DEF Alike, Ends

LEMMA WakeOK == ASSUME LinkInv, NEW e \in Ends, Wake(e) PROVE LinkInv'
<1> DEFINE n == [link[e] EXCEPT !.phase = "pump"]
<1>0. link \in [Ends -> Link] /\ link[e] \in Link /\ Calm(link[e])
  BY LinkFacts
<1>1. n \in Link
  BY <1>0 DEF Link
<1>2. /\ Alike(n, link[e]) /\ n.up = link[e].up /\ n.failed = link[e].failed
      /\ n.phase = "pump" /\ n.run = link[e].run /\ n.down = link[e].down
  BY <1>0 DEF Link, Alike
<1>3. /\ link' = [link EXCEPT ![e] = n] /\ link[e].run = "on"
      /\ UNCHANGED <<vars, prog, net, disk, tool, hist>>
  BY DEF Wake, Idle
<1> HIDE DEF n
<1>4. Calm(n)
  BY <1>0, <1>2 DEF Calm
<1>5. c2s' = c2s /\ server' = server /\ net' = net
  BY <1>3 DEF vars
<1>6. n.run # "exit" /\ n.phase \in {"idle", "pump"} /\ (n.phase = "idle" => link[e].phase = "idle")
  BY <1>2, <1>3
<1>7. /\ link' \in [Ends -> Link] /\ net' \subseteq Datagram /\ LC'.up = LC.up
      /\ LC'.auth_started = LC.auth_started /\ (LC'.phase = "need" => LC.phase = "need")
      /\ LC'.ready /\ LC'.run # "exit" => LC.ready /\ LC.run # "exit"
      /\ Shaken' /\ ServerUp'
  BY <1>1, <1>2, <1>3, <1>4, <1>5, <1>6, Paused
<1> QED BY <1>3, <1>7, LinkStepOnly

\* The loop of one end is told to stop between two callbacks.
LEMMA Stopped ==
  ASSUME LinkInv, NEW e \in Ends, link[e].run = "on", link[e].phase = "idle",
         link' = [link EXCEPT ![e].run = "stopping"], net' = net, c2s' = c2s, server' = server
  PROVE  /\ link' \in [Ends -> Link] /\ net' \subseteq Datagram /\ LC'.up = LC.up
         /\ LC'.auth_started = LC.auth_started /\ (LC'.phase = "need" => LC.phase = "need")
         /\ LC'.ready /\ LC'.run # "exit" => LC.ready /\ LC.run # "exit"
         /\ Shaken' /\ ServerUp'
<1> DEFINE n == [link[e] EXCEPT !.run = "stopping"]
<1>0. link \in [Ends -> Link] /\ link[e] \in Link
  BY LinkFacts
<1>1. n \in Link
  BY <1>0 DEF Link
<1>2. /\ Alike(n, link[e]) /\ n.up = link[e].up /\ n.failed = link[e].failed
      /\ n.phase = "idle" /\ n.run = "stopping"
  BY <1>0 DEF Link, Alike
<1>3. link' = [link EXCEPT ![e] = n]
  OBVIOUS
<1> HIDE DEF n
<1>4. Calm(n)
  BY <1>2 DEF Calm
<1>5. n.run # "exit" /\ n.phase \in {"idle", "pump"}
  BY <1>2
<1> QED BY <1>1, <1>2, <1>3, <1>4, <1>5, Paused

LEMMA LingerDoneOK == ASSUME LinkInv, LingerDone PROVE LinkInv'
<1>1. /\ link["client"].run = "on" /\ link["client"].phase = "idle" /\ "client" \in Ends
      /\ link' = [link EXCEPT !["client"].run = "stopping"]
      /\ UNCHANGED <<vars, prog, net, disk, tool, hist>>
      /\ net' = net /\ c2s' = c2s /\ server' = server
  BY DEF LingerDone, Idle, Ends, vars
<1>2. /\ link' \in [Ends -> Link] /\ net' \subseteq Datagram /\ LC'.up = LC.up
      /\ LC'.auth_started = LC.auth_started /\ (LC'.phase = "need" => LC.phase = "need")
      /\ LC'.ready /\ LC'.run # "exit" => LC.ready /\ LC.run # "exit"
      /\ Shaken' /\ ServerUp'
  BY <1>1, Stopped
<1> QED BY <1>1, <1>2, LinkStepOnly

LEMMA OnSignalOK == ASSUME LinkInv, NEW e \in Ends, OnSignal(e) PROVE LinkInv'
<1>1. /\ link[e].run = "on" /\ link[e].phase = "idle"
      /\ link' = [link EXCEPT ![e].run = "stopping"]
      /\ UNCHANGED <<vars, prog, net, disk, tool>>
      /\ net' = net /\ c2s' = c2s /\ server' = server
  BY DEF OnSignal, Idle, Ends, vars
<1>2. /\ link' \in [Ends -> Link] /\ net' \subseteq Datagram /\ LC'.up = LC.up
      /\ LC'.auth_started = LC.auth_started /\ (LC'.phase = "need" => LC.phase = "need")
      /\ LC'.ready /\ LC'.run # "exit" => LC.ready /\ LC.run # "exit"
      /\ Shaken' /\ ServerUp'
  BY <1>1, Stopped
<1>3. hist \in Hist
  BY LinkFacts
<1>4. /\ hist' \in Hist /\ hist'.full = hist.full /\ hist'.raced = hist.raced /\ hist'.harmed = hist.harmed
      /\ hist'.promised = hist.promised /\ hist'.dropped = hist.dropped
  BY <1>3, FaultNoted DEF OnSignal
<1> QED BY <1>1, <1>2, <1>4, LinkStep

LEMMA CrashOK == ASSUME LinkInv, Crash PROVE LinkInv'
<1> DEFINE n == [LS EXCEPT !.run = "exit", !.phase = "idle"]
<1>0. /\ link \in [Ends -> Link] /\ LS \in Link /\ hist \in Hist /\ net \subseteq Datagram
      /\ Shaken /\ ServerUp
  BY LinkFacts
<1>1. n \in Link
  BY <1>0 DEF Link
<1>2. /\ Alike(n, LS) /\ n.up = LS.up /\ n.failed = LS.failed /\ n.phase = "idle" /\ n.run = "exit"
  BY <1>0 DEF Link, Alike
<1>3. /\ link' = [link EXCEPT !["server"].run = "exit", !["server"].phase = "idle"]
      /\ hist' = [hist EXCEPT !.faults = @ + 1] /\ UNCHANGED <<vars, prog, net, disk, tool>>
  BY DEF Crash
<1>4. link' = [link EXCEPT !["server"] = n]
  BY <1>0, <1>3 DEF LS, Ends
<1> HIDE DEF n
<1>5. link' \in [Ends -> Link] /\ LS' = n /\ LC' = LC
  BY <1>0, <1>1, <1>4, OneEnd DEF Ends
<1>6. Shaken'
  BY <1>0, <1>2, <1>3, <1>5 DEF Shaken, Alike
<1>7. ServerUp'
  BY <1>0, <1>2, <1>3, <1>5 DEF ServerUp, vars, Calm
<1>8. /\ hist' \in Hist /\ hist'.full = hist.full /\ hist'.raced = hist.raced /\ hist'.harmed = hist.harmed
      /\ hist'.promised = hist.promised /\ hist'.dropped = hist.dropped
  BY <1>0, <1>3, FaultNoted
<1> QED BY <1>0, <1>3, <1>5, <1>6, <1>7, <1>8, LinkStep

LEMMA CloseOK == ASSUME LinkInv, NEW e \in Ends, Close(e) PROVE LinkInv'
<1> DEFINE n == [link[e] EXCEPT !.run = "exit"]
<1>0. /\ link \in [Ends -> Link] /\ link[e] \in Link /\ net \subseteq Datagram /\ Shaken /\ ServerUp
  BY LinkFacts
<1>1. n \in Link
  BY <1>0 DEF Link
<1>2. /\ Alike(n, link[e]) /\ n.up = link[e].up /\ n.failed = link[e].failed
      /\ n.phase = link[e].phase /\ n.run = "exit"
  BY <1>0 DEF Link, Alike
<1>3. /\ link' = [link EXCEPT ![e] = n] /\ link[e].phase = "idle" /\ link[e].run = "stopping"
      /\ UNCHANGED <<vars, prog, disk, tool, hist>>
      /\ \A x \in net' : \/ x \in net
                         \/ x = [to |-> Peer(e), kind |-> "BYE"] /\ link[e].conn = "CONNECTED"
  BY DEF Close, To
<1> HIDE DEF n
<1>4. /\ link' \in [Ends -> Link]
      /\ e = "client" => LC' = n /\ LS' = LS /\ link[e] = LC
      /\ e = "server" => LS' = n /\ LC' = LC /\ link[e] = LS
  BY <1>0, <1>1, <1>3, OneEnd
<1>5. \A x \in net' : \/ x \in net
                      \/ /\ x \in Datagram /\ x.kind = "BYE" /\ x.to = Peer(e)
                         /\ link[e].conn = "CONNECTED"
  BY <1>3 DEF Datagram, Peer, Ends
<1>6. net' \subseteq Datagram
  BY <1>0, <1>5
<1>7. CASE e = "client"
  <2>1. Shaken'
    BY <1>0, <1>2, <1>4, <1>5, <1>7 DEF Shaken, Alike
  <2>2. ServerUp'
    BY <1>0, <1>2, <1>3, <1>4, <1>7 DEF ServerUp, vars, Calm
  <2> QED BY <1>2, <1>3, <1>4, <1>6, <1>7, <2>1, <2>2, LinkStepOnly DEF Alike
<1>8. CASE e = "server"
  <2>1. Shaken'
    BY <1>0, <1>2, <1>4, <1>5, <1>8 DEF Shaken, Alike, Peer
  <2>2. ServerUp'
    BY <1>0, <1>2, <1>3, <1>4, <1>8 DEF ServerUp, vars, Calm
  <2> QED BY <1>3, <1>4, <1>6, <1>8, <2>1, <2>2, LinkStepOnly
<1> QED BY <1>7, <1>8 DEF Ends

LEMMA TimeoutOK == ASSUME LinkInv, NEW e \in Ends, Timeout(e) PROVE LinkInv'
<1> DEFINE l == [link[e] EXCEPT !.conn = "CLOSED", !.gone = TRUE]
           n == Pumped(l)
<1>0. /\ link \in [Ends -> Link] /\ link[e] \in Link /\ net \subseteq Datagram /\ Shaken /\ ServerUp
      /\ Calm(link[e])
  BY LinkFacts
<1>1. l \in Link
  BY <1>0 DEF Link
<1>2. /\ l.ready = link[e].ready /\ l.conn = "CLOSED" /\ l.out = link[e].out /\ l.tx = link[e].tx
      /\ l.rx = link[e].rx /\ l.auth_started = link[e].auth_started
      /\ l.up = link[e].up /\ l.failed = link[e].failed
      /\ l.run = link[e].run /\ l.down = link[e].down /\ l.gone
  BY <1>0 DEF Link
<1>3. /\ link' = [link EXCEPT ![e] = n] /\ link[e].phase = "idle" /\ link[e].run = "on"
      /\ link[e].conn \in {"CONNECTING", "CONNECTED"}
      /\ UNCHANGED <<vars, prog, net, disk, tool, hist>>
  BY DEF Timeout, Idle
<1> HIDE DEF l
<1>4. /\ n \in Link /\ Alike(n, l) /\ n.up = l.up /\ n.phase = "pump" /\ n.failed = l.failed
      /\ n.run # "exit" /\ Calm(n)
  <2>1. Calm(l) /\ l.run # "exit"
    BY <1>0, <1>2, <1>3 DEF Calm
  <2> QED BY <1>1, <2>1, PumpedIs
<1> HIDE DEF n
<1>5. /\ link' \in [Ends -> Link]
      /\ e = "client" => LC' = n /\ LS' = LS /\ link[e] = LC
      /\ e = "server" => LS' = n /\ LC' = LC /\ link[e] = LS
  BY <1>0, <1>3, <1>4, OneEnd
<1>6. Shaken'
  BY <1>0, <1>2, <1>3, <1>4, <1>5 DEF Shaken, Alike, Ends
<1>7. ServerUp'
  BY <1>0, <1>2, <1>3, <1>4, <1>5 DEF ServerUp, vars, Calm, Ends
<1>8. net' \subseteq Datagram
  BY <1>0, <1>3
<1>9. /\ LC'.up = LC.up /\ LC'.auth_started = LC.auth_started /\ (LC'.phase = "need" => LC.phase = "need")
      /\ LC'.ready /\ LC'.run # "exit" => LC.ready /\ LC.run # "exit"
  BY <1>2, <1>3, <1>4, <1>5 DEF Alike, Ends
<1> QED BY <1>3, <1>5, <1>6, <1>7, <1>8, <1>9, LinkStepOnly

-------------------------------------------------------------------------------
(* Steps of the client in which its login moves. *)

\* Before its verdict the client is in a login of NcAuth.
LEMMA Undecided ==
  ASSUME LinkInv, client.state # "OK"
  PROVE  IInv /\ Up /\ TypeOK /\ ~LC.up /\ client.need \in Needs
  BY DEF LinkInv, Conversation, IInv, TypeOK, Client

\* After it no message of the login is under way.
LEMMA Decided1 ==
  ASSUME LinkInv, client.state = "OK"
  PROVE  /\ client \in Client /\ server \in Server /\ app \in App
         /\ c2s \in Seq(AnyClient) /\ s2c \in Seq(App1)
         /\ server.state = "OK" /\ client.need = "NOTHING" /\ client.hello /\ Up
  BY DEF LinkInv, Conversation

\* What the machines say of each other holds on, so does what the link says.
LEMMA ConversationGoesOn ==
  ASSUME LinkInv, client.state # "OK", IInv', Up', client'.state = "OK" => s2c' = <<>>,
         LC'.up => client'.state = "OK", client'.hello => LC'.auth_started
  PROVE  Conversation'
<1>1. CASE client'.state # "OK"
  BY <1>1 DEF Conversation
<1>2. CASE client'.state = "OK"
  <2>1. /\ client' \in Client /\ server' \in Server /\ app' \in App
        /\ c2s' \in Seq(ClientMsgs) /\ s2c' \in Seq(ServerMsgs)
        /\ server'.state = "OK" /\ client'.need = "NOTHING"
    BY <1>2 DEF IInv, TypeOK, Verdicted, Heard
  <2>2. client'.hello
    BY <1>2, <2>1 DEF IInv, Greeting
  <2>3. c2s' \in Seq(AnyClient) /\ s2c' \in Seq(App1)
    BY <1>2, <2>1 DEF AnyClient
  <2>4. ~\E i \in 1..Len(c2s') : c2s'[i].type = "APP"
    <3> SUFFICES ASSUME NEW i \in 1..Len(c2s') PROVE c2s'[i].type # "APP"
      OBVIOUS
    <3>1. c2s'[i] \in ClientMsgs
      BY <2>1
    <3> QED BY <3>1 DEF ClientMsgs
  <2> QED BY <1>2, <2>1, <2>2, <2>3, <2>4 DEF Conversation
<1> QED BY <1>1, <1>2

LEMMA NoData ==
  ASSUME NEW q \in Seq(ClientMsgs)
  PROVE  ~\E i \in 1..Len(q) : q[i].type = "APP"
<1> SUFFICES ASSUME NEW i \in 1..Len(q) PROVE q[i].type # "APP"
  OBVIOUS
<1>1. q[i] \in ClientMsgs
  OBVIOUS
<1> QED BY <1>1 DEF ClientMsgs

LEMMA ClientLogin ==
  ASSUME LinkInv, client.state # "OK", IInv', UNCHANGED <<server, app, disk, tool, hist>>,
         link' \in [Ends -> Link], LS' = LS, net' \subseteq Datagram, prog' \in Prog,
         prog'.user = prog.user, prog'.key = prog.key,
         server.state = "OK" => prog'.secret = prog.secret,
         client'.state = "OK" => s2c' = <<>>,
         LC'.up => client'.state = "OK", client'.hello => LC'.auth_started,
         LC'.ready /\ LC'.run # "exit" => LC.ready /\ LC.run # "exit",
         ~client'.chose, Calm(LC'), Asking', Filling', Shaken'
  PROVE  LinkInv'
<1>0. server' = server /\ app' = app /\ disk' = disk /\ tool' = tool /\ hist' = hist
  OBVIOUS
<1>1. LinkTypes'
  BY <1>0 DEF LinkInv, LinkTypes
<1>2. Up'
  BY <1>0 DEF LinkInv, Conversation, Up
<1>3. Conversation'
  BY <1>2, ConversationGoesOn
<1>4. Choosing'
  BY <1>0 DEF LinkInv, Choosing
<1>5. ServerUp'
  <2>1. c2s' \in Seq(ClientMsgs)
    BY DEF IInv, TypeOK
  <2>2. ~\E i \in 1..Len(c2s') : c2s'[i].type = "APP"
    BY <2>1, NoData
  <2> QED BY <1>0, <2>2 DEF LinkInv, ServerUp
<1>6. Files' /\ ~hist'.dropped
  BY <1>0 DEF LinkInv, Files, TornHarmed, PromisesKept
<1>7. Credentials'
  BY <1>0 DEF LinkInv, Credentials
<1>8. Trusted'
  BY <1>0 DEF LinkInv, Trusted
<1> QED BY <1>1, <1>3, <1>4, <1>5, <1>6, <1>7, <1>8 DEF LinkInv

\* The form and its answers, when the client has sent at most one message.
LEMMA FillingSends ==
  ASSUME LinkInv, TypeOK, server' = server, app' = app, prog' \in Prog,
         NEW out, c2s' = c2s \o out, out = <<>> \/ \E m \in ClientMsgs : out = <<m>>,
         \A m : out = <<m>> =>
           /\ m.type = "IA_BEGIN" => app.forms = 0 /\ ~prog'.register
           /\ m.type = "IA_SUBMIT" => app.forms < MaxForms /\ Len(prog'.vals) = 3,
         prog'.register => prog.register,
         prog'.vals = prog.vals \/ Doomed \/ c2s = <<>>,
         Len(prog'.vals) <= 3, \A i \in 1..Len(prog'.vals) : prog'.vals[i] \in Fields[i],
         prog'.asking = "FORM" => Len(prog'.vals) < 3
  PROVE  Filling'
<1>0. c2s \in Seq(ClientMsgs) /\ Filling
  BY DEF TypeOK, LinkInv
<1>1. CASE out = <<>>
  <2>1. c2s' = c2s
    BY <1>0, <1>1, NotExtended
  <2>2. Doomed' <=> Doomed
    BY <2>1 DEF Doomed
  <2>3. c2s = <<>> => \A i \in 1..Len(c2s) : FALSE
    OBVIOUS
  <2> QED BY <1>0, <2>1, <2>2, <2>3 DEF Filling
<1>2. CASE out # <<>>
  <2>1. PICK m \in ClientMsgs : out = <<m>>
    BY <1>2
  <2>2. /\ Len(c2s') = Len(c2s) + 1 /\ Len(c2s) \in Nat /\ c2s'[Len(c2s) + 1] = m
        /\ \A i \in 1..Len(c2s) : c2s'[i] = c2s[i]
    BY <1>0, <2>1
  <2>3. Doomed => Doomed'
    BY <2>1, DoomedStays
  <2>4. c2s = <<>> => Len(c2s) = 0
    OBVIOUS
  <2>5. \A i \in 1..Len(c2s') : i \in 1..Len(c2s) \/ i = Len(c2s) + 1
    BY <2>2
  <2> DEFINE k == Len(c2s)
  <2> HIDE DEF k
  <2>6. ASSUME ~Doomed', NEW i \in 1..Len(c2s')
        PROVE  /\ c2s'[i].type = "IA_BEGIN" => app.forms = 0 /\ ~prog'.register
               /\ c2s'[i].type = "IA_SUBMIT" => app.forms < MaxForms /\ Len(prog'.vals) = 3
    <3>1. CASE i \in 1..Len(c2s)
      <4>1. prog'.vals = prog.vals
        BY <2>3, <2>4, <2>6, <3>1
      <4> QED BY <1>0, <2>2, <2>3, <2>6, <3>1, <4>1 DEF Filling
    <3>2. CASE i = Len(c2s) + 1
      BY <2>1, <2>2, <3>2
    <3> QED BY <2>5, <3>1, <3>2
  <2>7. prog'.register => app.forms = 0 /\ server.ia = None
    BY <1>0 DEF Filling
  <2> QED BY <2>6, <2>7 DEF Filling
<1> QED BY <1>1, <1>2

\* The client settles what its login did; l is its link before.
LEMMA ClientSettles ==
  ASSUME LinkInv, NEW l \in Link, Alike(l, LC), l.up = LC.up, l.run # "exit", Calm(l),
         NEW ret \in {"idle", "pump"}, Settle("client", l, ret), net' = net, client'.need \in Needs
  PROVE  /\ link' \in [Ends -> Link] /\ LS' = LS /\ net' \subseteq Datagram /\ Shaken'
         /\ Calm(LC') /\ LC'.run # "exit" /\ LC'.auth_started = LC.auth_started /\ LC'.ready = LC.ready
         /\ LC'.up => LC.up \/ client'.state = "OK"
         /\ LC'.phase = "need" => client'.need # "NOTHING"
<1> DEFINE n == Settled("client", l, ret)
<1>0. link \in [Ends -> Link] /\ net \subseteq Datagram /\ Shaken /\ "client" \in Ends
  BY LinkFacts DEF Ends
<1>1. /\ n \in Link /\ Alike(n, l) /\ n.run # "exit" /\ Calm(n)
      /\ n.phase = ret \/ (n.phase = "need" /\ client'.need # "NOTHING")
      /\ (n.up => l.up \/ client'.state = "OK") /\ (n.up => l.up \/ l.auth_started)
  <2>1. PICK e \in Ends : e = "client"
    BY <1>0
  <2>2. Settlement(e, l, ret, Settled(e, l, ret))
    BY SettledIs
  <2> HIDE DEF n
  <2>3. Settlement("client", l, ret, n)
    BY <2>1, <2>2 DEF n
  <2> QED BY <2>3 DEF Settlement
<1>2. link' = [link EXCEPT !["client"] = n]
  BY DEF Settle
<1> HIDE DEF n
<1>3. link' \in [Ends -> Link] /\ LC' = n /\ LS' = LS
  BY <1>0, <1>1, <1>2, OneEnd
<1>4. Shaken'
  BY <1>0, <1>1, <1>3 DEF Shaken, Alike
<1> QED BY <1>0, <1>1, <1>3, <1>4 DEF Alike

\* After a supply call.
LEMMA SuppliedIs ==
  ASSUME LinkInv, NEW ret \in {"idle", "pump"}, LC.run # "exit", Supplied(ret), net' = net,
         client'.need \in Needs
  PROVE  /\ link' \in [Ends -> Link] /\ LS' = LS /\ net' \subseteq Datagram /\ Shaken'
         /\ Calm(LC') /\ LC'.run # "exit" /\ LC'.auth_started = LC.auth_started /\ LC'.ready = LC.ready
         /\ LC'.up => LC.up \/ client'.state = "OK"
         /\ LC'.phase = "need" => client'.need # "NOTHING"
<1> DEFINE l == [LC EXCEPT !.need_fired = "NOTHING"]
<1>0. LC \in Link /\ Calm(LC)
  BY LinkFacts
<1>1. l \in Link
  BY <1>0 DEF Link, Needs
<1>2. Alike(l, LC) /\ l.up = LC.up /\ l.run = LC.run /\ l.down = LC.down
  BY <1>0 DEF Link, Alike
<1>3. Settle("client", l, ret)
  BY DEF Supplied, LC
<1> HIDE DEF l
<1>4. Calm(l) /\ l.run # "exit"
  BY <1>0, <1>2 DEF Calm
<1> QED BY <1>1, <1>2, <1>3, <1>4, ClientSettles

-------------------------------------------------------------------------------
(* The answers of the player, and the start of the login. *)

LEMMA AdvanceLink ==
  ASSUME LinkInv, NEW e \in Ends, Advance(e)
  PROVE  /\ link' \in [Ends -> Link] /\ net' \subseteq Datagram /\ Shaken'
         /\ LC'.up = LC.up /\ (LC.auth_started => LC'.auth_started) /\ LC'.ready = LC.ready
         /\ LC'.run # "exit" => LC.run # "exit"
         /\ LC'.phase = "need" => LC.phase = "need"
         /\ Calm(LC') /\ Calm(LS') /\ LS'.up = LS.up
         /\ e = "client" => LS' = LS /\ LC'.phase = "idle"
         /\ e = "server" => /\ LC' = LC /\ LS.phase # "idle" /\ LS.run # "exit"
                            /\ LS'.run # "exit" /\ (LS.run # "on" => LS'.run # "on")
         /\ \/ UNCHANGED vars
            \/ e = "client" /\ Start /\ LC'.auth_started
<1> DEFINE l == Pumped(link[e])
           a == Advanced(e, l)
           f == FireDown(l, "HOSTKEY")
           nf == [f EXCEPT !.phase = "idle"]
           na == [a EXCEPT !.out = {}, !.phase = "idle"]
<1>0. /\ link \in [Ends -> Link] /\ net \subseteq Datagram /\ LC \in Link /\ LS \in Link
      /\ Shaken /\ ServerUp /\ link[e] \in Link /\ Calm(link[e]) /\ Calm(LC) /\ Calm(LS)
  BY LinkFacts
<1>1. link[e].run # "exit" /\ link[e].phase \in {"recv", "pump"}
  BY DEF Advance, On
<1>2. /\ l \in Link /\ Alike(l, link[e]) /\ l.up = link[e].up /\ l.phase = "pump"
      /\ l.failed = link[e].failed /\ l.run # "exit" /\ Calm(l)
      /\ link[e].run = "stopping" => l.run = "stopping"
  BY <1>0, <1>1, PumpedIs
<1>3. \/ /\ l.failed /\ link' = [link EXCEPT ![e] = nf] /\ UNCHANGED <<vars, net>>
      \/ /\ ~l.failed /\ link' = [link EXCEPT ![e] = na]
         /\ net' = net \/ net' = net \cup To(Peer(e), a.out)
         /\ UNCHANGED vars \/ (e = "client" /\ Start /\ a.auth_started)
  BY DEF Advance
<1> HIDE DEF l
<1>4. CASE l.failed
  <2>1. e = "client"
    BY <1>0, <1>2, <1>4 DEF Shaken, Ends, LS
  <2>2. /\ f \in Link /\ Alike(f, l) /\ f.up = l.up /\ f.run = "stopping"
    BY <1>2, FireDownIs
  <2> HIDE DEF f
  <2>3. nf \in Link
    BY <2>2 DEF Link
  <2>4. /\ nf.up = f.up /\ nf.run = f.run /\ nf.phase = "idle" /\ Alike(nf, f)
    BY <2>2 DEF Link, Alike
  <2> HIDE DEF nf
  <2>5. link' = [link EXCEPT ![e] = nf] /\ UNCHANGED vars /\ net' = net
    BY <1>3, <1>4
  <2>6. link' \in [Ends -> Link] /\ LC' = nf /\ LS' = LS /\ link[e] = LC
    BY <1>0, <2>1, <2>3, <2>5, OneEnd
  <2>7. Shaken'
    BY <1>0, <1>2, <2>2, <2>4, <2>5, <2>6 DEF Shaken, Alike
  <2>8. Calm(LC')
    BY <2>2, <2>4, <2>6 DEF Calm
  <2> QED BY <1>0, <1>1, <1>2, <2>1, <2>2, <2>4, <2>5, <2>6, <2>7, <2>8 DEF Alike
<1>5. CASE ~l.failed
  <2>1. /\ a \in Link /\ a.run = l.run /\ a.phase = l.phase /\ a.down = l.down /\ a.up = l.up
        /\ a.rx = l.rx /\ a.ready = l.ready
        /\ a.conn = l.conn \/ (a.conn = "CONNECTING" /\ e = "client" /\ l.ready)
        /\ a.tx <=> l.tx \/ l.conn = "CONNECTED"
        /\ a.auth_started <=> l.auth_started \/ a.tx
        /\ \A k \in a.out : \/ k \in l.out \/ (k = "INIT" /\ e = "client")
                            \/ (k = "OPEN" /\ a.tx)
    BY <1>2, AdvancedIs
  <2>10. link' = [link EXCEPT ![e] = na]
        /\ (net' = net \/ net' = net \cup To(Peer(e), a.out))
        /\ (UNCHANGED vars \/ (e = "client" /\ Start /\ a.auth_started))
    BY <1>3, <1>5
  <2>11. a.failed = l.failed
    BY <1>2 DEF Advanced, Link
  <2> HIDE DEF a
  <2>2. na \in Link
    BY <2>1 DEF Link
  <2>3. /\ na.up = a.up /\ na.run = a.run /\ na.phase = "idle" /\ na.out = {} /\ na.down = a.down
        /\ na.ready = a.ready /\ na.conn = a.conn /\ na.tx = a.tx /\ na.rx = a.rx
        /\ na.auth_started = a.auth_started /\ na.failed = a.failed
    BY <2>1 DEF Link
  <2> HIDE DEF na
  <2>4. /\ link' \in [Ends -> Link]
        /\ e = "client" => LC' = na /\ LS' = LS /\ link[e] = LC
        /\ e = "server" => LS' = na /\ LC' = LC /\ link[e] = LS
    BY <1>0, <2>2, <2>10, OneEnd
  <2>5. \A x \in net' : x \in net \/ (x \in Datagram /\ x.to = Peer(e) /\ x.kind \in a.out)
    <3>1. a.out \subseteq {"INIT", "ACCEPT", "OPEN"}
      BY <2>1 DEF Link
    <3> QED BY <2>10, <3>1 DEF To, Datagram, Peer, Ends
  <2>6. net' \subseteq Datagram
    BY <1>0, <2>5
  <2>7. Calm(na)
    BY <1>2, <2>1, <2>3 DEF Calm
  <2>8. CASE e = "client"
    <3>1. Shaken'
      <4>1. Peer(e) = "server"
        BY <2>8 DEF Peer
      <4>2. LC'.out = {} /\ LS' = LS
        BY <2>3, <2>4, <2>8
      <4>3. \A x \in net' : x.kind = "INIT" => x.to = "server"
        BY <1>0, <2>5, <4>1 DEF Shaken
      <4>4. LC'.conn # "NEW" \/ LC'.tx \/ LC'.auth_started => LC'.ready
        BY <1>0, <1>2, <2>1, <2>3, <2>4, <2>8 DEF Shaken, Alike
      <4>5. LC'.up => LC'.auth_started
        BY <1>0, <1>2, <2>1, <2>3, <2>4, <2>8 DEF Shaken, Alike
      <4>6. ASSUME ~LS'.auth_started
            PROVE  /\ LC'.conn # "CONNECTED" /\ ~LC'.tx
                   /\ \A x \in net' : x.kind # "ACCEPT" /\ (x.to = "server" => x.kind \notin {"OPEN", "BYE"})
        <5>1. LC.conn # "CONNECTED" /\ ~LC.tx /\ LC.out = {}
          BY <1>0, <4>2, <4>6 DEF Shaken
        <5>2. ~a.tx /\ LC'.conn # "CONNECTED" /\ ~LC'.tx
          BY <1>2, <2>1, <2>3, <2>4, <2>8, <5>1 DEF Alike
        <5>3. \A k \in a.out : k = "INIT"
          BY <1>2, <2>1, <2>4, <2>8, <5>1, <5>2 DEF Alike
        <5> QED BY <1>0, <2>5, <4>2, <4>6, <5>2, <5>3 DEF Shaken
      <4> QED BY <1>0, <4>2, <4>3, <4>4, <4>5, <4>6 DEF Shaken
    <3> QED BY <1>0, <1>1, <1>2, <2>1, <2>3, <2>4, <2>6, <2>7, <2>8, <2>10, <3>1 DEF Alike
  <2>9. CASE e = "server"
    <3>1. Shaken'
      <4>1. Peer(e) = "client" /\ LC' = LC /\ LS' = na /\ link[e] = LS
        BY <2>4, <2>9 DEF Peer
      <4>2. "INIT" \notin a.out
        BY <1>0, <1>2, <2>1, <2>9, <4>1 DEF Shaken, Alike
      <4>3. ASSUME ~na.auth_started
            PROVE  /\ ~LS.auth_started /\ ~na.rx /\ "ACCEPT" \notin a.out
        <5>1. ~LS.auth_started /\ LS.conn # "CONNECTED" /\ ~a.tx
          BY <1>2, <2>1, <2>3, <4>1, <4>3 DEF Alike
        <5>2. "ACCEPT" \notin LS.out /\ ~LS.rx
          BY <1>0, <1>1, <4>1, <5>1 DEF Shaken
        <5> QED BY <1>2, <2>1, <2>3, <4>1, <5>1, <5>2 DEF Alike
      <4>4. na.out = {} /\ ~na.failed
        BY <1>5, <2>3, <2>11
      <4>5. \A x \in net' : x.kind = "INIT" => x.to = "server"
        BY <1>0, <2>5, <4>2 DEF Shaken
      <4>6. ASSUME ~na.auth_started, NEW x \in net'
            PROVE  x.kind # "ACCEPT" /\ (x.to = "server" => x.kind \notin {"OPEN", "BYE"})
        BY <1>0, <2>5, <4>1, <4>3, <4>6 DEF Shaken
      <4> QED BY <1>0, <4>1, <4>3, <4>4, <4>5, <4>6 DEF Shaken
    <3> QED BY <1>0, <1>1, <1>2, <2>1, <2>3, <2>4, <2>6, <2>7, <2>9, <2>10, <3>1 DEF Alike, Calm, Link
  <2> QED BY <2>8, <2>9 DEF Ends
<1> QED BY <1>4, <1>5

LEMMA AdvanceOK == ASSUME LinkInv, NEW e \in Ends, Advance(e) PROVE LinkInv'
<1>0. UNCHANGED <<prog, disk, tool, hist>>
  BY DEF Advance
<1>1. /\ link' \in [Ends -> Link] /\ net' \subseteq Datagram /\ Shaken'
      /\ LC'.up = LC.up /\ (LC.auth_started => LC'.auth_started) /\ LC'.ready = LC.ready
      /\ LC'.run # "exit" => LC.run # "exit"
      /\ LC'.phase = "need" => LC.phase = "need"
      /\ Calm(LC') /\ Calm(LS') /\ LS'.up = LS.up
      /\ e = "client" => LS' = LS /\ LC'.phase = "idle"
      /\ e = "server" => /\ LC' = LC /\ LS.phase # "idle" /\ LS.run # "exit"
                         /\ LS'.run # "exit" /\ (LS.run # "on" => LS'.run # "on")
      /\ UNCHANGED vars \/ (e = "client" /\ Start /\ LC'.auth_started)
  BY AdvanceLink
<1>2. CASE UNCHANGED vars
  <2>1. ServerUp'
    BY <1>1, <1>2 DEF LinkInv, ServerUp, Ends, vars
  <2>2. UNCHANGED <<vars, prog, disk, tool, hist>>
    BY <1>0, <1>2
  <2> QED BY <1>1, <2>1, <2>2, LinkStepOnly
<1>3. CASE e = "client" /\ Start /\ LC'.auth_started
  <2>1. /\ client.state = "PENDING" /\ client' = [client EXCEPT !.hello = TRUE]
        /\ c2s' = Append(c2s, Msg("HELLO")) /\ UNCHANGED <<server, app, s2c>>
    BY <1>3 DEF Start
  <2>2. IInv /\ TypeOK /\ Up /\ ~LC.up
    BY <2>1, Undecided
  <2>3. IInv'
    BY <1>3, <2>2, StartOK
  <2>4. client'.state = "PENDING" /\ client'.need = client.need /\ client'.chose = client.chose
    BY <2>1, <2>2 DEF TypeOK, Client
  <2>5. prog' \in Prog /\ prog' = prog
    BY <1>0 DEF LinkInv, LinkTypes
  <2>6. Filling'
    <3>1. c2s \in Seq(ClientMsgs) /\ Msg("HELLO") \in ClientMsgs /\ Msg("HELLO").type = "HELLO"
      BY <2>2 DEF TypeOK, Msg, ClientMsgs
    <3>2. c2s' = c2s \o <<Msg("HELLO")>>
      BY <2>1, <3>1
    <3>3. \A m : <<Msg("HELLO")>> = <<m>> => m.type = "HELLO"
      BY <3>1
    <3>4. /\ Len(prog.vals) <= 3 /\ \A i \in 1..Len(prog.vals) : prog.vals[i] \in Fields[i]
          /\ prog.asking = "FORM" => Len(prog.vals) < 3
      BY DEF LinkInv, Filling
    <3> QED BY <2>1, <2>2, <2>5, <3>1, <3>2, <3>3, <3>4, FillingSends
  <2>7. Asking'
    BY <1>1, <1>3, <2>4, <2>5 DEF LinkInv, Asking
  <2>8. ~client'.chose
    BY <2>4 DEF LinkInv, Choosing
  <2> QED BY <1>0, <1>1, <1>3, <2>1, <2>2, <2>3, <2>4, <2>5, <2>6, <2>7, <2>8, ClientLogin
<1> QED BY <1>1, <1>2, <1>3

-------------------------------------------------------------------------------
(* What the client supplies. *)

\* A client that has not been asked the method ahead sends nothing by itself.
LEMMA TryNextQuiet ==
  ASSUME NEW c \in Client, ~c.chose, c.state = "PENDING"
  PROVE  /\ TryNext(c).out = <<>> /\ ~TryNext(c).c.chose
  BY DEF TryNext, Chain, Client

LEMMA IaChooseQuiet ==
  ASSUME NEW c0 \in Client, c0.state = "PENDING"
  PROVE  /\ ~IaChoose(c0).c.chose
         /\ c0.chosen \cap Interactive = {} => IaChoose(c0).out = <<>>
  BY DEF IaChoose, Chain, Client

\* Every answer that goes through a supply call.
LEMMA SupplyStep ==
  ASSUME LinkInv, client.state # "OK", IInv', client'.state # "OK", ~client'.chose,
         client'.hello => client.hello, UNCHANGED <<server, app, net, disk, tool, hist>>,
         LC.run # "exit", NEW ret \in {"idle", "pump"}, Supplied(ret),
         prog' \in Prog, prog'.user = prog.user, prog'.key = prog.key, prog'.asking = "NOTHING",
         server.state = "OK" => prog'.secret = prog.secret, Filling'
  PROVE  LinkInv'
<1>1. client'.need \in Needs
  BY DEF IInv, TypeOK, Client
<1>2. /\ link' \in [Ends -> Link] /\ LS' = LS /\ net' \subseteq Datagram /\ Shaken'
      /\ Calm(LC') /\ LC'.run # "exit" /\ LC'.auth_started = LC.auth_started /\ LC'.ready = LC.ready
      /\ LC'.up => LC.up \/ client'.state = "OK"
      /\ LC'.phase = "need" => client'.need # "NOTHING"
  BY <1>1, SuppliedIs
<1>3. ~LC.up
  BY Undecided
<1>4. Asking'
  BY <1>2 DEF Asking
<1>5. client'.hello => LC'.auth_started
  BY <1>2 DEF LinkInv, Conversation
<1> QED BY <1>2, <1>3, <1>4, <1>5, ClientLogin

\* The player is asked, and the login is at that question.
LEMMA QuestionOpen ==
  ASSUME LinkInv, client.need # "NOTHING"
  PROVE  /\ client.state = "PENDING" /\ IInv /\ TypeOK /\ Up /\ server.state # "OK"
         /\ Doomed \/ c2s = <<>>
         /\ ~client.chose
<1>1. client.state # "OK"
  BY Decided1
<1>2. IInv /\ TypeOK /\ Up
  BY <1>1, Undecided
<1>3. client.state = "PENDING" /\ s2c = <<>>
  BY <1>2 DEF IInv, Heard
<1>4. server.state # "OK"
  <2>1. ~Sent("OK")
    BY <1>3 DEF Sent
  <2> QED BY <1>2, <1>3, <2>1 DEF IInv, Verdicted
<1>5. Doomed \/ c2s = <<>>
  BY <1>2 DEF IInv, Turns, TypeOK, Client, Needs
<1>6. ~client.chose
  BY DEF LinkInv, Choosing
<1> QED BY <1>2, <1>3, <1>4, <1>5, <1>6

LEMMA PromptedIs ==
  ASSUME LinkInv, Idle("client"), prog.asking # "NOTHING"
  PROVE  /\ client.need = prog.asking /\ client.need # "NOTHING" /\ LC.run = "on" /\ LC.run # "exit"
         /\ LC.phase = "idle" /\ prog \in Prog /\ prog.asking \in {"KEY", "PASSWORD", "FORM"}
  BY DEF LinkInv, Asking, Idle, LC, LinkTypes, Prog, Ends

\* The answers so far.
LEMMA FormSoFar ==
  ASSUME LinkInv
  PROVE  /\ prog \in Prog
         /\ Len(prog.vals) <= 3 /\ \A i \in 1..Len(prog.vals) : prog.vals[i] \in Fields[i]
         /\ prog.asking = "FORM" => Len(prog.vals) < 3
  BY DEF LinkInv, LinkTypes, Filling

\* nc_auth_supply_key and nc_auth_supply_password.
LEMMA CredentialSupplied ==
  ASSUME LinkInv, client.need \in {"KEY", "PASSWORD"}, NEW have \in BOOLEAN,
         SupplyKey(have) \/ SupplyPassword(have),
         prog' \in Prog, prog'.vals = prog.vals, prog'.register => prog.register,
         prog'.asking = "NOTHING"
  PROVE  /\ IInv' /\ client'.state # "OK" /\ ~client'.chose /\ client'.hello = client.hello
         /\ UNCHANGED <<server, app>> /\ Filling'
<1> DEFINE c == [client EXCEPT !.need = "NOTHING"]
<1>0. /\ client.state = "PENDING" /\ IInv /\ TypeOK /\ Up /\ ~client.chose /\ c2s \in Seq(ClientMsgs)
  BY QuestionOpen DEF TypeOK
<1>1. UNCHANGED <<server, app>>
  BY DEF SupplyKey, SupplyPassword
<1>2. PICK type \in {"PUBKEY", "PASSWORD"} :
        ClientStep(IF have THEN [c |-> c, out |-> <<Msg(type)>>] ELSE TryNext(c))
  BY DEF SupplyKey, SupplyPassword
<1>3. IInv'
  <2>1. CASE SupplyKey(have)
    <3>1. SupplyKey(have) => Next
      BY DEF Next, ClientApp
    <3> QED BY <1>0, <2>1, <3>1, Inductive
  <2>2. CASE SupplyPassword(have)
    <3>1. SupplyPassword(have) => Next
      BY DEF Next, ClientApp
    <3> QED BY <1>0, <2>2, <3>1, Inductive
  <2> QED BY <2>1, <2>2
<1>4. /\ c \in Client /\ c.state = "PENDING" /\ ~c.chose /\ c.hello = client.hello /\ c.ia = client.ia
  BY <1>0 DEF TypeOK, Client, Needs
<1>5. client.ia = None
  BY <1>0, ClientTurn
<1> HIDE DEF c
<1>6. CASE have
  <2>1. client' = c /\ c2s' = c2s \o <<Msg(type)>>
    BY <1>2, <1>6 DEF ClientStep
  <2>2. Msg(type) \in ClientMsgs /\ Msg(type).type = type
    BY DEF Msg, ClientMsgs
  <2>3. \A m : <<Msg(type)>> = <<m>> => m.type = type
    BY <2>2
  <2>4. Filling'
    BY <1>0, <1>1, <2>1, <2>2, <2>3, FormSoFar, FillingSends
  <2> QED BY <1>1, <1>3, <1>4, <2>1, <2>4
<1>7. CASE ~have
  <2>1. client' = TryNext(c).c /\ c2s' = c2s \o TryNext(c).out
    BY <1>2, <1>7 DEF ClientStep
  <2>2. TryNext(c).out = <<>> /\ ~TryNext(c).c.chose
    BY <1>4, TryNextQuiet
  <2>3. Moved(c, TryNext(c))
    BY <1>4, <1>5, TryNextMoves
  <2>4. TryNext(c).c.state # "OK" /\ TryNext(c).c.hello = c.hello
    BY <2>3 DEF Moved
  <2>5. c2s' = c2s \o <<>>
    BY <2>1, <2>2
  <2>6. \A m : <<>> = <<m>> => FALSE
    OBVIOUS
  <2>7. Filling'
    BY <1>0, <1>1, <2>5, <2>6, FormSoFar, FillingSends
  <2> QED BY <1>1, <1>3, <1>4, <2>1, <2>2, <2>4, <2>7
<1> QED BY <1>6, <1>7

LEMMA TypePasswordOK == ASSUME LinkInv, NEW pw \in Passwords, TypePassword(pw) PROVE LinkInv'
<1> DEFINE p == [[prog EXCEPT !.secret = pw] EXCEPT !.asking = "NOTHING"]
<1>1. /\ Idle("client") /\ prog.asking = "PASSWORD" /\ SupplyPassword(TRUE) /\ prog' = p
      /\ Supplied("idle") /\ UNCHANGED <<net, disk, tool, hist>>
  BY DEF TypePassword, Prompted, Answered
<1>2. /\ client.need = "PASSWORD" /\ client.need # "NOTHING" /\ LC.run # "exit" /\ prog \in Prog
  BY <1>1, PromptedIs
<1>3. client.state # "OK" /\ server.state # "OK"
  BY <1>2, QuestionOpen
<1>4. p \in Prog
  BY <1>2 DEF Prog
<1>5. /\ p.user = prog.user /\ p.key = prog.key /\ p.asking = "NOTHING" /\ p.vals = prog.vals
      /\ p.register = prog.register
  BY <1>2 DEF Prog
<1> HIDE DEF p
<1>6. /\ IInv' /\ client'.state # "OK" /\ ~client'.chose /\ client'.hello = client.hello
      /\ UNCHANGED <<server, app>> /\ Filling'
  BY <1>1, <1>2, <1>4, <1>5, CredentialSupplied
<1> QED BY <1>1, <1>2, <1>3, <1>4, <1>5, <1>6, SupplyStep

LEMMA AnsweredIs ==
  ASSUME prog \in Prog, Answered(prog)
  PROVE  /\ prog' \in Prog /\ prog'.user = prog.user /\ prog'.key = prog.key
         /\ prog'.asking = "NOTHING" /\ prog'.vals = prog.vals /\ prog'.secret = prog.secret
         /\ prog'.register = prog.register
<1> DEFINE p == [prog EXCEPT !.asking = "NOTHING"]
<1>1. p \in Prog
  BY DEF Prog
<1>2. /\ p.user = prog.user /\ p.key = prog.key /\ p.asking = "NOTHING" /\ p.vals = prog.vals
      /\ p.secret = prog.secret /\ p.register = prog.register
  BY DEF Prog
<1>3. prog' = p
  BY DEF Answered
<1> HIDE DEF p
<1> QED BY <1>1, <1>2, <1>3

LEMMA KeyfileLoadBoolean == ASSUME NEW f, NEW p PROVE KeyfileLoad(f, p) \in BOOLEAN
  BY DEF KeyfileLoad

LEMMA TypePassphraseOK == ASSUME LinkInv, NEW p, TypePassphrase(p) PROVE LinkInv'
<1>1. /\ Idle("client") /\ prog.asking = "KEY" /\ SupplyKey(KeyfileLoad(prog.key, p))
      /\ Answered(prog) /\ Supplied("idle") /\ UNCHANGED <<net, disk, tool, hist>>
  BY DEF TypePassphrase, Prompted
<1>2. /\ client.need = "KEY" /\ client.need # "NOTHING" /\ LC.run # "exit" /\ prog \in Prog
  BY <1>1, PromptedIs
<1>3. client.state # "OK"
  BY <1>2, QuestionOpen
<1>4. /\ prog' \in Prog /\ prog'.user = prog.user /\ prog'.key = prog.key
      /\ prog'.asking = "NOTHING" /\ prog'.vals = prog.vals /\ prog'.secret = prog.secret
      /\ prog'.register = prog.register
  BY <1>1, <1>2, AnsweredIs
<1>5. PICK have \in BOOLEAN : SupplyKey(have)
  BY <1>1, KeyfileLoadBoolean
<1>6. /\ IInv' /\ client'.state # "OK" /\ ~client'.chose /\ client'.hello = client.hello
      /\ UNCHANGED <<server, app>> /\ Filling'
  BY <1>2, <1>4, <1>5, CredentialSupplied
<1> QED BY <1>1, <1>2, <1>3, <1>4, <1>6, SupplyStep

-------------------------------------------------------------------------------
(* Forms, and the questions that are answered at once. *)

LEMMA CancelSupplied ==
  ASSUME LinkInv, client.need = "FORM", Cancel, prog' \in Prog, prog'.vals = prog.vals,
         prog'.register => prog.register, prog'.asking = "NOTHING"
  PROVE  /\ IInv' /\ client'.state # "OK" /\ ~client'.chose /\ client'.hello = client.hello
         /\ UNCHANGED <<server, app>> /\ Filling'
<1> DEFINE c == [client EXCEPT !.cancelling = TRUE, !.need = "NOTHING", !.waiting = FALSE,
                               !.token = FALSE]
<1>0. client.state = "PENDING" /\ IInv /\ TypeOK /\ ~client.chose
  BY QuestionOpen
<1>1. /\ client' = c /\ c2s' = c2s \o <<Msg("IA_CANCEL")>> /\ UNCHANGED <<server, app>>
  BY DEF Cancel, CancelStep, ClientStep
<1>2. IInv'
  BY <1>0, CancelOK
<1>3. c.state = "PENDING" /\ c.chose = client.chose /\ c.hello = client.hello
  BY <1>0 DEF TypeOK, Client
<1> HIDE DEF c
<1>4. Msg("IA_CANCEL") \in ClientMsgs /\ Msg("IA_CANCEL").type = "IA_CANCEL"
  BY DEF Msg, ClientMsgs
<1>5. \A m : <<Msg("IA_CANCEL")>> = <<m>> => m.type = "IA_CANCEL"
  BY <1>4
<1>6. Filling'
  BY <1>0, <1>1, <1>4, <1>5, FormSoFar, FillingSends
<1> QED BY <1>0, <1>1, <1>2, <1>3, <1>6

LEMMA EndOfInputOK == ASSUME LinkInv, EndOfInput PROVE LinkInv'
<1>1. /\ Idle("client") /\ prog.asking # "NOTHING" /\ Answered(prog) /\ Supplied("idle")
      /\ UNCHANGED <<net, disk, tool, hist>>
  BY DEF EndOfInput
<1>2. /\ client.need = prog.asking /\ client.need # "NOTHING" /\ LC.run # "exit" /\ prog \in Prog
      /\ prog.asking \in {"KEY", "PASSWORD", "FORM"}
  BY <1>1, PromptedIs
<1>3. client.state # "OK"
  BY <1>2, QuestionOpen
<1>4. /\ prog' \in Prog /\ prog'.user = prog.user /\ prog'.key = prog.key
      /\ prog'.asking = "NOTHING" /\ prog'.vals = prog.vals /\ prog'.secret = prog.secret
      /\ prog'.register = prog.register
  BY <1>1, <1>2, AnsweredIs
<1>5. \/ client.need \in {"KEY", "PASSWORD"} /\ (SupplyKey(FALSE) \/ SupplyPassword(FALSE))
      \/ client.need = "FORM" /\ Cancel
  BY <1>2 DEF EndOfInput
<1>6. /\ IInv' /\ client'.state # "OK" /\ ~client'.chose /\ client'.hello = client.hello
      /\ UNCHANGED <<server, app>> /\ Filling'
  BY <1>4, <1>5, CredentialSupplied, CancelSupplied
<1> QED BY <1>1, <1>2, <1>3, <1>4, <1>6, SupplyStep

\* The answers with one more.
LEMMA OneMore ==
  ASSUME LinkInv, prog.asking = "FORM", NEW v \in Users \cup Passwords \cup {Empty},
         v \in Fields[Len(prog.vals) + 1]
  PROVE  LET p == [prog EXCEPT !.vals = Append(@, v)] IN
         /\ p \in Prog /\ p.user = prog.user /\ p.key = prog.key /\ p.secret = prog.secret
         /\ p.register = prog.register /\ p.asking = "FORM"
         /\ Len(p.vals) <= 3 /\ \A i \in 1..Len(p.vals) : p.vals[i] \in Fields[i]
<1> DEFINE q == Append(prog.vals, v)
           p == [prog EXCEPT !.vals = q]
           n == Len(prog.vals)
<1>0. /\ prog \in Prog /\ prog.vals \in Seq(Users \cup Passwords \cup {Empty})
      /\ n < 3 /\ n \in Nat /\ \A i \in 1..n : prog.vals[i] \in Fields[i]
  BY FormSoFar DEF Prog
<1>1. /\ q \in Seq(Users \cup Passwords \cup {Empty}) /\ Len(q) = n + 1
      /\ q[n + 1] = v /\ \A i \in 1..n : q[i] = prog.vals[i]
  BY <1>0
<1> HIDE DEF q
<1>2. p \in Prog
  BY <1>0, <1>1 DEF Prog
<1>3. /\ p.user = prog.user /\ p.key = prog.key /\ p.secret = prog.secret
      /\ p.register = prog.register /\ p.asking = "FORM" /\ p.vals = q
  BY <1>0 DEF Prog
<1> HIDE DEF n
<1>4. Len(q) <= 3 /\ \A i \in 1..Len(q) : q[i] \in Fields[i]
  <2> SUFFICES ASSUME NEW i \in 1..(n + 1) PROVE q[i] \in Fields[i]
    BY <1>0, <1>1
  <2>1. i \in 1..n \/ i = n + 1
    BY <1>0
  <2> QED BY <1>0, <1>1, <2>1 DEF n
<1>5. p = [prog EXCEPT !.vals = Append(@, v)]
  BY DEF q
<1> HIDE DEF p
<1> QED BY <1>2, <1>3, <1>4, <1>5

LEMMA TypeFieldOK ==
  ASSUME LinkInv, NEW v \in Users \cup Passwords \cup {Empty}, TypeField(v)
  PROVE  LinkInv'
<1> DEFINE p == [prog EXCEPT !.vals = Append(@, v)]
<1>1. /\ Idle("client") /\ prog.asking = "FORM" /\ app.forms < MaxForms
      /\ v \in Fields[Len(prog.vals) + 1] /\ UNCHANGED <<net, disk, tool, hist>>
  BY DEF TypeField, Prompted
<1>2. /\ client.need = "FORM" /\ client.need # "NOTHING" /\ LC.run # "exit" /\ prog \in Prog
      /\ LC.phase = "idle"
  BY <1>1, PromptedIs
<1>3. /\ client.state = "PENDING" /\ IInv /\ TypeOK /\ Up /\ ~client.chose /\ server.state # "OK"
      /\ Doomed \/ c2s = <<>>
  BY <1>2, QuestionOpen
<1>4. /\ p \in Prog /\ p.user = prog.user /\ p.key = prog.key /\ p.secret = prog.secret
      /\ p.register = prog.register /\ p.asking = "FORM"
      /\ Len(p.vals) <= 3 /\ \A i \in 1..Len(p.vals) : p.vals[i] \in Fields[i]
  BY <1>1, OneMore
<1>5. /\ Len(Fields) = 3 /\ Len(p.vals) \in Nat
  BY <1>4 DEF Fields, Prog
<1>6. \/ Len(p.vals) < 3 /\ prog' = p /\ UNCHANGED <<vars, link>>
      \/ Len(p.vals) = 3 /\ Submit("ANSWERS") /\ Answered(p) /\ Supplied("idle")
  BY <1>4, <1>5 DEF TypeField
<1> HIDE DEF p
<1>7. CASE Len(p.vals) < 3 /\ prog' = p /\ UNCHANGED <<vars, link>>
  <2>1. /\ client' = client /\ server' = server /\ app' = app /\ c2s' = c2s /\ s2c' = s2c
        /\ link' = link /\ LC' = LC /\ LS' = LS
    BY <1>7 DEF vars, LC, LS
  <2>2. IInv'
    BY <1>3, <1>7, Inductive
  <2>3. Filling'
    <3>1. c2s' = c2s \o <<>>
      BY <1>3, <2>1, NotExtended DEF TypeOK
    <3>2. \A m : <<>> = <<m>> => FALSE
      OBVIOUS
    <3> QED BY <1>3, <1>4, <1>7, <2>1, <3>1, <3>2, FillingSends
  <2>4. Asking'
    BY <1>1, <1>2, <1>4, <1>7, <2>1 DEF LinkInv, Asking
  <2>5. Shaken' /\ Calm(LC') /\ link' \in [Ends -> Link] /\ net' \subseteq Datagram
    BY <1>1, <2>1, LinkFacts DEF Shaken
  <2>6. ~LC.up /\ (client.hello => LC.auth_started)
    BY <1>3, Undecided DEF LinkInv, Conversation
  <2> QED BY <1>1, <1>3, <1>4, <1>7, <2>1, <2>2, <2>3, <2>4, <2>5, <2>6, ClientLogin
<1>8. CASE Len(p.vals) = 3 /\ Submit("ANSWERS") /\ Answered(p) /\ Supplied("idle")
  <2> DEFINE q == [p EXCEPT !.asking = "NOTHING"]
             c == [client EXCEPT !.need = "NOTHING"]
  <2>1. q \in Prog
    BY <1>4 DEF Prog
  <2>2. /\ q.user = prog.user /\ q.key = prog.key /\ q.secret = prog.secret /\ q.vals = p.vals
        /\ q.register = prog.register /\ q.asking = "NOTHING"
    BY <1>4 DEF Prog
  <2>3. prog' = q
    BY <1>8 DEF Answered
  <2> HIDE DEF q
  <2>4. /\ client' = c /\ c2s' = c2s \o <<Msg("IA_SUBMIT")>> /\ UNCHANGED <<server, app>>
    BY <1>8 DEF Submit, ClientStep
  <2>5. IInv'
    BY <1>3, <1>8, SubmitOK
  <2>6. c.state = "PENDING" /\ c.chose = client.chose /\ c.hello = client.hello
    BY <1>3 DEF TypeOK, Client
  <2> HIDE DEF c
  <2>7. Msg("IA_SUBMIT") \in ClientMsgs /\ Msg("IA_SUBMIT").type = "IA_SUBMIT"
    BY DEF Msg, ClientMsgs
  <2>8. \A m : <<Msg("IA_SUBMIT")>> = <<m>> => m.type = "IA_SUBMIT"
    BY <2>7
  <2>9. Filling'
    BY <1>1, <1>3, <1>4, <1>8, <2>1, <2>2, <2>3, <2>4, <2>7, <2>8, FillingSends
  <2> QED BY <1>1, <1>2, <1>3, <1>8, <2>1, <2>2, <2>3, <2>4, <2>5, <2>6, <2>9, SupplyStep
<1> QED BY <1>6, <1>7, <1>8

LEMMA MethodSupplied ==
  ASSUME LinkInv, client.need = "METHOD",
         SupplyMethod(IF prog.register THEN {"REGISTER"} ELSE {"PUBKEY", "PASSWORD"}),
         prog' = [prog EXCEPT !.register = FALSE], prog.asking = "NOTHING"
  PROVE  /\ IInv' /\ client'.state # "OK" /\ ~client'.chose /\ client'.hello = client.hello
         /\ UNCHANGED <<server, app>> /\ Filling'
         /\ prog' \in Prog /\ prog'.user = prog.user /\ prog'.key = prog.key
         /\ prog'.asking = "NOTHING" /\ prog'.secret = prog.secret
<1> DEFINE m == IF prog.register THEN {"REGISTER"} ELSE {"PUBKEY", "PASSWORD"}
           wish == IF m \cap Interactive # {} THEN 1 ELSE 0
           w == client.wishes + wish
           c == [[client EXCEPT !.chosen = m, !.chose = TRUE, !.wishes = w] EXCEPT !.need = "NOTHING"]
           q == [prog EXCEPT !.register = FALSE]
<1>0. /\ client.state = "PENDING" /\ IInv /\ TypeOK /\ c2s \in Seq(ClientMsgs) /\ client.ia = None
  BY QuestionOpen, ClientTurn DEF TypeOK
<1>1. q \in Prog
  BY FormSoFar DEF Prog
<1>2. /\ q.user = prog.user /\ q.key = prog.key /\ q.secret = prog.secret /\ q.vals = prog.vals
      /\ ~q.register /\ q.asking = "NOTHING"
  BY FormSoFar DEF Prog
<1> HIDE DEF q
<1>3. m \in Choices /\ m \subseteq Methods
  BY DemoAssumption DEF Methods, Interactive
<1>4. IInv'
  <2>1. PICK n \in Choices : n = m
    BY <1>3
  <2>2. SupplyMethod(n)
    BY <2>1
  <2> QED BY <1>0, <2>2, SupplyMethodOK
<1>5. /\ client' = IaChoose(c).c /\ c2s' = c2s \o IaChoose(c).out /\ UNCHANGED <<server, app>>
      /\ w <= MaxWishes
  BY <1>0 DEF SupplyMethod, ClientStep, TypeOK, Client
<1>6. w \in 0..MaxWishes
  <2>1. wish \in {0, 1} /\ client.wishes \in 0..MaxWishes /\ MaxWishes \in Nat
    BY <1>0, AuthAssumption DEF TypeOK, Client
  <2> HIDE DEF wish
  <2> QED BY <1>5, <2>1
<1>7. /\ c \in Client
  BY <1>0, <1>3, <1>6 DEF TypeOK, Client, Needs
<1>8. /\ c.state = "PENDING" /\ c.ia = None /\ c.hello = client.hello /\ c.chosen = m
  BY <1>0 DEF TypeOK, Client
<1> HIDE DEF c
<1>9. Moved(c, IaChoose(c))
  BY <1>7, <1>8, IaChooseMoves
<1>10. ~IaChoose(c).c.chose /\ (c.chosen \cap Interactive = {} => IaChoose(c).out = <<>>)
  BY <1>7, <1>8, IaChooseQuiet
<1>11. IaChoose(c).c.state # "OK" /\ IaChoose(c).c.hello = c.hello
  BY <1>9 DEF Moved
<1>12. \/ IaChoose(c).out = <<>>
       \/ prog.register /\ \E x \in ClientMsgs : IaChoose(c).out = <<x>> /\ x.type # "IA_SUBMIT"
  <2>1. CASE prog.register
    BY <1>9, <2>1 DEF Moved
  <2>2. CASE ~prog.register
    BY <1>8, <1>10, <2>2 DEF Interactive
  <2> QED BY <2>1, <2>2
<1> DEFINE out == IaChoose(c).out
<1>13. c2s' = c2s \o out /\ (out = <<>> \/ \E x \in ClientMsgs : out = <<x>>)
  BY <1>5, <1>12
<1>14. \A x : out = <<x>> => /\ x.type = "IA_BEGIN" => app.forms = 0 /\ ~prog'.register
                             /\ x.type # "IA_SUBMIT"
  <2> SUFFICES ASSUME NEW x, out = <<x>>
               PROVE  prog.register /\ x.type # "IA_SUBMIT"
    BY <1>2 DEF LinkInv, Filling, q
  <2>1. out # <<>>
    OBVIOUS
  <2>2. PICK y \in ClientMsgs : prog.register /\ out = <<y>> /\ y.type # "IA_SUBMIT"
    BY <1>12, <2>1
  <2>3. x = y
    BY <2>2
  <2> QED BY <2>2, <2>3
<1> HIDE DEF out
<1>15. prog' = q
  BY DEF q
<1>16. Filling'
  BY <1>0, <1>1, <1>2, <1>5, <1>13, <1>14, <1>15, FormSoFar, FillingSends
<1> QED BY <1>1, <1>2, <1>4, <1>5, <1>8, <1>10, <1>11, <1>15, <1>16

LEMMA OnNeedOK == ASSUME LinkInv, OnNeed PROVE LinkInv'
<1> DEFINE ret == link["client"].ret
<1>0. /\ LC \in Link /\ link["client"] = LC /\ link \in [Ends -> Link] /\ net \subseteq Datagram
      /\ Shaken /\ Calm(LC)
  BY LinkFacts DEF LC
<1>1. /\ LC.run # "exit" /\ LC.phase = "need" /\ UNCHANGED <<net, disk, tool, hist>>
  BY <1>0 DEF OnNeed, On
<1>2. client.need # "NOTHING" /\ prog.asking = "NOTHING" /\ ret \in {"idle", "pump"}
  BY <1>0, <1>1 DEF LinkInv, Asking, Link
<1>3. /\ client.state = "PENDING" /\ IInv /\ TypeOK /\ Up /\ ~client.chose /\ server.state # "OK"
      /\ Doomed \/ c2s = <<>>
  BY <1>2, QuestionOpen
<1>4. \/ /\ client.need = "METHOD"
         /\ SupplyMethod(IF prog.register THEN {"REGISTER"} ELSE {"PUBKEY", "PASSWORD"})
         /\ prog' = [prog EXCEPT !.register = FALSE] /\ Supplied(ret)
      \/ /\ client.need = "KEY" /\ SupplyKey(KeyfileLoad(prog.key, Empty)) /\ Supplied(ret)
         /\ prog' = prog
      \/ /\ client.need \in {"KEY", "PASSWORD", "FORM"}
         /\ prog' = [prog EXCEPT !.asking = client.need, !.vals = <<>>]
         /\ link' = [link EXCEPT !["client"].need_fired = client.need, !["client"].phase = ret]
         /\ UNCHANGED vars
  <2>1. client.need \in {"KEY", "PASSWORD", "METHOD", "FORM"}
    BY <1>2, <1>3 DEF TypeOK, Client, Needs
  <2> QED BY <2>1 DEF OnNeed, SupplyKeyFromFile
<1> HIDE DEF ret
<1>5. CASE /\ client.need = "METHOD"
           /\ SupplyMethod(IF prog.register THEN {"REGISTER"} ELSE {"PUBKEY", "PASSWORD"})
           /\ prog' = [prog EXCEPT !.register = FALSE] /\ Supplied(ret)
  <2>1. /\ IInv' /\ client'.state # "OK" /\ ~client'.chose /\ client'.hello = client.hello
        /\ UNCHANGED <<server, app>> /\ Filling'
        /\ prog' \in Prog /\ prog'.user = prog.user /\ prog'.key = prog.key
        /\ prog'.asking = "NOTHING" /\ prog'.secret = prog.secret
    BY <1>2, <1>5, MethodSupplied
  <2>2. PICK r \in {"idle", "pump"} : Supplied(r)
    BY <1>2, <1>5
  <2> QED BY <1>1, <1>3, <2>1, <2>2, SupplyStep
<1>6. CASE /\ client.need = "KEY" /\ SupplyKey(KeyfileLoad(prog.key, Empty)) /\ Supplied(ret)
           /\ prog' = prog
  <2>1. PICK have \in BOOLEAN : SupplyKey(have)
    BY <1>6, KeyfileLoadBoolean
  <2>2. prog' \in Prog
    BY <1>6, FormSoFar
  <2>3. /\ IInv' /\ client'.state # "OK" /\ ~client'.chose /\ client'.hello = client.hello
        /\ UNCHANGED <<server, app>> /\ Filling'
    BY <1>2, <1>6, <2>1, <2>2, CredentialSupplied
  <2>4. PICK r \in {"idle", "pump"} : Supplied(r)
    BY <1>2, <1>6
  <2> QED BY <1>1, <1>2, <1>3, <1>6, <2>2, <2>3, <2>4, SupplyStep
<1>7. CASE /\ client.need \in {"KEY", "PASSWORD", "FORM"}
           /\ prog' = [prog EXCEPT !.asking = client.need, !.vals = <<>>]
           /\ link' = [link EXCEPT !["client"].need_fired = client.need, !["client"].phase = ret]
           /\ UNCHANGED vars
  <2> DEFINE q == [prog EXCEPT !.asking = client.need, !.vals = <<>>]
             n == [LC EXCEPT !.need_fired = client.need, !.phase = ret]
  <2>1. q \in Prog
    <3>1. PICK k : k = client.need
      OBVIOUS
    <3>2. k \in {"NOTHING", "KEY", "PASSWORD", "FORM"} /\ q = [prog EXCEPT !.asking = k, !.vals = <<>>]
      BY <1>7, <3>1
    <3>3. prog \in Prog /\ <<>> \in Seq(Users \cup Passwords \cup {Empty})
      BY FormSoFar
    <3> QED BY <3>2, <3>3 DEF Prog
  <2>2. /\ q.user = prog.user /\ q.key = prog.key /\ q.secret = prog.secret /\ q.vals = <<>>
        /\ q.register = prog.register /\ q.asking = client.need
    BY FormSoFar DEF Prog
  <2>3. n \in Link
    <3>1. PICK k : k = client.need
      OBVIOUS
    <3>2. k \in Needs /\ n = [LC EXCEPT !.need_fired = k, !.phase = ret]
      BY <1>7, <3>1 DEF Needs
    <3>3. PICK r \in {"idle", "recv", "pump", "need"} : r = ret
      BY <1>2
    <3>4. n = [LC EXCEPT !.need_fired = k, !.phase = r]
      BY <3>2, <3>3
    <3>5. k \in Needs /\ r \in {"idle", "recv", "pump", "need"} /\ LC \in Link
      BY <1>0, <3>2, <3>3
    <3> DEFINE m == [LC EXCEPT !.need_fired = k, !.phase = r]
    <3>6. m \in Link
      BY <3>5 DEF Link
    <3> QED BY <3>4, <3>6, Zenon
  <2>4. Alike(n, LC) /\ n.up = LC.up /\ n.run = LC.run /\ n.down = LC.down /\ n.phase = ret
    BY <1>0 DEF Link, Alike
  <2>5. link' = [link EXCEPT !["client"] = n]
    BY <1>0, <1>7 DEF LC, Ends
  <2>6. prog' = q
    BY <1>7
  <2> HIDE DEF q, n
  <2>7. link' \in [Ends -> Link] /\ LC' = n /\ LS' = LS
    BY <1>0, <2>3, <2>5, OneEnd DEF Ends
  <2>8. /\ client' = client /\ server' = server /\ app' = app /\ c2s' = c2s /\ s2c' = s2c
    BY <1>7 DEF vars
  <2>9. IInv'
    BY <1>3, <1>7, Inductive
  <2>10. Filling'
    <3>1. c2s' = c2s \o <<>>
      BY <1>3, <2>8, NotExtended DEF TypeOK
    <3>2. \A m : <<>> = <<m>> => FALSE
      OBVIOUS
    <3>3. Len(prog'.vals) = 0
      BY <2>2, <2>6
    <3>4. /\ Len(prog'.vals) <= 3 /\ Len(prog'.vals) < 3
          /\ \A i \in 1..Len(prog'.vals) : prog'.vals[i] \in Fields[i]
      BY <3>3
    <3> QED BY <1>3, <2>1, <2>2, <2>6, <2>8, <3>1, <3>2, <3>4, FillingSends
  <2>11. Asking'
    BY <1>2, <2>2, <2>4, <2>6, <2>7, <2>8 DEF Asking
  <2>12. Shaken' /\ Calm(LC') /\ net' \subseteq Datagram
    BY <1>0, <1>1, <2>4, <2>7 DEF Shaken, Alike, Calm
  <2>13. ~LC.up /\ (client.hello => LC.auth_started)
    BY <1>3, Undecided DEF LinkInv, Conversation
  <2>14. LC'.ready = LC.ready /\ LC'.up = LC.up /\ LC'.run = LC.run /\ LC'.auth_started = LC.auth_started
    BY <2>4, <2>7 DEF Alike
  <2> QED BY <1>1, <1>3, <2>1, <2>2, <2>6, <2>7, <2>8, <2>9, <2>10, <2>11, <2>12, <2>13, <2>14, ClientLogin
<1> QED BY <1>4, <1>5, <1>6, <1>7

-------------------------------------------------------------------------------
(* What the two ends read off the channel. *)

\* Application data, once the client has its verdict.
LEMMA DataStep ==
  ASSUME LinkInv, client.state = "OK", UNCHANGED <<client, server, app, disk, tool>>, hist' = hist,
         prog' \in Prog, prog'.user = prog.user, prog'.key = prog.key, prog'.secret = prog.secret,
         prog'.vals = prog.vals, prog'.asking = prog.asking, prog'.register = prog.register,
         link' \in [Ends -> Link], net' \subseteq Datagram, LC'.up = LC.up,
         LC'.auth_started = LC.auth_started, LC'.phase # "need",
         LC'.ready /\ LC'.run # "exit" => LC.ready /\ LC.run # "exit",
         c2s' \in Seq(AnyClient), s2c' \in Seq(App1),
         (\E i \in 1..Len(c2s') : c2s'[i].type = "APP") \/ s2c' # <<>> => LC.up,
         Shaken', ServerUp'
  PROVE  LinkInv'
<1>0. /\ client' = client /\ server' = server /\ app' = app /\ disk' = disk /\ tool' = tool
      /\ hist' = hist
  OBVIOUS
<1>1. LinkTypes'
  BY <1>0 DEF LinkInv, LinkTypes
<1>2. /\ client \in Client /\ server \in Server /\ app \in App
      /\ server.state = "OK" /\ client.need = "NOTHING" /\ client.hello /\ Up
  BY Decided1
<1>3. Conversation'
  BY <1>0, <1>2 DEF LinkInv, Conversation, Up
<1>4. Choosing' /\ Asking'
  BY <1>0 DEF LinkInv, Choosing, Asking
<1>5. Filling'
  BY <1>0, <1>2 DEF LinkInv, Filling, Doomed
<1>6. Files' /\ Credentials' /\ Trusted' /\ ~hist'.dropped
  BY <1>0 DEF LinkInv, Files, TornHarmed, PromisesKept, Credentials, Trusted
<1> QED BY <1>1, <1>3, <1>4, <1>5, <1>6 DEF LinkInv

\* One end goes on with its callback.
LEMMA GoesOn ==
  ASSUME LinkInv, NEW e \in Ends, NEW n \in Link, link' = [link EXCEPT ![e] = n], net' = net,
         Alike(n, link[e]), n.up => link[e].up \/ link[e].auth_started, link[e].up => n.up,
         n.failed = link[e].failed, n.run # "exit", link[e].run # "exit",
         n.phase # "idle" \/ link[e].phase = "idle" \/ e = "client"
  PROVE  /\ link' \in [Ends -> Link] /\ net' \subseteq Datagram /\ Shaken'
         /\ LC'.auth_started = LC.auth_started /\ LC'.ready = LC.ready
         /\ LC'.run # "exit" => LC.run # "exit"
         /\ e = "client" => LC' = n /\ LS' = LS /\ link[e] = LC
         /\ e = "server" => LS' = n /\ LC' = LC /\ link[e] = LS
<1>0. link \in [Ends -> Link] /\ net \subseteq Datagram /\ Shaken
  BY LinkFacts
<1>1. /\ link' \in [Ends -> Link]
      /\ e = "client" => LC' = n /\ LS' = LS /\ link[e] = LC
      /\ e = "server" => LS' = n /\ LC' = LC /\ link[e] = LS
  BY <1>0, OneEnd
<1>2. Shaken'
  BY <1>0, <1>1 DEF Shaken, Alike, Ends
<1> QED BY <1>0, <1>1, <1>2 DEF Alike, Ends

\* An end that is reading.
LEMMA Reading ==
  ASSUME LinkInv, NEW e \in Ends, Delivers(e)
  PROVE  LET p == Pumped(link[e]) IN
         /\ link[e].rx /\ link[e].run # "exit" /\ link[e].phase \in {"recv", "pump"}
         /\ p \in Link /\ Alike(p, link[e]) /\ p.up = link[e].up /\ p.phase = "pump"
         /\ p.failed = link[e].failed /\ p.run # "exit" /\ Calm(p)
         /\ link[e].run = "stopping" => p.run = "stopping"
<1>1. link[e].rx /\ link[e].run # "exit" /\ link[e].phase \in {"recv", "pump"}
  BY DEF Delivers, On
<1>2. link[e] \in Link /\ Calm(link[e])
  BY LinkFacts
<1> QED BY <1>1, <1>2, PumpedIs

\* What arrives finds the login begun.
LEMMA NothingEarly ==
  ASSUME LinkInv, NEW e \in Ends, Delivers(e), Inbound(e) # <<>>
  PROVE  link[e].auth_started
<1>1. link[e].rx
  BY DEF Delivers
<1>2. CASE e = "server"
  BY <1>1, <1>2 DEF LinkInv, Shaken, LS
<1>3. CASE e = "client"
  <2>1. s2c # <<>>
    BY <1>3 DEF Inbound
  <2>2. client.hello
    <3>1. CASE client.state = "OK"
      BY <3>1, Decided1
    <3>2. CASE client.state # "OK"
      BY <2>1, <3>2, Undecided DEF IInv, Greeting
    <3> QED BY <3>1, <3>2
  <2> QED BY <1>3, <2>2 DEF LinkInv, Conversation, LC
<1> QED BY <1>2, <1>3 DEF Ends

LEMMA AppTail ==
  ASSUME NEW S, NEW q \in Seq(S), q # <<>>
  PROVE  /\ Tail(q) \in Seq(S)
         /\ (\E i \in 1..Len(Tail(q)) : Tail(q)[i].type = "APP")
              => \E i \in 1..Len(q) : q[i].type = "APP"
<1>1. /\ Tail(q) \in Seq(S) /\ Len(Tail(q)) = Len(q) - 1 /\ Len(q) \in Nat
      /\ \A i \in 1..Len(Tail(q)) : Tail(q)[i] = q[i + 1]
  BY TailOf
<1>2. \A i \in 1..Len(Tail(q)) : i + 1 \in 1..Len(q)
  BY <1>1
<1> QED BY <1>1, <1>2

\* The head of the client's queue is a message of the login only before the verdict.
LEMMA LoginUnderWay ==
  ASSUME LinkInv, s2c # <<>>, Head(s2c).type # "APP"
  PROVE  client.state # "OK"
<1> SUFFICES ASSUME client.state = "OK" PROVE FALSE
  OBVIOUS
<1>1. s2c \in Seq(App1)
  BY Decided1
<1>2. Head(s2c) \in App1
  BY <1>1
<1> QED BY <1>2 DEF App1

\* What the client's machine does with a message.
LEMMA ClientHears ==
  ASSUME LinkInv, IInv, client.state # "OK",
         ClientMethods \/ ClientOk \/ ClientFail \/ ClientForm(TRUE) \/ ClientRefuses
  PROVE  /\ IInv' /\ UNCHANGED <<server, app>> /\ c2s' = c2s /\ client.need = "NOTHING"
         /\ client'.state = "OK" => s2c' = <<>>
         /\ ~client'.chose /\ client'.hello = client.hello
<1>0. /\ s2c # <<>> /\ Up /\ s2c' = Tail(s2c) /\ UNCHANGED <<server, app>>
  BY DEF ClientMethods, ClientOk, ClientFail, ClientForm, ClientFeed, ClientRefuses
<1>1. client.need = "NOTHING" /\ client \in Client /\ ~client.chose /\ c2s \in Seq(ClientMsgs)
      /\ s2c[1] \in ServerMsgs /\ Head(s2c) = s2c[1]
  BY <1>0, Unread DEF LinkInv, Choosing, IInv, TypeOK
<1>2. CASE ClientRefuses
  <2>1. IInv'
    BY <1>2, ClientRefusesOK
  <2> QED BY <1>0, <1>1, <1>2, <2>1 DEF ClientRefuses
<1>3. CASE ClientOk
  <2>1. IInv'
    BY <1>3, ClientOkOK
  <2>2. Head(s2c).type \in Final
    BY <1>3 DEF ClientOk, ClientFeed, Final
  <2>3. s2c' = <<>>
    BY <1>0, <2>2, FinalRead
  <2>4. client' = [client EXCEPT !.state = "OK"] /\ c2s' = c2s
    BY <1>3 DEF ClientOk
  <2>5. client'.chose = client.chose /\ client'.hello = client.hello
    BY <1>1, <2>4 DEF Client
  <2> QED BY <1>0, <1>1, <2>1, <2>3, <2>4, <2>5
<1>4. CASE ClientForm(TRUE)
  <2>1. IInv'
    BY <1>4, ClientFormOK
  <2>2. c2s' = c2s /\ client.state = "PENDING"
    BY <1>4 DEF ClientForm, ClientFeed
  <2>3. \/ client' = client \/ client' = [client EXCEPT !.state = "DENIED", !.err = "ORDER"]
        \/ client' = [client EXCEPT !.waiting = FALSE, !.need = "FORM"]
    BY <1>4 DEF ClientForm, ClientError
  <2>4. client'.state # "OK" /\ client'.chose = client.chose /\ client'.hello = client.hello
    BY <1>1, <2>2, <2>3 DEF Client
  <2> QED BY <1>0, <1>1, <2>1, <2>2, <2>4
<1>5. ASSUME NEW c \in Client, c.state = "PENDING", c.ia = None, ~c.chose, c.hello = client.hello,
             ClientStep(TryNext(c))
      PROVE  c2s' = c2s /\ client'.state # "OK" /\ ~client'.chose /\ client'.hello = client.hello
  <2>1. Moved(c, TryNext(c)) /\ TryNext(c).out = <<>> /\ ~TryNext(c).c.chose
    BY <1>5, TryNextMoves, TryNextQuiet
  <2>2. client' = TryNext(c).c /\ c2s' = c2s \o <<>>
    BY <1>5, <2>1 DEF ClientStep
  <2>3. c2s' = c2s
    BY <1>1, <2>2, NotExtended
  <2> QED BY <1>5, <2>1, <2>2, <2>3 DEF Moved
<1>6. CASE ClientFail
  <2> DEFINE c == [client EXCEPT !.avail = @ \cap Head(s2c).mask, !.ia = None,
                                 !.cancelling = FALSE, !.asked = FALSE]
  <2>1. IInv'
    BY <1>6, ClientFailOK
  <2>2. client.state = "PENDING" /\ ClientStep(TryNext(c))
    BY <1>6 DEF ClientFail, ClientFeed
  <2>3. c \in Client
    <3>1. client.avail \cap Head(s2c).mask \in SUBSET Methods
      BY <1>1 DEF Client
    <3> QED BY <1>1, <3>1 DEF Client
  <2>4. c.state = "PENDING" /\ c.ia = None /\ ~c.chose /\ c.hello = client.hello
    BY <1>1, <2>2 DEF Client
  <2> HIDE DEF c
  <2>5. c2s' = c2s /\ client'.state # "OK" /\ ~client'.chose /\ client'.hello = client.hello
    BY <1>5, <2>2, <2>3, <2>4
  <2> QED BY <1>0, <1>1, <2>1, <2>5
<1>7. CASE ClientMethods
  <2> DEFINE mask == Head(s2c).mask
             reg == client.registered \/ (client.ia = "REGISTER" /\ ~client.cancelling)
             c == [client EXCEPT !.registered = reg, !.ia = None, !.cancelling = FALSE,
                                 !.asked = FALSE, !.waiting = FALSE, !.avail = mask]
             d == [c EXCEPT !.state = "DENIED"]
  <2>1. IInv'
    BY <1>7, ClientMethodsOK
  <2>2. /\ client.state = "PENDING" /\ Head(s2c).type = "METHODS"
        /\ ClientStep(IF mask = {} THEN [c |-> d, out |-> <<>>] ELSE TryNext(c))
    BY <1>7 DEF ClientMethods, ClientFeed
  <2>3. c \in Client
    <3>1. mask \in SUBSET Methods
      BY <1>1, <2>2 DEF ServerMsgs
    <3>2. reg \in BOOLEAN
      OBVIOUS
    <3> HIDE DEF mask, reg
    <3> QED BY <1>1, <3>1, <3>2 DEF Client
  <2>4. c.state = "PENDING" /\ c.ia = None /\ ~c.chose /\ c.hello = client.hello
    BY <1>1, <2>2 DEF Client
  <2>5. d.state = "DENIED" /\ d.chose = c.chose /\ d.hello = c.hello
    BY <2>3 DEF Client
  <2> HIDE DEF c, d
  <2>6. CASE mask = {}
    <3>1. client' = d /\ c2s' = c2s \o <<>>
      BY <2>2, <2>6 DEF ClientStep
    <3>2. c2s' = c2s
      BY <1>1, <3>1, NotExtended
    <3> QED BY <1>0, <1>1, <2>1, <2>4, <2>5, <3>1, <3>2
  <2>7. CASE mask # {}
    <3>1. ClientStep(TryNext(c))
      BY <2>2, <2>7
    <3>2. c2s' = c2s /\ client'.state # "OK" /\ ~client'.chose /\ client'.hello = client.hello
      BY <1>5, <2>3, <2>4, <3>1
    <3> QED BY <1>0, <1>1, <2>1, <3>2
  <2> QED BY <2>6, <2>7
<1> QED BY <1>2, <1>3, <1>4, <1>6, <1>7

LEMMA ClientDeliverOK == ASSUME LinkInv, ClientDeliver PROVE LinkInv'
<1> DEFINE p == Pumped(link["client"])
<1>1. /\ Delivers("client") /\ s2c # <<>> /\ Head(s2c).type # "APP" /\ "client" \in Ends
      /\ link["client"] = LC
      /\ ClientMethods \/ ClientOk \/ ClientFail \/ ClientForm(TRUE) \/ ClientRefuses
      /\ Settle("client", p, "pump") /\ UNCHANGED <<prog, net, tool, disk, hist>>
  BY DEF ClientDeliver, LoginStep, Inbound, Fed1, Kept, Ends, LC
<1>2. client.state # "OK"
  BY <1>1, LoginUnderWay
<1>3. IInv /\ TypeOK /\ ~LC.up
  BY <1>2, Undecided
<1>4. /\ IInv' /\ UNCHANGED <<server, app>> /\ c2s' = c2s /\ client.need = "NOTHING"
      /\ client'.state = "OK" => s2c' = <<>>
      /\ ~client'.chose /\ client'.hello = client.hello
  BY <1>1, <1>2, <1>3, ClientHears
<1>5. /\ LC.run # "exit" /\ p \in Link /\ Alike(p, LC) /\ p.up = LC.up /\ p.run # "exit" /\ Calm(p)
  BY <1>1, Reading
<1> HIDE DEF p
<1>6. client'.need \in Needs
  BY <1>4 DEF IInv, TypeOK, Client
<1>7. /\ link' \in [Ends -> Link] /\ LS' = LS /\ net' \subseteq Datagram /\ Shaken'
      /\ Calm(LC') /\ LC'.run # "exit" /\ LC'.auth_started = LC.auth_started /\ LC'.ready = LC.ready
      /\ LC'.up => LC.up \/ client'.state = "OK"
      /\ LC'.phase = "need" => client'.need # "NOTHING"
  BY <1>1, <1>5, <1>6, ClientSettles
<1>8. prog' \in Prog /\ prog' = prog /\ prog.asking = "NOTHING"
  BY <1>1, <1>4, FormSoFar DEF LinkInv, Asking
<1>9. Asking'
  BY <1>7, <1>8 DEF Asking
<1>10. Filling'
  <2>1. c2s' = c2s \o <<>>
    BY <1>3, <1>4, NotExtended DEF TypeOK
  <2>2. \A m : <<>> = <<m>> => FALSE
    OBVIOUS
  <2> QED BY <1>3, <1>4, <1>8, <2>1, <2>2, FormSoFar, FillingSends
<1>11. client'.hello => LC'.auth_started
  BY <1>4, <1>7 DEF LinkInv, Conversation
<1> QED BY <1>1, <1>2, <1>3, <1>4, <1>5, <1>7, <1>8, <1>9, <1>10, <1>11, ClientLogin

-------------------------------------------------------------------------------
(* What the server reads. *)

LEMMA DenyKeeps ==
  ASSUME NEW s \in Server, NEW spent
  PROVE  LET d == Deny(s, spent).s IN
         d.avail \subseteq s.avail /\ d.ia = s.ia /\ d.state \in {s.state, "DENIED"}
<1> DEFINE left == s.avail \ spent
           end == s.tries + 1 >= MaxTries \/ left = {}
           mask == IF end THEN {} ELSE left
           st == IF end THEN "DENIED" ELSE s.state
           n == [s EXCEPT !.avail = mask, !.tries = @ + 1, !.state = st]
<1>1. Deny(s, spent).s = n
  BY DEF Deny
<1>2. mask \subseteq s.avail /\ st \in {s.state, "DENIED"}
  OBVIOUS
<1> HIDE DEF mask, end, st
<1>3. n.avail = mask /\ n.ia = s.ia /\ n.state = st
  BY DEF Server
<1> QED BY <1>1, <1>2, <1>3

LEMMA OfferKeeps ==
  ASSUME NEW s \in Server, NEW mask
  PROVE  LET o == Offer(s, mask).s IN
         o.avail = mask /\ o.ia = s.ia /\ o.state \in {s.state, "DENIED"}
<1> DEFINE st == IF mask = {} THEN "DENIED" ELSE s.state
           n == [s EXCEPT !.avail = mask, !.state = st]
<1>1. Offer(s, mask).s = n
  BY DEF Offer
<1>2. n.avail = mask /\ n.ia = s.ia /\ n.state = st
  BY DEF Server
<1> QED BY <1>1, <1>2

\* The form and its answers, when the server has read a message.
LEMMA FillingReads ==
  ASSUME LinkInv, TypeOK, c2s # <<>>, c2s' = Tail(c2s), prog' = prog,
         \/ /\ app'.forms = app.forms /\ server'.ia \in {server.ia, None} /\ (Doomed => Doomed')
         \/ /\ ~prog.register
            /\ \A i \in 1..Len(c2s') : c2s'[i].type = "IA_CANCEL"
  PROVE  Filling'
<1>0. Filling /\ c2s \in Seq(ClientMsgs)
  BY DEF LinkInv, TypeOK
<1>1. /\ Len(c2s) \in Nat /\ Len(c2s') = Len(c2s) - 1
      /\ \A i \in 1..Len(c2s') : c2s'[i] = c2s[i + 1]
  BY <1>0, TailOf
<1>2. \A i \in 1..Len(c2s') : i + 1 \in 1..Len(c2s)
  BY <1>1
<1>3. CASE /\ app'.forms = app.forms /\ server'.ia \in {server.ia, None} /\ (Doomed => Doomed')
  BY <1>0, <1>1, <1>2, <1>3 DEF Filling
<1>4. CASE ~prog.register /\ \A i \in 1..Len(c2s') : c2s'[i].type = "IA_CANCEL"
  BY <1>0, <1>4 DEF Filling
<1> QED BY <1>3, <1>4

\* What a message does to the server's machine, as the login goes on.
Heeded ==
  /\ IInv' /\ Up' /\ client' = client /\ c2s' = Tail(c2s)
  /\ server'.avail \subseteq SrvMethods /\ server'.ia \in {None, "REGISTER"}
  /\ prog' = prog => Filling'

\* A message that finds the server at an end, or that it has no use for.
LEMMA Passed ==
  ASSUME LinkInv, IInv, IInv', Up, c2s # <<>>, c2s' = Tail(c2s), UNCHANGED <<client, app>>,
         server'.avail \subseteq server.avail, server'.ia = server.ia, Doomed => Doomed'
  PROVE  Heeded
<1>0. TypeOK /\ Choosing
  BY DEF IInv, LinkInv
<1>1. Up'
  BY DEF Up
<1>2. server'.avail \subseteq SrvMethods /\ server'.ia \in {None, "REGISTER"}
  BY <1>0 DEF Choosing
<1>3. prog' = prog => Filling'
  BY <1>0, FillingReads
<1> QED BY <1>1, <1>2, <1>3 DEF Heeded

LEMMA ServerRefusesHeeded == ASSUME LinkInv, IInv, ServerRefuses PROVE Heeded /\ server' = server
<1>1. IInv'
  BY ServerRefusesOK
<1>2. /\ Up /\ c2s # <<>> /\ server.state # "PENDING" /\ c2s' = Tail(c2s)
      /\ client' = client /\ server' = server /\ app' = app
  BY DEF ServerRefuses
<1>3. Doomed'
  BY <1>2 DEF Doomed
<1> QED BY <1>1, <1>2, <1>3, Passed

LEMMA ServerHelloHeeded ==
  ASSUME LinkInv, IInv, ServerHello(SrvMethods) PROVE Heeded /\ server'.state # "OK"
<1> DEFINE n == [server EXCEPT !.greeted = TRUE]
<1>1. IInv'
  BY ServerHelloOK, DemoAssumption
<1>2. /\ Up /\ c2s # <<>> /\ Head(c2s).type = "HELLO" /\ server.state = "PENDING"
      /\ c2s' = Tail(c2s) /\ client' = client /\ app' = app
  BY DEF ServerHello, ServerFeed, ServerError
<1>3. server \in Server /\ TypeOK /\ Choosing
  BY DEF IInv, TypeOK, LinkInv
<1>4. ~Doomed
  BY <1>2 DEF Doomed
<1>5. CASE server.greeted
  <2>1. server' = [server EXCEPT !.state = "DENIED", !.err = "ORDER"]
    BY <1>5 DEF ServerHello, ServerError
  <2>2. server'.avail = server.avail /\ server'.ia = server.ia /\ server'.state = "DENIED"
    BY <1>3, <2>1 DEF Server
  <2> QED BY <1>1, <1>2, <1>4, <2>2, Passed
<1>6. CASE ~server.greeted
  <2>1. server' = Offer(n, SrvMethods).s
    BY <1>6 DEF ServerHello
  <2>2. n \in Server
    BY <1>3 DEF Server
  <2>3. n.ia = server.ia /\ n.state = server.state
    BY <1>3 DEF Server
  <2> HIDE DEF n
  <2>4. server'.avail = SrvMethods /\ server'.ia = n.ia /\ server'.state \in {n.state, "DENIED"}
    BY <2>1, <2>2, OfferKeeps
  <2>5. prog' = prog => Filling'
    BY <1>2, <1>3, <1>4, <2>3, <2>4, FillingReads
  <2>6. Up' /\ server'.ia \in {None, "REGISTER"}
    BY <1>2, <1>3, <2>3, <2>4 DEF Up, Choosing
  <2> QED BY <1>1, <1>2, <2>3, <2>4, <2>5, <2>6 DEF Heeded
<1> QED BY <1>5, <1>6

LEMMA CredentialHeeded ==
  ASSUME LinkInv, IInv, NEW method \in {"PUBKEY", "PASSWORD"}, NEW good \in BOOLEAN,
         ServerFeed(method), Credential(method, good)
  PROVE  Heeded /\ (server'.state = "OK" => good)
<1>1. IInv'
  BY CredentialReadOK
<1>2. /\ Up /\ c2s # <<>> /\ Head(c2s).type = method /\ server.state = "PENDING"
      /\ c2s' = Tail(c2s) /\ client' = client
  BY DEF ServerFeed
<1>3. server \in Server /\ app \in App /\ TypeOK /\ Choosing
  BY DEF IInv, TypeOK, LinkInv
<1>4. ~Doomed
  BY <1>2 DEF Doomed
<1>5. server.greeted
  BY <1>2, AskedGreeted
<1>6. CASE method \in server.avail /\ good
  <2>1. server' = [server EXCEPT !.state = "OK"] /\ app' = app
    BY <1>5, <1>6 DEF Credential
  <2>2. server'.avail = server.avail /\ server'.ia = server.ia
    BY <1>3, <2>1 DEF Server
  <2> QED BY <1>1, <1>2, <1>4, <1>6, <2>1, <2>2, Passed
<1>7. ASSUME NEW spent, server' = Deny(server, spent).s, app'.forms = app.forms, app'.gone = app.gone
      PROVE  Heeded /\ server'.state # "OK"
  <2>1. server'.avail \subseteq server.avail /\ server'.ia = server.ia
        /\ server'.state \in {server.state, "DENIED"}
    BY <1>3, <1>7, DenyKeeps
  <2>2. prog' = prog => Filling'
    BY <1>2, <1>3, <1>4, <1>7, <2>1, FillingReads
  <2>3. Up' /\ server'.avail \subseteq SrvMethods /\ server'.ia \in {None, "REGISTER"}
    BY <1>2, <1>3, <1>7, <2>1 DEF Up, Choosing
  <2> QED BY <1>1, <1>2, <2>1, <2>2, <2>3 DEF Heeded
<1>8. CASE method \notin server.avail
  <2>1. server' = Deny(server, {}).s /\ app' = app
    BY <1>5, <1>8 DEF Credential
  <2> QED BY <1>7, <2>1
<1>9. CASE method \in server.avail /\ ~good
  <2>1. server' = Deny(server, {method}).s /\ app' = [app EXCEPT !.refusals = @ + 1]
    BY <1>5, <1>9 DEF Credential
  <2>2. app'.forms = app.forms /\ app'.gone = app.gone
    BY <1>3, <2>1 DEF App
  <2> QED BY <1>7, <2>1, <2>2
<1> QED BY <1>6, <1>8, <1>9

-------------------------------------------------------------------------------
(* The server's side of a registration. *)

\* A request of the form: the client is past its choice, and there is a form left.
LEMMA FormRequested ==
  ASSUME LinkInv, IInv, Up, c2s # <<>>, server.state = "PENDING", c2s' = Tail(c2s),
         Head(c2s).type \in {"IA_BEGIN", "IA_SUBMIT"}
  PROVE  /\ ~prog.register /\ app.forms < MaxForms /\ app.forms \in Nat /\ server.greeted
         /\ \A i \in 1..Len(c2s') : c2s'[i].type = "IA_CANCEL"
         /\ Head(c2s).type = "IA_BEGIN" => server.ia = None /\ Head(c2s).method \in Interactive
         /\ Head(c2s).type = "IA_SUBMIT" => server.ia # None /\ Len(prog.vals) = 3
<1>0. Filling /\ app \in App
  BY DEF LinkInv, IInv, TypeOK
<1>1. ~Doomed /\ Crossed
  BY Requested
<1>2. 1 \in 1..Len(c2s) /\ Head(c2s) = c2s[1] /\ c2s[1] \in ClientMsgs
  BY Asked
<1>3. /\ Head(c2s).type = "IA_BEGIN" => server.ia = None
      /\ Head(c2s).type = "IA_SUBMIT" => server.ia # None
  BY <1>1, <1>2 DEF IInv, Turns
<1>4. Head(c2s).type = "IA_BEGIN" => Head(c2s).method \in Interactive
  BY <1>2 DEF ClientMsgs
<1>5. ~prog.register
  BY <1>0, <1>1, <1>2, <1>3 DEF Filling
<1>6. /\ Head(c2s).type = "IA_BEGIN" => app.forms = 0
      /\ Head(c2s).type = "IA_SUBMIT" => app.forms < MaxForms /\ Len(prog.vals) = 3
  BY <1>0, <1>1, <1>2 DEF Filling
<1>7. app.forms \in Nat /\ 0 < MaxForms
  BY <1>0, AuthAssumption, DemoAssumption DEF App
<1>8. app.forms < MaxForms
  BY <1>6, <1>7
<1>9. \A i \in 1..Len(c2s') : c2s'[i].type = "IA_CANCEL"
  BY <1>1, CrossedIs
<1>10. server.greeted
  BY AskedGreeted
<1> QED BY <1>3, <1>4, <1>5, <1>6, <1>7, <1>8, <1>9, <1>10

LEMMA ServerBeginHeeded ==
  ASSUME LinkInv, IInv, ServerBegin("MORE", SrvMethods) PROVE Heeded /\ server'.state # "OK"
<1> DEFINE method == Head(c2s).method
           s == [server EXCEPT !.ia = method, !.fired = FALSE]
           a == [app EXCEPT !.running = "YES", !.waiting = FALSE]
           b == [a EXCEPT !.forms = @ + 1, !.waiting = FALSE]
<1>1. /\ Up /\ c2s # <<>> /\ Head(c2s).type = "IA_BEGIN" /\ server.state = "PENDING"
      /\ c2s' = Tail(c2s) /\ client' = client
  BY DEF ServerBegin, ServerFeed
<1>2. /\ ~prog.register /\ app.forms < MaxForms /\ app.forms \in Nat /\ server.greeted
      /\ \A i \in 1..Len(c2s') : c2s'[i].type = "IA_CANCEL"
      /\ server.ia = None /\ method \in Interactive
  BY <1>1, FormRequested
<1>3. "MORE" \in BeginVerdicts
  BY <1>2 DEF BeginVerdicts, Verdicts
<1>4. IInv'
  <2>1. PICK v : v = "MORE"
    OBVIOUS
  <2> QED BY <1>3, <2>1, ServerBeginOK, DemoAssumption
<1>5. server \in Server /\ app \in App /\ TypeOK /\ Choosing
  BY DEF IInv, TypeOK, LinkInv
<1>6. prog' = prog => Filling'
  BY <1>1, <1>2, <1>5, FillingReads
<1>7. CASE method \notin server.avail \/ "begin" \notin server.iacb
  <2>1. server' = Deny(server, {}).s /\ app' = app
    BY <1>2, <1>7 DEF ServerBegin
  <2>2. server'.avail \subseteq server.avail /\ server'.ia = server.ia
        /\ server'.state \in {server.state, "DENIED"}
    BY <1>5, <2>1, DenyKeeps
  <2> QED BY <1>1, <1>4, <1>5, <1>6, <2>1, <2>2 DEF Heeded, Up, Choosing
<1>8. s \in Server /\ s.avail = server.avail /\ s.ia = method /\ s.state = server.state
  BY <1>2, <1>5 DEF Server
<1>9. CASE /\ method \in server.avail /\ "begin" \in server.iacb
            /\ Head(c2s).token /\ "resume" \notin server.iacb
  <2> DEFINE q == EndedServer(s)
             z == EndedApp(s, app)
  <2>1. server' = Deny(q, {method}).s /\ app' = [z EXCEPT !.untaken = @ + 1]
    BY <1>2, <1>9 DEF ServerBegin, EndAndDeny
  <2>2. z.gone = app.gone /\ z = [z EXCEPT !.gone = z.gone]
    <3>1. z = app \/ z = Cancelled(app)
      BY DEF EndedApp
    <3> QED BY <1>5, <3>1 DEF Cancelled, App
  <2> HIDE DEF z
  <2>3. app'.gone = app.gone
    BY <2>1, <2>2
  <2> HIDE DEF s
  <2>4. q \in Server /\ q.avail = s.avail /\ q.ia = None /\ q.state = s.state
    BY <1>8 DEF EndedServer, Server
  <2> HIDE DEF q
  <2>5. /\ server'.avail \subseteq server.avail /\ server'.ia = None
        /\ server'.state \in {server.state, "DENIED"}
    BY <1>8, <2>1, <2>4, DenyKeeps
  <2>6. Up'
    BY <1>1, <2>3 DEF Up
  <2> QED BY <1>1, <1>4, <1>5, <1>6, <2>5, <2>6 DEF Heeded, Choosing
<1>10. CASE /\ method \in server.avail /\ "begin" \in server.iacb
           /\ ~(Head(c2s).token /\ "resume" \notin server.iacb)
  <2>1. Decide(s, a, "MORE", SrvMethods)
    BY <1>2, <1>10 DEF ServerBegin
  <2>2. server' = s /\ app' = b
    BY <2>1 DEF Decide, Verdict
  <2>3. s.avail = server.avail /\ s.ia = method /\ s.state = server.state
    BY <1>5 DEF Server
  <2>4. b.gone = app.gone
    BY <1>5 DEF App
  <2>5. method = "REGISTER"
    BY <1>2, <1>5, <1>10 DEF Choosing, SrvMethods, Interactive
  <2> HIDE DEF s, a, b, method
  <2>6. Up'
    BY <1>1, <2>2, <2>4 DEF Up
  <2> QED BY <1>1, <1>4, <1>5, <1>6, <2>2, <2>3, <2>5, <2>6 DEF Heeded, Choosing
<1> QED BY <1>7, <1>10, <1>9

LEMMA ServerCancelHeeded ==
  ASSUME LinkInv, IInv, ServerCancel(SrvMethods) PROVE Heeded /\ server'.state # "OK"
<1> DEFINE n == EndedServer(server)
<1>1. IInv'
  BY ServerCancelOK, DemoAssumption
<1>2. /\ Up /\ c2s # <<>> /\ Head(c2s).type = "IA_CANCEL" /\ server.state = "PENDING"
      /\ c2s' = Tail(c2s) /\ client' = client
  BY DEF ServerCancel, ServerFeed
<1>3. server \in Server /\ app \in App /\ TypeOK /\ Choosing
  BY DEF IInv, TypeOK, LinkInv
<1>4. CASE server.ia = None
  <2>1. server' = [server EXCEPT !.state = "DENIED", !.err = "CANCEL"] /\ app' = app
    BY <1>4 DEF ServerCancel, ServerError
  <2>2. server'.avail = server.avail /\ server'.ia = server.ia /\ server'.state = "DENIED"
    BY <1>3, <2>1 DEF Server
  <2>3. Doomed'
    BY <2>2 DEF Doomed
  <2> QED BY <1>1, <1>2, <2>1, <2>2, <2>3, Passed
<1>5. CASE server.ia # None
  <2>0. ~Doomed
    BY <1>2, <1>5 DEF Doomed
  <2>1. server' = Offer(n, SrvMethods).s /\ app' = EndedApp(server, app)
    BY <1>5 DEF ServerCancel
  <2>2. n \in Server /\ n.ia = None /\ n.state = server.state
    BY <1>3 DEF Server, EndedServer
  <2> HIDE DEF n
  <2>3. server'.avail = SrvMethods /\ server'.ia = None /\ server'.state \in {server.state, "DENIED"}
    BY <2>1, <2>2, OfferKeeps
  <2>4. app'.forms = app.forms /\ app'.gone = app.gone
    <3>1. app' = app \/ app' = Cancelled(app)
      BY <2>1 DEF EndedApp
    <3> QED BY <1>3, <3>1 DEF Cancelled, App
  <2>5. prog' = prog => Filling'
    BY <1>2, <1>3, <2>0, <2>3, <2>4, FillingReads
  <2>6. Up'
    BY <1>2, <2>4 DEF Up
  <2> QED BY <1>1, <1>2, <2>3, <2>5, <2>6 DEF Heeded
<1> QED BY <1>4, <1>5

LEMMA ServerSubmitHeeded ==
  ASSUME LinkInv, IInv, NEW v \in {"MORE", "DONE"}, ServerSubmit(v, SrvMethods, FALSE, TRUE)
  PROVE  /\ Heeded /\ server.state # "OK" /\ server'.state # "OK" /\ Len(prog.vals) = 3
         /\ prog.vals[1] \in Users \cup {Empty} /\ prog.vals[2] \in Passwords
<1> DEFINE s == [server EXCEPT !.token = @ \/ FALSE]
           b == [app EXCEPT !.forms = @ + 1, !.waiting = FALSE]
           e == [s EXCEPT !.ia = None, !.fired = FALSE]
           d == [app EXCEPT !.running = "NO", !.waiting = FALSE, !.enrolled = @ + 1]
<1>1. /\ Up /\ c2s # <<>> /\ Head(c2s).type = "IA_SUBMIT" /\ server.state = "PENDING"
      /\ c2s' = Tail(c2s) /\ client' = client
  BY DEF ServerSubmit, ServerFeed
<1>2. /\ ~prog.register /\ app.forms < MaxForms /\ app.forms \in Nat
      /\ \A i \in 1..Len(c2s') : c2s'[i].type = "IA_CANCEL"
      /\ server.ia # None /\ Len(prog.vals) = 3
  BY <1>1, FormRequested
<1>3. v \in SubmitVerdicts
  BY <1>2 DEF SubmitVerdicts, Verdicts
<1>4. IInv'
  BY <1>3, ServerSubmitOK, DemoAssumption
<1>5. server \in Server /\ app \in App /\ TypeOK /\ Choosing /\ Filling
  BY DEF IInv, TypeOK, LinkInv
<1>6. prog' = prog => Filling'
  BY <1>1, <1>2, <1>5, FillingReads
<1>7. prog.vals[1] \in Users \cup {Empty} /\ prog.vals[2] \in Passwords
  <2>1. prog.vals[1] \in Fields[1] /\ prog.vals[2] \in Fields[2]
    BY <1>2, <1>5 DEF Filling
  <2> QED BY <2>1 DEF Fields
<1>8. CASE "submit" \notin server.iacb
  <2>1. server' = [server EXCEPT !.state = "DENIED", !.err = "SUBMIT"] /\ app' = app
    BY <1>2, <1>8 DEF ServerSubmit, ServerError
  <2>2. server'.avail = server.avail /\ server'.ia = server.ia /\ server'.state = "DENIED"
    BY <1>5, <2>1 DEF Server
  <2>3. Doomed'
    BY <2>2 DEF Doomed
  <2>4. Heeded
    BY <1>1, <1>4, <2>1, <2>2, <2>3, Passed
  <2> QED BY <1>1, <1>2, <1>7, <2>2, <2>4
<1>9. "submit" \in server.iacb => Decide(s, app, v, SrvMethods)
  BY <1>2 DEF ServerSubmit
<1>10. s \in Server /\ e \in Server
  <2>1. (server.token \/ FALSE) \in BOOLEAN
    BY <1>5 DEF Server
  <2> QED BY <1>5, <2>1 DEF Server
<1>11. /\ s.avail = server.avail /\ s.ia = server.ia /\ s.state = server.state
       /\ e.ia = None /\ e.state = server.state
  BY <1>5 DEF Server
<1>12. b.gone = app.gone /\ d.gone = app.gone
  BY <1>5 DEF App
<1>13. server.ia = "REGISTER"
  BY <1>2, <1>5 DEF Choosing
<1> HIDE DEF s
<1>14. CASE v = "MORE" /\ "submit" \in server.iacb
  <2>1. server' = s /\ app' = b
    BY <1>9, <1>14 DEF Decide, Verdict
  <2> HIDE DEF b
  <2> QED BY <1>1, <1>2, <1>4, <1>5, <1>6, <1>7, <1>11, <1>12, <2>1 DEF Heeded, Up, Choosing
<1>15. CASE v = "DONE" /\ "submit" \in server.iacb
  <2>1. server' = Offer(e, SrvMethods).s /\ app' = d
    BY <1>9, <1>11, <1>13, <1>15 DEF Decide, Verdict
  <2> HIDE DEF e, d
  <2>2. server'.avail = SrvMethods /\ server'.ia = None /\ server'.state \in {server.state, "DENIED"}
    BY <1>10, <1>11, <2>1, OfferKeeps
  <2>3. Up'
    BY <1>1, <1>12, <2>1 DEF Up
  <2> QED BY <1>1, <1>2, <1>4, <1>6, <1>7, <2>2, <2>3 DEF Heeded
<1> QED BY <1>8, <1>14, <1>15

-------------------------------------------------------------------------------
(* What the server's callbacks do to the files and to its link. *)

\* What is left of the history after a write.
LEMMA WroteIs ==
  ASSUME NEW h \in Hist, NEW cut \in Cuts
  PROVE  LET w == Wrote(h, cut) IN
         /\ w \in Hist /\ (w.full <=> h.full \/ cut # "whole") /\ w.raced = h.raced /\ w.harmed = h.harmed
         /\ w.promised = h.promised /\ w.dropped = h.dropped
<1> DEFINE f == h.full \/ cut # "whole"
           k == h.faults + Fault(cut)
           w == [h EXCEPT !.faults = k, !.full = f]
<1>1. Wrote(h, cut) = w
  BY DEF Wrote
<1>2. f \in BOOLEAN /\ k \in Nat
  <2>1. h.faults \in Nat /\ h.full \in BOOLEAN
    BY DEF Hist
  <2>2. Fault(cut) \in Nat
    BY DEF Fault
  <2> QED BY <2>1, <2>2
<1> HIDE DEF f, k
<1>3. w \in Hist
  BY <1>2 DEF Hist
<1>4. w.full = f /\ w.raced = h.raced /\ w.harmed = h.harmed /\ w.promised = h.promised /\ w.dropped = h.dropped
  BY DEF Hist
<1> QED BY <1>1, <1>3, <1>4 DEF f

LEMMA PromisedIs ==
  ASSUME hist \in Hist, NEW u \in Users, NEW pw \in Passwords \cup {Empty}, NEW cut \in Cuts
  PROVE  LET p == Promised(hist, u, pw, cut) IN
         /\ p \in Hist /\ p.promised = hist.promised \cup {<<u, pw>>}
         /\ hist.harmed \subseteq p.harmed /\ p.raced = hist.raced
         /\ cut # "whole" \/ Torn(disk.passwd) => <<FirstWord[u], pw>> \in p.harmed
         /\ (p.full <=> hist.full \/ cut # "whole") /\ p.dropped = hist.dropped
<1> DEFINE harm == cut # "whole" \/ Torn(disk.passwd)
           ps == hist.promised \cup {<<u, pw>>}
           hs == IF harm THEN hist.harmed \cup {<<FirstWord[u], pw>>} ELSE hist.harmed
           h == [hist EXCEPT !.promised = ps, !.harmed = hs]
<1>1. Promised(hist, u, pw, cut) = Wrote(h, cut)
  BY DEF Promised
<1>2. /\ hist.harmed \subseteq hs /\ (harm => <<FirstWord[u], pw>> \in hs)
  OBVIOUS
<1>3. ps \in SUBSET (Users \X (Passwords \cup {Empty}))
  BY DEF Hist
<1>4. hs \in SUBSET ({FirstWord[x] : x \in Users} \X (Passwords \cup {Empty}))
  <2>1. <<FirstWord[u], pw>> \in {FirstWord[x] : x \in Users} \X (Passwords \cup {Empty})
    OBVIOUS
  <2> QED BY <2>1 DEF Hist
<1> HIDE DEF ps, hs, harm
<1>5. h \in Hist
  BY <1>3, <1>4 DEF Hist
<1>6. /\ h.promised = ps /\ h.harmed = hs /\ h.full = hist.full /\ h.raced = hist.raced
      /\ h.dropped = hist.dropped
  BY DEF Hist
<1> HIDE DEF h
<1>7. LET w == Wrote(h, cut) IN
      /\ w \in Hist /\ (w.full <=> h.full \/ cut # "whole") /\ w.raced = h.raced
      /\ w.harmed = h.harmed /\ w.promised = h.promised /\ w.dropped = h.dropped
  BY <1>5, WroteIs
<1> QED BY <1>1, <1>2, <1>6, <1>7 DEF ps, harm

\* What a new line of passwd leaves of the files.
Written ==
  /\ disk' \in Disk /\ hist' \in Hist /\ Files' /\ ~hist'.dropped
  /\ disk'.known = disk.known /\ disk'.hostkey = disk.hostkey
  /\ disk'.authkeys = disk.authkeys /\ (hist.full => hist'.full)
  /\ \A x, y : CheckPassword(disk.passwd, x, y) => hist'.full \/ CheckPassword(disk'.passwd, x, y)
  /\ \A x, y :
       x \in Users /\ CheckPassword(disk.passwd, x, y) /\ <<x, y>> \notin hist'.harmed
         => CheckPassword(disk'.passwd, x, y)

\* The names that are somebody's.
LEMMA Somebody == ASSUME NEW u \in Users PROVE u # OtherName /\ u \in DOMAIN FirstWord
  BY NameAssumption, DemoAssumption

\* An account is written and promised.
LEMMA AccountWritten ==
  ASSUME LinkInv, NEW u \in Users, NEW pw \in Passwords \cup {Empty}, NEW cut \in Cuts,
         disk' = [disk EXCEPT !.passwd = PasswdAdd(@, u, pw, cut)], hist' \in Hist,
         hist'.promised = hist.promised \cup {<<u, pw>>},
         hist.harmed \subseteq hist'.harmed, hist.raced \subseteq hist'.raced,
         cut # "whole" \/ Torn(disk.passwd) => <<FirstWord[u], pw>> \in hist'.harmed,
         hist'.full <=> hist.full \/ cut # "whole", hist'.dropped = hist.dropped,
         Plain(u) => u \in hist'.raced \/ Matches(disk.passwd, u) = {}
  PROVE  Written
<1> DEFINE old == disk.passwd
           file == AppendLine(old, u, pw, cut)
<1>0. /\ disk \in Disk /\ old \in Seq(FileLine) /\ Files /\ ~hist.dropped /\ hist \in Hist
      /\ u \in Users \cup {Host} /\ pw \in Secrets
  BY DEF LinkInv, LinkTypes, Disk, Secrets
<1>1. file \in Seq(FileLine)
  BY <1>0, AppendIs
<1>2. disk' = [disk EXCEPT !.passwd = file]
  BY DEF PasswdAdd
<1>3. /\ Whole(old) => ~Torn(old)
      /\ Whole(old) /\ cut = "whole" => Whole(file)
      /\ Torn(file) /\ Working(Last(file)) =>
           \/ Torn(old) /\ Last(file) = Last(old)
           \/ cut # "whole" /\ Last(file).name = FirstWord[u] /\ Last(file).value = pw
  BY <1>0, AppendTorn
<1>4. ASSUME NEW x, Torn(old) => x # OtherName, NEW y, CheckPassword(old, x, y),
             ~(Torn(old) /\ Last(old).name = x /\ Last(old).value = y)
      PROVE  CheckPassword(file, x, y)
  BY <1>0, <1>4, AppendScan
<1>5. ASSUME ~Torn(old), cut = "whole", Plain(u), Matches(old, u) = {}
      PROVE  CheckPassword(file, u, pw)
  BY <1>0, <1>5, AppendWorks
<1> HIDE DEF file
<1>6. /\ disk'.passwd = file /\ disk'.known = disk.known /\ disk'.hostkey = disk.hostkey
      /\ disk'.authkeys = disk.authkeys
  BY <1>0, <1>2 DEF Disk
<1>7. disk' \in Disk
  BY <1>0, <1>1, <1>2 DEF Disk
<1>8. ASSUME ~hist'.full
      PROVE  /\ Whole(file) /\ Whole(disk.known)
             /\ \A x, y : CheckPassword(old, x, y) => CheckPassword(file, x, y)
  <2>1. cut = "whole" /\ Whole(old) /\ Whole(disk.known)
    BY <1>0, <1>8 DEF Files
  <2> QED BY <1>3, <1>4, <2>1
<1>9. ASSUME NEW x \in Users, NEW y, CheckPassword(old, x, y), <<x, y>> \notin hist'.harmed
      PROVE  CheckPassword(file, x, y)
  <2>1. x # OtherName
    BY Somebody
  <2>2. y # Undecodable
    BY <1>0, <1>9, WorksDecoded
  <2>3. ~(Torn(old) /\ Last(old).name = x /\ Last(old).value = y)
    BY <1>0, <1>9, <2>1, <2>2 DEF Files, TornHarmed, Working
  <2> QED BY <1>4, <1>9, <2>1, <2>3
<1>10. TornHarmed'
  <2> SUFFICES ASSUME Torn(file), Working(Last(file))
               PROVE  <<Last(file).name, Last(file).value>> \in hist'.harmed
    BY <1>6 DEF TornHarmed
  <2> QED BY <1>0, <1>3 DEF Files, TornHarmed
<1>11. ASSUME NEW r \in hist'.promised, Plain(r[1]), r \notin hist'.harmed, r[1] \notin hist'.raced
       PROVE  CheckPassword(file, r[1], r[2])
  <2>1. CASE r \in hist.promised
    <3>1. r[1] \in Users /\ r = <<r[1], r[2]>>
      BY <1>0, <2>1 DEF Hist
    <3>2. CheckPassword(old, r[1], r[2])
      BY <1>0, <1>11, <2>1 DEF Files, PromisesKept
    <3> QED BY <1>9, <1>11, <3>1, <3>2
  <2>2. CASE r = <<u, pw>>
    <3>1. r[1] = u /\ r[2] = pw /\ FirstWord[u] = u
      BY <1>11, <2>2 DEF Plain
    <3>2. cut = "whole" /\ ~Torn(old) /\ Matches(old, u) = {}
      BY <1>11, <2>2, <3>1
    <3> QED BY <1>5, <1>11, <3>1, <3>2
  <2> QED BY <1>11, <2>1, <2>2
<1>12. PromisesKept'
  BY <1>6, <1>11 DEF PromisesKept
<1>13. Files'
  BY <1>6, <1>8, <1>10, <1>12 DEF Files
<1> QED BY <1>0, <1>6, <1>7, <1>8, <1>9, <1>13 DEF Written

\* The server settles what its login did.
LEMMA ServerSettles ==
  ASSUME LinkInv, LS.run # "exit", Settle("server", Pumped(link["server"]), "pump"), net' = net,
         client'.need \in Needs, LS.auth_started
  PROVE  /\ link' \in [Ends -> Link] /\ LC' = LC /\ net' \subseteq Datagram /\ Shaken' /\ Calm(LS')
         /\ server'.state = "OK" => LS'.up \/ LS'.run # "on"
         /\ LS.up => LS'.up
<1> DEFINE l == Pumped(link["server"])
           n == Settled("server", l, "pump")
<1>0. link \in [Ends -> Link] /\ "server" \in Ends /\ link["server"] = LS
  BY LinkFacts DEF Ends, LS
<1>1. /\ LS.run # "exit" /\ l \in Link /\ Alike(l, LS) /\ l.up = LS.up /\ l.phase = "pump"
      /\ l.failed = LS.failed /\ l.run # "exit" /\ Calm(l)
      /\ LS.run = "stopping" => l.run = "stopping"
  <2>1. LS \in Link /\ Calm(LS)
    BY LinkFacts
  <2> QED BY <1>0, <2>1, PumpedIs
<1> HIDE DEF l
<1>2. Settlement("server", l, "pump", n)
  <2>1. PICK e \in Ends : e = "server"
    BY <1>0
  <2>2. PICK ret \in {"idle", "pump"} : ret = "pump"
    OBVIOUS
  <2>3. Settlement(e, l, ret, Settled(e, l, ret))
    BY <1>1, SettledIs
  <2> QED BY <2>1, <2>2, <2>3
<1>3. link' = [link EXCEPT !["server"] = n]
  BY DEF Settle, l
<1> HIDE DEF n
<1>4. /\ n \in Link /\ Alike(n, l) /\ n.run # "exit" /\ Calm(n) /\ (l.up => n.up) /\ n.failed = l.failed
      /\ n.phase = "pump" /\ (n.up => l.up \/ l.auth_started)
      /\ l.auth_started /\ server'.state = "OK" => n.up \/ n.run # "on"
  BY <1>2 DEF Settlement
<1>5. Alike(n, LS) /\ l.auth_started = LS.auth_started
  BY <1>1, <1>4 DEF Alike
<1>6. /\ link' \in [Ends -> Link] /\ net' \subseteq Datagram /\ Shaken' /\ LS' = n /\ LC' = LC
  <2>1. PICK e \in Ends : e = "server"
    BY <1>0
  <2>2. link' = [link EXCEPT ![e] = n] /\ link[e] = LS
    BY <1>0, <1>3, <2>1
  <2>3. /\ Alike(n, link[e]) /\ (n.up => link[e].up \/ link[e].auth_started) /\ (link[e].up => n.up)
        /\ n.failed = link[e].failed /\ link[e].run # "exit" /\ n.phase # "idle"
    BY <1>1, <1>4, <1>5, <2>2
  <2> QED BY <1>4, <2>1, <2>2, <2>3, GoesOn
<1> QED BY <1>1, <1>4, <1>5, <1>6

\* The login goes on at the server.
LEMMA ServerLogin ==
  ASSUME LinkInv, client.state # "OK", Heeded, prog' = prog, tool' = tool, hist' \in Hist,
         disk' \in Disk, link' \in [Ends -> Link], net' \subseteq Datagram, LC' = LC, Shaken', Calm(LS'),
         server'.state = "OK" => LS'.up \/ LS'.run # "on", Files', ~hist'.dropped,
         Credentials', disk'.known = disk.known, disk'.hostkey = disk.hostkey,
         hist.full => hist'.full
  PROVE  LinkInv'
<1>0. /\ client' = client /\ prog' = prog /\ tool' = tool /\ LC' = LC
  BY DEF Heeded
<1>1. LinkTypes'
  BY <1>0 DEF LinkInv, LinkTypes
<1>2. LC'.up => client'.state = "OK"
  BY <1>0 DEF LinkInv, Conversation
<1>3. client'.hello => LC'.auth_started
  BY <1>0 DEF LinkInv, Conversation
<1>4. Conversation'
  BY <1>0, <1>2, <1>3, ConversationGoesOn DEF Heeded
<1>5. Choosing' /\ Filling'
  BY <1>0 DEF LinkInv, Choosing, Heeded
<1>6. ServerUp'
  <2>1. c2s' \in Seq(ClientMsgs)
    BY DEF Heeded, IInv, TypeOK
  <2>2. ~\E i \in 1..Len(c2s') : c2s'[i].type = "APP"
    BY <2>1, NoData
  <2> QED BY <1>0, <2>2 DEF LinkInv, ServerUp
<1>7. Asking'
  BY <1>0 DEF LinkInv, Asking
<1>8. Trusted'
  BY <1>0 DEF LinkInv, Trusted
<1> QED BY <1>1, <1>4, <1>5, <1>6, <1>7, <1>8 DEF LinkInv

-------------------------------------------------------------------------------
(* deliver, at the server. *)

\* After the client's verdict the server has nothing but data to read, or what it
\* passes over.
LEMMA ServerReadsOn ==
  ASSUME LinkInv, client.state = "OK", Delivers("server"), c2s # <<>>, c2s' = Tail(c2s),
         UNCHANGED <<client, server, app, prog, disk, tool, hist>>, link' \in [Ends -> Link],
         LC' = LC, net' = net, Shaken', Calm(LS'), LS.up => LS'.up,
         server.state = "OK" => LS'.up \/ LS'.run # "on", s2c' \in Seq(App1), s2c' # <<>> => LC.up,
         LC.phase # "need"
  PROVE  LinkInv'
<1>0. c2s \in Seq(AnyClient) /\ prog \in Prog /\ net \subseteq Datagram
  BY Decided1 DEF LinkInv, LinkTypes
<1>1. /\ Tail(c2s) \in Seq(AnyClient)
      /\ (\E i \in 1..Len(c2s') : c2s'[i].type = "APP")
           => \E i \in 1..Len(c2s) : c2s[i].type = "APP"
  BY <1>0, AppTail
<1>2. LS.run # "exit" /\ LS.phase # "idle"
  BY DEF Delivers, On, LS
<1>3. ServerUp'
  BY <1>1, <1>2 DEF LinkInv, ServerUp
<1>4. (\E i \in 1..Len(c2s') : c2s'[i].type = "APP") \/ s2c' # <<>> => LC.up
  BY <1>1 DEF LinkInv, Conversation
<1> QED BY <1>0, <1>1, <1>3, <1>4, DataStep

\* The client waits for no answer once it has its verdict.
LEMMA NoQuestion ==
  ASSUME LinkInv, client.state = "OK" PROVE LC.phase # "need"
  BY Decided1 DEF LinkInv, Asking

LEMMA GoodIsBoolean ==
  ASSUME NEW file, NEW user, NEW x
  PROVE  AuthorizedKey(file, user, x) \in BOOLEAN /\ CheckPassword(file, user, x) \in BOOLEAN
  BY DEF AuthorizedKey, CheckPassword

LEMMA ServerDeliverOK == ASSUME LinkInv, ServerDeliver PROVE LinkInv'
<1>1. /\ Delivers("server") /\ c2s # <<>> /\ LS.auth_started /\ "server" \in Ends
      /\ Settle("server", Pumped(link["server"]), "pump") /\ LS.run # "exit"
      /\ prog' = prog /\ net' = net /\ tool' = tool /\ disk' = disk /\ hist' = hist
  BY DEF ServerDeliver, LoginStep, Inbound, Fed1, Kept, Ends, LS, Delivers, On
<1>2. CASE client.state = "OK"
  <2>1. server.state = "OK" /\ client \in Client /\ s2c \in Seq(App1)
    BY <1>2, Decided1
  <2>2. ServerRefuses
    BY <2>1 DEF ServerDeliver, ServerHello, ServerPubkey, ServerPassword, ServerBegin,
                ServerCancel, ServerFeed
  <2>3. /\ c2s' = Tail(c2s) /\ client' = client /\ server' = server /\ app' = app /\ s2c' = s2c
    BY <2>2 DEF ServerRefuses
  <2>4. client'.need \in Needs
    BY <2>1, <2>3 DEF Client
  <2>5. /\ link' \in [Ends -> Link] /\ LC' = LC /\ net' \subseteq Datagram /\ Shaken' /\ Calm(LS')
        /\ server'.state = "OK" => LS'.up \/ LS'.run # "on"
        /\ LS.up => LS'.up
    BY <1>1, <2>4, ServerSettles
  <2>6. s2c' # <<>> => LC.up
    BY <1>2, <2>3 DEF LinkInv, Conversation
  <2>7. LC.phase # "need"
    BY <1>2, NoQuestion
  <2> QED BY <1>1, <1>2, <2>1, <2>3, <2>5, <2>6, <2>7, ServerReadsOn
<1>3. CASE client.state # "OK"
  <2> DEFINE key == AuthorizedKey(disk.authkeys, prog.user, prog.key)
             pw == CheckPassword(disk.passwd, prog.user, prog.secret)
  <2>0. IInv
    BY <1>3, Undecided
  <2>1. key \in BOOLEAN /\ pw \in BOOLEAN
    BY GoodIsBoolean
  <2>2. \/ ServerHello(SrvMethods) \/ ServerPubkey(key) \/ ServerPassword(pw)
        \/ ServerBegin("MORE", SrvMethods) \/ ServerCancel(SrvMethods) \/ ServerRefuses
    BY DEF ServerDeliver
  <2> HIDE DEF key, pw
  <2>3. Heeded /\ (server'.state = "OK" => server.state = "OK" \/ key \/ pw)
    <3>1. CASE ServerPubkey(key)
      <4>1. PICK m \in {"PUBKEY", "PASSWORD"} : m = "PUBKEY"
        OBVIOUS
      <4>2. ServerFeed(m) /\ Credential(m, key)
        BY <3>1, <4>1 DEF ServerPubkey
      <4> QED BY <2>0, <2>1, <4>2, CredentialHeeded
    <3>2. CASE ServerPassword(pw)
      <4>1. PICK m \in {"PUBKEY", "PASSWORD"} : m = "PASSWORD"
        OBVIOUS
      <4>2. ServerFeed(m) /\ Credential(m, pw)
        BY <3>2, <4>1 DEF ServerPassword
      <4> QED BY <2>0, <2>1, <4>2, CredentialHeeded
    <3>3. CASE ServerRefuses
      BY <2>0, <3>3, ServerRefusesHeeded
    <3>4. CASE ServerHello(SrvMethods)
      BY <2>0, <3>4, ServerHelloHeeded
    <3>5. CASE ServerBegin("MORE", SrvMethods)
      BY <2>0, <3>5, ServerBeginHeeded
    <3>6. CASE ServerCancel(SrvMethods)
      BY <2>0, <3>6, ServerCancelHeeded
    <3> QED BY <2>2, <3>1, <3>2, <3>3, <3>4, <3>5, <3>6
  <2>4. client'.need \in Needs
    BY <2>3 DEF Heeded, IInv, TypeOK, Client
  <2>5. /\ link' \in [Ends -> Link] /\ LC' = LC /\ net' \subseteq Datagram /\ Shaken' /\ Calm(LS')
        /\ server'.state = "OK" => LS'.up \/ LS'.run # "on"
    BY <1>1, <2>4, ServerSettles
  <2>6. Credentials'
    BY <1>1, <2>3 DEF LinkInv, Credentials, key, pw
  <2>7. Files' /\ ~hist'.dropped /\ disk' \in Disk /\ hist' \in Hist
    BY <1>1 DEF LinkInv, LinkTypes, Files, TornHarmed, PromisesKept
  <2> QED BY <1>1, <1>3, <2>3, <2>5, <2>6, <2>7, ServerLogin
<1> QED BY <1>2, <1>3

\* srv_submit reads a message of the login, so the client has no verdict.
LEMMA SubmitRead ==
  ASSUME LinkInv, NEW v \in {"MORE", "DONE"}, ServerSubmit(v, SrvMethods, FALSE, TRUE)
  PROVE  /\ client.state # "OK" /\ Heeded /\ server'.state # "OK"
         /\ prog.vals[1] \in Users \cup {Empty} /\ prog.vals[2] \in Passwords
<1>1. server.state = "PENDING"
  BY DEF ServerSubmit, ServerFeed
<1>2. client.state # "OK"
  BY <1>1, Decided1
<1>3. IInv
  BY <1>2, Undecided
<1> QED BY <1>2, <1>3, ServerSubmitHeeded

\* srv_submit has answered, and left the files in order.
LEMMA SubmitAnswered ==
  ASSUME LinkInv, NEW v \in {"MORE", "DONE"}, ServerSubmit(v, SrvMethods, FALSE, TRUE),
         LS.run # "exit", LS.auth_started, Fed1("server"),
         disk' \in Disk, hist' \in Hist, Files', ~hist'.dropped,
         disk'.known = disk.known, disk'.hostkey = disk.hostkey, hist.full => hist'.full
  PROVE  LinkInv'
<1>1. /\ Settle("server", Pumped(link["server"]), "pump")
      /\ prog' = prog /\ net' = net /\ tool' = tool
  BY DEF Fed1
<1>2. client.state # "OK" /\ Heeded /\ server'.state # "OK"
  BY SubmitRead
<1>3. client'.need \in Needs
  BY <1>2 DEF Heeded, IInv, TypeOK, Client
<1>4. /\ link' \in [Ends -> Link] /\ LC' = LC /\ net' \subseteq Datagram /\ Shaken' /\ Calm(LS')
  BY <1>1, <1>3, ServerSettles
<1>5. Credentials'
  BY <1>2 DEF Credentials
<1> QED BY <1>1, <1>2, <1>4, <1>5, ServerLogin

\* srv_submit has found a good form and is about to write its account: the ends
\* take turns, and the name is new to passwd, or --adduser wrote it meanwhile.
Enrolled ==
  /\ LC.phase = "idle" \/ LS.phase = "idle"
  /\ LS.phase = "enrol" =>
       /\ LS.run # "exit" /\ LS.auth_started /\ prog.vals[1] \in Users
       /\ Plain(prog.vals[1]) =>
            prog.vals[1] \in hist.raced \/ Matches(disk.passwd, prog.vals[1]) = {}

LEMMA SrvSubmitOK == ASSUME LinkInv, SrvSubmit PROVE LinkInv'
<1>1. /\ Delivers("server") /\ LS.auth_started /\ LS.run # "exit" /\ disk' = disk /\ hist' = hist
      /\ "server" \in Ends
  BY DEF SrvSubmit, LoginStep, Delivers, On, LS, Kept, Ends
<1>2. CASE server.ia = None \/ FormErrors(disk.passwd, prog.vals)
  <2>1. PICK v \in {"MORE", "DONE"} : v = "MORE"
    OBVIOUS
  <2>2. ServerSubmit(v, SrvMethods, FALSE, TRUE) /\ Fed1("server")
    BY <1>2, <2>1 DEF SrvSubmit
  <2>3. /\ disk' \in Disk /\ hist' \in Hist /\ Files' /\ ~hist'.dropped
        /\ disk'.known = disk.known /\ disk'.hostkey = disk.hostkey /\ (hist.full => hist'.full)
    BY <1>1 DEF LinkInv, LinkTypes, Files, TornHarmed, PromisesKept
  <2> QED BY <1>1, <2>2, <2>3, SubmitAnswered
<1>3. CASE ~(server.ia = None \/ FormErrors(disk.passwd, prog.vals))
  <2> DEFINE p == Pumped(link["server"])
             n == [p EXCEPT !.phase = "enrol"]
  <2>1. link' = [link EXCEPT !["server"] = n] /\ UNCHANGED <<vars, prog, net, tool>>
    BY <1>3 DEF SrvSubmit, Enrolling
  <2>2. /\ link["server"] = LS /\ p \in Link /\ Alike(p, LS) /\ p.up = LS.up /\ p.failed = LS.failed
        /\ p.run # "exit" /\ Calm(p) /\ (LS.run = "stopping" => p.run = "stopping")
    BY <1>1, Reading DEF LS
  <2> HIDE DEF p
  <2>3. n \in Link
    BY <2>2 DEF Link
  <2>4. /\ n.phase = "enrol" /\ Alike(n, p) /\ n.up = p.up /\ n.failed = p.failed /\ n.run = p.run
        /\ n.down = p.down
    BY <2>2 DEF Link, Alike
  <2> HIDE DEF n
  <2>5. Alike(n, LS) /\ Calm(n)
    BY <2>2, <2>4 DEF Alike, Calm
  <2>6. /\ link' \in [Ends -> Link] /\ net' \subseteq Datagram /\ Shaken' /\ LS' = n /\ LC' = LC
    <3>1. PICK e \in Ends : e = "server"
      BY <1>1
    <3>2. link' = [link EXCEPT ![e] = n] /\ link[e] = LS /\ net' = net /\ n.phase # "idle"
      BY <2>1, <2>2, <2>4, <3>1
    <3> QED BY <1>1, <2>2, <2>3, <2>4, <2>5, <3>1, <3>2, GoesOn
  <2>7. ServerUp'
    <3>1. server' = server /\ c2s' = c2s
      BY <2>1 DEF vars
    <3>2. ServerUp /\ LS.phase # "idle"
      BY <1>1 DEF LinkInv, Delivers, On, LS
    <3>3. LS.run # "on" => n.run # "on"
      <4>1. LS.run \in {"on", "stopping", "exit"}
        BY LinkFacts DEF Link
      <4> QED BY <1>1, <2>2, <2>4, <4>1
    <3> QED BY <1>1, <2>2, <2>4, <2>5, <2>6, <3>1, <3>2, <3>3 DEF ServerUp
  <2> QED BY <1>1, <2>1, <2>6, <2>7, LinkStepOnly
<1> QED BY <1>2, <1>3

\* What srv_submit leaves in the files.
LEMMA EnrolWrites ==
  ASSUME LinkInv, Enrolled, NEW cut \in Cuts, SrvEnrol(cut) PROVE Written
<1> DEFINE u == prog.vals[1]
           pw == prog.vals[2]
<1>1. /\ disk' = [disk EXCEPT !.passwd = PasswdAdd(@, u, pw, cut)]
      /\ hist' = Promised(hist, u, pw, cut)
      /\ LS.phase = "enrol" /\ ServerSubmit("DONE", SrvMethods, FALSE, TRUE)
  BY DEF SrvEnrol, On, LS
<1>2. pw \in Passwords
  <2>1. PICK v \in {"MORE", "DONE"} : v = "DONE"
    OBVIOUS
  <2> QED BY <1>1, <2>1, SubmitRead
<1>3. u \in Users /\ (Plain(u) => u \in hist.raced \/ Matches(disk.passwd, u) = {})
  BY <1>1 DEF Enrolled
<1>4. hist \in Hist /\ pw \in Passwords \cup {Empty}
  BY <1>2 DEF LinkInv, LinkTypes
<1> HIDE DEF u, pw
<1>5. /\ hist' \in Hist /\ hist'.promised = hist.promised \cup {<<u, pw>>}
      /\ hist.harmed \subseteq hist'.harmed /\ hist'.raced = hist.raced
      /\ cut # "whole" \/ Torn(disk.passwd) => <<FirstWord[u], pw>> \in hist'.harmed
      /\ (hist'.full <=> hist.full \/ cut # "whole") /\ hist'.dropped = hist.dropped
  BY <1>1, <1>3, <1>4, PromisedIs
<1> QED BY <1>1, <1>3, <1>4, <1>5, AccountWritten

LEMMA SrvEnrolOK == ASSUME LinkInv, Enrolled, NEW cut \in Cuts, SrvEnrol(cut) PROVE LinkInv'
<1>1. /\ LS.run # "exit" /\ LS.auth_started /\ Fed1("server")
      /\ ServerSubmit("DONE", SrvMethods, FALSE, TRUE)
  BY DEF SrvEnrol, On, LS, Enrolled
<1>2. Written
  BY EnrolWrites
<1>3. PICK v \in {"MORE", "DONE"} : v = "DONE"
  OBVIOUS
<1> QED BY <1>1, <1>2, <1>3, SubmitAnswered DEF Written

LEMMA SrvEnrolFailsOK == ASSUME LinkInv, Enrolled, SrvEnrolFails PROVE LinkInv'
<1>1. /\ LS.run # "exit" /\ LS.auth_started /\ Fed1("server") /\ disk' = disk
      /\ ServerSubmit("MORE", SrvMethods, FALSE, TRUE) /\ hist' = [hist EXCEPT !.faults = @ + 1]
  BY DEF SrvEnrolFails, On, LS, Enrolled
<1>2. hist \in Hist /\ disk \in Disk /\ Files /\ ~hist.dropped
  BY DEF LinkInv, LinkTypes
<1>3. /\ hist' \in Hist /\ hist'.full = hist.full /\ hist'.raced = hist.raced
      /\ hist'.harmed = hist.harmed /\ hist'.promised = hist.promised /\ hist'.dropped = hist.dropped
  BY <1>1, <1>2, FaultNoted
<1>4. Files'
  BY <1>1, <1>2, <1>3 DEF Files, TornHarmed, PromisesKept
<1>5. PICK v \in {"MORE", "DONE"} : v = "MORE"
  OBVIOUS
<1> QED BY <1>1, <1>2, <1>3, <1>4, <1>5, SubmitAnswered

-------------------------------------------------------------------------------
(* Application data. *)

\* Data is under way only once the client has its verdict.
LEMMA DataIsLate ==
  ASSUME LinkInv, NEW e \in Ends, Inbound(e) # <<>>, Head(Inbound(e)).type = "APP"
  PROVE  client.state = "OK"
<1> SUFFICES ASSUME client.state # "OK" PROVE FALSE
  OBVIOUS
<1>1. c2s \in Seq(ClientMsgs) /\ s2c \in Seq(ServerMsgs)
  BY Undecided DEF TypeOK
<1>2. CASE e = "server"
  <2>1. Head(c2s) \in ClientMsgs /\ Head(c2s).type = "APP"
    BY <1>1, <1>2 DEF Inbound
  <2> QED BY <2>1 DEF ClientMsgs
<1>3. CASE e = "client"
  <2>1. Head(s2c) \in ServerMsgs /\ Head(s2c).type = "APP"
    BY <1>1, <1>3 DEF Inbound
  <2> QED BY <2>1 DEF ServerMsgs
<1> QED BY <1>2, <1>3 DEF Ends

LEMMA DeliverDataOK == ASSUME LinkInv, NEW e \in Ends, DeliverData(e) PROVE LinkInv'
<1> DEFINE n == Pumped(link[e])
<1>1. /\ Delivers(e) /\ Inbound(e) # <<>> /\ link' = [link EXCEPT ![e] = n]
      /\ hist' = [hist EXCEPT !.dropped = hist.dropped \/ ~link[e].up]
      /\ UNCHANGED <<client, server, app, prog, net, disk, tool>>
  BY DEF DeliverData
<1>2. Head(Inbound(e)).type = "APP"
  BY <1>1, NothingEarly DEF DeliverData
<1>3. client.state = "OK"
  BY <1>1, <1>2, DataIsLate
<1>4. /\ c2s \in Seq(AnyClient) /\ s2c \in Seq(App1) /\ prog \in Prog /\ net \subseteq Datagram
      /\ hist \in Hist /\ ~hist.dropped
  BY <1>3, Decided1 DEF LinkInv, LinkTypes
<1>5. LC.phase # "need"
  BY <1>3, NoQuestion
<1>6. /\ link[e].run # "exit" /\ link[e].phase \in {"recv", "pump"}
      /\ n \in Link /\ Alike(n, link[e]) /\ n.up = link[e].up /\ n.phase = "pump"
      /\ n.failed = link[e].failed /\ n.run # "exit" /\ Calm(n)
  BY <1>1, Reading
<1> HIDE DEF n
<1>7. /\ link' \in [Ends -> Link] /\ net' \subseteq Datagram /\ Shaken'
      /\ LC'.auth_started = LC.auth_started /\ LC'.ready = LC.ready
      /\ LC'.run # "exit" => LC.run # "exit"
      /\ e = "client" => LC' = n /\ LS' = LS /\ link[e] = LC
      /\ e = "server" => LS' = n /\ LC' = LC /\ link[e] = LS
  <2>1. net' = net /\ n.phase # "idle" /\ (n.up => link[e].up \/ link[e].auth_started)
        /\ (link[e].up => n.up)
    BY <1>1, <1>6
  <2> QED BY <1>1, <1>6, <2>1, GoesOn
<1>8. ASSUME link[e].up PROVE hist' = hist
  <2>1. (hist.dropped \/ ~link[e].up) = hist.dropped
    BY <1>4, <1>8 DEF Hist
  <2> QED BY <1>1, <1>4, <2>1 DEF Hist
<1>9. CASE e = "server"
  <2>1. c2s # <<>> /\ Head(c2s).type = "APP" /\ LS = link[e]
    BY <1>1, <1>2, <1>9 DEF Inbound, LS
  <2>2. 1 \in 1..Len(c2s) /\ c2s[1].type = "APP"
    BY <1>4, <2>1, TailOf
  <2>3. LC.up /\ LS.up
    BY <1>3, <1>6, <2>1, <2>2 DEF LinkInv, Conversation, ServerUp
  <2>4. c2s' = Tail(c2s) /\ s2c' = Append(s2c, Msg("APP"))
    BY <1>9, <2>1, <2>3 DEF DeliverData
  <2>5. s2c' \in Seq(App1)
    <3>1. Msg("APP") \in App1
      BY DEF Msg, App1
    <3> QED BY <1>4, <2>4, <3>1
  <2>6. LS'.up /\ Calm(LS')
    BY <1>6, <1>7, <1>9, <2>3
  <2> QED BY <1>1, <1>3, <1>5, <1>7, <1>8, <1>9, <2>1, <2>3, <2>4, <2>5, <2>6, ServerReadsOn
<1>10. CASE e = "client"
  <2>1. s2c # <<>> /\ LC = link[e]
    BY <1>1, <1>10 DEF Inbound, LC
  <2>2. LC.up
    BY <1>3, <2>1 DEF LinkInv, Conversation
  <2>3. s2c' = Tail(s2c) /\ c2s' = c2s
    BY <1>10 DEF DeliverData
  <2>4. s2c' \in Seq(App1)
    BY <1>4, <2>1, <2>3, AppTail
  <2>5. LC'.up = LC.up /\ LC'.phase # "need" /\ Calm(LC') /\ LS' = LS
    BY <1>6, <1>7, <1>10
  <2>6. ServerUp'
    BY <1>1, <2>3, <2>5 DEF LinkInv, ServerUp
  <2>7. hist' = hist
    BY <1>8, <2>1, <2>2
  <2> QED BY <1>1, <1>3, <1>4, <1>7, <2>2, <2>3, <2>4, <2>5, <2>6, <2>7, DataStep
<1> QED BY <1>9, <1>10 DEF Ends

LEMMA TypeLineOK == ASSUME LinkInv, TypeLine PROVE LinkInv'
<1>1. /\ LC.up /\ LC.phase = "idle" /\ LS.phase = "idle" /\ LC.run = "on"
      /\ prog' = [prog EXCEPT !.lines = @ + 1] /\ c2s' = Append(c2s, Msg("APP")) /\ s2c' = s2c
      /\ UNCHANGED <<client, server, app, link, net, disk, tool, hist>>
  BY DEF TypeLine, Idle, ChanSend, LC, LS, Ends
<1>2. client.state = "OK"
  BY <1>1 DEF LinkInv, Conversation
<1>3. c2s \in Seq(AnyClient) /\ s2c \in Seq(App1) /\ server.state = "OK"
  BY <1>2, Decided1
<1>4. prog \in Prog /\ link \in [Ends -> Link] /\ net \subseteq Datagram
  BY DEF LinkInv, LinkTypes
<1>5. prog' \in Prog
  <2>1. prog.lines + 1 \in Nat
    BY <1>4 DEF Prog
  <2> QED BY <1>1, <1>4, <2>1 DEF Prog
<1>6. /\ prog'.user = prog.user /\ prog'.key = prog.key /\ prog'.secret = prog.secret
      /\ prog'.vals = prog.vals /\ prog'.asking = prog.asking /\ prog'.register = prog.register
  BY <1>1, <1>4 DEF Prog
<1>7. c2s' \in Seq(AnyClient)
  <2>1. Msg("APP") \in AnyClient
    BY DEF Msg, App1, AnyClient
  <2> QED BY <1>1, <1>3, <2>1
<1>8. link' = link /\ net' = net /\ LC' = LC /\ LS' = LS
  BY <1>1 DEF LC, LS
<1>9. Shaken'
  BY <1>8 DEF LinkInv, Shaken
<1>10. ServerUp'
  <2>1. LS.up \/ LS.run # "on"
    BY <1>3 DEF LinkInv, ServerUp
  <2>2. LS.run \in {"on", "stopping", "exit"}
    BY LinkFacts DEF Link
  <2> QED BY <1>1, <1>8, <2>1, <2>2 DEF LinkInv, ServerUp
<1> QED BY <1>1, <1>2, <1>3, <1>4, <1>5, <1>6, <1>7, <1>8, <1>9, <1>10, DataStep

-------------------------------------------------------------------------------
(* Steps in which a file changes, and the start of a session. *)

LEMMA FileStep ==
  ASSUME LinkInv, UNCHANGED <<vars, prog>>, tool' \in Tool, hist' \in Hist, disk' \in Disk,
         link' \in [Ends -> Link], net' \subseteq Datagram, LC'.up = LC.up,
         LC.auth_started => LC'.auth_started, LC'.phase = "need" => LC.phase = "need",
         Shaken', ServerUp', Files', Trusted', ~hist'.dropped, disk'.authkeys = disk.authkeys,
         hist.full => hist'.full,
         \A x, y : CheckPassword(disk.passwd, x, y) =>
           hist'.full \/ CheckPassword(disk'.passwd, x, y)
  PROVE  LinkInv'
<1>0. /\ client' = client /\ server' = server /\ app' = app /\ c2s' = c2s /\ s2c' = s2c
      /\ prog' = prog
  BY DEF vars
<1>1. LinkTypes'
  BY <1>0 DEF LinkInv, LinkTypes
<1>2. IInv => IInv'
  BY <1>0, Inductive DEF vars
<1>3. Conversation'
  BY <1>0, <1>2 DEF LinkInv, Conversation, Up
<1>4. Choosing' /\ Asking' /\ Filling'
  BY <1>0 DEF LinkInv, Choosing, Asking, Filling, Doomed
<1>5. Credentials'
  BY <1>0 DEF LinkInv, Credentials
<1> QED BY <1>1, <1>3, <1>4, <1>5 DEF LinkInv

\* The same, for a step that neither end takes.
LEMMA OtherStep ==
  ASSUME LinkInv, UNCHANGED <<vars, prog, link, net>>, tool' \in Tool, hist' \in Hist, disk' \in Disk,
         Files', Trusted', ~hist'.dropped, disk'.authkeys = disk.authkeys, hist.full => hist'.full,
         \A x, y : CheckPassword(disk.passwd, x, y) =>
           hist'.full \/ CheckPassword(disk'.passwd, x, y)
  PROVE  LinkInv'
<1>1. /\ link' = link /\ net' = net /\ LC' = LC /\ LS' = LS /\ server' = server /\ c2s' = c2s
      /\ UNCHANGED <<vars, prog>>
  BY DEF LC, LS, vars
<1>2. link' \in [Ends -> Link] /\ net' \subseteq Datagram
  BY <1>1 DEF LinkInv, LinkTypes
<1>3. Shaken'
  BY <1>1 DEF LinkInv, Shaken
<1>4. ServerUp'
  BY <1>1 DEF LinkInv, ServerUp
<1> QED BY <1>1, <1>2, <1>3, <1>4, FileStep

LEMMA AddUserCheckOK ==
  ASSUME LinkInv, NEW u \in Users, NEW pw \in Passwords, AddUserCheck(u, pw) PROVE LinkInv'
<1>1. /\ tool' = [user |-> u, password |-> pw] /\ hist' = [hist EXCEPT !.faults = @ + 1]
      /\ disk' = disk /\ link' = link /\ UNCHANGED <<vars, prog, link, net>>
  BY DEF AddUserCheck
<1>2. tool' \in Tool
  BY <1>1 DEF Tool
<1>3. hist \in Hist /\ disk \in Disk /\ Files /\ Trusted /\ ~hist.dropped
  BY DEF LinkInv, LinkTypes
<1>4. /\ hist' \in Hist /\ hist'.full = hist.full /\ hist'.raced = hist.raced /\ hist'.harmed = hist.harmed
      /\ hist'.promised = hist.promised /\ hist'.dropped = hist.dropped
  BY <1>1, <1>3, FaultNoted
<1>5. Files' /\ Trusted'
  BY <1>1, <1>3, <1>4 DEF Files, TornHarmed, PromisesKept, Trusted, LC
<1> QED BY <1>1, <1>2, <1>3, <1>4, <1>5, OtherStep

\* What --adduser leaves in the files.
LEMMA AddUserWrites == ASSUME LinkInv, NEW cut \in Cuts, AddUser(cut) PROVE Written
<1> DEFINE u == tool.user
           pw == tool.password
           p == Promised(hist, u, pw, cut)
           new == {x \in {FirstWord[u]} : \/ Matches(disk.passwd, x) # {}
                                          \/ On("server", {"enrol"}) /\ prog.vals[1] = x}
           raced == p.raced \cup new
<1>0. hist \in Hist /\ tool \in Tool
  BY DEF LinkInv, LinkTypes
<1>1. /\ u \in Users /\ disk' = [disk EXCEPT !.passwd = PasswdAdd(@, u, pw, cut)]
      /\ hist' = [p EXCEPT !.raced = raced]
  BY DEF AddUser
<1>2. pw \in Passwords \cup {Empty}
  BY <1>0 DEF Tool
<1>3. /\ new \subseteq {FirstWord[u]}
      /\ Plain(u) => u \in new \/ Matches(disk.passwd, u) = {}
  BY DEF Plain
<1> HIDE DEF u, pw
<1>4. /\ p \in Hist /\ p.promised = hist.promised \cup {<<u, pw>>}
      /\ hist.harmed \subseteq p.harmed /\ p.raced = hist.raced
      /\ cut # "whole" \/ Torn(disk.passwd) => <<FirstWord[u], pw>> \in p.harmed
      /\ (p.full <=> hist.full \/ cut # "whole") /\ p.dropped = hist.dropped
  BY <1>0, <1>1, <1>2, PromisedIs
<1> HIDE DEF p, new
<1>5. raced \in SUBSET {FirstWord[x] : x \in Users} /\ hist.raced \subseteq raced /\ new \subseteq raced
  <2>1. p.raced \in SUBSET {FirstWord[x] : x \in Users}
    BY <1>4 DEF Hist
  <2> QED BY <1>1, <1>3, <1>4, <2>1
<1> HIDE DEF raced
<1>6. hist' \in Hist
  BY <1>1, <1>4, <1>5 DEF Hist
<1>7. /\ hist'.raced = raced /\ hist'.promised = p.promised /\ hist'.harmed = p.harmed
      /\ hist'.full = p.full /\ hist'.dropped = p.dropped
  BY <1>1, <1>4 DEF Hist
<1>8. Plain(u) => u \in hist'.raced \/ Matches(disk.passwd, u) = {}
  BY <1>3, <1>5, <1>7
<1>9. hist.harmed \subseteq hist'.harmed /\ hist.raced \subseteq hist'.raced
  BY <1>4, <1>5, <1>7
<1> QED BY <1>1, <1>2, <1>4, <1>6, <1>7, <1>8, <1>9, AccountWritten

LEMMA AddUserOK == ASSUME LinkInv, NEW cut \in Cuts, AddUser(cut) PROVE LinkInv'
<1>1. /\ tool' = [user |-> "added", password |-> Empty] /\ link' = link
      /\ UNCHANGED <<vars, prog, link, net>>
  BY DEF AddUser
<1>2. /\ disk' \in Disk /\ hist' \in Hist /\ Files' /\ ~hist'.dropped
      /\ disk'.known = disk.known /\ disk'.hostkey = disk.hostkey
      /\ disk'.authkeys = disk.authkeys /\ (hist.full => hist'.full)
      /\ \A x, y : CheckPassword(disk.passwd, x, y) =>
           hist'.full \/ CheckPassword(disk'.passwd, x, y)
  BY AddUserWrites DEF Written
<1>3. Trusted'
  BY <1>1, <1>2 DEF LinkInv, Trusted, LC
<1>4. tool' \in Tool
  BY <1>1 DEF Tool
<1> QED BY <1>1, <1>2, <1>3, <1>4, OtherStep

LEMMA RemoveHostKeyOK == ASSUME LinkInv, RemoveHostKey PROVE LinkInv'
<1>1. /\ LC.run = "exit" /\ disk' = [disk EXCEPT !.hostkey = "absent"] /\ link' = link
      /\ tool' = tool /\ hist' = hist /\ UNCHANGED <<vars, prog, link, net>>
  BY DEF RemoveHostKey, LC, Ends
<1>2. disk \in Disk /\ tool \in Tool /\ hist \in Hist /\ Files /\ ~hist.dropped
  BY DEF LinkInv, LinkTypes
<1>3. disk' \in Disk
  BY <1>1, <1>2 DEF Disk
<1>4. disk'.passwd = disk.passwd /\ disk'.known = disk.known /\ disk'.authkeys = disk.authkeys
  BY <1>1, <1>2 DEF Disk
<1>5. Files' /\ Trusted'
  BY <1>1, <1>2, <1>4 DEF Files, TornHarmed, PromisesKept, Trusted, LC
<1> QED BY <1>1, <1>2, <1>3, <1>4, <1>5, OtherStep

\* The first HELLO: the host key is the one written down, or is written down now.
LEMMA ClientHelloInOK ==
  ASSUME LinkInv, NEW d, NEW cut \in Cuts, ClientHelloIn(d, cut) PROVE LinkInv'
<1> DEFINE l == [LC EXCEPT !.phase = "recv"]
           v == IF l.ready THEN "LATE" ELSE VerifyHost(disk.known, disk.hostkey)
           f == [l EXCEPT !.failed = TRUE]
           r == [l EXCEPT !.ready = TRUE]
           n == CASE v = "LATE" -> l [] v = "REFUSE" -> Pumped(f) [] OTHER -> r
           file == KnownHostAdd(disk.known, Host, disk.hostkey, cut)
<1>0. /\ link \in [Ends -> Link] /\ net \subseteq Datagram /\ LC \in Link /\ LS \in Link
      /\ hist \in Hist /\ Shaken /\ ServerUp /\ Calm(LC) /\ "client" \in Ends
      /\ disk \in Disk /\ tool \in Tool /\ Files /\ Trusted /\ ~hist.dropped
  BY LinkFacts DEF LinkInv, LinkTypes, Ends
<1>1. /\ net' = net \ {d} /\ link' = [link EXCEPT !["client"] = n] /\ hist' = Wrote(hist, cut)
      /\ UNCHANGED <<vars, prog>> /\ tool' = tool
      /\ disk' = IF v = "ADD" THEN [disk EXCEPT !.known = file] ELSE disk
      /\ v = "ADD" \/ cut = "whole"
      /\ LC.run # "exit"
  BY DEF ClientHelloIn, LC, Idle, On
<1>2. l \in Link
  BY <1>0 DEF Link
<1>3. /\ l.run = LC.run /\ l.phase = "recv" /\ l.down = LC.down /\ l.up = LC.up /\ l.failed = LC.failed
      /\ l.ready = LC.ready /\ l.conn = LC.conn /\ l.out = LC.out /\ l.tx = LC.tx /\ l.rx = LC.rx
      /\ l.auth_started = LC.auth_started
  BY <1>0 DEF Link
<1>4. f \in Link /\ r \in Link
  BY <1>2 DEF Link
<1>5. /\ f.run = l.run /\ f.phase = l.phase /\ f.down = l.down /\ f.up = l.up /\ Alike(f, l)
      /\ r.run = l.run /\ r.phase = l.phase /\ r.down = l.down /\ r.up = l.up /\ r.ready
      /\ r.conn = l.conn /\ r.out = l.out /\ r.tx = l.tx /\ r.rx = l.rx
      /\ r.auth_started = l.auth_started
  BY <1>2 DEF Link, Alike
<1>6. v \in {"LATE", "OK", "ADD", "REFUSE"} /\ (v = "LATE" <=> l.ready)
  BY DEF VerifyHost
<1>7. /\ v = "OK" => KnownHost(disk.known, Host, disk.hostkey) = "MATCH"
      /\ v = "ADD" => KnownHost(disk.known, Host, disk.hostkey) = "UNKNOWN"
  BY DEF VerifyHost
<1> HIDE DEF l, f, r, v, file
<1>8. LET p == Pumped(f) IN
      /\ p \in Link /\ Alike(p, f) /\ p.up = f.up /\ p.phase = "pump" /\ p.failed = f.failed
      /\ p.run # "exit" /\ Calm(p) /\ (f.run = "stopping" => p.run = "stopping")
  <2>1. Calm(f) /\ f.run # "exit"
    BY <1>0, <1>1, <1>3, <1>5 DEF Calm
  <2> QED BY <1>4, <2>1, PumpedIs
<1>9. /\ n \in Link /\ n.up = LC.up /\ n.run # "exit" /\ Calm(n) /\ n.phase \in {"recv", "pump"}
      /\ n.conn = LC.conn /\ n.out = LC.out /\ n.tx = LC.tx /\ n.rx = LC.rx
      /\ n.auth_started = LC.auth_started /\ (LC.ready => n.ready)
      /\ n.ready => v \in {"LATE", "OK", "ADD"}
  <2>1. CASE v = "LATE"
    <3>1. n = l
      BY <2>1
    <3> HIDE DEF n
    <3> QED BY <1>0, <1>1, <1>2, <1>3, <2>1, <3>1 DEF Calm
  <2>2. CASE v = "REFUSE"
    <3>1. n = Pumped(f)
      BY <2>2
    <3> HIDE DEF n
    <3> QED BY <1>3, <1>5, <1>6, <1>8, <2>2, <3>1 DEF Alike
  <2>3. CASE v \in {"OK", "ADD"}
    <3>1. n = r
      BY <2>3
    <3> HIDE DEF n
    <3> QED BY <1>0, <1>1, <1>3, <1>4, <1>5, <2>3, <3>1 DEF Calm
  <2> QED BY <1>6, <2>1, <2>2, <2>3
<1> HIDE DEF n
<1>10. link' \in [Ends -> Link] /\ LC' = n /\ LS' = LS /\ net' \subseteq Datagram
  BY <1>0, <1>1, <1>9, OneEnd
<1>11. Shaken'
  BY <1>0, <1>1, <1>9, <1>10 DEF Shaken
<1>12. ServerUp'
  BY <1>0, <1>1, <1>9, <1>10 DEF ServerUp, vars
<1>13. /\ hist' \in Hist /\ (hist'.full <=> hist.full \/ cut # "whole") /\ hist'.raced = hist.raced
       /\ hist'.harmed = hist.harmed /\ hist'.promised = hist.promised /\ hist'.dropped = hist.dropped
  BY <1>0, <1>1, WroteIs
<1>14. /\ disk' \in Disk /\ disk'.passwd = disk.passwd /\ disk'.authkeys = disk.authkeys
       /\ disk'.hostkey = disk.hostkey /\ (v # "ADD" => disk'.known = disk.known)
       /\ ~hist'.full => Whole(disk'.known)
       /\ v = "ADD" => KnownHost(disk'.known, Host, disk.hostkey) = "MATCH" \/ hist'.full
  <2>1. CASE v # "ADD"
    BY <1>0, <1>1, <1>13, <2>1 DEF Files
  <2>2. CASE v = "ADD"
    <3>1. disk.known \in Seq(FileLine) /\ Host \in Users \cup {Host} /\ disk.hostkey \in Secrets
      BY <1>0 DEF Disk, Secrets
    <3>2. file \in Seq(FileLine)
      BY <3>1, AppendIs DEF file, KnownHostAdd
    <3>3. disk' = [disk EXCEPT !.known = file]
      BY <1>1, <2>2
    <3>4. /\ disk' \in Disk
      BY <1>0, <3>2, <3>3 DEF Disk
    <3>5. /\ disk'.passwd = disk.passwd /\ disk'.authkeys = disk.authkeys
          /\ disk'.hostkey = disk.hostkey /\ disk'.known = file
      BY <1>0, <3>3 DEF Disk
    <3>6. ASSUME ~hist'.full
          PROVE  Whole(file) /\ KnownHost(file, Host, disk.hostkey) = "MATCH"
      <4>1. cut = "whole" /\ Whole(disk.known)
        BY <1>0, <1>13, <3>6 DEF Files
      <4>2. Matches(disk.known, Host) = {}
        BY <1>7, <2>2, KnownIsChecked
      <4>3. file = AppendLine(disk.known, Host, disk.hostkey, cut)
        BY DEF file, KnownHostAdd
      <4>4. ~Torn(disk.known) /\ Whole(file)
        BY <3>1, <4>1, <4>3, AppendTorn
      <4>5. CheckPassword(file, Host, disk.hostkey)
        BY <3>1, <4>1, <4>2, <4>3, <4>4, AppendWorks, DemoAssumption
      <4> QED BY <4>4, <4>5, KnownIsChecked
    <3> QED BY <2>2, <3>4, <3>5, <3>6
  <2> QED BY <2>1, <2>2
<1>15. Files'
  BY <1>0, <1>13, <1>14 DEF Files, TornHarmed, PromisesKept
<1>16. Trusted'
  <2>1. v = "LATE" => KnownHost(disk.known, Host, disk.hostkey) = "MATCH" \/ hist.full
    BY <1>0, <1>1, <1>3, <1>6 DEF Trusted
  <2> QED BY <1>7, <1>9, <1>10, <1>13, <1>14, <2>1 DEF Trusted
<1> QED BY <1>0, <1>1, <1>9, <1>10, <1>11, <1>12, <1>13, <1>14, <1>15, <1>16, FileStep

-------------------------------------------------------------------------------
(* A session starts. *)

\* Both ends before they have done anything.
Fresh ==
  /\ Init /\ prog \in Progs /\ net = {}
  /\ link \in [Ends -> {Opened0, [Opened0 EXCEPT !.run = "exit"]}]

LEMMA FreshLink ==
  ASSUME NEW l \in {Opened0, [Opened0 EXCEPT !.run = "exit"]}
  PROVE  /\ l \in Link /\ l.phase = "idle" /\ l.out = {} /\ ~l.failed /\ l.conn = "NEW" /\ ~l.tx
         /\ ~l.auth_started /\ ~l.up /\ ~l.rx /\ l.down = None /\ ~l.ready
<1> DEFINE x == [Opened0 EXCEPT !.run = "exit"]
<1>1. Opened0 \in Link
  BY DEF Opened0, Link, None, Needs
<1>2. /\ Opened0.phase = "idle" /\ Opened0.out = {} /\ ~Opened0.failed /\ Opened0.conn = "NEW"
      /\ ~Opened0.tx /\ ~Opened0.auth_started /\ ~Opened0.up /\ ~Opened0.rx
      /\ Opened0.down = None /\ ~Opened0.ready
  BY DEF Opened0
<1>3. x \in Link
  BY <1>1 DEF Link
<1>4. /\ x.phase = Opened0.phase /\ x.out = Opened0.out /\ x.failed = Opened0.failed
      /\ x.conn = Opened0.conn /\ x.tx = Opened0.tx /\ x.auth_started = Opened0.auth_started
      /\ x.up = Opened0.up /\ x.rx = Opened0.rx /\ x.down = Opened0.down /\ x.ready = Opened0.ready
  BY <1>1 DEF Link
<1>5. l = Opened0 \/ l = x
  OBVIOUS
<1> HIDE DEF x
<1> QED BY <1>1, <1>2, <1>3, <1>4, <1>5

LEMMA FreshOK ==
  Fresh /\ disk \in Disk /\ tool \in Tool /\ hist \in Hist /\ Files /\ ~hist.dropped => LinkInv
<1> SUFFICES ASSUME Fresh, disk \in Disk, tool \in Tool, hist \in Hist, Files, ~hist.dropped
             PROVE  LinkInv
  OBVIOUS
<1>1. /\ LC \in Link /\ LC.phase = "idle" /\ LC.out = {} /\ LC.conn = "NEW" /\ ~LC.tx
      /\ ~LC.auth_started /\ ~LC.up /\ LC.down = None /\ ~LC.ready
      /\ LS \in Link /\ LS.phase = "idle" /\ LS.out = {} /\ ~LS.failed /\ ~LS.rx /\ LS.down = None
      /\ ~LS.auth_started
  BY FreshLink DEF Fresh, LC, LS, Ends
<1>2. link \in [Ends -> Link]
  BY FreshLink DEF Fresh
<1>3. /\ prog \in Prog /\ prog.asking = "NOTHING" /\ prog.vals = <<>> /\ Len(prog.vals) = 0
  <2>1. /\ prog \in [user : Users, register : BOOLEAN, key : NcKeygen, asking : {"NOTHING"},
                    vals : {<<>>}, secret : {Empty}, lines : {0}]
    BY DEF Fresh, Progs
  <2>2. prog.asking = "NOTHING" /\ prog.vals = <<>> /\ prog.secret = Empty /\ prog.lines = 0
    BY <2>1
  <2>3. <<>> \in Seq(Users \cup Passwords \cup {Empty}) /\ Len(<<>>) = 0
    OBVIOUS
  <2>4. prog \in Prog
    <3>1. /\ prog = [user |-> prog.user, register |-> prog.register, key |-> prog.key,
                     asking |-> "NOTHING", vals |-> <<>>, secret |-> Empty, lines |-> 0]
          /\ prog.user \in Users /\ prog.register \in BOOLEAN /\ prog.key \in NcKeygen
      BY <2>1
    <3>2. Empty \in Passwords \cup {Empty} /\ 0 \in Nat
      OBVIOUS
    <3>3. PICK none \in Seq(Users \cup Passwords \cup {Empty}) : none = <<>>
      BY <2>3
    <3>4. prog = [user |-> prog.user, register |-> prog.register, key |-> prog.key,
                  asking |-> "NOTHING", vals |-> none, secret |-> Empty, lines |-> 0]
      BY <3>1, <3>3
    <3> QED BY <3>1, <3>2, <3>4 DEF Prog
  <2> QED BY <2>2, <2>3, <2>4
<1>4. LinkTypes
  BY <1>2, <1>3 DEF Fresh, LinkTypes
<1>5. /\ c2s = <<>> /\ s2c = <<>> /\ client.state = "PENDING" /\ ~client.hello /\ ~client.chose
      /\ server.state = "PENDING" /\ server.avail = {} /\ server.ia = None /\ app.forms = 0
      /\ ~app.gone
  BY DEF Fresh, Init, ClientInit, ServerIa, ServerInit, AppInit
<1>6. \A i : i \notin 1..Len(c2s)
  BY <1>5
<1>7. Conversation /\ Choosing
  BY <1>1, <1>5, InitOK DEF Fresh, Conversation, Choosing, Up
<1>8. Shaken
  BY <1>1 DEF Fresh, Shaken
<1>9. ServerUp
  BY <1>1, <1>5, <1>6 DEF ServerUp, Calm
<1>10. Asking /\ Filling
  BY <1>1, <1>3, <1>5, <1>6 DEF Asking, Filling
<1>11. Credentials /\ Trusted
  BY <1>1, <1>5 DEF Credentials, Trusted
<1> QED BY <1>4, <1>7, <1>8, <1>9, <1>10, <1>11 DEF LinkInv

LEMMA NewSessionOK ==
  ASSUME LinkInv, NEW new \in HostKeys, NEW cut \in Cuts, NewSession(new, cut) PROVE LinkInv'
<1> DEFINE key == HostKey(disk.hostkey, new, cut)
           keys == IF key # disk.hostkey THEN hist.keys \cup {new} ELSE hist.keys
           h == [hist EXCEPT !.sessions = @ + 1, !.lost = FALSE, !.keys = keys]
<1>0. disk \in Disk /\ tool \in Tool /\ hist \in Hist /\ Files /\ ~hist.dropped
  BY DEF LinkInv, LinkTypes
<1>1. /\ disk' = [disk EXCEPT !.hostkey = key] /\ Started(key) /\ hist' = Wrote(h, cut) /\ tool' = tool
      /\ client' = ClientInit /\ server' = ServerIa(SrvCallbacks) /\ app' = AppInit
      /\ c2s' = <<>> /\ s2c' = <<>>
  BY DEF NewSession
<1>2. key \in HostKeys \cup {"absent", "broken"}
  BY <1>0 DEF HostKey, Disk
<1>3. keys \in SUBSET HostKeys /\ hist.sessions + 1 \in Nat
  BY <1>0 DEF Hist
<1>4. Fresh'
  <2>1. Init'
    BY <1>1, DemoAssumption DEF Init
  <2>2. prog' \in Progs /\ net' = {}
    BY <1>1 DEF Started
  <2>3. link' \in [Ends -> {Opened0, [Opened0 EXCEPT !.run = "exit"]}]
    BY <1>1 DEF Started
  <2> QED BY <2>1, <2>2, <2>3 DEF Fresh
<1> HIDE DEF key, keys
<1>5. disk' \in Disk
  BY <1>0, <1>1, <1>2 DEF Disk
<1>6. disk'.passwd = disk.passwd /\ disk'.known = disk.known
  BY <1>0, <1>1 DEF Disk
<1>7. h \in Hist
  BY <1>0, <1>3 DEF Hist
<1>8. /\ h.full = hist.full /\ h.raced = hist.raced /\ h.promised = hist.promised
      /\ h.harmed = hist.harmed /\ h.dropped = hist.dropped
  BY <1>0 DEF Hist
<1> HIDE DEF h
<1>9. /\ hist' \in Hist /\ (hist'.full <=> h.full \/ cut # "whole") /\ hist'.raced = h.raced
      /\ hist'.harmed = h.harmed /\ hist'.promised = h.promised /\ hist'.dropped = h.dropped
  BY <1>1, <1>7, WroteIs
<1>10. Files' /\ ~hist'.dropped
  BY <1>0, <1>6, <1>8, <1>9 DEF Files, TornHarmed, PromisesKept
<1>11. (Fresh /\ disk \in Disk /\ tool \in Tool /\ hist \in Hist /\ Files /\ ~hist.dropped => LinkInv)'
  BY FreshOK, PTL
<1> QED BY <1>0, <1>1, <1>4, <1>5, <1>9, <1>10, <1>11

LEMMA LinkInitOK == Init0 => LinkInv
<1> SUFFICES ASSUME Init0 PROVE LinkInv
  OBVIOUS
<1>1. PICK u \in Users : disk = [passwd |-> <<>>, authkeys |-> <<Line(u, "sealed", "whole")>>,
                                 known |-> <<>>, hostkey |-> "absent"]
  BY DEF Init0
<1>2. disk \in Disk /\ disk.passwd = <<>> /\ disk.known = <<>>
  <2>1. <<Line(u, "sealed", "whole")>> \in {<<Line(x, "sealed", "whole")>> : x \in Users}
    OBVIOUS
  <2> QED BY <1>1, <2>1 DEF Disk
<1>3. /\ hist \in Hist /\ hist.promised = {} /\ ~hist.dropped
  BY DEF Init0, Hist
<1>4. Files
  BY <1>2, <1>3 DEF Files, TornHarmed, PromisesKept, Whole, Torn
<1>5. tool \in Tool
  BY DEF Init0, Tool
<1>6. prog \in Progs
  <2>1. KeyfileGenerate(TRUE, "whole") \in NcKeygen
    <3>1. PICK b \in BOOLEAN, c \in Cuts : b = TRUE /\ c = "whole"
      BY DEF Cuts
    <3>2. KeyfileGenerate(b, c) \in NcKeygen
      BY DEF NcKeygen
    <3> QED BY <3>1, <3>2
  <2>2. [user |-> u, register |-> FALSE, key |-> KeyfileGenerate(TRUE, "whole"),
         asking |-> "NOTHING", vals |-> <<>>, secret |-> Empty, lines |-> 0] \in Progs
    BY <2>1 DEF Progs
  <2>3. \E p : p \in Progs
    BY <2>2
  <2> QED BY <2>3 DEF Init0
<1>7. Fresh
  BY <1>6 DEF Init0, Fresh
<1> QED BY <1>2, <1>3, <1>4, <1>5, <1>7, FreshOK

-------------------------------------------------------------------------------
(* The time between the look at passwd and the line that is added to it: only  *)
(* --adduser writes meanwhile.                                                 *)

\* The client's steps, the last one aside: the server is between two callbacks.
LEMMA ClientSteps ==
  ASSUME LinkInv,
         \/ Receive("client") \/ Wake("client") \/ Timeout("client") \/ Deliver("client")
         \/ Advance("client") \/ OnSignal("client")
         \/ OnNeed \/ Types \/ TypeLine \/ LingerDone \/ Tick
  PROVE  LS' = LS /\ (Idle("client") \/ LC.phase # "idle")
<1>0. link \in [Ends -> Link] /\ "server" \in Ends
  BY LinkFacts DEF Ends
<1>1. CASE Receive("client")
  <2>1. (\E n : link' = [link EXCEPT !["client"] = n]) /\ (Idle("client") \/ LC.phase # "idle")
    BY <1>1 DEF Receive, ClientHelloIn, DataIn, On, LC
  <2> QED BY <1>0, <2>1 DEF LS
<1>2. CASE Wake("client") \/ Timeout("client") \/ OnSignal("client") \/ LingerDone
  <2>1. \E n : link' = [link EXCEPT !["client"] = n]
    BY <1>2 DEF Wake, Timeout, OnSignal, LingerDone
  <2> QED BY <1>0, <1>2, <2>1 DEF LS, Wake, Timeout, OnSignal, LingerDone
<1>3. CASE Deliver("client") \/ Advance("client")
  <2>1. \E n : link' = [link EXCEPT !["client"] = n]
    BY <1>3 DEF Deliver, ClientDeliver, Fed1, Settle, DeliverData, Advance
  <2>2. LC.phase # "idle"
    BY <1>3 DEF Deliver, ClientDeliver, LoginStep, DeliverData, Delivers, Advance, On, LC
  <2> QED BY <1>0, <2>1, <2>2 DEF LS
<1>4. CASE OnNeed
  <2>1. \E n : link' = [link EXCEPT !["client"] = n]
    BY <1>4 DEF OnNeed, SupplyKeyFromFile, Supplied, Settle
  <2>2. LC.phase # "idle"
    BY <1>4 DEF OnNeed, On, LC
  <2> QED BY <1>0, <2>1, <2>2 DEF LS
<1>5. CASE Types
  <2>1. Idle("client") /\ (link' = link \/ \E n : link' = [link EXCEPT !["client"] = n])
    BY <1>5 DEF Types, TypePassword, TypePassphrase, TypeField, EndOfInput, Prompted, Supplied, Settle
  <2> QED BY <1>0, <2>1 DEF LS
<1>6. CASE TypeLine \/ Tick
  BY <1>6 DEF TypeLine, Tick, LS
<1> QED BY <1>1, <1>2, <1>3, <1>4, <1>5, <1>6

LEMMA AfterClientStep ==
  ASSUME Enrolled, LS' = LS, Idle("client") \/ LC.phase # "idle" PROVE Enrolled'
<1>1. LS.phase = "idle"
  BY DEF Enrolled, Idle, LS, Ends
<1> QED BY <1>1 DEF Enrolled

\* The server's steps, but for the one that finds a good form.
LEMMA AfterServerStep ==
  ASSUME Enrolled, LC' = LC, LS'.phase # "enrol",
         Idle("server") \/ LS.phase # "idle" \/ LS'.phase = "idle"
  PROVE  Enrolled'
<1>1. LC.phase = "idle" \/ LS'.phase = "idle"
  BY DEF Enrolled, Idle, LC, Ends
<1> QED BY <1>1 DEF Enrolled

LEMMA ServerFeedsOn ==
  ASSUME LinkInv, Enrolled, NEW cut \in Cuts, ServerDeliver \/ SrvEnrol(cut) \/ SrvEnrolFails
  PROVE  Enrolled'
<1>0. "server" \in Ends /\ link \in [Ends -> Link] /\ LS \in Link /\ Calm(LS)
  BY LinkFacts DEF Ends
<1>1. /\ Fed1("server") /\ LS.run # "exit" /\ LS.phase # "idle"
  BY DEF ServerDeliver, LoginStep, Delivers, SrvEnrol, SrvEnrolFails, On, LS
<1> DEFINE l == Pumped(LS)
           n == Settled("server", l, "pump")
<1>2. l \in Link /\ l.run # "exit" /\ Calm(l)
  BY <1>0, <1>1, PumpedIs
<1>3. link' = [link EXCEPT !["server"] = n]
  BY <1>1 DEF Fed1, Settle, LS
<1> HIDE DEF l
<1>4. n.phase = "pump"
  <2>1. PICK e \in Ends : e = "server"
    BY <1>0
  <2> DEFINE done == [l EXCEPT !.phase = "pump"]
  <2>2. n \in {done, SettleAuth(done, server'.state)}
    BY DEF Settled
  <2>3. done \in Link /\ done.phase = "pump"
    BY <1>2 DEF Link
  <2> HIDE DEF done
  <2>4. SettleAuth(done, server'.state).phase = "pump"
    BY <2>3 DEF SettleAuth, OnUp, FireDown, OnDown, Link
  <2> QED BY <2>2, <2>3, <2>4
<1> HIDE DEF n
<1>5. LC' = LC /\ LS' = n
  BY <1>0, <1>3 DEF LC, LS, Ends
<1> QED BY <1>1, <1>4, <1>5, AfterServerStep

\* srv_submit: the name of a good form is new.
LEMMA SubmitLooks == ASSUME LinkInv, Enrolled, SrvSubmit PROVE Enrolled'
<1>0. "server" \in Ends /\ link \in [Ends -> Link] /\ LS \in Link /\ Calm(LS) /\ link["server"] = LS
  BY LinkFacts DEF Ends, LS
<1>1. /\ LS.run # "exit" /\ LS.phase # "idle" /\ LS.auth_started /\ disk' = disk /\ hist' = hist
      /\ c2s # <<>> /\ Head(c2s).type = "IA_SUBMIT" /\ server.state = "PENDING"
  BY DEF SrvSubmit, LoginStep, Delivers, On, LS, Kept, Inbound
<1>2. LC.phase = "idle"
  BY <1>1 DEF Enrolled
<1>3. CASE server.ia = None \/ FormErrors(disk.passwd, prog.vals)
  <2> DEFINE l == Pumped(LS)
             n == Settled("server", l, "pump")
             done == [l EXCEPT !.phase = "pump"]
  <2>1. link' = [link EXCEPT !["server"] = n]
    BY <1>3 DEF SrvSubmit, Fed1, Settle, LS
  <2>2. l \in Link
    BY <1>0, <1>1, PumpedIs
  <2> HIDE DEF l
  <2>3. n \in {done, SettleAuth(done, server'.state)}
    BY DEF Settled
  <2>4. done \in Link /\ done.phase = "pump"
    BY <2>2 DEF Link
  <2> HIDE DEF done, n
  <2>5. SettleAuth(done, server'.state).phase = "pump"
    BY <2>4 DEF SettleAuth, OnUp, FireDown, OnDown, Link
  <2>6. LC' = LC /\ LS' = n
    BY <1>0, <2>1 DEF LC, LS, Ends
  <2> QED BY <1>1, <2>3, <2>4, <2>5, <2>6, AfterServerStep
<1>4. CASE ~(server.ia = None \/ FormErrors(disk.passwd, prog.vals))
  <2> DEFINE l == Pumped(LS)
             n == [l EXCEPT !.phase = "enrol"]
  <2>1. link' = [link EXCEPT !["server"] = n] /\ prog' = prog
    BY <1>0, <1>4 DEF SrvSubmit, Enrolling
  <2>2. l \in Link /\ Alike(l, LS) /\ l.run # "exit"
    BY <1>0, <1>1, PumpedIs
  <2> HIDE DEF l
  <2>3. n.run # "exit" /\ n.auth_started
    BY <1>1, <2>2 DEF Link, Alike
  <2> HIDE DEF n
  <2>4. LC' = LC /\ LS' = n
    BY <1>0, <2>1 DEF LC, LS, Ends
  <2>5. Len(prog.vals) = 3 /\ Filling
    <3>1. client.state # "OK"
      BY <1>1, Decided1
    <3>2. IInv /\ Filling /\ c2s \in Seq(ClientMsgs)
      BY <3>1, Undecided DEF LinkInv, TypeOK
    <3>3. ~Doomed
      BY <1>1 DEF Doomed
    <3>4. 1 \in 1..Len(c2s) /\ Head(c2s) = c2s[1]
      BY <1>1, <3>2, TailOf
    <3> QED BY <1>1, <3>2, <3>3, <3>4 DEF Filling
  <2>6. prog.vals[1] \in Users \cup {Empty}
    <3>1. prog.vals[1] \in Fields[1]
      BY <2>5 DEF Filling
    <3> QED BY <3>1 DEF Fields
  <2>7. prog.vals[1] \in Users /\ ~UserExists(disk.passwd, prog.vals[1])
    BY <1>4, <2>6 DEF FormErrors
  <2>8. Matches(disk.passwd, prog.vals[1]) = {}
    BY <2>7, NewName
  <2> QED BY <1>1, <1>2, <2>1, <2>3, <2>4, <2>7, <2>8 DEF Enrolled
<1> QED BY <1>3, <1>4

\* --adduser: either the name is another one, or the two are racing.
LEMMA AddUserMeanwhile ==
  ASSUME LinkInv, Enrolled, NEW cut \in Cuts, AddUser(cut) PROVE Enrolled'
<1>1. /\ link' = link /\ LC' = LC /\ LS' = LS /\ prog' = prog /\ tool.user \in Users
      /\ disk' = [disk EXCEPT !.passwd = AppendLine(@, tool.user, tool.password, cut)]
  BY DEF AddUser, LC, LS, PasswdAdd
<1> SUFFICES ASSUME LS.phase = "enrol", Plain(prog.vals[1])
             PROVE  prog.vals[1] \in hist'.raced \/ Matches(disk'.passwd, prog.vals[1]) = {}
  BY <1>1 DEF Enrolled
<1> DEFINE u == prog.vals[1]
           name == tool.user
           p == Promised(hist, name, tool.password, cut)
           new == {x \in {FirstWord[name]} : \/ Matches(disk.passwd, x) # {}
                                             \/ On("server", {"enrol"}) /\ prog.vals[1] = x}
<1>2. /\ disk \in Disk /\ disk.passwd \in Seq(FileLine) /\ hist \in Hist
      /\ tool.password \in Passwords \cup {Empty}
      /\ tool.password \in Secrets /\ name \in Users \cup {Host}
  BY <1>1 DEF LinkInv, LinkTypes, Disk, Tool, Secrets
<1>3. disk'.passwd = AppendLine(disk.passwd, name, tool.password, cut)
  BY <1>1, <1>2 DEF Disk
<1>4. p \in Hist /\ p.raced = hist.raced
  BY <1>1, <1>2, PromisedIs
<1>5. hist' = [p EXCEPT !.raced = p.raced \cup new]
  BY DEF AddUser
<1>6. hist'.raced = hist.raced \cup new
  <2> HIDE DEF p, new
  <2> QED BY <1>4, <1>5 DEF Hist
<1>7. u \in Users /\ (u \in hist.raced \/ Matches(disk.passwd, u) = {}) /\ LS.run # "exit"
  BY DEF Enrolled
<1>8. On("server", {"enrol"})
  BY <1>7 DEF On, LS
<1>9. CASE FirstWord[name] = u
  BY <1>6, <1>8, <1>9
<1>10. CASE u \in hist.raced
  BY <1>6, <1>10
<1>11. CASE FirstWord[name] # u /\ u \notin hist.raced
  <2>1. u # OtherName
    BY <1>7, Somebody
  <2> HIDE DEF u
  <2>2. Matches(disk.passwd, u) = {} => Matches(disk'.passwd, u) = {}
    BY <1>2, <1>3, <1>11, <2>1, AppendScan
  <2> QED BY <1>7, <1>11, <2>2 DEF u
<1> QED BY <1>9, <1>10, <1>11

LEMMA EnrolStep == LinkInv /\ Enrolled /\ [LinkNext]_allvars => Enrolled'
<1> SUFFICES ASSUME LinkInv, Enrolled, [LinkNext]_allvars PROVE Enrolled'
  OBVIOUS
<1>0. link \in [Ends -> Link] /\ Ends = {"client", "server"}
  BY LinkFacts DEF Ends
<1>1. ASSUME link' = link, prog' = prog, disk'.passwd = disk.passwd, hist'.raced = hist.raced
      PROVE  Enrolled'
  BY <1>1 DEF Enrolled, LC, LS
<1>2. CASE \/ Receive("client") \/ Wake("client") \/ Timeout("client") \/ Deliver("client")
           \/ Advance("client") \/ OnSignal("client")
           \/ OnNeed \/ Types \/ TypeLine \/ LingerDone \/ Tick
  BY <1>2, ClientSteps, AfterClientStep
<1>3. CASE Close("client")
  <2>1. /\ link' = [link EXCEPT !["client"].run = "exit"] /\ LC.phase = "idle"
        /\ prog' = prog /\ disk' = disk /\ hist' = hist
    BY <1>3 DEF Close, LC
  <2>2. LS' = LS /\ LC'.phase = "idle"
    BY <1>0, <2>1 DEF LS, LC, Link
  <2> QED BY <2>1, <2>2 DEF Enrolled
<1>4. CASE Receive("server")
  <2>1. PICK d : ServerHelloIn(d) \/ DataIn("server", d)
    BY <1>4 DEF Receive
  <2>2. Idle("server") \/ LS.phase # "idle"
    BY <2>1 DEF ServerHelloIn, DataIn, On, LS
  <2> DEFINE r == [link["server"] EXCEPT !.phase = "recv"]
             h == [link["server"] EXCEPT !.ready = TRUE, !.phase = "recv"]
  <2>3. /\ ServerHelloIn(d) => link' = [link EXCEPT !["server"] = h]
        /\ ~ServerHelloIn(d) =>
             /\ d \in net /\ d.kind # "HELLO"
             /\ \/ link' = [link EXCEPT !["server"] = r]
                \/ link' = [link EXCEPT !["server"] = Fed("server", r, d.kind)]
    BY <2>1 DEF ServerHelloIn, DataIn
  <2>4. h.phase = "recv" /\ r \in Link /\ r.phase = "recv"
    BY <1>0 DEF Link
  <2> HIDE DEF h, r
  <2>5. ASSUME ~ServerHelloIn(d) PROVE Fed("server", r, d.kind).phase = "recv"
    <3>1. d.kind \in {"INIT", "ACCEPT", "OPEN", "BYE"}
      <4>1. d \in Datagram
        BY <2>3, <2>5, LinkFacts
      <4> QED BY <2>3, <2>5, <4>1 DEF Datagram
    <3> QED BY <2>4, <3>1 DEF Fed, Link
  <2>6. LC' = LC /\ LS'.phase = "recv"
    BY <1>0, <2>3, <2>4, <2>5 DEF LC, LS
  <2> QED BY <2>2, <2>6, AfterServerStep
<1>5. CASE Wake("server") \/ Timeout("server") \/ Advance("server") \/ Close("server") \/ OnSignal("server")
  <2>1. CASE Wake("server")
    <3>1. LC' = LC /\ LS'.phase = "pump" /\ Idle("server")
      BY <1>0, <2>1 DEF Wake, LC, LS, Link
    <3> QED BY <3>1, AfterServerStep
  <2>2. CASE Timeout("server")
    <3> DEFINE g == [link["server"] EXCEPT !.conn = "CLOSED", !.gone = TRUE]
    <3>1. link' = [link EXCEPT !["server"] = Pumped(g)] /\ Idle("server")
      BY <2>2 DEF Timeout
    <3>0. link["server"] \in Link
      BY <1>0
    <3>2. g \in Link /\ g.run = link["server"].run /\ g.down = link["server"].down
      BY <3>0 DEF Link
    <3> HIDE DEF g
    <3>3. Calm(g) /\ g.run # "exit"
      BY <1>0, <3>1, <3>2, LinkFacts DEF Calm, Idle
    <3>4. Pumped(g).phase = "pump"
      BY <3>2, <3>3, PumpedIs
    <3>5. LC' = LC /\ LS' = Pumped(g)
      BY <1>0, <3>1 DEF LC, LS
    <3> QED BY <3>1, <3>4, <3>5, AfterServerStep
  <2>3. CASE Advance("server")
    <3> DEFINE l == Pumped(link["server"])
               f == FireDown(l, "HOSTKEY")
               a == Advanced("server", l)
    <3>1. /\ LS.run # "exit" /\ LS \in Link /\ Calm(LS) /\ link["server"] = LS
      BY <2>3, LinkFacts DEF Advance, On, LS
    <3>2. \/ link' = [link EXCEPT !["server"] = [f EXCEPT !.phase = "idle"]]
          \/ link' = [link EXCEPT !["server"] = [a EXCEPT !.out = {}, !.phase = "idle"]]
      BY <2>3 DEF Advance
    <3>3. l \in Link /\ l.run # "exit" /\ Calm(l)
      BY <3>1, PumpedIs
    <3> HIDE DEF l
    <3>4. f \in Link /\ a \in Link
      BY <1>0, <3>3, FireDownIs, AdvancedIs
    <3> HIDE DEF f, a
    <3>5. [f EXCEPT !.phase = "idle"].phase = "idle" /\ [a EXCEPT !.out = {}, !.phase = "idle"].phase = "idle"
      BY <3>4 DEF Link
    <3>6. LC' = LC /\ LS'.phase = "idle"
      BY <1>0, <3>2, <3>5 DEF LC, LS
    <3> QED BY <3>6, AfterServerStep
  <2>4. CASE Close("server") \/ OnSignal("server")
    <3>1. LC' = LC /\ LS'.phase = LS.phase /\ LS.phase = "idle"
      BY <1>0, <2>4 DEF Close, OnSignal, Idle, LC, LS, Link
    <3> QED BY <3>1, AfterServerStep
  <2> QED BY <1>5, <2>1, <2>2, <2>3, <2>4
<1>6. CASE Crash
  <2>1. LC' = LC /\ LS'.phase = "idle"
    BY <1>0, <1>6 DEF Crash, LC, LS, Link
  <2> QED BY <2>1, AfterServerStep
<1>7. CASE Deliver("server")
  <2>1. \/ ServerDeliver \/ SrvSubmit \/ SrvEnrolFails \/ (\E cut \in Cuts : SrvEnrol(cut))
        \/ DeliverData("server")
    BY <1>7 DEF Deliver
  <2>2. CASE DeliverData("server")
    <3>1. link' = [link EXCEPT !["server"] = Pumped(@)] /\ Delivers("server")
      BY <2>2 DEF DeliverData
    <3>2. Pumped(link["server"]).phase = "pump" /\ link["server"].phase # "idle"
      BY <1>0, <3>1, Reading
    <3>3. LC' = LC /\ LS'.phase = "pump" /\ LS.phase # "idle"
      BY <1>0, <3>1, <3>2 DEF LC, LS
    <3> QED BY <3>3, AfterServerStep
  <2>3. "whole" \in Cuts
    BY DEF Cuts
  <2> QED BY <2>1, <2>2, <2>3, SubmitLooks, ServerFeedsOn
<1>8. CASE \E cut \in Cuts : AddUser(cut) \/ \E new \in HostKeys : NewSession(new, cut)
  <2>1. ASSUME NEW cut \in Cuts, AddUser(cut) PROVE Enrolled'
    BY <2>1, AddUserMeanwhile
  <2>2. ASSUME NEW cut \in Cuts, NEW new \in HostKeys, NewSession(new, cut) PROVE Enrolled'
    <3>1. link' \in [Ends -> {Opened0, [Opened0 EXCEPT !.run = "exit"]}]
      BY <2>2 DEF NewSession, Started
    <3>2. LC'.phase = "idle" /\ LS'.phase = "idle"
      BY <1>0, <3>1, FreshLink DEF LC, LS
    <3> QED BY <3>2 DEF Enrolled
  <2> QED BY <1>8, <2>1, <2>2
<1>9. CASE RemoveHostKey
  BY <1>1, <1>9 DEF RemoveHostKey, LinkInv, LinkTypes, Disk
<1>10. CASE (\E u \in Users, pw \in Passwords : AddUserCheck(u, pw)) \/ \E d \in net : Lose(d)
  <2>1. /\ link' = link /\ prog' = prog /\ disk' = disk
        /\ \/ hist' = [hist EXCEPT !.faults = @ + 1]
           \/ hist' = [hist EXCEPT !.faults = @ + 1, !.lost = TRUE]
    BY <1>10 DEF AddUserCheck, Lose
  <2>2. hist'.raced = hist.raced
    BY <2>1, LinkFacts, FaultNoted
  <2> QED BY <1>1, <2>1, <2>2
<1>11. CASE UNCHANGED allvars
  BY <1>1, <1>11 DEF allvars, linkvars
<1> QED BY <1>0, <1>2, <1>3, <1>4, <1>5, <1>6, <1>7, <1>8, <1>9, <1>10, <1>11 DEF LinkNext

-------------------------------------------------------------------------------
(* The invariant of the example. *)

LEMMA LinkInductive == LinkInv /\ Enrolled /\ [LinkNext]_allvars => LinkInv'
<1> SUFFICES ASSUME LinkInv, Enrolled, [LinkNext]_allvars PROVE LinkInv'
  OBVIOUS
<1>1. ASSUME NEW e \in Ends, Receive(e) PROVE LinkInv'
  BY <1>1, ServerHelloInOK, ClientHelloInOK, DataInOK DEF Receive
<1>2. ASSUME NEW e \in Ends, Deliver(e) PROVE LinkInv'
  BY <1>2, ClientDeliverOK, ServerDeliverOK, SrvSubmitOK, SrvEnrolOK, SrvEnrolFailsOK,
     DeliverDataOK DEF Deliver
<1>3. ASSUME NEW e \in Ends, Wake(e) \/ Timeout(e) \/ Advance(e) \/ Close(e) \/ OnSignal(e)
      PROVE  LinkInv'
  BY <1>3, WakeOK, TimeoutOK, AdvanceOK, CloseOK, OnSignalOK
<1>4. CASE Types
  BY <1>4, TypePasswordOK, TypePassphraseOK, TypeFieldOK, EndOfInputOK DEF Types
<1>5. CASE \E cut \in Cuts : AddUser(cut) \/ \E new \in HostKeys : NewSession(new, cut)
  BY <1>5, AddUserOK, NewSessionOK
<1>6. CASE RemoveHostKey \/ Tick \/ OnNeed \/ TypeLine \/ LingerDone \/ Crash
  BY <1>6, RemoveHostKeyOK, TickOK, OnNeedOK, TypeLineOK, LingerDoneOK, CrashOK
<1>7. CASE (\E u \in Users, pw \in Passwords : AddUserCheck(u, pw)) \/ \E d \in net : Lose(d)
  BY <1>7, AddUserCheckOK, LoseOK
<1>8. CASE UNCHANGED allvars
  <2>1. UNCHANGED <<vars, prog, disk, tool, hist>> /\ link' = link /\ net' = net /\ vars' = vars
    BY <1>8 DEF allvars, linkvars
  <2>2. LC' = LC /\ LS' = LS /\ server' = server /\ c2s' = c2s
    BY <2>1 DEF LC, LS, vars
  <2>3. link' \in [Ends -> Link] /\ net' \subseteq Datagram
    BY <2>1 DEF LinkInv, LinkTypes
  <2>4. Shaken'
    BY <2>1, <2>2 DEF LinkInv, Shaken
  <2>5. ServerUp'
    BY <2>1, <2>2 DEF LinkInv, ServerUp
  <2> QED BY <2>1, <2>2, <2>3, <2>4, <2>5, LinkStepOnly
<1> QED BY <1>1, <1>2, <1>3, <1>4, <1>5, <1>6, <1>7, <1>8 DEF LinkNext

LEMMA EnrolInit == Init0 => Enrolled
<1> SUFFICES ASSUME Init0 PROVE Enrolled
  OBVIOUS
<1>1. LC.phase = "idle" /\ LS.phase = "idle"
  BY FreshLink DEF Init0, LC, LS, Ends
<1> QED BY <1>1 DEF Enrolled

LEMMA LinkInvariant == LinkSpec => [](LinkInv /\ Enrolled)
  BY LinkInitOK, EnrolInit, LinkInductive, EnrolStep, PTL DEF LinkSpec

-------------------------------------------------------------------------------
(* Whatever order the two loops turn in, whatever is lost, and whenever a      *)
(* process is stopped or killed, nothing that the channel hands over is thrown *)
(* away: a message of the login finds the login begun, and application data    *)
(* finds a session that is up (deliver, advance and settle_auth).              *)
THEOREM NothingDroppedHolds == LinkSpec => []NothingDropped
<1> SUFFICES ASSUME LinkInv PROVE NothingDropped
  BY LinkInvariant, PTL
<1>1. link \in [Ends -> Link] /\ net \subseteq Datagram /\ prog \in Prog /\ ~hist.dropped
  BY DEF LinkInv, LinkTypes
<1>2. prog.asking \in Needs /\ prog.vals \in Seq(Users \cup Passwords \cup {Empty})
  BY <1>1 DEF Prog, Needs
<1>3. server \in Server
  <2>1. CASE client.state = "OK"
    BY <2>1, Decided1
  <2>2. CASE client.state # "OK"
    BY <2>2, Undecided DEF TypeOK
  <2> QED BY <2>1, <2>2
<1>4. server.tries <= MaxTries
  BY <1>3, AuthAssumption DEF Server
<1> QED BY <1>1, <1>2, <1>4 DEF NothingDropped, LinkTypeOK

(* A client that is up was accepted by its server, with a password or a key    *)
(* that the server's files hold, and the host key is the one that verify_host  *)
(* wrote down first, as long as no disk was full: whatever other accounts are  *)
(* written meanwhile and however often the sessions before it failed.          *)
THEOREM UpTogetherHolds == LinkSpec => []UpTogether
<1> SUFFICES ASSUME LinkInv PROVE UpTogether
  BY LinkInvariant, PTL
<1> SUFFICES ASSUME LC.up, LC.run # "exit"
             PROVE  /\ server.state = "OK"
                    /\ \/ CheckPassword(disk.passwd, prog.user, prog.secret)
                       \/ AuthorizedKey(disk.authkeys, prog.user, prog.key)
                       \/ hist.full
                    /\ KnownHost(disk.known, Host, disk.hostkey) = "MATCH" \/ hist.full
  BY DEF UpTogether, LC
<1>1. client.state = "OK"
  BY DEF LinkInv, Conversation
<1>2. server.state = "OK"
  BY <1>1, Decided1
<1>3. LC.ready
  BY DEF LinkInv, Shaken
<1> QED BY <1>2, <1>3 DEF LinkInv, Credentials, Trusted

(* Whoever was told that an account exists, by srv_submit or by --adduser, can *)
(* log in with it if the name is one word and no comment: whatever else is     *)
(* written between the look at passwd and the line (ks_user_exists and         *)
(* ks_passwd_add), unless it is the same name or the disk had no room for this *)
(* line or the one before it.                                                  *)
THEOREM PromisesKeptHolds == LinkSpec => []PromisesKept
<1> SUFFICES ASSUME LinkInv PROVE PromisesKept
  BY LinkInvariant, PTL
<1> QED BY DEF LinkInv, Files


\* Only two steps write to passwd.
LEMMA PasswordsStay ==
  ASSUME LinkInv, Enrolled, [LinkNext]_allvars, NEW u \in Users, NEW pw,
         CheckPassword(disk.passwd, u, pw), <<u, pw>> \notin hist'.harmed
  PROVE  CheckPassword(disk'.passwd, u, pw)
<1>0. disk \in Disk
  BY DEF LinkInv, LinkTypes
<1>1. ASSUME NEW cut \in Cuts, SrvEnrol(cut) PROVE CheckPassword(disk'.passwd, u, pw)
  BY <1>1, EnrolWrites DEF Written
<1>2. ASSUME NEW cut \in Cuts, AddUser(cut) PROVE CheckPassword(disk'.passwd, u, pw)
  BY <1>2, AddUserWrites DEF Written
<1>3. ASSUME NEW e \in Ends, Deliver(e) PROVE CheckPassword(disk'.passwd, u, pw)
  BY <1>1, <1>3 DEF Deliver, ClientDeliver, ServerDeliver, SrvSubmit, SrvEnrolFails, DeliverData, Kept
<1>4. ASSUME NEW e \in Ends, Receive(e) PROVE CheckPassword(disk'.passwd, u, pw)
  <2>1. disk' = disk \/ \E k : disk' = [disk EXCEPT !.known = k]
    BY <1>4 DEF Receive, ServerHelloIn, ClientHelloIn, DataIn
  <2> QED BY <1>0, <2>1 DEF Disk
<1>5. ASSUME NEW new, NEW cut, NewSession(new, cut) PROVE CheckPassword(disk'.passwd, u, pw)
  <2>1. disk' = [disk EXCEPT !.hostkey = HostKey(disk.hostkey, new, cut)]
    BY <1>5 DEF NewSession
  <2> QED BY <1>0, <2>1 DEF Disk
<1>6. CASE RemoveHostKey
  <2>1. disk' = [disk EXCEPT !.hostkey = "absent"]
    BY <1>6 DEF RemoveHostKey
  <2> QED BY <1>0, <2>1 DEF Disk
<1>7. ASSUME NEW e \in Ends, Wake(e) \/ Timeout(e) \/ Advance(e) \/ Close(e) \/ OnSignal(e)
      PROVE  disk' = disk
  BY <1>7 DEF Wake, Timeout, Advance, Close, OnSignal
<1>8. CASE Tick \/ OnNeed \/ TypeLine \/ LingerDone \/ Crash
  BY <1>8 DEF Tick, OnNeed, TypeLine, LingerDone, Crash
<1>9. CASE Types
  BY <1>9 DEF Types, TypePassword, TypePassphrase, TypeField, EndOfInput
<1>10. CASE (\E x \in Users, y \in Passwords : AddUserCheck(x, y)) \/ \E d \in net : Lose(d)
  BY <1>10 DEF AddUserCheck, Lose
<1>11. CASE UNCHANGED allvars
  BY <1>11 DEF allvars, linkvars
<1> QED BY <1>2, <1>3, <1>4, <1>5, <1>6, <1>7, <1>8, <1>9, <1>10, <1>11 DEF LinkNext

(* A password that works goes on working, whoever adds lines to passwd: the    *)
(* first entry of a name is the one that ks_check_password reads, and a disk   *)
(* that was full costs nobody but the owner of the line it cut and of the next *)
(* one (ks_passwd_add).                                                        *)
THEOREM PasswordsKeptHolds == LinkSpec => PasswordsKept
<1> DEFINE Stay == \A u \in Users, pw \in Passwords :
                     CheckPassword(disk.passwd, u, pw) /\ <<u, pw>> \notin hist'.harmed
                       => CheckPassword(disk.passwd', u, pw)
<1>1. LinkInv /\ Enrolled /\ [LinkNext]_allvars => [Stay]_allvars
  BY PasswordsStay
<1> HIDE DEF Stay
<1>2. LinkSpec => [][Stay]_allvars
  BY <1>1, LinkInvariant, PTL DEF LinkSpec
<1> QED BY <1>2 DEF PasswordsKept, Stay
================================================================================
