------------------------------- MODULE NcCrypto --------------------------------
(***************************************************************************)
(* nc_crypto.c: the handshake of two nc_crypto objects and the datagrams   *)
(* they seal and open.  Either end may be started anew with a fresh        *)
(* object; the network repeats and reorders what it ever carried.  A key   *)
(* is the transcript that BLAKE2b hashes, and a datagram opens under       *)
(* exactly the key it was sealed with.                                     *)
(***************************************************************************)
EXTENDS Naturals, Sequences, FiniteSets

CONSTANTS
  CounterMax,   \* UINT64_MAX, where the counter refuses to wrap
  WindowBits,   \* 64, the bits of rx_window
  Psks,         \* the pre-shared keys an end may be given
  HostKeys,     \* the identity keys a responder may have
  Trusted,      \* the identity keys that verify_peer accepts
  MaxStarts     \* bound: objects that the two ends make in all

Roles == {"initiator", "responder"}
Peer(r) == IF r = "initiator" THEN "responder" ELSE "initiator"
None == "none"
Counters == 1..CounterMax

ASSUME CryptoAssumption ==
  /\ CounterMax \in Nat \ {0} /\ WindowBits \in Nat \ {0} /\ MaxStarts \in Nat \ {0, 1}
  /\ Trusted \subseteq HostKeys /\ None \notin HostKeys

VARIABLES
  obj,      \* struct nc_crypto of each end, the one in use
  starts,   \* objects made so far, by end: what makes an ephemeral key fresh
  net,      \* every datagram ever sent
  opened    \* history: the datagrams opened, by end

vars == <<obj, starts, net, opened>>

Eph == Roles \X (1..MaxStarts)
Transcript == [init : Eph, resp : Eph, s_resp : HostKeys \cup {None}, psk : Psks]
Key == [transcript : Transcript, label : {"I2R", "R2I"}]
NoKey == <<>>

Object ==
  [role : Roles, eph : Eph, static : HostKeys \cup {None}, psk : Psks, require : BOOLEAN,
   verify : BOOLEAN, failed : BOOLEAN, sid : Transcript \cup {NoKey}, tx_counter : 0..CounterMax,
   rx_max : 0..CounterMax, rx_window : SUBSET (0..(WindowBits - 1))]

Hello == [kind : {"HELLO"}, to : Roles, eph : Eph, static : HostKeys \cup {None}]
Data == [kind : {"DATA"}, to : Roles, key : Key, counter : Counters]

TypeOK ==
  /\ obj \in [Roles -> Object]
  /\ starts \in [Roles -> 1..MaxStarts]
  /\ net \subseteq Hello \cup Data
  /\ opened \in [Roles -> SUBSET net]

-------------------------------------------------------------------------------
\* The ephemeral key comes from the system's entropy.
Fresh(r, n) == <<r, n>>

\* nc_crypto_init: the configuration is the caller's.
CryptoInit(r, n, c) ==
  [role |-> r, eph |-> Fresh(r, n), static |-> c.static, psk |-> c.psk,
   require |-> c.require, verify |-> c.verify, failed |-> FALSE, sid |-> NoKey, tx_counter |-> 0, rx_max |-> 0, rx_window |-> {}]

\* Only a responder has an identity key here, and only an initiator asks for
\* one, as in the programs of this repository.
Config(r) ==
  IF r = "responder"
  THEN [static : HostKeys \cup {None}, psk : Psks, require : {FALSE}, verify : {FALSE}]
  ELSE [static : {None}, psk : Psks, require : BOOLEAN, verify : BOOLEAN]

Init ==
  /\ \E c \in Config("initiator"), d \in Config("responder") :
       obj = [r \in Roles |-> CryptoInit(r, 1, IF r = "initiator" THEN c ELSE d)]
  /\ starts = [r \in Roles |-> 1]
  /\ net = {}
  /\ opened = [r \in Roles |-> {}]

\* The program at one end is run again with what it is configured with.
Restart(r) ==
  /\ starts["initiator"] + starts["responder"] < MaxStarts
  /\ starts' = [starts EXCEPT ![r] = @ + 1]
  /\ obj' = [obj EXCEPT ![r] = CryptoInit(r, starts[r] + 1, @)]
  /\ UNCHANGED <<net, opened>>

Ready(o) == o.sid # NoKey

\* The keys of the two directions differ, and each end picks by its role.
TxKey(o) == [transcript |-> o.sid, label |-> IF o.role = "initiator" THEN "I2R" ELSE "R2I"]
RxKey(o) == [transcript |-> o.sid, label |-> IF o.role = "initiator" THEN "R2I" ELSE "I2R"]

\* nc_crypto_handshake_packet: sent until the session is ready, and by the
\* responder in answer to every HELLO.
SendHello(r) ==
  /\ net' = net \cup {[kind |-> "HELLO", to |-> Peer(r), eph |-> obj[r].eph,
                       static |-> obj[r].static]}
  /\ UNCHANGED <<obj, starts, opened>>

DeriveSession(o, h) ==
  [o EXCEPT !.sid =
     IF o.role = "initiator"
     THEN [init |-> o.eph, resp |-> h.eph, s_resp |-> h.static, psk |-> o.psk]
     ELSE [init |-> h.eph, resp |-> o.eph, s_resp |-> o.static, psk |-> o.psk]]

\* Mutant of ConsumeHello: the verdict on the key is taken for advice.
TrustingHello(o, h) == DeriveSession(o, h)

\* require_peer_static and verify_peer are asked in turn before anything is derived.
ConsumeHello(o, h) ==
  IF (o.require /\ h.static = None) \/ (o.verify /\ h.static \notin Trusted)
  THEN [o EXCEPT !.failed = TRUE]
  ELSE DeriveSession(o, h)

\* Only the first HELLO counts.
OpenHello(r, h) ==
  /\ h \in net /\ h.kind = "HELLO" /\ h.to = r
  /\ ~obj[r].failed /\ ~Ready(obj[r])
  /\ obj' = [obj EXCEPT ![r] = ConsumeHello(@, h)]
  /\ UNCHANGED <<starts, net, opened>>

\* nc_crypto_seal: the counter starts at 1 and is never used twice.
Seal(r) ==
  /\ Ready(obj[r]) /\ obj[r].tx_counter < CounterMax
  /\ obj' = [obj EXCEPT ![r].tx_counter = @ + 1]
  /\ net' = net \cup {[kind |-> "DATA", to |-> Peer(r), key |-> TxKey(obj[r]),
                       counter |-> obj[r].tx_counter + 1]}
  /\ UNCHANGED <<starts, opened>>

\* Mutant of Replayed: the test of the oldest bit is off by one.
ReplayedShort(o, n) == n <= o.rx_max /\ (o.rx_max - n > WindowBits \/ o.rx_max - n \in o.rx_window)

\* Bit d of rx_window stands for the counter rx_max - d.
Replayed(o, n) == n <= o.rx_max /\ (o.rx_max - n >= WindowBits \/ o.rx_max - n \in o.rx_window)

\* Mutant of Accept: the window keeps its bits when rx_max moves.
UnshiftedAccept(o, n) ==
  IF n > o.rx_max THEN [o EXCEPT !.rx_window = @ \cup {0}, !.rx_max = n]
  ELSE [o EXCEPT !.rx_window = @ \cup {o.rx_max - n}]

\* A larger counter shifts the window; bits shifted past the last are gone.
Accept(o, n) ==
  IF n > o.rx_max
  THEN [o EXCEPT !.rx_window = {0} \cup {d + n - o.rx_max : d \in
                                  {b \in @ : b + n - o.rx_max < WindowBits}},
                 !.rx_max = n]
  ELSE [o EXCEPT !.rx_window = @ \cup {o.rx_max - n}]

\* nc_crypto_open of a datagram that decrypts and is not a replay.
OpenData(r, d) ==
  /\ d \in net /\ d.kind = "DATA" /\ d.to = r
  /\ ~obj[r].failed /\ Ready(obj[r]) /\ d.key = RxKey(obj[r])
  /\ ~Replayed(obj[r], d.counter)
  /\ obj' = [obj EXCEPT ![r] = Accept(@, d.counter)]
  /\ opened' = [opened EXCEPT ![r] = @ \cup {d}]
  /\ UNCHANGED <<starts, net>>

Next ==
  \E r \in Roles :
    \/ Restart(r) \/ SendHello(r) \/ Seal(r)
    \/ \E p \in net : OpenHello(r, p) \/ OpenData(r, p)

Spec == Init /\ [][Next]_vars

-------------------------------------------------------------------------------
(* No datagram is opened twice, however often it comes and in whatever order,  *)
(* by this object or by one that a restart put in its place.                   *)
OpenedOnce == [][\A r \in Roles : \A d \in opened[r] : ~OpenData(r, d)]_vars

Seen(r) == {d.counter : d \in {e \in opened[r] : e.key = RxKey(obj[r])}}

(* rx_window is exactly the history of this session: a bit is set when its     *)
(* counter was opened and clear when it was not, so that nothing fresh within  *)
(* the window is refused either.                                               *)
WindowExact == TypeOK /\
  \A r \in Roles : Ready(obj[r]) =>
    /\ \A n \in Seen(r) : n <= obj[r].rx_max
    /\ obj[r].rx_window = {d \in 0..(WindowBits - 1) :
                             d < obj[r].rx_max /\ obj[r].rx_max - d \in Seen(r)}

(* What an end opens was sealed for the very object that opens it, by the one  *)
(* object of its peer that has the same pre-shared key and the identity this   *)
(* end asked for; and no two datagrams were ever sealed with one nonce under   *)
(* one key.                                                                    *)
SessionsBound ==
  \A r \in Roles : LET o == obj[r] IN
    /\ \A d \in opened[r] : Ready(o) /\ d.key = RxKey(o) =>
         /\ d.key.transcript[IF r = "initiator" THEN "init" ELSE "resp"] = o.eph
         /\ (o.verify => o.sid.s_resp \in Trusted) /\ (o.require => o.sid.s_resp # None)
         /\ Ready(obj[Peer(r)]) /\ obj[Peer(r)].eph = o.sid[IF r = "initiator" THEN "resp" ELSE "init"]
              => obj[Peer(r)].sid = o.sid
    /\ \A d \in net : d.kind = "DATA" /\ Ready(o) /\ d.key = TxKey(o) => d.counter <= o.tx_counter
===============================================================================
