---------------------------- MODULE NcCryptoProofs -----------------------------
(***************************************************************************)
(* The replay window and the binding of sessions in NcCrypto, for every    *)
(* width of the window, every range of the counter and any number of       *)
(* restarts.                                                               *)
(***************************************************************************)
EXTENDS NcCrypto, TLAPS

\* The ephemeral key that the object of end r put in a transcript.
OwnEph(r, t) == IF r = "initiator" THEN t.init ELSE t.resp

\* An object is the newest of its end, and a session of it is its own.
ObjectOK(r) ==
  LET o == obj[r] IN
    /\ o.role = r
    /\ o.eph = <<r, starts[r]>>
    /\ r = "responder" => ~o.verify /\ ~o.require
    /\ ~Ready(o) => o.tx_counter = 0 /\ o.rx_max = 0 /\ o.rx_window = {}
    /\ Ready(o) =>
         /\ OwnEph(r, o.sid) = o.eph
         /\ o.verify => o.sid.s_resp \in Trusted
         /\ o.require => o.sid.s_resp # None

\* What the network holds under a key of end r was sealed by an object of end r:
\* by an earlier one, or by the present one with a counter it has used.
SealedBy(r) ==
  \A d \in net : d.kind = "DATA" /\ d.to = Peer(r) =>
    LET t == d.key.transcript IN
      /\ d.key.label = IF r = "initiator" THEN "I2R" ELSE "R2I"
      /\ OwnEph(r, t)[1] = r
      /\ OwnEph(r, t)[2] <= starts[r]
      /\ OwnEph(r, t)[2] = starts[r] =>
           Ready(obj[r]) /\ t = obj[r].sid /\ d.counter <= obj[r].tx_counter

\* What end r opened was opened by an earlier object or in the present session.
OpenedBy(r) ==
  \A d \in opened[r] :
    /\ d.kind = "DATA" /\ d.to = r
    /\ OwnEph(r, d.key.transcript)[2] <= starts[r]
    /\ OwnEph(r, d.key.transcript)[2] = starts[r] => Ready(obj[r]) /\ d.key = RxKey(obj[r])

\* The conjunct of WindowExact about one end.
WindowOf(r) == Ready(obj[r]) =>
  /\ \A n \in Seen(r) : n <= obj[r].rx_max
  /\ obj[r].rx_window = {d \in 0..(WindowBits - 1) :
                           d < obj[r].rx_max /\ obj[r].rx_max - d \in Seen(r)}

\* The inductive invariant.
IInv ==
  /\ TypeOK
  /\ \A r \in Roles : ObjectOK(r) /\ SealedBy(r) /\ OpenedBy(r) /\ WindowOf(r)


-------------------------------------------------------------------------------
LEMMA RolesTwo == \A r \in Roles : Peer(r) \in Roles /\ Peer(r) # r /\ Peer(Peer(r)) = r
  BY DEF Roles, Peer

\* What a typed object is made of.
LEMMA ObjectTyped ==
  ASSUME TypeOK, NEW r \in Roles
  PROVE  /\ obj[r].psk \in Psks /\ obj[r].static \in HostKeys \cup {None}
         /\ obj[r].require \in BOOLEAN /\ obj[r].verify \in BOOLEAN /\ obj[r].failed \in BOOLEAN
         /\ obj[r].eph \in Eph
         /\ Ready(obj[r]) => obj[r].sid \in Transcript
         /\ obj[r].tx_counter \in 0..CounterMax
         /\ obj[r].rx_max \in 0..CounterMax
         /\ obj[r].rx_window \subseteq 0..(WindowBits - 1)
  BY DEF TypeOK, Object, Ready

LEMMA DataTyped ==
  ASSUME TypeOK, NEW d \in net, d.kind = "DATA"
  PROVE  /\ d.to \in Roles /\ d.counter \in Nat /\ 1 <= d.counter /\ d.counter <= CounterMax
         /\ d.key \in Key /\ d.key.transcript \in Transcript
  BY CryptoAssumption DEF TypeOK, Hello, Data, Key, Counters

LEMMA HelloTyped ==
  ASSUME TypeOK, NEW h \in net, h.kind = "HELLO"
  PROVE  h.eph \in Eph /\ h.static \in HostKeys \cup {None}
  BY DEF TypeOK, Hello, Data

LEMMA OpenedInNet ==
  ASSUME TypeOK, NEW r \in Roles, NEW d \in opened[r]
  PROVE  d \in net
  BY DEF TypeOK

LEMMA InitOK == Init => IInv
<1> SUFFICES ASSUME Init PROVE IInv
  OBVIOUS
<1>1. PICK c \in Config("initiator"), d \in Config("responder") :
        obj = [r \in Roles |-> CryptoInit(r, 1, IF r = "initiator" THEN c ELSE d)]
  BY DEF Init
<1>2. \A r \in Roles : CryptoInit(r, 1, IF r = "initiator" THEN c ELSE d) \in Object
  <2>1. ASSUME NEW r \in Roles, NEW k, k.static \in HostKeys \cup {None}, k.psk \in Psks,
               k.require \in BOOLEAN, k.verify \in BOOLEAN
        PROVE  CryptoInit(r, 1, k) \in Object
    BY <2>1, CryptoAssumption DEF CryptoInit, Object, Eph, Fresh, NoKey
  <2>2. /\ c.static \in HostKeys \cup {None} /\ c.psk \in Psks
        /\ c.require \in BOOLEAN /\ c.verify \in BOOLEAN
    BY DEF Config
  <2>3. /\ d.static \in HostKeys \cup {None} /\ d.psk \in Psks
        /\ d.require \in BOOLEAN /\ d.verify \in BOOLEAN
    BY DEF Config
  <2> QED BY <2>1, <2>2, <2>3
<1>3. TypeOK
  BY <1>1, <1>2, CryptoAssumption DEF Init, TypeOK
<1>4. \A r \in Roles : ObjectOK(r) /\ ~Ready(obj[r])
  <2>1. ~d.verify /\ ~d.require
    BY DEF Config
  <2> QED BY <1>1, <2>1 DEF Init, ObjectOK, CryptoInit, Fresh, Ready
<1>5. \A r \in Roles : SealedBy(r) /\ OpenedBy(r) /\ WindowOf(r)
  BY <1>4 DEF Init, SealedBy, OpenedBy, WindowOf
<1> QED BY <1>3, <1>4, <1>5 DEF IInv

-------------------------------------------------------------------------------
LEMMA RestartOK ==
  ASSUME IInv, NEW r \in Roles, Restart(r)
  PROVE  IInv'
<1> DEFINE n == CryptoInit(r, starts[r] + 1, obj[r])
<1> USE DEF IInv
<1>1. starts[r] + 1 \in 1..MaxStarts /\ \A s \in Roles : starts[s] \in 1..MaxStarts
  BY CryptoAssumption DEF Restart, TypeOK, Roles
<1>2. n \in Object
  BY <1>1, ObjectTyped, CryptoAssumption DEF CryptoInit, Object, Eph, Fresh, NoKey
<1>3. /\ obj' = [obj EXCEPT ![r] = n] /\ starts' = [starts EXCEPT ![r] = @ + 1]
      /\ net' = net /\ opened' = opened
  BY DEF Restart
<1>4. TypeOK'
  BY <1>1, <1>2, <1>3 DEF TypeOK
<1>5. /\ obj'[r] = n /\ starts'[r] = starts[r] + 1
      /\ \A s \in Roles \ {r} : obj'[s] = obj[s] /\ starts'[s] = starts[s]
  BY <1>3 DEF TypeOK
<1>6. /\ ~Ready(n) /\ n.role = r /\ n.eph = <<r, starts[r] + 1>>
      /\ n.tx_counter = 0 /\ n.rx_max = 0 /\ n.rx_window = {}
      /\ n.verify = obj[r].verify /\ n.require = obj[r].require
  BY DEF CryptoInit, Ready, Fresh
<1>7. ASSUME NEW s \in Roles PROVE ObjectOK(s)'
  BY <1>5, <1>6 DEF ObjectOK
<1>8. ASSUME NEW s \in Roles PROVE SealedBy(s)'
  <2> SUFFICES ASSUME NEW d \in net, d.kind = "DATA", d.to = Peer(s)
               PROVE  LET t == d.key.transcript IN
                      /\ d.key.label = IF s = "initiator" THEN "I2R" ELSE "R2I"
                      /\ OwnEph(s, t)[1] = s
                      /\ OwnEph(s, t)[2] <= starts'[s]
                      /\ OwnEph(s, t)[2] = starts'[s] =>
                           Ready(obj'[s]) /\ t = obj'[s].sid /\ d.counter <= obj'[s].tx_counter
    BY <1>3 DEF SealedBy
  <2>1. OwnEph(s, d.key.transcript)[2] \in Nat
    BY DataTyped DEF OwnEph, Transcript, Eph
  <2> QED BY <1>1, <1>5, <2>1 DEF SealedBy
<1>9. ASSUME NEW s \in Roles PROVE OpenedBy(s)'
  <2> SUFFICES ASSUME NEW d \in opened[s]
               PROVE  /\ d.kind = "DATA" /\ d.to = s
                      /\ OwnEph(s, d.key.transcript)[2] <= starts'[s]
                      /\ OwnEph(s, d.key.transcript)[2] = starts'[s] =>
                           Ready(obj'[s]) /\ d.key = RxKey(obj'[s])
    BY <1>3 DEF OpenedBy
  <2>1. d.kind = "DATA" /\ d \in net
    BY OpenedInNet DEF OpenedBy
  <2>2. OwnEph(s, d.key.transcript)[2] \in Nat
    BY <2>1, DataTyped DEF OwnEph, Transcript, Eph
  <2> QED BY <1>1, <1>5, <2>2 DEF OpenedBy
<1>10. ASSUME NEW s \in Roles PROVE WindowOf(s)'
  BY <1>3, <1>5, <1>6 DEF WindowOf, Seen
<1> QED BY <1>4, <1>7, <1>8, <1>9, <1>10

LEMMA SendHelloOK ==
  ASSUME IInv, NEW r \in Roles, SendHello(r)
  PROVE  IInv'
<1> DEFINE h == [kind |-> "HELLO", to |-> Peer(r), eph |-> obj[r].eph, static |-> obj[r].static]
<1> USE DEF IInv
<1>1. net' = net \cup {h} /\ obj' = obj /\ starts' = starts /\ opened' = opened
  BY DEF SendHello
<1>2. h \in Hello
  BY RolesTwo, ObjectTyped DEF Hello
<1>3. TypeOK'
  BY <1>1, <1>2 DEF TypeOK
<1>4. \A s \in Roles : ObjectOK(s)' /\ OpenedBy(s)' /\ WindowOf(s)'
  BY <1>1 DEF ObjectOK, OpenedBy, WindowOf, Seen
<1>5. \A s \in Roles : SealedBy(s)'
  BY <1>1 DEF SealedBy
<1> QED BY <1>3, <1>4, <1>5

LEMMA OpenHelloOK ==
  ASSUME IInv, NEW r \in Roles, NEW h \in net, OpenHello(r, h)
  PROVE  IInv'
<1> DEFINE o == obj[r]
           n == ConsumeHello(o, h)
<1> USE DEF IInv
<1>1. /\ obj' = [obj EXCEPT ![r] = n] /\ starts' = starts /\ net' = net /\ opened' = opened
      /\ h.kind = "HELLO" /\ ~Ready(o)
  BY DEF OpenHello
<1>2. /\ h.eph \in Eph /\ h.static \in HostKeys \cup {None}
      /\ o \in Object /\ o.role = r /\ o.eph = <<r, starts[r]>>
      /\ o.tx_counter = 0 /\ o.rx_max = 0 /\ o.rx_window = {}
  BY <1>1, HelloTyped DEF TypeOK, ObjectOK
<1>3. n \in Object
  BY <1>2 DEF ConsumeHello, DeriveSession, Object, Transcript
<1>4. TypeOK'
  BY <1>1, <1>3 DEF TypeOK
<1>5. obj'[r] = n /\ \A s \in Roles \ {r} : obj'[s] = obj[s]
  BY <1>1 DEF TypeOK
<1>6. /\ n.role = r /\ n.eph = o.eph /\ n.tx_counter = 0 /\ n.rx_max = 0 /\ n.rx_window = {}
      /\ n.verify = o.verify /\ n.require = o.require
  BY <1>2 DEF ConsumeHello, DeriveSession, Object
<1>7. Ready(n) => /\ OwnEph(r, n.sid) = o.eph
                  /\ (n.verify => n.sid.s_resp \in Trusted)
                  /\ (n.require => n.sid.s_resp # None)
  <2>1. CASE (o.require /\ h.static = None) \/ (o.verify /\ h.static \notin Trusted)
    <3>1. n.sid = o.sid
      BY <1>2, <2>1 DEF ConsumeHello, Object
    <3> QED BY <1>1, <3>1 DEF Ready
  <2>2. CASE r = "initiator" /\ ~((o.require /\ h.static = None) \/ (o.verify /\ h.static \notin Trusted))
    <3>1. n.sid = [init |-> o.eph, resp |-> h.eph, s_resp |-> h.static, psk |-> o.psk]
      BY <1>2, <2>2 DEF ConsumeHello, DeriveSession, Object
    <3> QED BY <1>6, <2>2, <3>1 DEF OwnEph
  <2>3. CASE r = "responder"
    <3>1. n.sid \in {o.sid, [init |-> h.eph, resp |-> o.eph, s_resp |-> o.static, psk |-> o.psk]}
      BY <1>2, <2>3 DEF ConsumeHello, DeriveSession, Object
    <3>2. ~n.verify /\ ~n.require
      BY <1>6, <2>3 DEF ObjectOK
    <3> QED BY <1>1, <1>6, <2>3, <3>1, <3>2 DEF OwnEph, Ready
  <2> QED BY <2>1, <2>2, <2>3 DEF Roles
<1>8. ASSUME NEW s \in Roles PROVE ObjectOK(s)'
  BY <1>1, <1>2, <1>5, <1>6, <1>7 DEF ObjectOK
<1>9. ASSUME NEW s \in Roles PROVE SealedBy(s)'
  BY <1>1, <1>5 DEF SealedBy
<1>10. ASSUME NEW s \in Roles PROVE OpenedBy(s)'
  BY <1>1, <1>5 DEF OpenedBy
<1>11. ASSUME NEW s \in Roles PROVE WindowOf(s)'
  <2>1. CASE s # r
    BY <1>1, <1>5, <2>1 DEF WindowOf, Seen
  <2>2. CASE s = r /\ Ready(n)
    <3>1. ASSUME NEW d \in opened[r], d.key = RxKey(n) PROVE FALSE
      <4>1. d.key.transcript = n.sid
        BY <3>1 DEF RxKey
      <4>2. OwnEph(r, d.key.transcript)[2] = starts[r]
        BY <1>2, <1>7, <2>2, <4>1
      <4> QED BY <1>1, <4>2 DEF OpenedBy
    <3>2. Seen(r)' = {}
      BY <1>1, <1>5, <3>1 DEF Seen
    <3> QED BY <1>5, <1>6, <2>2, <3>2, CryptoAssumption DEF WindowOf
  <2> QED BY <1>5, <2>1, <2>2 DEF WindowOf
<1> QED BY <1>4, <1>8, <1>9, <1>10, <1>11

LEMMA SealOK ==
  ASSUME IInv, NEW r \in Roles, Seal(r)
  PROVE  IInv'
<1> DEFINE o == obj[r]
           n == [o EXCEPT !.tx_counter = @ + 1]
           p == [kind |-> "DATA", to |-> Peer(r), key |-> TxKey(o), counter |-> o.tx_counter + 1]
<1> USE DEF IInv
<1>1. /\ obj' = [obj EXCEPT ![r] = n] /\ starts' = starts /\ net' = net \cup {p}
      /\ opened' = opened /\ Ready(o) /\ o.tx_counter < CounterMax
  BY DEF Seal
<1>2. o \in Object /\ o.role = r /\ o.eph = <<r, starts[r]>> /\ OwnEph(r, o.sid) = o.eph
  BY <1>1 DEF TypeOK, ObjectOK
<1>3. o.tx_counter \in Nat /\ o.tx_counter + 1 \in Counters /\ o.sid \in Transcript
  BY <1>1, ObjectTyped, CryptoAssumption DEF Counters
<1>4. n \in Object
  BY <1>2, <1>3 DEF Object, Counters
<1>5. p \in Data
  BY <1>3, RolesTwo DEF Data, Key, TxKey
<1>6. TypeOK'
  BY <1>1, <1>4, <1>5 DEF TypeOK
<1>7. obj'[r] = n /\ \A s \in Roles \ {r} : obj'[s] = obj[s]
  BY <1>1 DEF TypeOK
<1>8. /\ n.role = r /\ n.eph = o.eph /\ n.sid = o.sid /\ n.verify = o.verify
      /\ n.require = o.require /\ n.rx_max = o.rx_max /\ n.rx_window = o.rx_window
      /\ n.tx_counter = o.tx_counter + 1 /\ Ready(n) /\ RxKey(n) = RxKey(o)
  BY <1>1, <1>2 DEF Object, Ready, RxKey
<1> HIDE DEF n
<1>9. ASSUME NEW s \in Roles PROVE ObjectOK(s)'
  BY <1>1, <1>2, <1>7, <1>8 DEF ObjectOK
<1>10. ASSUME NEW s \in Roles PROVE SealedBy(s)'
  <2> SUFFICES ASSUME NEW d \in net', d.kind = "DATA", d.to = Peer(s)
               PROVE  LET t == d.key.transcript IN
                      /\ d.key.label = IF s = "initiator" THEN "I2R" ELSE "R2I"
                      /\ OwnEph(s, t)[1] = s
                      /\ OwnEph(s, t)[2] <= starts[s]
                      /\ OwnEph(s, t)[2] = starts[s] =>
                           Ready(obj'[s]) /\ t = obj'[s].sid /\ d.counter <= obj'[s].tx_counter
    BY <1>1 DEF SealedBy
  <2>1. CASE d = p
    <3>1. s = r
      BY <2>1, RolesTwo
    <3>2. /\ d.key.transcript = o.sid /\ d.counter = n.tx_counter
          /\ d.key.label = IF r = "initiator" THEN "I2R" ELSE "R2I"
      BY <1>2, <1>8, <2>1 DEF TxKey
    <3>3. starts[r] \in Nat
      BY DEF TypeOK
    <3>4. OwnEph(r, d.key.transcript) = <<r, starts[r]>>
      BY <1>2, <3>2
    <3> QED BY <1>3, <1>7, <1>8, <3>1, <3>2, <3>3, <3>4
  <2>2. CASE d \in net /\ s = r
    <3>1. d.counter \in Nat
      BY <2>2, DataTyped
    <3> QED BY <1>3, <1>7, <1>8, <2>2, <3>1 DEF SealedBy
  <2>3. CASE d \in net /\ s # r
    BY <1>7, <2>3 DEF SealedBy
  <2> QED BY <1>1, <2>1, <2>2, <2>3
<1>11. ASSUME NEW s \in Roles PROVE OpenedBy(s)'
  BY <1>1, <1>7, <1>8 DEF OpenedBy
<1>12. ASSUME NEW s \in Roles PROVE WindowOf(s)'
  BY <1>1, <1>7, <1>8 DEF WindowOf, Seen
<1> QED BY <1>6, <1>9, <1>10, <1>11, <1>12

-------------------------------------------------------------------------------
(* The replay window itself: w and m are rx_window and rx_max, S the counters  *)
(* of the session that were opened.                                            *)
Exact(w, m, S) ==
  /\ \A n \in S : n <= m
  /\ w = {d \in 0..(WindowBits - 1) : d < m /\ m - d \in S}

\* nc_crypto_open refuses every counter it has seen: its bit is set, or it is
\* too old to have one.
LEMMA SeenIsReplayed ==
  ASSUME NEW o, o.rx_max \in Nat, NEW S \in SUBSET (Nat \ {0}),
         Exact(o.rx_window, o.rx_max, S), NEW n \in S
  PROVE  Replayed(o, n)
<1> DEFINE m == o.rx_max
           w == o.rx_window
<1>1. m \in Nat /\ n \in Nat /\ n > 0 /\ n <= m /\ WindowBits \in Nat
  BY CryptoAssumption DEF Exact
<1>2. w = {d \in 0..(WindowBits - 1) : d < m /\ m - d \in S}
  BY DEF Exact
<1> HIDE DEF m, w
<1>3. CASE m - n < WindowBits
  <2>1. m - n \in 0..(WindowBits - 1) /\ m - n < m /\ m - (m - n) = n
    BY <1>1, <1>3
  <2>2. m - n \in w
    BY <1>2, <2>1
  <2> QED BY <1>1, <2>2 DEF Replayed, m, w
<1>4. CASE m - n >= WindowBits
  BY <1>1, <1>4 DEF Replayed, m
<1> QED BY <1>1, <1>3, <1>4

\* A counter that is not a replay leaves the window exact, shifted or not.
LEMMA AcceptExact ==
  ASSUME NEW o \in Object, NEW S \in SUBSET (Nat \ {0}), NEW n \in Counters,
         Exact(o.rx_window, o.rx_max, S), ~Replayed(o, n)
  PROVE  Exact(Accept(o, n).rx_window, Accept(o, n).rx_max, S \cup {n})
<1> DEFINE m == o.rx_max
           w == o.rx_window
<1>1. m \in Nat /\ n \in Nat /\ n > 0 /\ WindowBits \in Nat \ {0}
      /\ w \subseteq 0..(WindowBits - 1)
  BY CryptoAssumption DEF Object, Counters
<1>2. CASE n > m
  <2> DEFINE v == {0} \cup {d + n - m : d \in {b \in w : b + n - m < WindowBits}}
  <2>0. Accept(o, n) = [o EXCEPT !.rx_window = v, !.rx_max = n]
    BY <1>2 DEF Accept
  <2> HIDE DEF v
  <2>1. Accept(o, n).rx_window = v /\ Accept(o, n).rx_max = n
    BY <2>0 DEF Object
  <2> USE DEF v
  <2>2. \A k \in S \cup {n} : k <= n
    <3>1. \A k \in S : k \in Nat /\ k <= m
      BY DEF Exact
    <3> HIDE DEF m, w, v
    <3> QED BY <1>1, <1>2, <3>1
  <2>3. ASSUME NEW d \in v
        PROVE  d \in 0..(WindowBits - 1) /\ d < n /\ n - d \in S \cup {n}
    <3>1. CASE d = 0
      BY <1>1, <3>1
    <3>2. CASE d # 0
      <4>1. PICK b \in w : b + n - m < WindowBits /\ d = b + n - m
        BY <2>3, <3>2
      <4>2. b \in Nat /\ b < m /\ m - b \in S
        BY <1>1 DEF Exact
      <4> QED BY <1>1, <1>2, <4>1, <4>2
    <3> QED BY <3>1, <3>2
  <2>4. ASSUME NEW d \in 0..(WindowBits - 1), d < n, n - d \in S \cup {n}
        PROVE  d \in v
    <3>1. CASE d # 0
      <4>1. n - d \in S /\ n - d <= m
        BY <1>1, <2>4, <3>1 DEF Exact
      <4> DEFINE b == d - (n - m)
      <4>2. b \in 0..(WindowBits - 1) /\ b < m /\ m - b = n - d /\ b + n - m = d
        BY <1>1, <1>2, <2>4, <4>1
      <4>3. b \in w
        BY <4>1, <4>2 DEF Exact
      <4> HIDE DEF b
      <4> QED BY <1>1, <4>2, <4>3
    <3> QED BY <3>1
  <2> HIDE DEF v
  <2>5. v = {d \in 0..(WindowBits - 1) : d < n /\ n - d \in S \cup {n}}
    BY <2>3, <2>4
  <2> QED BY <2>1, <2>2, <2>5 DEF Exact
<1>3. CASE n <= m
  <2>1. Accept(o, n).rx_window = w \cup {m - n} /\ Accept(o, n).rx_max = m
    BY <1>1, <1>3 DEF Accept, Object
  <2>2. m - n \in 0..(WindowBits - 1) /\ m - n < m /\ m - (m - n) = n
    BY <1>1, <1>3 DEF Replayed
  <2>3. \A k \in S \cup {n} : k <= m
    BY <1>3 DEF Exact
  <2>4. \A d \in 0..(WindowBits - 1) : m - d = n => d = m - n
    BY <1>1
  <2>5. w \cup {m - n} = {d \in 0..(WindowBits - 1) : d < m /\ m - d \in S \cup {n}}
    BY <2>2, <2>4 DEF Exact
  <2> QED BY <2>1, <2>3, <2>5 DEF Exact
<1> QED BY <1>1, <1>2, <1>3

LEMMA SeenTyped ==
  ASSUME IInv, NEW r \in Roles
  PROVE  Seen(r) \in SUBSET (Nat \ {0})
<1> SUFFICES ASSUME NEW d \in opened[r] PROVE d.counter \in Nat \ {0}
  BY DEF Seen
<1>1. d \in net /\ d.kind = "DATA"
  BY OpenedInNet DEF IInv, OpenedBy
<1> QED BY <1>1, DataTyped DEF IInv

LEMMA OpenDataOK ==
  ASSUME IInv, NEW r \in Roles, NEW p \in net, OpenData(r, p)
  PROVE  IInv'
<1> DEFINE o == obj[r]
           n == Accept(o, p.counter)
<1> USE DEF IInv
<1>1. /\ obj' = [obj EXCEPT ![r] = n] /\ opened' = [opened EXCEPT ![r] = @ \cup {p}]
      /\ starts' = starts /\ net' = net
      /\ p.kind = "DATA" /\ p.to = r /\ Ready(o) /\ p.key = RxKey(o) /\ ~Replayed(o, p.counter)
  BY DEF OpenData
<1>2. o \in Object /\ o.role = r /\ o.eph = <<r, starts[r]>> /\ OwnEph(r, o.sid) = o.eph
  BY <1>1 DEF TypeOK, ObjectOK
<1>3. p.counter \in Counters
  BY <1>1, DataTyped DEF Counters
<1>e. Exact(n.rx_window, n.rx_max, Seen(r) \cup {p.counter})
  <2>1. Exact(o.rx_window, o.rx_max, Seen(r))
    BY <1>1 DEF WindowOf, Exact
  <2> QED BY <1>1, <1>2, <1>3, <2>1, SeenTyped, AcceptExact
<1>4. /\ n.rx_max \in 0..CounterMax /\ n.rx_window \subseteq 0..(WindowBits - 1)
  <2>2. n.rx_max \in 0..CounterMax
    BY <1>2, <1>3, CryptoAssumption DEF Accept, Object, Counters
  <2> QED BY <1>e, <2>2 DEF Exact
<1>5. /\ n.role = r /\ n.eph = o.eph /\ n.sid = o.sid /\ n.verify = o.verify
      /\ n.require = o.require /\ n.tx_counter = o.tx_counter
      /\ Ready(n) /\ RxKey(n) = RxKey(o)
  BY <1>1, <1>2 DEF Object, Accept, Ready, RxKey
<1>6. n \in Object
  <2>1. n = [o EXCEPT !.rx_window = n.rx_window, !.rx_max = n.rx_max]
    BY <1>2 DEF Accept, Object
  <2> QED BY <1>2, <1>4, <2>1 DEF Object
<1>7. TypeOK'
  BY <1>1, <1>6 DEF TypeOK
<1>8. /\ obj'[r] = n /\ \A s \in Roles \ {r} : obj'[s] = obj[s]
      /\ opened'[r] = opened[r] \cup {p} /\ \A s \in Roles \ {r} : opened'[s] = opened[s]
  BY <1>1 DEF TypeOK
<1>9. ASSUME NEW s \in Roles PROVE ObjectOK(s)'
  BY <1>1, <1>2, <1>5, <1>8 DEF ObjectOK
<1>10. ASSUME NEW s \in Roles PROVE SealedBy(s)'
  BY <1>1, <1>5, <1>8 DEF SealedBy
<1>11. ASSUME NEW s \in Roles PROVE OpenedBy(s)'
  <2>1. CASE s # r
    BY <1>1, <1>8, <2>1 DEF OpenedBy
  <2>2. CASE s = r
    <3>1. OwnEph(r, p.key.transcript)[2] = starts[r] /\ starts[r] \in Nat
      BY <1>1, <1>2 DEF RxKey, TypeOK
    <3>2. \A d \in opened'[r] : d \in opened[r] \/ d = p
      BY <1>8
    <3> QED BY <1>1, <1>5, <1>8, <2>2, <3>1, <3>2 DEF OpenedBy
  <2> QED BY <2>1, <2>2
<1>12. ASSUME NEW s \in Roles PROVE WindowOf(s)'
  <2>1. CASE s # r
    BY <1>1, <1>8, <2>1 DEF WindowOf, Seen
  <2>2. CASE s = r
    <3>1. Seen(r)' = Seen(r) \cup {p.counter}
      BY <1>1, <1>5, <1>8 DEF Seen
    <3>2. Exact(n.rx_window, n.rx_max, Seen(r)')
      BY <1>e, <3>1
    <3> QED BY <1>8, <2>2, <3>2 DEF WindowOf, Exact
  <2> QED BY <2>1, <2>2
<1> QED BY <1>7, <1>9, <1>10, <1>11, <1>12

-------------------------------------------------------------------------------
LEMMA Inductive == IInv /\ [Next]_vars => IInv'
<1> SUFFICES ASSUME IInv, [Next]_vars PROVE IInv'
  OBVIOUS
<1>1. CASE UNCHANGED vars
  BY <1>1 DEF vars, IInv, TypeOK, ObjectOK, SealedBy, OpenedBy, WindowOf, Seen
<1>2. ASSUME NEW r \in Roles, Restart(r) PROVE IInv'
  BY <1>2, RestartOK
<1>3. ASSUME NEW r \in Roles, SendHello(r) PROVE IInv'
  BY <1>3, SendHelloOK
<1>4. ASSUME NEW r \in Roles, Seal(r) PROVE IInv'
  BY <1>4, SealOK
<1>5. ASSUME NEW r \in Roles, NEW p \in net, OpenHello(r, p) PROVE IInv'
  BY <1>5, OpenHelloOK
<1>6. ASSUME NEW r \in Roles, NEW p \in net, OpenData(r, p) PROVE IInv'
  BY <1>6, OpenDataOK
<1> QED BY <1>1, <1>2, <1>3, <1>4, <1>5, <1>6 DEF Next

LEMMA Invariant == Spec => []IInv
<1> QED BY InitOK, Inductive, PTL DEF Spec

(* nc_crypto_open keeps rx_window equal to the history of the session, for     *)
(* every width of the window and every counter up to the last.                 *)
THEOREM WindowExactHolds == Spec => []WindowExact
<1>1. IInv => WindowExact
  BY DEF IInv, WindowExact, WindowOf
<1> QED BY <1>1, Invariant, PTL

(* nc_crypto_open never opens a datagram that this end has opened before, in   *)
(* whatever order the network repeats what it carried and however often either *)
(* end is started again.                                                       *)
THEOREM OpenedOnceHolds == Spec => OpenedOnce
<1>1. ASSUME IInv, NEW r \in Roles, NEW d \in opened[r] PROVE ~OpenData(r, d)
  <2> SUFFICES ASSUME OpenData(r, d) PROVE FALSE
    OBVIOUS
  <2>1. Ready(obj[r]) /\ d.key = RxKey(obj[r]) /\ ~Replayed(obj[r], d.counter)
    BY DEF OpenData
  <2>2. d.counter \in Seen(r)
    BY <2>1 DEF Seen
  <2>3. Exact(obj[r].rx_window, obj[r].rx_max, Seen(r))
    BY <1>1, <2>1 DEF IInv, WindowOf, Exact
  <2>4. obj[r].rx_max \in Nat
    BY <1>1, ObjectTyped, CryptoAssumption DEF IInv
  <2> QED BY <1>1, <2>1, <2>2, <2>3, <2>4, SeenTyped, SeenIsReplayed
<1>2. IInv => [\A r \in Roles : \A d \in opened[r] : ~OpenData(r, d)]_vars
  BY <1>1
<1> QED BY <1>2, Invariant, PTL DEF OpenedOnce

(* What an end opens was sealed in its own session, by the peer's object with  *)
(* the same transcript, pre-shared key and identity (derive_session), and      *)
(* nc_crypto_seal never uses a counter twice under one key.                    *)
THEOREM SessionsBoundHolds == Spec => []SessionsBound
<1>1. ASSUME IInv PROVE SessionsBound
  <2> USE <1>1 DEF IInv
  <2>1. ASSUME NEW r \in Roles, NEW d \in opened[r], Ready(obj[r]), d.key = RxKey(obj[r])
        PROVE  /\ d.key.transcript[IF r = "initiator" THEN "init" ELSE "resp"] = obj[r].eph
               /\ obj[r].verify => obj[r].sid.s_resp \in Trusted
               /\ obj[r].require => obj[r].sid.s_resp # None
    <3>1. d.key.transcript = obj[r].sid /\ OwnEph(r, obj[r].sid) = obj[r].eph
      BY <2>1 DEF RxKey, ObjectOK
    <3>2. d.key.transcript[IF r = "initiator" THEN "init" ELSE "resp"] = OwnEph(r, d.key.transcript)
      BY DEF OwnEph
    <3> QED BY <2>1, <3>1, <3>2 DEF ObjectOK
  <2>2. ASSUME NEW r \in Roles, NEW d \in opened[r], Ready(obj[r]), d.key = RxKey(obj[r]),
               Ready(obj[Peer(r)]),
               obj[Peer(r)].eph = obj[r].sid[IF r = "initiator" THEN "resp" ELSE "init"]
        PROVE  obj[Peer(r)].sid = obj[r].sid
    <3>1. d.key.transcript = obj[r].sid
      BY <2>2 DEF RxKey
    <3>2. d \in net /\ d.kind = "DATA" /\ d.to = r /\ Peer(r) \in Roles /\ Peer(Peer(r)) = r
      BY OpenedInNet, RolesTwo DEF OpenedBy
    <3>3. obj[r].sid[IF r = "initiator" THEN "resp" ELSE "init"] = OwnEph(Peer(r), obj[r].sid)
      BY DEF OwnEph, Peer, Roles
    <3>4. obj[Peer(r)].eph = <<Peer(r), starts[Peer(r)]>>
      BY <3>2 DEF ObjectOK
    <3>5. OwnEph(Peer(r), d.key.transcript)[2] = starts[Peer(r)]
      BY <2>2, <3>1, <3>3, <3>4
    <3> QED BY <3>1, <3>2, <3>5 DEF SealedBy
  <2>3. ASSUME NEW r \in Roles, NEW d \in net, d.kind = "DATA", Ready(obj[r]), d.key = TxKey(obj[r])
        PROVE  d.counter <= obj[r].tx_counter
    <3>1. d.key.transcript = obj[r].sid /\ OwnEph(r, obj[r].sid) = <<r, starts[r]>>
      BY <2>3 DEF TxKey, ObjectOK
    <3>2. d.to = Peer(r)
      <4>1. d.key.label = IF r = "initiator" THEN "I2R" ELSE "R2I"
        BY <2>3 DEF TxKey, ObjectOK
      <4>2. d.to \in Roles /\ Peer(d.to) \in Roles /\ Peer(Peer(d.to)) = d.to
        BY <2>3, DataTyped, RolesTwo
      <4>3. d.key.label = IF Peer(d.to) = "initiator" THEN "I2R" ELSE "R2I"
        BY <2>3, <4>2 DEF SealedBy
      <4> QED BY <4>1, <4>2, <4>3 DEF Roles, Peer
    <3> QED BY <2>3, <3>1, <3>2 DEF SealedBy
  <2> QED BY <2>1, <2>2, <2>3 DEF SessionsBound
<1> QED BY <1>1, Invariant, PTL
===============================================================================
