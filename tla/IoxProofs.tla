------------------------------- MODULE IoxProofs -------------------------------
(***************************************************************************)
(* The event loop: every round calls what poll reported and the            *)
(* application still watches when it is called, and the heap of timers is  *)
(* an Alarm, for every table, heap and sequence of calls in callbacks.     *)
(***************************************************************************)
EXTENDS Iox, NumberLemmas, FiniteSetTheorems, SequenceTheorems, TLAPS

Timer == [id : Nat, deadline : Nat]
Events == SUBSET {"READ", "WRITE"}
Revents == SUBSET {"READ", "WRITE", "HUP", "NVAL"}
Slot == [fd : Fds \cup {Pipe}, reg : Nat, events : Events, revents : Revents, active : BOOLEAN]
Watch == [fd : Fds \cup {Pipe}, reg : Nat, events : Events]
Report == [reg : Nat, events : Events]

\* The places of iox_loop_run: in a round of callbacks, and elsewhere.
Round == {"fds", "fd callback", "pipe callback", "signals", "signal callback"}
Ending == {"compact", "timers", "timer callback"}
Places == Round \cup Ending \cup {"setup", "top", "poll", "idle", "left"}

Loop ==
  [fds : Seq(Slot), running : BOOLEAN, dispatching : BOOLEAN, compact_needed : BOOLEAN,
   at : Places, i : Nat, n : Nat, t : Nat]
Hist ==
  [watched : SUBSET Watch, regs : Nat, ops : Nat, script : Seq(Nat),
   reported : SUBSET Report, called : Seq(Report), rung : SUBSET Nat, unheard : SUBSET Signals]
Timers == [heap : Seq(Timer), next_id : Nat, now : Nat]
Types == loop \in Loop /\ hist \in Hist /\ timers \in Timers

\* An entry as the application and as the round see it.
AsWatch(e) == [fd |-> e.fd, reg |-> e.reg, events |-> e.events]
AsReport(e) == [reg |-> e.reg, events |-> EventsFromPoll(e.revents)]

\* Poll has something to say to the callback.
Heard(e) == EventsFromPoll(e.revents) # {}

\* The table holds what is watched, and each registration once.
Table(fds, watched, regs) ==
  /\ \A j, k \in 1..Len(fds) : fds[j].reg = fds[k].reg => j = k
  /\ \A j, k \in 1..Len(fds) : fds[j].active /\ fds[k].active /\ fds[j].fd = fds[k].fd => j = k
  /\ \A k \in 1..Len(fds) : fds[k].reg < regs
  /\ \A k \in 1..Len(fds) : fds[k].active => AsWatch(fds[k]) \in watched
  /\ \A w \in watched : \E k \in 1..Len(fds) : fds[k].active /\ w = AsWatch(fds[k])

\* Entries wait to be removed only in a round and until the compaction is over.
Kept(l) ==
  /\ l.dispatching <=> l.at \in Round
  /\ l.compact_needed => l.dispatching
  /\ ~l.compact_needed /\ l.at # "compact" => \A k \in 1..Len(l.fds) : l.fds[k].active
  /\ l.at = "compact" => l.i # 0 /\ \A k \in 1..Len(l.fds) : k < l.i => l.fds[k].active

\* A round: the entries before i have been called, unless they are not wanted
\* any more; n counts those that are left, also the ones that will hear nothing.
Called1(fds, k, called) == \E j \in 1..Len(called) : called[j] = AsReport(fds[k])
InRound(l, reported, called) ==
  /\ l.i # 0 /\ l.n = Cardinality({k \in l.i..Len(l.fds) : l.fds[k].revents # {}})
  /\ \A r \in reported : \E k \in 1..Len(l.fds) : Heard(l.fds[k]) /\ r = AsReport(l.fds[k])
  /\ \A k \in 1..Len(l.fds) : Heard(l.fds[k]) => AsReport(l.fds[k]) \in reported
  /\ \A j \in 1..Len(called) : \E k \in 1..Len(l.fds) : k < l.i /\ called[j] = AsReport(l.fds[k])
  /\ \A k \in 1..Len(l.fds) :
       k < l.i /\ l.fds[k].active /\ Heard(l.fds[k]) => Called1(l.fds, k, called)

\* What was called was reported, once, and of registrations made before.
Reported(h) ==
  /\ \A j \in 1..Len(h.called) : h.called[j] \in h.reported
  /\ \A j, k \in 1..Len(h.called) : h.called[j] = h.called[k] => j = k
  /\ \A r \in h.reported : r.reg < h.regs

\* The end of a round.
Complete(h) ==
  \A r \in h.reported :
    \/ \E j \in 1..Len(h.called) : h.called[j] = r
    \/ \A w \in h.watched : w.reg # r.reg

\* pq.h: no entry belongs above its parent; the identifiers are distinct.
Ordered(h) == \A k \in 2..Len(h) : ~Deeper(h[k \div 2], h[k])
Distinct(h) == \A j, k \in 1..Len(h) : h[j].id = h[k].id => j = k

Timing ==
  /\ Ordered(timers.heap) /\ Distinct(timers.heap)
  /\ \A k \in 1..Len(timers.heap) :
       timers.heap[k].id < timers.next_id /\ timers.heap[k].id \notin hist.rung
  /\ \A id \in hist.rung : id < timers.next_id
  /\ loop.t <= timers.now

LoopInv ==
  /\ Table(loop.fds, hist.watched, hist.regs) /\ Kept(loop) /\ Reported(hist)
  /\ loop.dispatching => InRound(loop, hist.reported, hist.called)
  /\ loop.at \in Ending => Complete(hist)

Inv == Types /\ LoopInv /\ Timing

-------------------------------------------------------------------------------
(* The places above a place of the heap. *)

LEMMA Halves ==
  ASSUME NEW k \in Nat
  PROVE  /\ k \div 2 \in Nat /\ (k > 0 => k \div 2 < k) /\ 2 * (k \div 2) <= k
         /\ k <= 2 * (k \div 2) + 1 /\ (k > 1 => k \div 2 >= 1)
OBVIOUS

LEMMA HalfOf ==
  ASSUME NEW k \in Nat
  PROVE  (2 * k) \div 2 = k /\ (2 * k + 1) \div 2 = k
OBVIOUS

\* The recursive definition has a solution: what every set that is closed under
\* halving has in common with the others that hold k.
LEMMA AncestorsDef ==
  \A k \in Nat : Ancestors[k] = IF k = 0 THEN {} ELSE {k} \cup Ancestors[k \div 2]
<1> DEFINE Closed(S) == \A m \in S : m \div 2 \in S
           g == [k \in Nat |-> {j \in Nat \ {0} : \A S \in SUBSET Nat : k \in S /\ Closed(S) => j \in S}]
           Eq(f) == f = [k \in Nat |-> IF k = 0 THEN {} ELSE {k} \cup f[k \div 2]]
<1>1. ASSUME NEW k \in Nat PROVE g[k] = IF k = 0 THEN {} ELSE {k} \cup g[k \div 2]
  <2>0. k \div 2 \in Nat
    BY Halves
  <2>1. CASE k = 0
    <3>1. {0} \in SUBSET Nat /\ Closed({0})
      <4>1. 0 \div 2 = 0
        OBVIOUS
      <4> QED BY <4>1
    <3>2. ASSUME NEW j \in g[k] PROVE FALSE
      <4>1. j # 0 /\ \A S \in SUBSET Nat : k \in S /\ Closed(S) => j \in S
        OBVIOUS
      <4> HIDE DEF Closed
      <4>2. j \in {0}
        BY <4>1, <3>1, <2>1
      <4> QED BY <4>1, <4>2
    <3> QED BY <3>2, <2>1
  <2>2. CASE k # 0
    <3>1. k \in g[k]
      BY <2>2
    <3>2. ASSUME NEW j \in g[k \div 2] PROVE j \in g[k]
      <4>1. j \in Nat \ {0} /\ \A S \in SUBSET Nat : k \div 2 \in S /\ Closed(S) => j \in S
        BY <2>0
      <4>2. ASSUME NEW S \in SUBSET Nat, k \in S, Closed(S) PROVE j \in S
        <5>1. k \div 2 \in S
          BY <4>2
        <5> QED BY <4>1, <4>2, <5>1
      <4> QED BY <4>1, <4>2
    <3>3. ASSUME NEW j \in g[k] PROVE j \in {k} \cup g[k \div 2]
      <4> DEFINE T == {k} \cup {i \in Nat : i = 0 \/ i \in g[k \div 2]}
      <4>1. j \in Nat \ {0} /\ \A S \in SUBSET Nat : k \in S /\ Closed(S) => j \in S
        OBVIOUS
      <4>2. T \in SUBSET Nat /\ k \in T
        OBVIOUS
      <4>3. ASSUME NEW m \in T PROVE m \div 2 \in T
        <5>0. m \in Nat /\ m \div 2 \in Nat
          BY <4>2, Halves
        <5>1. CASE m = k
          <6>1. k \div 2 = 0 \/ k \div 2 \in g[k \div 2]
            BY <2>0
          <6> QED BY <5>1, <6>1, <2>0
        <5>2. CASE m = 0
          <6>1. 0 \div 2 = 0
            OBVIOUS
          <6> QED BY <5>2, <6>1
        <5>3. CASE m \in g[k \div 2]
          <6>1. CASE m \div 2 = 0
            BY <6>1
          <6>2. CASE m \div 2 # 0
            <7>1. \A S \in SUBSET Nat : k \div 2 \in S /\ Closed(S) => m \in S
              BY <5>3, <2>0
            <7>2. \A S \in SUBSET Nat : k \div 2 \in S /\ Closed(S) => m \div 2 \in S
              BY <7>1
            <7>3. m \div 2 \in g[k \div 2]
              BY <7>2, <6>2, <5>0, <2>0
            <7> QED BY <7>3, <5>0
          <6> QED BY <6>1, <6>2
        <5> QED BY <5>1, <5>2, <5>3
      <4>4. Closed(T)
        BY <4>3
      <4>5. j \in T
        <5> HIDE DEF T, Closed
        <5> QED BY <4>1, <4>2, <4>4
      <4> QED BY <4>1, <4>5
    <3> HIDE DEF g
    <3> QED BY <2>2, <3>1, <3>2, <3>3
  <2> QED BY <2>1, <2>2
<1>2. Eq(g)
  <2>1. g = [k \in Nat |-> g[k]]
    OBVIOUS
  <2> HIDE DEF g
  <2> QED BY <1>1, <2>1
<1>3. Ancestors = CHOOSE f : Eq(f)
  BY DEF Ancestors
<1>4. Eq(Ancestors)
  <2> HIDE DEF g, Eq
  <2> QED BY <1>2, <1>3
<1> HIDE DEF g
<1> QED BY <1>4

LEMMA Lineage ==
  ASSUME NEW n \in Nat
  PROVE  /\ Ancestors[n] \in SUBSET (1..n) /\ (n # 0 => n \in Ancestors[n])
         /\ \A a \in Ancestors[n] : a # n => a \in Ancestors[n \div 2]
         /\ n # 0 => \A a \in Ancestors[n \div 2] : a \in Ancestors[n]
         /\ \A a, b \in Ancestors[n] : a < b => a \in Ancestors[b] /\ a <= b \div 2
         /\ \A a \in Ancestors[n] : a # n =>
              \E b \in Ancestors[n] : b \div 2 = a /\ b > a
<1> DEFINE Lower(k) == \A a \in Ancestors[k] : a \in 1..k
           Chain(k) == \A a, b \in Ancestors[k] : a < b => a \in Ancestors[b]
           Below(k) == \A a \in Ancestors[k] : a # k => \E b \in Ancestors[k] : b \div 2 = a /\ b > a
           Bad == {k \in Nat : ~(Lower(k) /\ Chain(k) /\ Below(k))}
<1>1. ASSUME NEW k \in Nat, \A m \in Nat : m < k => Lower(m) /\ Chain(m) /\ Below(m)
      PROVE  Lower(k) /\ Chain(k) /\ Below(k)
  <2>1. CASE k = 0
    <3>1. Ancestors[k] = {}
      BY <2>1, AncestorsDef
    <3> QED BY <3>1
  <2>2. CASE k # 0
    <3>0. k \div 2 \in Nat /\ k \div 2 < k
      BY <2>2, Halves
    <3>1. Ancestors[k] = {k} \cup Ancestors[k \div 2]
      BY <2>2, AncestorsDef
    <3>2. Lower(k \div 2) /\ Chain(k \div 2) /\ Below(k \div 2)
      BY <1>1, <3>0
    <3>3. Lower(k)
      <4>1. \A a \in Ancestors[k \div 2] : a \in 1..(k \div 2)
        BY <3>2
      <4>2. k \in 1..k /\ \A a \in 1..(k \div 2) : a \in 1..k
        BY <3>0, <2>2
      <4> QED BY <3>1, <4>1, <4>2
    <3>4. Chain(k)
      <4> SUFFICES ASSUME NEW a \in Ancestors[k], NEW b \in Ancestors[k], a < b
                   PROVE  a \in Ancestors[b]
        OBVIOUS
      <4>1. CASE b = k
        BY <4>1
      <4>2. CASE b # k
        <5>1. a # k
          <6>1. b \in 1..k /\ a \in 1..k
            BY <3>3
          <6> QED BY <6>1
        <5>2. a \in Ancestors[k \div 2] /\ b \in Ancestors[k \div 2]
          BY <3>1, <4>2, <5>1
        <5> QED BY <5>2, <3>2
      <4> QED BY <4>1, <4>2
    <3>5. Below(k)
      <4> SUFFICES ASSUME NEW a \in Ancestors[k], a # k
                   PROVE  \E b \in Ancestors[k] : b \div 2 = a /\ b > a
        OBVIOUS
      <4>1. a \in Ancestors[k \div 2]
        BY <3>1
      <4>2. CASE a = k \div 2
        <5>1. k \in Ancestors[k]
          BY <3>1
        <5> QED BY <4>2, <3>0, <5>1
      <4>3. CASE a # k \div 2
        <5>1. \E b \in Ancestors[k \div 2] : b \div 2 = a /\ b > a
          BY <4>1, <4>3, <3>2
        <5> QED BY <5>1, <3>1
      <4> QED BY <4>2, <4>3
    <3> QED BY <3>3, <3>4, <3>5
  <2> QED BY <2>1, <2>2
<1> HIDE DEF Lower, Chain, Below
<1>2. Bad = {}
  <2> SUFFICES ASSUME Bad # {} PROVE FALSE
    OBVIOUS
  <2>1. Bad \in SUBSET Nat
    OBVIOUS
  <2>2. PICK k \in Bad : \A m \in Bad : k <= m
    BY <2>1, LeastNatural
  <2>3. k \in Nat /\ \A m \in Nat : m < k => m \notin Bad
    BY <2>1, <2>2
  <2>4. \A m \in Nat : m < k => Lower(m) /\ Chain(m) /\ Below(m)
    BY <2>3
  <2>5. Lower(k) /\ Chain(k) /\ Below(k)
    BY <2>3, <2>4, <1>1
  <2> QED BY <2>5
<1>3. \A k \in Nat : Lower(k) /\ Chain(k) /\ Below(k)
  BY <1>2
<1>4. Ancestors[n] \in SUBSET (1..n)
  BY <1>3 DEF Lower
<1>5. n # 0 => Ancestors[n] = {n} \cup Ancestors[n \div 2]
  BY AncestorsDef
<1>6. n = 0 => Ancestors[n] = {}
  BY AncestorsDef
<1>7. ASSUME NEW a \in Ancestors[n], NEW b \in Ancestors[n], a < b
      PROVE  a \in Ancestors[b] /\ a <= b \div 2
  <2>1. a \in Ancestors[b]
    BY <1>3, <1>7 DEF Chain
  <2>2. a \in Nat /\ b \in Nat /\ a # b
    BY <1>4, <1>7
  <2>3. b # 0 => Ancestors[b] = {b} \cup Ancestors[b \div 2]
    BY AncestorsDef, <2>2
  <2>4. b # 0 /\ b \div 2 \in Nat
    BY <2>2, <1>7, Halves
  <2>5. a \in Ancestors[b \div 2]
    BY <2>1, <2>2, <2>3, <2>4
  <2>6. a \in 1..(b \div 2)
    BY <2>4, <2>5, <1>3 DEF Lower
  <2> QED BY <2>1, <2>4, <2>6
<1>8. \A a \in Ancestors[n] : a # n => \E b \in Ancestors[n] : b \div 2 = a /\ b > a
  BY <1>3 DEF Below
<1> QED BY <1>4, <1>5, <1>6, <1>7, <1>8

LEMMA AncestorsUp ==
  ASSUME NEW n \in Nat
  PROVE  \A b \in Ancestors[n] : \A a \in Ancestors[b] : a \in Ancestors[n]
<1> DEFINE Bad == {k \in Nat : ~\A b \in Ancestors[k] : \A a \in Ancestors[b] : a \in Ancestors[k]}
<1> SUFFICES ASSUME Bad # {} PROVE FALSE
  OBVIOUS
<1>1. Bad \in SUBSET Nat
  OBVIOUS
<1>2. PICK k \in Bad : \A m \in Bad : k <= m
  BY <1>1, LeastNatural
<1>3. k \in Nat /\ \A m \in Nat : m < k => m \notin Bad
  BY <1>1, <1>2
<1>4. PICK b \in Ancestors[k] : \E a \in Ancestors[b] : a \notin Ancestors[k]
  BY <1>2
<1>5. b # k
  BY <1>4
<1>6. k # 0
  BY <1>3, <1>4, AncestorsDef
<1>7. b \in Ancestors[k \div 2]
  BY <1>3, <1>5, Lineage
<1>8. k \div 2 \in Nat /\ k \div 2 < k
  BY <1>3, <1>6, Halves
<1>9. k \div 2 \notin Bad
  BY <1>3, <1>8
<1>10. \A a \in Ancestors[b] : a \in Ancestors[k \div 2]
  BY <1>7, <1>8, <1>9
<1>11. \A a \in Ancestors[k \div 2] : a \in Ancestors[k]
  BY <1>3, <1>6, Lineage
<1> QED BY <1>4, <1>10, <1>11

-------------------------------------------------------------------------------
(* The heap.  A sift puts e and the entries but the one at i in new places;    *)
(* f says where each comes from.                                               *)

Placed(h, i, e, f) == [k \in 1..Len(h) |-> IF f[k] = i THEN e ELSE h[f[k]]]

\* The identifiers of e and of the entries but the one at i.
Unlike(h, i, e) ==
  /\ \A j, k \in 1..Len(h) : j # i /\ k # i /\ h[j].id = h[k].id => j = k
  /\ \A k \in 1..Len(h) : k # i => h[k].id # e.id
Others(h, i) == {h[k] : k \in (1..Len(h)) \ {i}}

LEMMA Rearranged ==
  ASSUME NEW h \in Seq(Timer), NEW i \in 1..Len(h), NEW e \in Timer,
         NEW f \in [1..Len(h) -> 1..Len(h)],
         \A j, k \in 1..Len(h) : f[j] = f[k] => j = k, Unlike(h, i, e)
  PROVE  /\ Placed(h, i, e, f) \in Seq(Timer) /\ Len(Placed(h, i, e, f)) = Len(h)
         /\ Distinct(Placed(h, i, e, f)) /\ Range(Placed(h, i, e, f)) = {e} \cup Others(h, i)
<1> DEFINE n == Len(h)
           s == Placed(h, i, e, f)
<1>s. s = [k \in 1..n |-> IF f[k] = i THEN e ELSE h[f[k]]]
  BY DEF Placed
<1>u. /\ \A j, k \in 1..n : j # i /\ k # i /\ h[j].id = h[k].id => j = k
      /\ \A k \in 1..n : k # i => h[k].id # e.id
  BY DEF Unlike
<1> HIDE DEF s
<1>0. n \in Nat
  OBVIOUS
<1>1. \A k \in 1..n : h[k] \in Timer
  OBVIOUS
<1>2. s \in [1..n -> Timer]
  BY <1>1, <1>s
<1>3. s \in Seq(Timer) /\ Len(s) = n
  <2> HIDE DEF n
  <2> QED BY <1>0, <1>2
<1>4. Distinct(s)
  <2> SUFFICES ASSUME NEW j \in 1..n, NEW k \in 1..n, s[j].id = s[k].id PROVE f[j] = f[k]
    BY <1>3 DEF Distinct
  <2>1. f[j] \in 1..n /\ f[k] \in 1..n
    OBVIOUS
  <2>2. s[j] = (IF f[j] = i THEN e ELSE h[f[j]]) /\ s[k] = (IF f[k] = i THEN e ELSE h[f[k]])
    BY <1>s
  <2> HIDE DEF n
  <2>3. CASE f[j] = i \/ f[k] = i
    BY <2>1, <2>2, <2>3, <1>u
  <2>4. CASE f[j] # i /\ f[k] # i
    BY <2>1, <2>2, <2>4, <1>u
  <2> QED BY <2>3, <2>4
<1>5. \A m \in 1..n : \E k \in 1..n : f[k] = m
  <2>1. f \in Injection(1..n, 1..n)
    BY DEF Injection, IsInjective
  <2>2. IsFiniteSet(1..n)
    BY <1>0, FS_Interval
  <2>3. f \in Surjection(1..n, 1..n)
    BY <2>1, <2>2, FS_Injection
  <2> QED BY <2>3 DEF Surjection
<1>6. Range(s) = {s[k] : k \in 1..n}
  BY <1>s DEF Range
<1>7. ASSUME NEW k \in 1..n PROVE s[k] = e \/ \E m \in (1..n) \ {i} : s[k] = h[m]
  <2>1. f[k] \in 1..n
    OBVIOUS
  <2> QED BY <2>1, <1>s
<1>8. \E k \in 1..n : s[k] = e
  BY <1>5, <1>s
<1>9. ASSUME NEW m \in (1..n) \ {i} PROVE \E k \in 1..n : s[k] = h[m]
  <2>1. PICK k \in 1..n : f[k] = m
    BY <1>5
  <2> QED BY <2>1, <1>s
<1> DEFINE R == {e} \cup {h[k] : k \in (1..n) \ {i}}
           Q == {s[k] : k \in 1..n}
<1>10. \A x \in Q : x \in R
  <2> SUFFICES ASSUME NEW k \in 1..n PROVE s[k] \in R
    OBVIOUS
  <2> QED BY <1>7
<1>11. \A x \in R : x \in Q
  <2>1. e \in Q
    BY <1>8
  <2>2. \A m \in (1..n) \ {i} : h[m] \in Q
    <3> SUFFICES ASSUME NEW m \in (1..n) \ {i} PROVE h[m] \in Q
      OBVIOUS
    <3>1. PICK k \in 1..n : s[k] = h[m]
      BY <1>9
    <3>2. s[k] \in Q
      OBVIOUS
    <3> HIDE DEF Q
    <3> QED BY <3>1, <3>2
  <2> HIDE DEF n, Q
  <2> QED BY <2>1, <2>2
<1>12. Range(s) = R
  <2> HIDE DEF R, Q
  <2>1. Q = R
    BY <1>10, <1>11
  <2> QED BY <2>1, <1>6 DEF Q
<1> QED BY <1>3, <1>4, <1>12 DEF s, Others

\* h is ordered but for a hole at i.
Gap(h, i) ==
  /\ \A k \in 2..Len(h) : k # i /\ k \div 2 # i => h[k \div 2].deadline <= h[k].deadline
  /\ \A k \in 2..Len(h) : k \div 2 = i /\ i > 1 => h[i \div 2].deadline <= h[k].deadline

\* Places and deadlines.
LEMMA Deadlines ==
  ASSUME NEW h \in Seq(Timer)
  PROVE  /\ Len(h) \in Nat
         /\ \A k \in 1..Len(h) : h[k] \in Timer /\ h[k].deadline \in Nat /\ h[k].id \in Nat
         /\ \A k \in 2..Len(h) : k \in 1..Len(h) /\ k \div 2 \in 1..Len(h) /\ k \div 2 < k
<1>1. Len(h) \in Nat /\ \A k \in 1..Len(h) : h[k] \in Timer
  OBVIOUS
<1>2. ASSUME NEW k \in 2..Len(h)
      PROVE  k \in 1..Len(h) /\ k \div 2 \in 1..Len(h) /\ k \div 2 < k
  <2>1. k \in Nat /\ k > 1 /\ k <= Len(h)
    BY <1>1
  <2>2. k \div 2 \in Nat /\ k \div 2 < k /\ k \div 2 >= 1
    BY <2>1, Halves
  <2> QED BY <1>1, <2>1, <2>2
<1>3. \A x \in Timer : x.deadline \in Nat /\ x.id \in Nat
  BY DEF Timer
<1> QED BY <1>1, <1>2, <1>3

LEMMA SiftedUp ==
  ASSUME NEW h \in Seq(Timer), NEW i \in 1..Len(h), NEW e \in Timer, Gap(h, i),
         \A k \in 2..Len(h) : k \div 2 = i => e.deadline <= h[k].deadline,
         Unlike(h, i, e)
  PROVE  /\ SiftUp(h, i, e) \in Seq(Timer) /\ Len(SiftUp(h, i, e)) = Len(h)
         /\ Distinct(SiftUp(h, i, e)) /\ Ordered(SiftUp(h, i, e))
         /\ Range(SiftUp(h, i, e)) = {e} \cup Others(h, i)
<1> DEFINE n == Len(h)
           P == {k \in Ancestors[i] : \A a \in Ancestors[i] : a > k => Rises(h, a, e)}
           s == [k \in 1..n |-> IF k \notin P THEN h[k] ELSE IF Rises(h, k, e) THEN h[k \div 2] ELSE e]
           f == [k \in 1..n |-> IF k \notin P THEN k ELSE IF Rises(h, k, e) THEN k \div 2 ELSE i]
<1>0. SiftUp(h, i, e) = s
  BY DEF SiftUp
<1>1. i \in Nat /\ i # 0 /\ n \in Nat /\ i <= n /\ e.deadline \in Nat
  BY DEF Timer
<1>2. /\ \A k \in P : k \in 1..i /\ k \in 1..n /\ k \in Nat /\ k <= i
      /\ \A k \in P : k \in Ancestors[i]
  <2>1. \A k \in Ancestors[i] : k \in 1..i
    BY <1>1, Lineage
  <2>2. \A k \in 1..i : k \in 1..n /\ k \in Nat /\ k <= i
    BY <1>1
  <2> QED BY <2>1, <2>2
<1>3. i \in P
  <2>1. i \in Ancestors[i] /\ \A a \in Ancestors[i] : a \in 1..i
    BY <1>1, Lineage
  <2>2. \A a \in 1..i : ~(a > i)
    BY <1>1
  <2> QED BY <2>1, <2>2
<1>4. ASSUME NEW k \in P, Rises(h, k, e)
      PROVE  /\ k \div 2 \in P /\ k \div 2 \in 1..n /\ k \div 2 < k /\ k > 1
             /\ e.deadline < h[k \div 2].deadline
  <2>1. k > 1 /\ Deeper(h[k \div 2], e)
    BY <1>4 DEF Rises
  <2>2. k \div 2 \in Nat /\ k \div 2 < k /\ k \div 2 >= 1 /\ k <= i /\ k \in Nat
    BY <1>2, <2>1, Halves
  <2>3. k \div 2 \in 1..n
    BY <1>1, <2>2
  <2>4. h[k \div 2].deadline \in Nat
    BY <2>3, Deadlines
  <2>5. k \in Ancestors[i]
    BY <1>2
  <2>6. k \div 2 \in Ancestors[i]
    <3>1. \A a \in Ancestors[k] : a \in Ancestors[i]
      BY <2>5, <1>1, AncestorsUp
    <3>2. k \div 2 \in Ancestors[k \div 2]
      BY <2>2, Lineage
    <3>3. k \div 2 \in Ancestors[k]
      BY <3>2, <2>2, Lineage
    <3> QED BY <3>1, <3>3
  <2>7. ASSUME NEW a \in Ancestors[i], a > k \div 2 PROVE Rises(h, a, e)
    <3>1. a \in 1..i
      BY <1>1, Lineage
    <3>2. a < k => a <= k \div 2
      BY <1>1, <2>5, Lineage
    <3>3. a = k \/ a > k
      BY <3>1, <3>2, <2>2, <2>7
    <3> QED BY <3>3, <1>4, <2>7
  <2>8. k \div 2 \in P
    BY <2>6, <2>7
  <2> HIDE DEF P
  <2> QED BY <2>1, <2>2, <2>3, <2>4, <2>8 DEF Deeper
<1>5. ASSUME NEW k \in P, k # i PROVE \E c \in P : c \div 2 = k /\ Rises(h, c, e)
  <2>1. PICK c \in Ancestors[i] : c \div 2 = k /\ c > k
    BY <1>1, <1>2, <1>5, Lineage
  <2>2. c \in 1..i /\ k \in Nat
    BY <1>1, <1>2, Lineage
  <2>3. \A a \in Ancestors[i] : a \in 1..i /\ (a > c => a > k)
    <3>1. \A a \in Ancestors[i] : a \in 1..i
      BY <1>1, Lineage
    <3> QED BY <3>1, <2>1, <2>2
  <2>4. c \in P /\ Rises(h, c, e)
    BY <2>1, <2>3
  <2> QED BY <2>1, <2>4
<1>6. f \in [1..n -> 1..n]
  <2> SUFFICES ASSUME NEW k \in 1..n PROVE f[k] \in 1..n
    OBVIOUS
  <2> HIDE DEF P
  <2> QED BY <1>4
<1>7. ASSUME NEW k \in 1..n PROVE s[k] = IF f[k] = i THEN e ELSE h[f[k]]
  <2>1. CASE k \notin P
    <3> HIDE DEF P
    <3> QED BY <2>1, <1>3
  <2>2. CASE k \in P /\ Rises(h, k, e)
    <3>1. k \div 2 # i
      BY <2>2, <1>4, <1>2, <1>1
    <3> HIDE DEF P
    <3> QED BY <2>2, <3>1
  <2>3. CASE k \in P /\ ~Rises(h, k, e)
    <3> HIDE DEF P
    <3> QED BY <2>3
  <2> QED BY <2>1, <2>2, <2>3
<1>8. ASSUME NEW j \in 1..n, NEW k \in 1..n, f[j] = f[k] PROVE j = k
  <2>1. ASSUME NEW a \in 1..n, NEW b \in 1..n, a \notin P, b \in P, f[a] = f[b] PROVE FALSE
    <3> HIDE DEF P
    <3> QED BY <2>1, <1>3, <1>4
  <2>2. ASSUME NEW a \in P, NEW b \in P, a < b, f[a] = f[b] PROVE FALSE
    <3>1. a \in 1..n /\ b \in 1..n /\ a \in Ancestors[i] /\ b \in Ancestors[i] /\ b <= i /\ a \in Nat /\ b \in Nat
      BY <1>2
    <3>2. Rises(h, b, e)
      BY <2>2, <3>1
    <3>3. f[b] = b \div 2 /\ a <= b \div 2 /\ b \div 2 < b
      <4>1. a <= b \div 2
        BY <2>2, <3>1, <1>1, Lineage
      <4>2. b \div 2 < b
        BY <1>4, <3>2
      <4> HIDE DEF P
      <4> QED BY <3>1, <3>2, <4>1, <4>2
    <3>4. f[a] < a \/ f[a] = i
      <4>1. Rises(h, a, e) => a \div 2 < a
        BY <1>4
      <4> HIDE DEF P
      <4> QED BY <4>1, <3>1
    <3>5. b \div 2 \in Nat
      BY <3>1, Halves
    <3> HIDE DEF f
    <3> QED BY <3>1, <3>3, <3>4, <3>5, <2>2, <1>1
  <2>3. CASE j \in P /\ k \in P
    <3>1. j < k \/ k < j \/ j = k
      OBVIOUS
    <3> HIDE DEF P, f
    <3> QED BY <3>1, <2>2, <2>3, <1>8
  <2>4. CASE j \notin P /\ k \notin P
    <3> HIDE DEF P
    <3> QED BY <2>4, <1>8
  <2> HIDE DEF P, f
  <2> QED BY <2>1, <2>3, <2>4, <1>8
<1>9. s = Placed(h, i, e, f)
  <2>1. s = [k \in 1..n |-> s[k]]
    OBVIOUS
  <2> HIDE DEF s, f, P
  <2> QED BY <1>7, <2>1 DEF Placed
<1>10. /\ s \in Seq(Timer) /\ Len(s) = n /\ Distinct(s)
       /\ Range(s) = {e} \cup Others(h, i)
  <2>1. \A j, k \in 1..n : f[j] = f[k] => j = k
    <3> HIDE DEF f
    <3> QED BY <1>8
  <2> HIDE DEF s, f, P
  <2> QED BY <1>6, <2>1, <1>9, Rearranged
<1>11. ASSUME NEW k \in 2..n PROVE s[k \div 2].deadline <= s[k].deadline
  <2> DEFINE p == k \div 2
  <2>0. /\ k \in 1..n /\ p \in 1..n /\ p < k /\ h[k].deadline \in Nat /\ h[p].deadline \in Nat
        /\ k \in Nat /\ p \in Nat /\ k > 1
    BY Deadlines, <1>1
  <2>a. /\ s[k] = IF k \notin P THEN h[k] ELSE IF Rises(h, k, e) THEN h[p] ELSE e
        /\ s[p] = IF p \notin P THEN h[p] ELSE IF Rises(h, p, e) THEN h[p \div 2] ELSE e
    <3> HIDE DEF P, p
    <3> QED BY <2>0 DEF p
  <2>b. /\ k # i /\ p # i => h[p].deadline <= h[k].deadline
        /\ p = i /\ i > 1 => h[i \div 2].deadline <= h[k].deadline
        /\ p = i => e.deadline <= h[k].deadline
    BY DEF Gap
  <2>c. p > 1 => p \in 2..n /\ p \div 2 \in 1..n /\ p \div 2 < p /\ h[p \div 2].deadline \in Nat
    BY <2>0, Deadlines
  <2>d. p > 1 /\ p # i /\ p \div 2 # i => h[p \div 2].deadline <= h[p].deadline
    <3> HIDE DEF p
    <3> QED BY <2>c DEF Gap
  <2> SUFFICES s[p].deadline <= s[k].deadline
    OBVIOUS
  <2> HIDE DEF p, s
  <2>1. CASE k \in P /\ Rises(h, k, e)
    <3>1. p \in P /\ e.deadline < h[p].deadline /\ k <= i
      BY <2>1, <1>4, <1>2 DEF p
    <3> HIDE DEF P
    <3>2. CASE Rises(h, p, e)
      <4>1. p > 1 /\ p # i /\ p \div 2 # i
        BY <3>1, <3>2, <2>0, <2>c, <1>1 DEF Rises
      <4> QED BY <2>1, <3>1, <3>2, <4>1, <2>a, <2>d
    <3>3. CASE ~Rises(h, p, e)
      BY <2>1, <3>1, <3>3, <2>a, <2>0, <1>1
    <3> QED BY <3>2, <3>3
  <2>2. CASE k \in P /\ ~Rises(h, k, e)
    <3>1. p \notin P
      BY <2>2, <2>0
    <3>2. h[p].deadline <= e.deadline
      BY <2>2, <2>0, <1>1 DEF Rises, Deeper, p
    <3> HIDE DEF P
    <3> QED BY <2>2, <3>1, <3>2, <2>a
  <2>3. CASE k \notin P /\ p \notin P
    <3> HIDE DEF P
    <3> QED BY <2>3, <2>a, <2>b, <1>3
  <2>4. CASE k \notin P /\ p \in P /\ p # i
    <3>0. k # i /\ s[k] = h[k] /\ h[p].deadline <= h[k].deadline
      <4> HIDE DEF P
      <4> QED BY <2>4, <1>3, <2>a, <2>b
    <3>1. CASE Rises(h, p, e)
      <4>1. p > 1 /\ p \div 2 # i
        BY <3>1, <2>4, <1>2, <2>c, <2>0, <1>1 DEF Rises
      <4> HIDE DEF P
      <4> QED BY <3>0, <3>1, <4>1, <2>a, <2>c, <2>d, <2>4, <2>0
    <3>2. CASE ~Rises(h, p, e)
      <4>1. PICK c \in P : c \div 2 = p /\ Rises(h, c, e)
        BY <2>4, <1>5
      <4>2. e.deadline < h[p].deadline
        BY <4>1, <1>4
      <4> HIDE DEF P
      <4> QED BY <3>0, <3>2, <4>2, <2>a, <2>4, <2>0, <1>1
    <3> QED BY <3>1, <3>2
  <2>5. CASE k \notin P /\ p = i
    <3>1. s[k] = h[k]
      <4> HIDE DEF P
      <4> QED BY <2>5, <2>a
    <3>2. Rises(h, i, e) => i > 1
      BY DEF Rises
    <3> HIDE DEF P
    <3> QED BY <2>5, <3>1, <3>2, <2>a, <2>b, <1>3
  <2> HIDE DEF P
  <2> QED BY <2>1, <2>2, <2>3, <2>4, <2>5
<1>12. Ordered(s)
  <2> HIDE DEF s, P
  <2> SUFFICES ASSUME NEW k \in 2..n PROVE ~Deeper(s[k \div 2], s[k])
    BY <1>10 DEF Ordered
  <2>1. s[k \div 2].deadline \in Nat /\ s[k].deadline \in Nat
    BY <1>10, Deadlines
  <2> QED BY <2>1, <1>11 DEF Deeper
<1> HIDE DEF s, f, P
<1> QED BY <1>0, <1>10, <1>12

LEMMA ChildOf ==
  ASSUME NEW h \in Seq(Timer), NEW k \in 1..Len(h), 2 * k <= Len(h)
  PROVE  /\ Child(h, k) \in 2..Len(h) /\ Child(h, k) \in 1..Len(h)
         /\ Child(h, k) \div 2 = k /\ Child(h, k) > k
         /\ h[Child(h, k)].deadline \in Nat
         /\ \A j \in 2..Len(h) : j \div 2 = k => h[Child(h, k)].deadline <= h[j].deadline
<1> DEFINE n == Len(h)
           c == Child(h, k)
<1>1. n \in Nat /\ k \in Nat /\ k >= 1
  OBVIOUS
<1>2. /\ 2 * k \in 1..n /\ (2 * k < n => 2 * k + 1 \in 1..n)
      /\ h[2 * k].deadline \in Nat /\ (2 * k < n => h[2 * k + 1].deadline \in Nat)
  <2>1. 2 * k \in 1..n /\ (2 * k < n => 2 * k + 1 \in 1..n)
    BY <1>1
  <2> QED BY <2>1, Deadlines
<1>3. \/ /\ c = 2 * k + 1 /\ 2 * k < n /\ h[2 * k + 1].deadline < h[2 * k].deadline
      \/ /\ c = 2 * k
         /\ 2 * k < n => h[2 * k].deadline <= h[2 * k + 1].deadline
  BY <1>2 DEF Child, Deeper
<1>4. c \in 2..n /\ c \in 1..n /\ c > k
  <2> HIDE DEF c, n
  <2> QED BY <1>1, <1>2, <1>3
<1>5. c \div 2 = k
  <2>1. (2 * k) \div 2 = k /\ (2 * k + 1) \div 2 = k
    BY <1>1, HalfOf
  <2> HIDE DEF c
  <2> QED BY <2>1, <1>3
<1>6. ASSUME NEW j \in 2..n, j \div 2 = k PROVE h[c].deadline <= h[j].deadline
  <2>1. j = 2 * k \/ (j = 2 * k + 1 /\ 2 * k < n)
    <3>1. j \in Nat /\ j <= n /\ 2 * (j \div 2) <= j /\ j <= 2 * (j \div 2) + 1
      BY Halves, <1>1
    <3> HIDE DEF n
    <3> QED BY <3>1, <1>6, <1>1
  <2> HIDE DEF c, n
  <2> QED BY <2>1, <1>2, <1>3
<1> HIDE DEF c
<1> QED BY <1>4, <1>5, <1>6, Deadlines DEF c

LEMMA SiftedDown ==
  ASSUME NEW h \in Seq(Timer), NEW i \in 1..Len(h), NEW e \in Timer, Gap(h, i),
         i > 1 => h[i \div 2].deadline <= e.deadline, Unlike(h, i, e)
  PROVE  /\ SiftDown(h, i, e) \in Seq(Timer) /\ Len(SiftDown(h, i, e)) = Len(h)
         /\ Distinct(SiftDown(h, i, e)) /\ Ordered(SiftDown(h, i, e))
         /\ Range(SiftDown(h, i, e)) = {e} \cup Others(h, i)
<1> DEFINE n == Len(h)
           Way(k) == \A a \in Ancestors[k] : a > i => a = Child(h, a \div 2) /\ Sinks(h, a \div 2, e)
           P == {k \in 1..n : i \in Ancestors[k] /\ Way(k)}
           s == [k \in 1..n |-> IF k \notin P THEN h[k] ELSE IF Sinks(h, k, e) THEN h[Child(h, k)] ELSE e]
           f == [k \in 1..n |-> IF k \notin P THEN k ELSE IF Sinks(h, k, e) THEN Child(h, k) ELSE i]
<1>0. SiftDown(h, i, e) = s
  BY DEF SiftDown
<1>1. i \in Nat /\ i # 0 /\ n \in Nat /\ i <= n /\ e.deadline \in Nat
  BY DEF Timer
<1>2. \A k \in P : k \in 1..n /\ k \in Nat /\ k # 0 /\ i <= k /\ i \in Ancestors[k] /\ Way(k)
  <2> SUFFICES ASSUME NEW k \in P PROVE i <= k
    OBVIOUS
  <2>1. k \in Nat /\ i \in Ancestors[k]
    OBVIOUS
  <2>2. i \in 1..k
    BY <2>1, Lineage
  <2> QED BY <2>2
<1>3. i \in P
  <2>1. i \in Ancestors[i] /\ \A a \in Ancestors[i] : a \in 1..i
    BY <1>1, Lineage
  <2>2. \A a \in 1..i : ~(a > i)
    BY <1>1
  <2> QED BY <2>1, <2>2
<1>4. ASSUME NEW k \in P, Sinks(h, k, e)
      PROVE  /\ Child(h, k) \in P /\ Child(h, k) \in 1..n /\ Child(h, k) \in 2..n
             /\ Child(h, k) \div 2 = k /\ Child(h, k) > k
             /\ h[Child(h, k)].deadline < e.deadline
             /\ \A j \in 2..n : j \div 2 = k => h[Child(h, k)].deadline <= h[j].deadline
  <2> DEFINE c == Child(h, k)
  <2>1. 2 * k <= n /\ Deeper(e, h[c])
    BY <1>4 DEF Sinks
  <2>2. /\ c \in 2..n /\ c \in 1..n /\ c \div 2 = k /\ c > k /\ h[c].deadline \in Nat
        /\ \A j \in 2..n : j \div 2 = k => h[c].deadline <= h[j].deadline
    BY <1>2, <2>1, ChildOf
  <2>3. h[c].deadline < e.deadline
    <3> HIDE DEF c
    <3> QED BY <2>1, <2>2, <1>1 DEF Deeper
  <2>4. Ancestors[c] = {c} \cup Ancestors[k]
    <3>1. c \in Nat /\ c # 0
      <4> HIDE DEF c
      <4> QED BY <2>2
    <3> HIDE DEF c
    <3> QED BY <3>1, <2>2, AncestorsDef
  <2>5. i \in Ancestors[c] /\ Way(c)
    <3>1. i \in Ancestors[k] /\ Way(k)
      BY <1>2
    <3> HIDE DEF P
    <3> QED BY <3>1, <2>2, <2>4, <1>4
  <2>6. c \in P
    <3> HIDE DEF c, Way
    <3> QED BY <2>2, <2>5
  <2> HIDE DEF c, P
  <2> QED BY <2>2, <2>3, <2>6 DEF c
<1>5. ASSUME NEW k \in P, k # i
      PROVE  /\ k \div 2 \in P /\ Sinks(h, k \div 2, e) /\ k = Child(h, k \div 2) /\ k > i
             /\ k \div 2 \in Nat /\ k \div 2 < k
  <2>1. k \in Nat /\ k # 0 /\ i <= k /\ i \in Ancestors[k] /\ Way(k) /\ k \in 1..n
    BY <1>2
  <2>2. k > i /\ k > 1
    BY <2>1, <1>1, <1>5
  <2>3. k \div 2 \in Nat /\ k \div 2 < k /\ k \div 2 >= 1
    BY <2>1, <2>2, Halves
  <2>4. k \div 2 \in 1..n
    BY <2>1, <2>3, <1>1
  <2>5. i \in Ancestors[k \div 2] /\ \A a \in Ancestors[k \div 2] : a \in Ancestors[k]
    BY <2>1, <1>5, Lineage
  <2>6. Way(k \div 2)
    BY <2>1, <2>5
  <2>7. k \in Ancestors[k]
    BY <2>1, Lineage
  <2>8. k = Child(h, k \div 2) /\ Sinks(h, k \div 2, e)
    BY <2>1, <2>2, <2>7
  <2>9. k \div 2 \in P
    <3> HIDE DEF Way
    <3> QED BY <2>4, <2>5, <2>6
  <2> HIDE DEF P
  <2> QED BY <2>2, <2>3, <2>8, <2>9
\* The holes are one line.
<1>5a. \A b \in P : \A a \in P : a <= b => a \in Ancestors[b]
  <2> DEFINE Bad == {y \in P : ~\A x \in P : x <= y => x \in Ancestors[y]}
  <2> SUFFICES ASSUME Bad # {} PROVE FALSE
    OBVIOUS
  <2>1. Bad \in SUBSET Nat
    BY <1>2
  <2>2. PICK y \in Bad : \A m \in Bad : y <= m
    BY <2>1, LeastNatural
  <2>3. PICK x \in P : x <= y /\ x \notin Ancestors[y]
    BY <2>2
  <2>4. y \in P /\ x \in Nat /\ y \in Nat /\ y # 0 /\ i <= x
    <3>1. y \in P
      BY <2>2
    <3> QED BY <3>1, <1>2
  <2>5. \A m \in P : m \in Nat /\ m < y => \A z \in P : z <= m => z \in Ancestors[m]
    BY <2>1, <2>2, <2>4
  <2> HIDE DEF P, Bad
  <2>6. x < y /\ y # i
    <3>1. y \in Ancestors[y]
      BY <2>4, Lineage
    <3> QED BY <3>1, <2>3, <2>4, <1>1
  <2>7. /\ y \div 2 \in P /\ y = Child(h, y \div 2) /\ y \div 2 \in Nat /\ y \div 2 < y
    BY <2>4, <2>6, <1>5
  <2>8. ~(x <= y \div 2)
    <3> SUFFICES ASSUME x <= y \div 2 PROVE FALSE
      OBVIOUS
    <3>1. x \in Ancestors[y \div 2]
      BY <2>5, <2>7
    <3>2. x \in Ancestors[y]
      BY <3>1, <2>4, Lineage
    <3> QED BY <3>2, <2>3
  <2>9. y \div 2 < x /\ x # i
    <3>1. i <= y \div 2
      BY <2>7, <1>2
    <3> QED BY <2>4, <2>7, <2>8, <3>1, <1>1
  <2>10. x = Child(h, x \div 2) /\ x \div 2 \in Nat
    BY <2>9, <1>5
  <2>11. y \div 2 \in Ancestors[x]
    BY <2>4, <2>5, <2>6, <2>7, <2>9
  <2>12. y \div 2 \in Ancestors[x \div 2]
    BY <2>4, <2>7, <2>9, <2>11, Lineage
  <2>13. y \div 2 <= x \div 2
    <3>1. y \div 2 \in 1..(x \div 2)
      BY <2>10, <2>12, Lineage
    <3> QED BY <3>1
  <2>14. x \div 2 <= y \div 2
    <3>1. 2 * (x \div 2) <= x /\ y <= 2 * (y \div 2) + 1
      BY <2>4, Halves
    <3> QED BY <3>1, <2>4, <2>6, <2>7, <2>10
  <2>15. x \div 2 = y \div 2
    BY <2>7, <2>10, <2>13, <2>14
  <2> QED BY <2>4, <2>6, <2>7, <2>10, <2>15
<1>6. ASSUME NEW a \in P, NEW b \in P, a < b PROVE Sinks(h, a, e)
  <2>1. a \in Nat /\ b \in Nat /\ i <= a /\ Way(b)
    BY <1>2
  <2>2. a \in Ancestors[b] /\ a # b
    <3> HIDE DEF P
    <3> QED BY <1>5a, <1>6, <2>1
  <2>3. PICK c \in Ancestors[b] : c \div 2 = a /\ c > a
    BY <2>1, <2>2, Lineage
  <2>4. c \in 1..b
    BY <2>1, Lineage
  <2>5. c > i
    BY <2>1, <2>3, <2>4, <1>1
  <2> QED BY <2>1, <2>3, <2>5
<1>7. f \in [1..n -> 1..n]
  <2> SUFFICES ASSUME NEW k \in 1..n PROVE f[k] \in 1..n
    OBVIOUS
  <2> HIDE DEF P
  <2> QED BY <1>4
<1>8. ASSUME NEW k \in 1..n PROVE s[k] = IF f[k] = i THEN e ELSE h[f[k]]
  <2>1. CASE k \notin P
    <3> HIDE DEF P
    <3> QED BY <2>1, <1>3
  <2>2. CASE k \in P /\ Sinks(h, k, e)
    <3>1. Child(h, k) # i
      <4>1. Child(h, k) > k /\ Child(h, k) \in 1..n /\ i <= k
        BY <2>2, <1>4, <1>2
      <4> QED BY <4>1, <1>1
    <3> HIDE DEF P
    <3> QED BY <2>2, <3>1
  <2>3. CASE k \in P /\ ~Sinks(h, k, e)
    <3> HIDE DEF P
    <3> QED BY <2>3
  <2> QED BY <2>1, <2>2, <2>3
<1>9. ASSUME NEW j \in 1..n, NEW k \in 1..n, f[j] = f[k] PROVE j = k
  <2>1. ASSUME NEW a \in 1..n, NEW b \in 1..n, a \notin P, b \in P, f[a] = f[b] PROVE FALSE
    <3> HIDE DEF P
    <3> QED BY <2>1, <1>3, <1>4
  <2>2. ASSUME NEW a \in P, NEW b \in P, a < b, f[a] = f[b] PROVE FALSE
    <3>1. a \in 1..n /\ b \in 1..n /\ i <= b /\ i <= a /\ a \in Nat /\ b \in Nat
      BY <1>2
    <3>2. Sinks(h, a, e)
      BY <2>2, <1>6
    <3>3. Child(h, a) > a /\ Child(h, a) \div 2 = a /\ Child(h, a) \in 1..n
      BY <3>2, <1>4
    <3>4. f[a] = Child(h, a)
      <4> HIDE DEF P
      <4> QED BY <3>1, <3>2
    <3>5. CASE Sinks(h, b, e)
      <4>1. f[b] = Child(h, b) /\ Child(h, b) \div 2 = b
        <5>1. Child(h, b) \div 2 = b
          BY <3>5, <1>4
        <5> HIDE DEF P
        <5> QED BY <3>1, <3>5, <5>1
      <4> HIDE DEF f
      <4> QED BY <4>1, <3>1, <3>3, <3>4, <2>2
    <3>6. CASE ~Sinks(h, b, e)
      <4>1. f[b] = i
        <5> HIDE DEF P
        <5> QED BY <3>1, <3>6
      <4> HIDE DEF f
      <4> QED BY <4>1, <3>1, <3>3, <3>4, <2>2, <1>1
    <3> QED BY <3>5, <3>6
  <2>3. CASE j \in P /\ k \in P
    <3>1. j < k \/ k < j \/ j = k
      OBVIOUS
    <3> HIDE DEF P, f
    <3> QED BY <3>1, <2>2, <2>3, <1>9
  <2>4. CASE j \notin P /\ k \notin P
    <3> HIDE DEF P
    <3> QED BY <2>4, <1>9
  <2> HIDE DEF P, f
  <2> QED BY <2>1, <2>3, <2>4, <1>9
<1>10. s = Placed(h, i, e, f)
  <2>1. s = [k \in 1..n |-> s[k]]
    OBVIOUS
  <2> HIDE DEF s, f, P
  <2> QED BY <1>8, <2>1 DEF Placed
<1>11. /\ s \in Seq(Timer) /\ Len(s) = n /\ Distinct(s)
       /\ Range(s) = {e} \cup Others(h, i)
  <2>1. \A j, k \in 1..n : f[j] = f[k] => j = k
    <3> HIDE DEF f
    <3> QED BY <1>9
  <2> HIDE DEF s, f, P
  <2> QED BY <1>7, <2>1, <1>10, Rearranged
<1>12. ASSUME NEW k \in 2..n PROVE s[k \div 2].deadline <= s[k].deadline
  <2> DEFINE p == k \div 2
  <2>0. /\ k \in 1..n /\ p \in 1..n /\ p < k /\ h[k].deadline \in Nat /\ h[p].deadline \in Nat
        /\ k \in Nat /\ p \in Nat /\ k > 1
    BY Deadlines, <1>1
  <2>a. /\ s[k] = IF k \notin P THEN h[k] ELSE IF Sinks(h, k, e) THEN h[Child(h, k)] ELSE e
        /\ s[p] = IF p \notin P THEN h[p] ELSE IF Sinks(h, p, e) THEN h[Child(h, p)] ELSE e
    <3> HIDE DEF P, p
    <3> QED BY <2>0
  <2>b. k # i /\ p # i => h[p].deadline <= h[k].deadline
    BY DEF Gap
  <2>c. k \in P => k = i \/ (p \in P /\ Sinks(h, p, e) /\ k = Child(h, p))
    BY <1>5
  <2>d. p \in P => i <= p
    BY <1>2
  <2> SUFFICES s[p].deadline <= s[k].deadline
    OBVIOUS
  <2>1. CASE p \in P /\ Sinks(h, p, e) /\ k = Child(h, p)
    <3>1. k \in P /\ h[k].deadline < e.deadline
      BY <2>1, <1>4
    <3>2. s[p] = h[k]
      <4> HIDE DEF P, s, p
      <4> QED BY <2>1, <2>a
    <3>3. CASE Sinks(h, k, e)
      <4> DEFINE g == Child(h, k)
      <4>1. g \in 2..n /\ g \div 2 = k /\ g > k /\ g \in 1..n
        BY <3>1, <3>3, <1>4
      <4>2. k # i /\ g # i
        <5> HIDE DEF g, p, P
        <5> QED BY <4>1, <2>0, <2>1, <2>d, <1>1
      <4>3. h[k].deadline <= h[g].deadline
        <5> HIDE DEF g
        <5> QED BY <4>1, <4>2 DEF Gap
      <4>4. s[k] = h[g]
        <5> HIDE DEF P, s, p
        <5> QED BY <3>1, <3>3, <2>a
      <4> HIDE DEF g, s, p
      <4> QED BY <4>3, <4>4, <3>2
    <3>4. CASE ~Sinks(h, k, e)
      <4>1. s[k] = e
        <5> HIDE DEF P, s, p
        <5> QED BY <3>1, <3>4, <2>a
      <4> HIDE DEF s, p
      <4> QED BY <4>1, <3>1, <3>2, <2>0, <1>1
    <3> QED BY <3>3, <3>4
  <2>2. CASE p \in P /\ Sinks(h, p, e) /\ k # Child(h, p)
    <3>1. h[Child(h, p)].deadline <= h[k].deadline
      BY <2>2, <1>4
    <3>2. k \notin P
      <4> HIDE DEF P, p
      <4> QED BY <2>2, <2>c, <2>d, <2>0, <1>1
    <3> HIDE DEF P, s, p
    <3> QED BY <2>2, <2>a, <3>1, <3>2
  <2>3. CASE p \in P /\ ~Sinks(h, p, e)
    <3>1. k \notin P
      <4> HIDE DEF P, p
      <4> QED BY <2>3, <2>c, <2>d, <2>0, <1>1
    <3>2. 2 * p <= n
      BY <2>0, Halves, <1>1
    <3>3. h[Child(h, p)].deadline \in Nat /\ h[Child(h, p)].deadline <= h[k].deadline
      BY <2>0, <3>2, ChildOf
    <3>4. ~Deeper(e, h[Child(h, p)])
      BY <2>3, <3>2 DEF Sinks
    <3> HIDE DEF P, s, p
    <3>5. e.deadline <= h[k].deadline
      BY <3>3, <3>4, <2>0, <1>1 DEF Deeper
    <3> QED BY <2>3, <2>a, <3>1, <3>5
  <2>4. CASE p \notin P /\ k \in P
    <3>1. k = i
      <4> HIDE DEF P, p
      <4> QED BY <2>4, <2>c
    <3>2. CASE Sinks(h, k, e)
      <4> DEFINE g == Child(h, k)
      <4>1. g \in 2..n /\ g \div 2 = k
        BY <2>4, <3>2, <1>4
      <4>2. h[p].deadline <= h[g].deadline
        <5> HIDE DEF g
        <5> QED BY <4>1, <3>1, <2>0 DEF Gap
      <4> HIDE DEF P, s, p
      <4> QED BY <2>4, <2>a, <3>2, <4>2
    <3>3. CASE ~Sinks(h, k, e)
      <4>1. h[p].deadline <= e.deadline
        BY <3>1, <2>0
      <4> HIDE DEF P, s, p
      <4> QED BY <2>4, <2>a, <3>3, <4>1
    <3> QED BY <3>2, <3>3
  <2>5. CASE p \notin P /\ k \notin P
    <3> HIDE DEF P, s, p
    <3> QED BY <2>5, <2>a, <2>b, <1>3
  <2> HIDE DEF P, s, p
  <2> QED BY <2>1, <2>2, <2>3, <2>4, <2>5
<1>13. Ordered(s)
  <2> HIDE DEF s, P
  <2> SUFFICES ASSUME NEW k \in 2..n PROVE ~Deeper(s[k \div 2], s[k])
    BY <1>11 DEF Ordered
  <2>1. s[k \div 2].deadline \in Nat /\ s[k].deadline \in Nat
    BY <1>11, Deadlines
  <2> QED BY <2>1, <1>12 DEF Deeper
<1> HIDE DEF s, f, P
<1> QED BY <1>0, <1>11, <1>13

Heap(h) == h \in Seq(Timer) /\ Ordered(h) /\ Distinct(h)

LEMMA OrderedDeadlines ==
  ASSUME NEW h \in Seq(Timer), Ordered(h)
  PROVE  \A k \in 2..Len(h) : h[k \div 2].deadline <= h[k].deadline
<1> SUFFICES ASSUME NEW k \in 2..Len(h) PROVE h[k \div 2].deadline <= h[k].deadline
  OBVIOUS
<1>1. ~Deeper(h[k \div 2], h[k])
  BY DEF Ordered
<1>2. h[k \div 2].deadline \in Nat /\ h[k].deadline \in Nat
  BY Deadlines
<1> QED BY <1>1, <1>2 DEF Deeper

\* The root is due first.
LEMMA RootFirst ==
  ASSUME NEW h \in Seq(Timer), Ordered(h)
  PROVE  \A k \in 1..Len(h) : h[1].deadline <= h[k].deadline
<1> DEFINE Bad == {k \in 1..Len(h) : ~(h[1].deadline <= h[k].deadline)}
<1> SUFFICES ASSUME Bad # {} PROVE FALSE
  OBVIOUS
<1>1. Bad \in SUBSET Nat
  OBVIOUS
<1>2. PICK k \in Bad : \A m \in Bad : k <= m
  BY <1>1, LeastNatural
<1>3. k \in 1..Len(h) /\ ~(h[1].deadline <= h[k].deadline) /\ h[k].deadline \in Nat /\ h[1].deadline \in Nat
  <2>1. 1 \in 1..Len(h)
    BY <1>2
  <2> QED BY <1>2, <2>1, Deadlines
<1>4. k \in 2..Len(h)
  <2>1. k # 1
    BY <1>3
  <2> QED BY <1>3, <2>1
<1>5. k \div 2 \in 1..Len(h) /\ k \div 2 < k /\ h[k \div 2].deadline \in Nat
  BY <1>4, Deadlines
<1>6. k \div 2 \notin Bad
  BY <1>1, <1>2, <1>5
<1>7. h[1].deadline <= h[k \div 2].deadline
  BY <1>5, <1>6
<1>8. h[k \div 2].deadline <= h[k].deadline
  BY <1>4, OrderedDeadlines
<1> QED BY <1>3, <1>5, <1>7, <1>8

LEMMA Enqueued ==
  ASSUME NEW h, Heap(h), NEW e \in Timer, \A k \in 1..Len(h) : h[k].id # e.id
  PROVE  Heap(Enqueue(h, e)) /\ Range(Enqueue(h, e)) = Range(h) \cup {e}
<1> DEFINE g == Append(h, e)
           i == Len(h) + 1
<1>1. /\ h \in Seq(Timer) /\ g \in Seq(Timer) /\ Len(h) \in Nat /\ Len(g) = i /\ i \in 1..Len(g)
      /\ g[i] = e /\ \A k \in 1..Len(h) : g[k] = h[k]
  BY DEF Heap
<1>2. \A k \in 2..Len(g) : k # i => k \in 2..Len(h)
  BY <1>1
<1>3. \A k \in 2..Len(g) : k \div 2 # i
  BY <1>1, Deadlines
<1>4. Gap(g, i)
  <2>1. ASSUME NEW k \in 2..Len(g), k # i PROVE g[k \div 2].deadline <= g[k].deadline
    <3>1. k \in 2..Len(h)
      BY <1>2, <2>1
    <3>2. k \in 1..Len(h) /\ k \div 2 \in 1..Len(h)
      BY <3>1, <1>1, Deadlines
    <3>3. h[k \div 2].deadline <= h[k].deadline
      BY <3>1, OrderedDeadlines DEF Heap
    <3> HIDE DEF g
    <3> QED BY <3>2, <3>3, <1>1
  <2> HIDE DEF g, i
  <2> QED BY <2>1, <1>3 DEF Gap
<1>5. Unlike(g, i, e)
  <2>1. \A k \in 1..Len(g) : k # i => k \in 1..Len(h)
    BY <1>1
  <2>2. \A j, k \in 1..Len(h) : h[j].id = h[k].id => j = k
    BY DEF Heap, Distinct
  <2> HIDE DEF g, i
  <2> QED BY <2>1, <2>2, <1>1 DEF Unlike
<1>6. Others(g, i) = Range(h)
  <2>1. (1..Len(g)) \ {i} = 1..Len(h)
    BY <1>1
  <2>2. Range(h) = {h[k] : k \in 1..Len(h)}
    BY <1>1 DEF Range
  <2> HIDE DEF g, i
  <2> QED BY <2>1, <2>2, <1>1 DEF Others
<1>7. Enqueue(h, e) = SiftUp(g, i, e)
  BY DEF Enqueue
<1> HIDE DEF g, i
<1>8. /\ SiftUp(g, i, e) \in Seq(Timer)
      /\ Distinct(SiftUp(g, i, e)) /\ Ordered(SiftUp(g, i, e))
      /\ Range(SiftUp(g, i, e)) = {e} \cup Others(g, i)
  BY <1>1, <1>3, <1>4, <1>5, SiftedUp
<1> QED BY <1>6, <1>7, <1>8 DEF Heap

LEMMA FrontOf ==
  ASSUME NEW S, NEW s \in Seq(S), s # <<>>
  PROVE  /\ Front(s) \in Seq(S) /\ Len(Front(s)) = Len(s) - 1 /\ Len(s) \in Nat /\ Len(s) # 0
         /\ Last(s) = s[Len(s)] /\ Last(s) \in S
         /\ \A k \in 1..(Len(s) - 1) : Front(s)[k] = s[k]
<1> DEFINE n == Len(s) - 1
<1>1. Len(s) \in Nat /\ Len(s) # 0 /\ n \in Nat
  OBVIOUS
<1>2. Len(s) \in 1..Len(s) /\ 1 \in 1..Len(s)
  BY <1>1
<1>3. Last(s) = s[Len(s)] /\ Last(s) \in S
  BY <1>2 DEF Last
<1>4. SubSeq(s, 1, n) \in Seq(S) /\ Len(SubSeq(s, 1, n)) = n
  <2>1. \A k \in 1..n : s[k] \in S
    BY <1>1
  <2> HIDE DEF n
  <2> QED BY <1>1, <2>1, SubSeqProperties
<1>5. \A k \in 1..n : SubSeq(s, 1, n)[k] = s[k]
  BY <1>1
<1> HIDE DEF n
<1> QED BY <1>1, <1>3, <1>4, <1>5 DEF Front, n

LEMMA Removed ==
  ASSUME NEW h, Heap(h), NEW i \in 1..Len(h)
  PROVE  Heap(HeapRemove(h, i)) /\ Range(HeapRemove(h, i)) = Range(h) \ {h[i]}
<1> DEFINE g == Front(h)
           e == Last(h)
<1>0. h \in Seq(Timer) /\ h # <<>> /\ Ordered(h) /\ Distinct(h)
  BY DEF Heap
<1>1. /\ g \in Seq(Timer) /\ Len(g) = Len(h) - 1 /\ Len(h) \in Nat /\ Len(h) # 0
      /\ e = h[Len(h)] /\ e \in Timer /\ \A k \in 1..Len(g) : g[k] = h[k]
  BY <1>0, FrontOf
<1>2. \A k \in 1..Len(g) : k \in 1..Len(h) /\ k # Len(h)
  BY <1>1
<1>3. \A j, k \in 1..Len(h) : h[j].id = h[k].id => j = k
  BY <1>0 DEF Distinct
<1>4. ASSUME NEW k \in 2..Len(g)
      PROVE  k \in 2..Len(h) /\ k \in 1..Len(g) /\ k \div 2 \in 1..Len(g) /\ g[k \div 2].deadline <= g[k].deadline
  <2>1. k \in 2..Len(h)
    BY <1>1
  <2>2. k \in 1..Len(g) /\ k \div 2 \in 1..Len(g)
    BY <1>1, Deadlines
  <2>3. h[k \div 2].deadline <= h[k].deadline
    BY <2>1, <1>0, OrderedDeadlines
  <2> HIDE DEF g
  <2> QED BY <2>1, <2>2, <2>3, <1>1
<1>5. Range(h) = {h[k] : k \in 1..Len(h)}
  BY <1>0 DEF Range
<1> HIDE DEF g, e
<1>6. CASE i = Len(h)
  <2>1. HeapRemove(h, i) = g
    BY <1>6 DEF HeapRemove, g
  <2>2. Ordered(g)
    <3> SUFFICES ASSUME NEW k \in 2..Len(g) PROVE ~Deeper(g[k \div 2], g[k])
      BY DEF Ordered
    <3>1. k \in 2..Len(h) /\ k \in 1..Len(g) /\ k \div 2 \in 1..Len(g)
      BY <1>4
    <3> QED BY <3>1, <1>0, <1>1 DEF Ordered
  <2>3. Distinct(g)
    BY <1>1, <1>2, <1>3 DEF Distinct
  <2>4. Range(g) = {g[k] : k \in 1..Len(g)}
    BY <1>1 DEF Range
  <2>5. 1..Len(g) = (1..Len(h)) \ {i}
    BY <1>1, <1>6
  <2>6. {g[k] : k \in 1..Len(g)} = {h[k] : k \in (1..Len(h)) \ {i}}
    BY <2>5, <1>1
  <2>7. {h[k] : k \in (1..Len(h)) \ {i}} = Range(h) \ {h[i]}
    BY <1>3, <1>5
  <2> QED BY <2>1, <2>2, <2>3, <2>4, <2>6, <2>7, <1>1 DEF Heap
<1>7. CASE i # Len(h)
  <2>1. i \in 1..Len(g)
    BY <1>1, <1>7
  <2>2. Gap(g, i)
    <3>1. ASSUME NEW k \in 2..Len(g), k \div 2 = i, i > 1 PROVE g[i \div 2].deadline <= g[k].deadline
      <4>1. i \in 2..Len(g)
        BY <2>1, <3>1
      <4>2. g[i \div 2].deadline <= g[i].deadline /\ g[i].deadline <= g[k].deadline /\ i \div 2 \in 1..Len(g)
        BY <4>1, <1>4, <3>1
      <4>3. g[i \div 2].deadline \in Nat /\ g[i].deadline \in Nat /\ g[k].deadline \in Nat
        BY <4>2, <2>1, <1>1, <1>4, Deadlines
      <4> QED BY <4>2, <4>3
    <3> QED BY <3>1, <1>4 DEF Gap
  <2>3. Unlike(g, i, e)
    <3>1. \A j, k \in 1..Len(g) : g[j].id = g[k].id => j = k
      BY <1>1, <1>2, <1>3
    <3>2. \A k \in 1..Len(g) : g[k].id # e.id
      <4>1. Len(h) \in 1..Len(h)
        BY <1>1
      <4> QED BY <1>1, <1>2, <1>3, <4>1
    <3> QED BY <3>1, <3>2 DEF Unlike
  <2>4. {e} \cup Others(g, i) = Range(h) \ {h[i]}
    <3>1. Others(g, i) = {h[k] : k \in (1..Len(g)) \ {i}}
      BY <1>1 DEF Others
    <3>2. (1..Len(h)) \ {i} = ((1..Len(g)) \ {i}) \cup {Len(h)}
      BY <1>1, <1>7
    <3>3. {e} \cup Others(g, i) = {h[k] : k \in (1..Len(h)) \ {i}}
      BY <3>1, <3>2, <1>1
    <3>4. {h[k] : k \in (1..Len(h)) \ {i}} = Range(h) \ {h[i]}
      BY <1>3, <1>5
    <3> QED BY <3>3, <3>4
  <2>5. e.deadline \in Nat
    BY <1>1 DEF Timer
  <2>6. CASE i > 1 /\ Deeper(h[i \div 2], e)
    <3>1. HeapRemove(h, i) = SiftUp(g, i, e)
      BY <1>7, <2>6 DEF HeapRemove, g, e
    <3>2. i \in 2..Len(g)
      BY <2>1, <2>6
    <3>3. i \div 2 \in 1..Len(g) /\ g[i \div 2] = h[i \div 2] /\ g[i \div 2].deadline \in Nat
      BY <3>2, <1>4, <1>1, Deadlines
    <3>4. ASSUME NEW k \in 2..Len(g), k \div 2 = i PROVE e.deadline <= g[k].deadline
      <4>1. g[i \div 2].deadline <= g[k].deadline
        BY <2>2, <2>6, <3>4 DEF Gap
      <4>2. g[k].deadline \in Nat
        BY <1>1, <1>4, Deadlines
      <4> QED BY <4>1, <4>2, <3>3, <2>5, <2>6 DEF Deeper
    <3>5. /\ SiftUp(g, i, e) \in Seq(Timer)
          /\ Distinct(SiftUp(g, i, e)) /\ Ordered(SiftUp(g, i, e))
          /\ Range(SiftUp(g, i, e)) = {e} \cup Others(g, i)
      BY <1>1, <2>1, <2>2, <2>3, <3>4, SiftedUp
    <3> QED BY <3>1, <3>5, <2>4 DEF Heap
  <2>7. CASE ~(i > 1 /\ Deeper(h[i \div 2], e))
    <3>1. HeapRemove(h, i) = SiftDown(g, i, e)
      BY <1>7, <2>7 DEF HeapRemove, g, e
    <3>2. ASSUME i > 1 PROVE g[i \div 2].deadline <= e.deadline
      <4>1. i \in 2..Len(g)
        BY <2>1, <3>2
      <4>2. i \div 2 \in 1..Len(g) /\ g[i \div 2] = h[i \div 2] /\ g[i \div 2].deadline \in Nat
        BY <4>1, <1>4, <1>1, Deadlines
      <4> QED BY <4>2, <3>2, <2>5, <2>7 DEF Deeper
    <3>3. /\ SiftDown(g, i, e) \in Seq(Timer)
          /\ Distinct(SiftDown(g, i, e)) /\ Ordered(SiftDown(g, i, e))
          /\ Range(SiftDown(g, i, e)) = {e} \cup Others(g, i)
      BY <1>1, <2>1, <2>2, <2>3, <3>2, SiftedDown
    <3> QED BY <3>1, <3>3, <2>4 DEF Heap
  <2> QED BY <2>6, <2>7
<1> QED BY <1>6, <1>7

-------------------------------------------------------------------------------
(* The clock and the heap through a step. *)

\* What a step does to the timers: nothing, one is armed, removed or rung, or
\* time passes.
Still == timers' = timers /\ hist'.rung = hist.rung /\ loop'.t \in {0, loop.t, timers.now}
Arming(d) == timers' = Armed(d) /\ hist'.rung = hist.rung /\ loop'.t = loop.t
Taking(k) ==
  /\ timers' = [timers EXCEPT !.heap = HeapRemove(@, k)] /\ loop'.t = loop.t
  /\ \/ hist'.rung = hist.rung
     \/ /\ k = 1 /\ timers.heap[1].deadline <= loop.t
        /\ hist'.rung = hist.rung \cup {timers.heap[1].id}
Passing ==
  timers' = [timers EXCEPT !.now = @ + 1] /\ hist'.rung = hist.rung /\ loop'.t = loop.t
ClockStep ==
  \/ Still \/ (\E d \in Nat : Arming(d)) \/ (\E k \in 1..Len(timers.heap) : Taking(k)) \/ Passing

LEMMA TimingKept ==
  ASSUME Types, Timing, ClockStep
  PROVE  Timing' /\ timers' \in Timers
<1> DEFINE h == timers.heap
<1>1. /\ h \in Seq(Timer) /\ timers.next_id \in Nat /\ timers.now \in Nat /\ loop.t \in Nat
      /\ Heap(h) /\ Len(h) \in Nat /\ timers \in Timers
  BY DEF Types, Timers, Loop, Timing, Heap
<1>2. /\ \A k \in 1..Len(h) : h[k].id < timers.next_id /\ h[k].id \notin hist.rung /\ h[k].id \in Nat
      /\ \A x \in hist.rung : x < timers.next_id /\ x \in Nat
      /\ loop.t <= timers.now
  BY <1>1, Deadlines DEF Types, Hist, Timing
<1>r. Range(h) = {h[k] : k \in 1..Len(h)}
  BY <1>1 DEF Range
<1>3. CASE Still
  <2>1. loop'.t <= timers.now
    BY <1>3, <1>1, <1>2 DEF Still
  <2> QED BY <2>1, <1>3, <1>1 DEF Still, Timing
<1>4. ASSUME NEW d \in Nat, Arming(d) PROVE Timing' /\ timers' \in Timers
  <2> DEFINE e == [id |-> timers.next_id, deadline |-> timers.now + d]
             g == Enqueue(h, e)
  <2>1. e \in Timer /\ e.id = timers.next_id
    BY <1>1 DEF Timer
  <2>2. \A k \in 1..Len(h) : h[k].id # e.id
    BY <1>1, <1>2, <2>1
  <2>3. Heap(g) /\ Range(g) = Range(h) \cup {e}
    <3> HIDE DEF e
    <3> QED BY <1>1, <2>1, <2>2, Enqueued
  <2>4. timers' = [timers EXCEPT !.next_id = @ + 1, !.heap = g]
    BY <1>4 DEF Arming, Armed
  <2> HIDE DEF g
  <2>5. timers'.heap = g /\ timers'.next_id = timers.next_id + 1 /\ timers'.now = timers.now /\ timers' \in Timers
    <3>1. g \in Seq(Timer) /\ timers.next_id + 1 \in Nat
      BY <2>3, <1>1 DEF Heap
    <3> HIDE DEF h, e
    <3> QED BY <2>4, <3>1, <1>1 DEF Timers
  <2> HIDE DEF e
  <2>6. ASSUME NEW k \in 1..Len(g) PROVE g[k].id < timers.next_id + 1 /\ g[k].id \notin hist.rung
    <3>1. g[k] \in Range(g)
      BY <2>3 DEF Range, Heap
    <3>2. g[k] = e \/ \E j \in 1..Len(h) : g[k] = h[j]
      BY <3>1, <2>3, <1>r
    <3> QED BY <3>2, <1>1, <1>2, <2>1
  <2>7. \A x \in hist.rung : x < timers.next_id + 1
    BY <1>1, <1>2
  <2> QED BY <2>3, <2>5, <2>6, <2>7, <1>2, <1>4 DEF Timing, Heap, Arming
<1>5. ASSUME NEW i \in 1..Len(h), Taking(i) PROVE Timing' /\ timers' \in Timers
  <2> DEFINE g == HeapRemove(h, i)
  <2>1. Heap(g) /\ Range(g) = Range(h) \ {h[i]}
    BY <1>1, Removed
  <2>2. timers' = [timers EXCEPT !.heap = g]
    BY <1>5 DEF Taking
  <2> HIDE DEF g
  <2>3. timers'.heap = g /\ timers'.next_id = timers.next_id /\ timers'.now = timers.now /\ timers' \in Timers
    BY <2>1, <2>2, <1>1 DEF Timers, Heap
  <2>4. ASSUME NEW k \in 1..Len(g)
        PROVE  g[k].id < timers.next_id /\ g[k].id \notin hist.rung /\ g[k].id # h[i].id
    <3>1. g[k] \in Range(g)
      BY <2>1 DEF Range, Heap
    <3>2. PICK j \in 1..Len(h) : g[k] = h[j] /\ h[j] # h[i]
      BY <3>1, <2>1, <1>r
    <3>3. h[j].id # h[i].id
      BY <3>2, <1>1 DEF Heap, Distinct
    <3> QED BY <3>2, <3>3, <1>2
  <2>5. /\ \A k \in 1..Len(g) : g[k].id \notin hist'.rung
        /\ \A x \in hist'.rung : x < timers.next_id
    <3>1. CASE hist'.rung = hist.rung
      BY <3>1, <2>4, <1>2
    <3>2. CASE i = 1 /\ hist'.rung = hist.rung \cup {h[1].id}
      BY <3>2, <2>4, <1>2
    <3> QED BY <3>1, <3>2, <1>5 DEF Taking
  <2>6. loop'.t <= timers.now
    BY <1>2, <1>5 DEF Taking
  <2> QED BY <2>1, <2>3, <2>4, <2>5, <2>6 DEF Timing, Heap
<1>6. CASE Passing
  <2>1. /\ timers'.heap = h /\ timers'.next_id = timers.next_id /\ timers'.now = timers.now + 1
        /\ timers' \in Timers
    BY <1>6, <1>1 DEF Passing, Timers
  <2>2. loop'.t <= timers.now + 1 /\ hist'.rung = hist.rung
    BY <1>1, <1>2, <1>6 DEF Passing
  <2> QED BY <2>1, <2>2, <1>1, <1>2 DEF Timing, Heap
<1> QED BY <1>3, <1>4, <1>5, <1>6 DEF ClockStep

\* Each is a step of Alarm.
LEMMA AlarmStep ==
  ASSUME Types, Timing, ClockStep
  PROVE  [Clock!Next]_<<Range(timers.heap), hist.rung, timers.now>>
<1> DEFINE h == timers.heap
<1>1. /\ h \in Seq(Timer) /\ timers.next_id \in Nat /\ timers.now \in Nat /\ loop.t \in Nat
      /\ Heap(h) /\ timers \in Timers
  BY DEF Types, Timers, Loop, Timing, Heap
<1>2. /\ \A k \in 1..Len(h) : h[k].id < timers.next_id /\ h[k].id \in Nat /\ h[k].deadline \in Nat
      /\ \A x \in hist.rung : x < timers.next_id /\ x \in Nat
      /\ loop.t <= timers.now
  BY <1>1, Deadlines DEF Types, Hist, Timing
<1>3. Range(h) = {h[k] : k \in 1..Len(h)}
  BY <1>1 DEF Range
<1>4. CASE Still
  BY <1>4 DEF Still
<1>5. ASSUME NEW d \in Nat, Arming(d) PROVE Clock!Next
  <2> DEFINE e == [id |-> timers.next_id, deadline |-> timers.now + d]
             g == Enqueue(h, e)
  <2>1. e \in Timer /\ e.id = timers.next_id /\ e.deadline = timers.now + d
    BY <1>1 DEF Timer
  <2>2. \A k \in 1..Len(h) : h[k].id # e.id
    BY <1>1, <1>2, <2>1
  <2>3. Range(g) = Range(h) \cup {e}
    <3> HIDE DEF e
    <3> QED BY <1>1, <2>1, <2>2, Enqueued
  <2>4. timers' = [timers EXCEPT !.next_id = @ + 1, !.heap = g]
    BY <1>5 DEF Arming, Armed
  <2> HIDE DEF g
  <2>5. timers'.heap = g /\ timers'.now = timers.now
    BY <2>4, <1>1 DEF Timers
  <2>6. \A p \in Range(h) : p.id # e.id
    <3> HIDE DEF e
    <3> QED BY <2>2, <1>3
  <2>7. e \in Range(g) \ Range(h) /\ e.id \notin hist.rung /\ e.deadline >= timers.now
    BY <2>1, <2>3, <2>6, <1>1, <1>2
  <2>8. Clock!Arm(e.id, e.deadline)
    <3>1. [id |-> e.id, deadline |-> e.deadline] = e
      OBVIOUS
    <3> HIDE DEF e
    <3> QED BY <3>1, <2>3, <2>5, <2>6, <2>7, <1>5 DEF Clock!Arm, Arming
  <2> HIDE DEF e
  <2> QED BY <2>5, <2>7, <2>8 DEF Clock!Next
<1>6. ASSUME NEW i \in 1..Len(h), Taking(i) PROVE Clock!Next
  <2> DEFINE g == HeapRemove(h, i)
  <2>1. Range(g) = Range(h) \ {h[i]}
    BY <1>1, Removed
  <2>2. timers' = [timers EXCEPT !.heap = g]
    BY <1>6 DEF Taking
  <2> HIDE DEF g
  <2>3. timers'.heap = g /\ timers'.now = timers.now
    BY <2>2, <1>1 DEF Timers
  <2>4. h[i] \in Range(h)
    BY <1>3
  <2>5. CASE hist'.rung = hist.rung
    <3>1. Clock!Cancel(h[i])
      BY <2>1, <2>3, <2>5 DEF Clock!Cancel
    <3> QED BY <2>4, <3>1 DEF Clock!Next
  <2>6. CASE i = 1 /\ h[1].deadline <= loop.t /\ hist'.rung = hist.rung \cup {h[1].id}
    <3>1. \A q \in Range(h) : h[1].deadline <= q.deadline
      <4>1. \A k \in 1..Len(h) : h[1].deadline <= h[k].deadline
        BY <1>1, RootFirst DEF Heap
      <4> QED BY <4>1, <1>3
    <3>2. h[1].deadline <= timers.now
      BY <2>6, <1>1, <1>2
    <3>3. Clock!Ring(h[1])
      BY <2>1, <2>3, <2>6, <3>1, <3>2 DEF Clock!Ring
    <3> QED BY <2>4, <2>6, <3>3 DEF Clock!Next
  <2> QED BY <2>5, <2>6, <1>6 DEF Taking
<1>7. CASE Passing
  <2>1. timers'.heap = h /\ timers'.now = timers.now + 1 /\ hist'.rung = hist.rung
    BY <1>7, <1>1 DEF Passing, Timers
  <2> QED BY <2>1 DEF Clock!Next, Clock!Pass
<1> QED BY <1>4, <1>5, <1>6, <1>7 DEF ClockStep

LEMMA ClockSteps ==
  ASSUME Types, [Next]_vars
  PROVE  ClockStep
<1>0. loop \in Loop /\ hist \in Hist /\ timers \in Timers /\ timers.heap \in Seq(Timer)
  BY DEF Types, Timers
<1>1. ASSUME NEW fd \in Fds, NEW ev \in EventSets, FdAdd(fd, ev) PROVE Still
  BY <1>0, <1>1 DEF FdAdd, Called, Still, Loop, Hist
<1>2. ASSUME NEW fd \in Fds, NEW ev \in EventSets, FdMod(fd, ev) PROVE Still
  BY <1>0, <1>2 DEF FdMod, Called, Still, Loop, Hist
<1>3. ASSUME NEW fd \in Fds, FdRemove(fd) PROVE Still
  BY <1>0, <1>3 DEF FdRemove, Called, Still, Loop, Hist
<1>4. ASSUME NEW d \in Delays, TimerAdd(d) PROVE Arming(d)
  BY <1>0, <1>4 DEF TimerAdd, Called, Arming, Hist
<1>5. ASSUME NEW id, TimerRemove(id)
      PROVE  Still \/ \E k \in 1..Len(timers.heap) : Taking(k)
  <2> DEFINE found == {k \in 1..Len(timers.heap) : timers.heap[k].id = id}
             c == CHOOSE k \in found : TRUE
  <2>1. hist'.rung = hist.rung /\ loop' = loop
    BY <1>0, <1>5 DEF TimerRemove, Called, Hist
  <2>2. timers' = IF found = {} THEN timers ELSE [timers EXCEPT !.heap = HeapRemove(@, c)]
    BY <1>5 DEF TimerRemove
  <2>3. found # {} => c \in found
    OBVIOUS
  <2>4. found # {} => c \in 1..Len(timers.heap)
    BY <2>3
  <2> HIDE DEF found, c
  <2>5. CASE found = {}
    BY <2>1, <2>2, <2>5 DEF Still
  <2>6. CASE found # {}
    BY <2>1, <2>2, <2>4, <2>6 DEF Taking
  <2> QED BY <2>5, <2>6
<1>6. ASSUME NEW s \in Signals, SignalAdd(s) \/ SignalRemove(s) PROVE Still
  BY <1>0, <1>6 DEF SignalAdd, SignalRemove, Called, Still, Hist
<1>7. CASE Stop
  <2>1. timers' = timers /\ loop' = [loop EXCEPT !.running = FALSE] /\ hist' = [hist EXCEPT !.ops = @ + 1]
    BY <1>7 DEF Stop, Called
  <2>2. loop'.t = loop.t
    BY <2>1, <1>0 DEF Loop
  <2>3. hist'.rung = hist.rung
    BY <2>1, <1>0 DEF Hist
  <2> QED BY <2>1, <2>2, <2>3 DEF Still, ClockStep
<1>8. CASE SetUp
  <2>1. Head(hist.script) \in Nat
    BY <1>0, <1>8 DEF SetUp, Hist
  <2>2. Arming(Head(hist.script))
    BY <1>0, <1>8 DEF SetUp, Arming, Hist
  <2> QED BY <2>1, <2>2 DEF ClockStep
<1>9. CASE Run
  BY <1>0, <1>9 DEF Run, Go, Still, Loop, ClockStep
<1>10. CASE Turn
  BY <1>0, <1>10 DEF Turn, Go, Still, Loop, Hist, ClockStep
<1>11. CASE PollReturns
  <2>1. /\ timers' = timers /\ \E f, m : loop' = [[loop EXCEPT !.fds = f, !.n = m, !.i = 1, !.dispatching = TRUE]
                                  EXCEPT !.at = "fds"]
        /\ \E x : hist' = [hist EXCEPT !.called = <<>>, !.reported = x]
    BY <1>11 DEF PollReturns, Go
  <2>2. loop'.t = loop.t /\ hist'.rung = hist.rung
    BY <1>0, <2>1 DEF Loop, Hist
  <2> QED BY <2>1, <2>2 DEF Still, ClockStep
<1>12. CASE DispatchFd
  <2>1. timers' = timers /\ loop'.t = loop.t
    BY <1>0, <1>12 DEF DispatchFd, CallFd, PastFd, Go, Loop
  <2>2. hist'.rung = hist.rung
    BY <1>0, <1>12 DEF DispatchFd, CallFd, Hist
  <2> QED BY <2>1, <2>2 DEF Still, ClockStep
<1>13. CASE FdsDone
  BY <1>0, <1>13 DEF FdsDone, Go, Still, Loop, ClockStep
<1>14. CASE Compact
  BY <1>0, <1>14 DEF Compact, Go, Still, Loop, ClockStep
<1>15. CASE ReadSignals
  BY <1>0, <1>15 DEF ReadSignals, Go, Still, Loop, ClockStep
<1>16. CASE SignalNext
  BY <1>0, <1>16 DEF SignalNext, Go, Still, Loop, Hist, ClockStep
<1>17. CASE TimerNext
  <2>1. CASE timers.heap # <<>> /\ timers.heap[1].deadline <= loop.t
    <3>1. 1 \in 1..Len(timers.heap)
      BY <1>0, <2>1
    <3>2. Taking(1)
      BY <1>0, <1>17, <2>1 DEF TimerNext, Go, Taking, Loop, Hist
    <3> QED BY <3>1, <3>2 DEF ClockStep
  <2>2. CASE ~(timers.heap # <<>> /\ timers.heap[1].deadline <= loop.t)
    BY <1>0, <1>17, <2>2 DEF TimerNext, Go, Still, Loop, ClockStep
  <2> QED BY <2>1, <2>2
<1>18. CASE Return
  BY <1>0, <1>18 DEF Return, Go, Still, Loop, ClockStep
<1>19. CASE Tick
  BY <1>0, <1>19 DEF Tick, Passing, ClockStep
<1>20. ASSUME NEW s \in Signals, SignalArrives(s) PROVE Still
  BY <1>0, <1>20 DEF SignalArrives, Go, Still, Loop, Hist
<1>21. CASE UNCHANGED vars
  BY <1>21 DEF vars, Still, ClockStep
<1>22. CASE Application
  <2>1. Delays \subseteq Nat
    BY IoxAssumption
  <2> QED BY <1>1, <1>2, <1>3, <1>4, <1>5, <1>6, <1>7, <1>22, <2>1 DEF Application, ClockStep, Still
<1>23. CASE Turning
  BY <1>8, <1>9, <1>10, <1>11, <1>12, <1>13, <1>14, <1>15, <1>16, <1>17, <1>18, <1>23 DEF Turning
<1> QED BY <1>19, <1>20, <1>21, <1>22, <1>23 DEF Next, ClockStep

-------------------------------------------------------------------------------
(* The table and the round through a step. *)

LEMMA TableKept ==
  ASSUME NEW fds \in Seq(Slot), NEW gds \in Seq(Slot), NEW W, NEW R, Len(gds) = Len(fds),
         \A k \in 1..Len(fds) : /\ gds[k].reg = fds[k].reg /\ gds[k].fd = fds[k].fd
                                /\ gds[k].events = fds[k].events /\ gds[k].active = fds[k].active,
         Table(fds, W, R)
  PROVE  Table(gds, W, R)
<1>1. \A k \in 1..Len(fds) : AsWatch(gds[k]) = AsWatch(fds[k])
  BY DEF AsWatch
<1> QED BY <1>1 DEF Table

\* A step that moves on between places of the same kind.
LEMMA Moves ==
  ASSUME Types, LoopInv, loop' \in Loop, hist' \in Hist,
         loop'.fds = loop.fds, loop'.dispatching = loop.dispatching,
         loop'.compact_needed = loop.compact_needed, loop'.i = loop.i, loop'.n = loop.n,
         hist'.watched = hist.watched, hist'.regs = hist.regs,
         hist'.reported = hist.reported, hist'.called = hist.called,
         loop'.at \in Round <=> loop.at \in Round,
         loop'.at \in Ending => loop.at \in Ending,
         loop'.at = "compact" <=> loop.at = "compact"
  PROVE  LoopInv'
<1>1. Table(loop'.fds, hist'.watched, hist'.regs)
  BY DEF LoopInv
<1>2. Kept(loop')
  BY DEF LoopInv, Kept
<1>3. Reported(hist')
  BY DEF LoopInv, Reported
<1>4. loop'.dispatching => InRound(loop', hist'.reported, hist'.called)
  BY DEF LoopInv, InRound, Called1
<1>5. loop'.at \in Ending => Complete(hist')
  BY DEF LoopInv, Complete
<1> QED BY <1>1, <1>2, <1>3, <1>4, <1>5 DEF LoopInv

\* What a step must show of the table and the round.
StepOK == loop' \in Loop /\ hist' \in Hist /\ LoopInv'

\* What Called notes.
LEMMA Noted ==
  ASSUME NEW g \in Hist
  PROVE  /\ [g EXCEPT !.ops = @ + 1] \in Hist /\ [g EXCEPT !.ops = @ + 1].watched = g.watched
         /\ [g EXCEPT !.ops = @ + 1].regs = g.regs /\ [g EXCEPT !.ops = @ + 1].reported = g.reported
         /\ [g EXCEPT !.ops = @ + 1].called = g.called
<1>1. g.ops + 1 \in Nat
  BY DEF Hist
<1> QED BY <1>1 DEF Hist

\* A call of the application that leaves the table alone.
LEMMA Asking ==
  ASSUME Types, LoopInv, loop' = loop \/ loop' = [loop EXCEPT !.running = FALSE],
         Called(hist) \/ \E s : Called([hist EXCEPT !.unheard = @ \ {s}])
  PROVE  StepOK
<1>0. loop \in Loop /\ hist \in Hist
  BY DEF Types
<1>1. loop' \in Loop /\ loop'.fds = loop.fds /\ loop'.dispatching = loop.dispatching /\ loop'.at = loop.at
      /\ loop'.compact_needed = loop.compact_needed /\ loop'.i = loop.i /\ loop'.n = loop.n
  BY <1>0 DEF Loop
<1>2. hist' \in Hist /\ hist'.watched = hist.watched /\ hist'.regs = hist.regs
      /\ hist'.reported = hist.reported /\ hist'.called = hist.called
  <2>1. CASE Called(hist)
    BY <1>0, <2>1, Noted DEF Called
  <2>2. ASSUME NEW s, Called([hist EXCEPT !.unheard = @ \ {s}])
        PROVE  hist' \in Hist /\ hist'.watched = hist.watched /\ hist'.regs = hist.regs
               /\ hist'.reported = hist.reported /\ hist'.called = hist.called
    <3> DEFINE h == [hist EXCEPT !.unheard = @ \ {s}]
    <3>1. hist.unheard \ {s} \in SUBSET Signals
      BY <1>0 DEF Hist
    <3>2. h \in Hist /\ h.watched = hist.watched /\ h.regs = hist.regs
          /\ h.reported = hist.reported /\ h.called = hist.called
      BY <1>0, <3>1 DEF Hist
    <3>3. hist' = [h EXCEPT !.ops = @ + 1]
      BY <2>2 DEF Called
    <3> HIDE DEF h
    <3> QED BY <3>2, <3>3, Noted
  <2> QED BY <2>1, <2>2
<1>3. LoopInv'
  BY <1>1, <1>2, Moves
<1> QED BY <1>1, <1>2, <1>3 DEF StepOK

\* A step of the loop that only goes on, with what it notes of it.
LEMMA Going ==
  ASSUME Types, LoopInv, NEW place \in Places, loop' = [loop EXCEPT !.at = place] \/ loop' = [[loop EXCEPT !.running = TRUE] EXCEPT !.at = place],
         hist' \in Hist, hist'.watched = hist.watched, hist'.regs = hist.regs,
         hist'.reported = hist.reported, hist'.called = hist.called,
         place \in Round <=> loop.at \in Round,
         place \in Ending => loop.at \in Ending,
         place = "compact" <=> loop.at = "compact"
  PROVE  StepOK
<1>0. loop \in Loop
  BY DEF Types
<1>1. loop' \in Loop /\ loop'.fds = loop.fds /\ loop'.dispatching = loop.dispatching /\ loop'.at = place
      /\ loop'.compact_needed = loop.compact_needed /\ loop'.i = loop.i /\ loop'.n = loop.n
  BY <1>0 DEF Loop
<1>3. LoopInv'
  BY <1>1, Moves
<1> QED BY <1>1, <1>3 DEF StepOK

LEMMA Going1 ==
  ASSUME Types, LoopInv, [Next]_vars,
         \/ \E d \in Delays : TimerAdd(d)
         \/ \E id \in 1..timers.next_id : TimerRemove(id)
         \/ \E s \in Signals : SignalAdd(s) \/ SignalRemove(s)
         \/ Stop \/ SetUp \/ Run \/ ReadSignals \/ SignalNext \/ TimerNext \/ Return \/ Tick
         \/ \E s \in Signals : SignalArrives(s)
         \/ UNCHANGED vars
  PROVE  StepOK
<1>0. loop \in Loop /\ hist \in Hist
  BY DEF Types
<1>p. /\ \A p \in {"top", "timer callback", "idle", "fds", "signals", "timers", "signal callback"} : p \in Places
      /\ \A p \in {"fds", "signals", "signal callback", "pipe callback", "fd callback"} : p \in Round /\ p \notin Ending
      /\ \A p \in {"timers", "timer callback"} : p \in Ending /\ p \notin Round
      /\ \A p \in {"top", "idle", "poll", "setup"} : p \notin Round /\ p \notin Ending
  BY DEF Places, Round, Ending
<1>1. ASSUME NEW d, TimerAdd(d) PROVE StepOK
  BY <1>1, Asking DEF TimerAdd
<1>2. ASSUME NEW id, TimerRemove(id) PROVE StepOK
  BY <1>2, Asking DEF TimerRemove
<1>3. ASSUME NEW s, SignalAdd(s) \/ SignalRemove(s) PROVE StepOK
  BY <1>3, Asking DEF SignalAdd, SignalRemove
<1>4. CASE Stop
  BY <1>4, Asking DEF Stop
<1>5. CASE SetUp
  <2>1. hist' \in Hist /\ hist'.watched = hist.watched /\ hist'.regs = hist.regs
        /\ hist'.reported = hist.reported /\ hist'.called = hist.called
    <3>1. Tail(hist.script) \in Seq(Nat)
      BY <1>0, <1>5 DEF SetUp, Hist
    <3>2. hist' = [hist EXCEPT !.script = Tail(hist.script)]
      BY <1>5 DEF SetUp
    <3> QED BY <1>0, <3>1, <3>2 DEF Hist
  <2>2. loop' = loop
    BY <1>5 DEF SetUp
  <2>3. LoopInv'
    BY <1>0, <2>1, <2>2, Moves
  <2> QED BY <1>0, <2>1, <2>2, <2>3 DEF StepOK
<1>6. CASE Run
  BY <1>0, <1>6, <1>p, Going DEF Run, Go, At
<1>7. CASE ReadSignals
  BY <1>0, <1>7, <1>p, Going DEF ReadSignals, Go, At
<1>8. CASE SignalNext
  <2>1. hist' \in Hist /\ hist'.watched = hist.watched /\ hist'.regs = hist.regs
        /\ hist'.reported = hist.reported /\ hist'.called = hist.called
    <3>1. CASE hist' = hist
      BY <1>0, <3>1
    <3>2. CASE hist' = [hist EXCEPT !.unheard = @ \ {Last(sig.buf)}]
      <4>1. hist.unheard \ {Last(sig.buf)} \in SUBSET Signals
        BY <1>0 DEF Hist
      <4> QED BY <1>0, <3>2, <4>1 DEF Hist
    <3> QED BY <1>8, <3>1, <3>2 DEF SignalNext
  <2>2. CASE loop' = [loop EXCEPT !.at = "fds"]
    BY <1>8, <2>1, <2>2, <1>p, Going DEF SignalNext, At
  <2>3. CASE loop' = [loop EXCEPT !.at = "signal callback"]
    BY <1>8, <2>1, <2>3, <1>p, Going DEF SignalNext, At
  <2>4. CASE loop' = loop
    <3>1. LoopInv'
      BY <1>0, <2>1, <2>4, Moves
    <3> QED BY <1>0, <2>1, <2>4, <3>1 DEF StepOK
  <2> QED BY <1>8, <2>2, <2>3, <2>4 DEF SignalNext, Go
<1>9. CASE TimerNext
  <2>1. /\ hist'.watched = hist.watched /\ hist'.regs = hist.regs
        /\ hist'.reported = hist.reported /\ hist'.called = hist.called
    BY <1>0, <1>9 DEF TimerNext, Hist
  <2>2. hist' \in Hist
    <3>1. timers.heap # <<>> => timers.heap[1].id \in Nat
      <4>1. timers.heap \in Seq(Timer)
        BY DEF Types, Timers
      <4>2. timers.heap # <<>> => 1 \in 1..Len(timers.heap)
        BY <4>1
      <4> QED BY <4>1, <4>2, Deadlines
    <3>2. CASE hist' = hist
      BY <3>2, <1>0
    <3>3. CASE timers.heap # <<>> /\ hist' = [hist EXCEPT !.rung = @ \cup {timers.heap[1].id}]
      BY <3>1, <3>3, <1>0 DEF Hist
    <3> QED BY <3>2, <3>3, <1>9 DEF TimerNext
  <2>3. CASE loop' = [loop EXCEPT !.at = "timer callback"]
    BY <1>9, <2>1, <2>2, <2>3, <1>p, Going DEF TimerNext, At
  <2>4. CASE loop' = [loop EXCEPT !.at = "idle"]
    BY <1>9, <2>1, <2>2, <2>4, <1>p, Going DEF TimerNext, At
  <2> QED BY <1>9, <2>3, <2>4 DEF TimerNext, Go
<1>10. CASE Return
  <2>1. hist' = hist
    BY <1>10 DEF Return
  <2>2. CASE loop.at = "fd callback" /\ loop' = [loop EXCEPT !.at = "fds"]
    BY <1>0, <2>1, <2>2, <1>p, Going
  <2>3. CASE loop.at = "signal callback" /\ loop' = [loop EXCEPT !.at = "signals"]
    BY <1>0, <2>1, <2>3, <1>p, Going
  <2>4. CASE loop.at = "timer callback" /\ loop' = [loop EXCEPT !.at = "timers"]
    BY <1>0, <2>1, <2>4, <1>p, Going
  <2>5. CASE loop.at = "idle" /\ loop' = [loop EXCEPT !.at = "top"]
    BY <1>0, <2>1, <2>5, <1>p, Going
  <2> QED BY <1>10, <2>2, <2>3, <2>4, <2>5 DEF Return, Go, At
<1>11. CASE loop' = loop /\ hist' = hist
  <2>1. LoopInv'
    BY <1>0, <1>11, Moves
  <2> QED BY <1>0, <1>11, <2>1 DEF StepOK
<1>12. CASE Tick \/ UNCHANGED vars
  BY <1>11, <1>12 DEF Tick, vars
<1>13. ASSUME NEW s \in Signals, SignalArrives(s) PROVE StepOK
  <2>1. hist' \in Hist /\ hist'.watched = hist.watched /\ hist'.regs = hist.regs
        /\ hist'.reported = hist.reported /\ hist'.called = hist.called
    <3>1. CASE hist' = [hist EXCEPT !.unheard = @ \cup {s}]
      BY <1>0, <3>1 DEF Hist
    <3>2. CASE hist' = [hist EXCEPT !.unheard = @]
      BY <1>0, <3>2 DEF Hist
    <3> QED BY <1>13, <3>1, <3>2 DEF SignalArrives
  <2>2. CASE loop.at = "poll" /\ loop' = [loop EXCEPT !.at = "top"]
    BY <2>1, <2>2, <1>p, Going
  <2>3. CASE loop' = loop
    <3>1. LoopInv'
      BY <1>0, <2>1, <2>3, Moves
    <3> QED BY <1>0, <2>1, <2>3, <3>1 DEF StepOK
  <2> QED BY <1>13, <2>2, <2>3 DEF SignalArrives, Go, At
<1> QED BY <1>1, <1>2, <1>3, <1>4, <1>5, <1>6, <1>7, <1>8, <1>9, <1>10, <1>12, <1>13

\* What holds where no round is under way.
LEMMA Resting ==
  ASSUME Types, LoopInv, loop.at \notin Round, loop.at # "compact"
  PROVE  /\ loop.dispatching = FALSE /\ loop.compact_needed = FALSE
         /\ \A k \in 1..Len(loop.fds) : loop.fds[k].active
<1>1. loop.dispatching \in BOOLEAN /\ loop.compact_needed \in BOOLEAN
  BY DEF Types, Loop
<1> QED BY <1>1 DEF LoopInv, Kept

LEMMA PartFinite ==
  ASSUME NEW n \in Nat, NEW S \in SUBSET (1..n)
  PROVE  IsFiniteSet(S) /\ Cardinality(S) \in Nat
<1>1. IsFiniteSet(1..n)
  BY FS_Interval
<1>2. IsFiniteSet(S)
  BY <1>1, FS_Subset
<1> QED BY <1>2, FS_CardinalityType

LEMMA Hearing ==
  /\ \A r : EventsFromPoll(r) \in Events /\ (EventsFromPoll(r) # {} => r # {})
  /\ \A e : Heard(e) => e.revents # {}
<1>1. ASSUME NEW r PROVE EventsFromPoll(r) \in Events /\ (EventsFromPoll(r) # {} => r # {})
  BY DEF EventsFromPoll, Events
<1> QED BY <1>1 DEF Heard

\* The table with other reports in it.
Marked(fds, r) == [k \in 1..Len(fds) |-> [fds[k] EXCEPT !.revents = r[k]]]

LEMMA Rereported ==
  ASSUME NEW fds \in Seq(Slot), NEW r \in [1..Len(fds) -> Revents]
  PROVE  /\ Marked(fds, r) \in Seq(Slot) /\ Len(Marked(fds, r)) = Len(fds)
         /\ \A k \in 1..Len(fds) :
              /\ Marked(fds, r)[k].reg = fds[k].reg /\ Marked(fds, r)[k].fd = fds[k].fd
              /\ Marked(fds, r)[k].events = fds[k].events
              /\ Marked(fds, r)[k].active = fds[k].active /\ Marked(fds, r)[k].revents = r[k]
<1> DEFINE gds == Marked(fds, r)
<1>1. \A k \in 1..Len(fds) : gds[k] = [fds[k] EXCEPT !.revents = r[k]] /\ fds[k] \in Slot /\ r[k] \in Revents
  BY DEF Marked
<1>2. \A k \in 1..Len(fds) :
              /\ gds[k] \in Slot
              /\ gds[k].reg = fds[k].reg /\ gds[k].fd = fds[k].fd /\ gds[k].events = fds[k].events
              /\ gds[k].active = fds[k].active /\ gds[k].revents = r[k]
  BY <1>1 DEF Slot
<1>3. Len(fds) \in Nat
  OBVIOUS
<1>4. gds = [k \in 1..Len(fds) |-> gds[k]]
  BY DEF Marked
<1> HIDE DEF gds
<1>5. gds \in Seq(Slot) /\ Len(gds) = Len(fds)
  BY <1>2, <1>3, <1>4
<1> QED BY <1>2, <1>5 DEF gds

LEMMA Turned ==
  ASSUME Types, LoopInv, Turn
  PROVE  StepOK
<1> DEFINE r == [k \in 1..Len(loop.fds) |-> {}]
           gds == [k \in DOMAIN loop.fds |-> [loop.fds[k] EXCEPT !.revents = {}]]
           p == IF loop.running THEN "poll" ELSE "left"
<1>0. loop \in Loop /\ hist \in Hist /\ loop.fds \in Seq(Slot) /\ loop.at = "top"
  BY DEF Types, Loop, Turn, At
<1>1. /\ loop.dispatching = FALSE /\ loop.compact_needed = FALSE
      /\ \A k \in 1..Len(loop.fds) : loop.fds[k].active
  BY <1>0, Resting DEF Round
<1>2. /\ gds \in Seq(Slot) /\ Len(gds) = Len(loop.fds)
      /\ \A k \in 1..Len(loop.fds) :
           /\ gds[k].reg = loop.fds[k].reg /\ gds[k].fd = loop.fds[k].fd
           /\ gds[k].events = loop.fds[k].events /\ gds[k].active = loop.fds[k].active
  <2>1. r \in [1..Len(loop.fds) -> Revents]
    BY DEF Revents
  <2>2. gds = Marked(loop.fds, r)
    <3>1. DOMAIN loop.fds = 1..Len(loop.fds)
      BY <1>0
    <3>2. \A k \in 1..Len(loop.fds) : r[k] = {}
      OBVIOUS
    <3> HIDE DEF r
    <3> QED BY <3>1, <3>2 DEF Marked
  <2> HIDE DEF r, gds
  <2> QED BY <1>0, <2>1, <2>2, Rereported
<1>3. p \in Places /\ p \notin Round /\ p \notin Ending /\ p # "compact"
  BY DEF Places, Round, Ending
<1>4. loop' = [[loop EXCEPT !.i = 0, !.n = 0, !.t = 0, !.fds = gds] EXCEPT !.at = p]
      /\ hist' = [hist EXCEPT !.reported = {}, !.called = <<>>]
  BY DEF Turn, Go
<1> HIDE DEF gds, p
<1>5. /\ loop' \in Loop /\ loop'.fds = gds /\ loop'.at = p /\ loop'.dispatching = FALSE
      /\ loop'.compact_needed = FALSE
  <2> DEFINE l == [loop EXCEPT !.i = 0, !.n = 0, !.t = 0, !.fds = gds]
  <2>1. /\ l \in Loop /\ l.fds = gds /\ l.dispatching = FALSE /\ l.compact_needed = FALSE
    BY <1>0, <1>1, <1>2 DEF Loop
  <2>2. loop' = [l EXCEPT !.at = p]
    BY <1>4
  <2> HIDE DEF l
  <2> QED BY <1>3, <2>1, <2>2 DEF Loop
<1>6. /\ hist' \in Hist /\ hist'.watched = hist.watched /\ hist'.regs = hist.regs
      /\ hist'.reported = {} /\ hist'.called = <<>>
  <2>1. <<>> \in Seq(Report) /\ {} \in SUBSET Report
    OBVIOUS
  <2> QED BY <1>0, <1>4, <2>1 DEF Hist
<1>7. Table(gds, hist.watched, hist.regs)
  BY <1>0, <1>2, TableKept DEF LoopInv
<1>8. Kept(loop')
  BY <1>1, <1>2, <1>3, <1>5 DEF Kept
<1>9. Reported(hist')
  BY <1>6 DEF Reported
<1>10. LoopInv'
  BY <1>3, <1>5, <1>6, <1>7, <1>8, <1>9 DEF LoopInv
<1> QED BY <1>5, <1>6, <1>10 DEF StepOK

LEMMA Polled ==
  ASSUME Types, LoopInv, PollReturns
  PROVE  StepOK
<1>0. loop \in Loop /\ hist \in Hist /\ loop.fds \in Seq(Slot) /\ loop.at = "poll"
  BY DEF Types, Loop, PollReturns, At
<1>1. /\ loop.dispatching = FALSE /\ loop.compact_needed = FALSE
      /\ \A k \in 1..Len(loop.fds) : loop.fds[k].active
  BY <1>0, Resting DEF Round
<1> DEFINE n == Len(loop.fds)
           G(r) == Marked(loop.fds, r)
           R(r) == {k \in 1..Len(G(r)) : r[k] # {}}
<1>2. PICK r \in [1..n -> UNION {Reports(e) : e \in Range(loop.fds)}] :
        /\ \A k \in 1..Len(G(r)) : r[k] \in Reports(loop.fds[k])
        /\ loop' = [[loop EXCEPT !.fds = G(r), !.n = Cardinality(R(r)), !.i = 1,
                              !.dispatching = TRUE] EXCEPT !.at = "fds"]
        /\ hist' = [hist EXCEPT !.called = <<>>,
                !.reported = {[reg |-> G(r)[k].reg, events |-> EventsFromPoll(r[k])] :
                                k \in {m \in R(r) : EventsFromPoll(r[m]) # {}}}]
  BY DEF PollReturns, Go, Marked
<1>3. Len(G(r)) = n /\ n \in Nat
  BY <1>0 DEF Marked
<1>4. r \in [1..n -> Revents]
  <2>1. \A e \in Slot : \A x \in Reports(e) : x \in Revents
    <3> SUFFICES ASSUME NEW e \in Slot, NEW x \in Reports(e) PROVE x \in Revents
      OBVIOUS
    <3>1. e.events \in SUBSET {"READ", "WRITE"}
      BY DEF Slot, Events
    <3>2. CASE e.fd = Pipe
      BY <3>2 DEF Reports, Revents
    <3>3. CASE e.fd # Pipe
      BY <3>1, <3>3 DEF Reports, Revents
    <3> QED BY <3>2, <3>3
  <2>2. \A k \in 1..n : loop.fds[k] \in Slot
    BY <1>0
  <2> QED BY <1>2, <1>3, <2>1, <2>2
<1> DEFINE gds == G(r)
           ready == R(r)
           heard == {m \in ready : EventsFromPoll(r[m]) # {}}
           told == {[reg |-> gds[k].reg, events |-> EventsFromPoll(r[k])] : k \in heard}
<1>5. /\ gds \in Seq(Slot) /\ Len(gds) = n
      /\ \A k \in 1..n :
           /\ gds[k].reg = loop.fds[k].reg /\ gds[k].fd = loop.fds[k].fd
           /\ gds[k].events = loop.fds[k].events /\ gds[k].active = loop.fds[k].active
           /\ gds[k].revents = r[k]
  BY <1>0, <1>4, Rereported
<1>6. ready = {k \in 1..n : gds[k].revents # {}} /\ IsFiniteSet(ready) /\ Cardinality(ready) \in Nat
  <2>1. ready = {k \in 1..n : gds[k].revents # {}}
    BY <1>5
  <2>2. ready \in SUBSET (1..n)
    BY <1>3, <2>1
  <2> HIDE DEF ready, n
  <2> QED BY <1>3, <2>1, <2>2, PartFinite
<1>7. told = {AsReport(gds[k]) : k \in heard} /\ heard = {k \in 1..n : Heard(gds[k])}
  <2>1. \A k \in 1..n : AsReport(gds[k]) = [reg |-> gds[k].reg, events |-> EventsFromPoll(r[k])]
    BY <1>5 DEF AsReport
  <2>2. \A k \in 1..n : Heard(gds[k]) <=> EventsFromPoll(r[k]) # {}
    BY <1>5 DEF Heard
  <2>3. \A k \in 1..n : EventsFromPoll(r[k]) # {} => r[k] # {}
    BY Hearing
  <2>4. heard = {k \in 1..n : Heard(gds[k])}
    BY <1>3, <2>2, <2>3
  <2> HIDE DEF gds, ready, heard
  <2> QED BY <2>1, <2>4
<1>8. /\ loop' = [[loop EXCEPT !.fds = gds, !.n = Cardinality(ready), !.i = 1,
                              !.dispatching = TRUE] EXCEPT !.at = "fds"]
      /\ hist' = [hist EXCEPT !.called = <<>>, !.reported = told]
  BY <1>2
<1> HIDE DEF gds, ready, heard, told, n
<1>9. told \in SUBSET Report
  <2>1. ASSUME NEW k \in heard PROVE AsReport(gds[k]) \in Report
    <3>1. gds[k] \in Slot
      BY <1>5, <1>7
    <3> QED BY <3>1, Hearing DEF AsReport, Report, Slot
  <2> QED BY <1>7, <2>1
<1>10. /\ loop' \in Loop /\ loop'.fds = gds /\ loop'.at = "fds" /\ loop'.dispatching = TRUE
       /\ loop'.compact_needed = FALSE /\ loop'.i = 1 /\ loop'.n = Cardinality(ready)
  <2>1. "fds" \in Places
    BY DEF Places, Round
  <2> QED BY <1>0, <1>1, <1>5, <1>6, <1>8, <2>1 DEF Loop
<1>11. /\ hist' \in Hist /\ hist'.watched = hist.watched /\ hist'.regs = hist.regs
       /\ hist'.reported = told /\ hist'.called = <<>>
  <2>1. <<>> \in Seq(Report)
    OBVIOUS
  <2> QED BY <1>0, <1>8, <1>9, <2>1 DEF Hist
<1>12. Table(gds, hist.watched, hist.regs)
  BY <1>0, <1>5, TableKept DEF LoopInv, n
<1>13. Kept(loop')
  BY <1>1, <1>5, <1>10 DEF Kept, Round, n
<1>14. Reported(hist')
  BY <1>5, <1>6, <1>7, <1>11, <1>12 DEF Reported, Table, AsReport
<1>15. InRound(loop', told, <<>>)
  <2>1. Cardinality(ready) = Cardinality({k \in 1..Len(gds) : gds[k].revents # {}})
    BY <1>5, <1>6
  <2>2. \A k \in 1..Len(gds) : Heard(gds[k]) => k \in heard
    BY <1>5, <1>7
  <2>3. \A k \in heard : k \in 1..Len(gds) /\ Heard(gds[k])
    BY <1>5, <1>7
  <2>4. \A x \in told : \E k \in 1..Len(gds) : Heard(gds[k]) /\ x = AsReport(gds[k])
    BY <1>7, <2>3
  <2>5. \A k \in 1..Len(gds) : Heard(gds[k]) => AsReport(gds[k]) \in told
    BY <1>7, <2>2
  <2>6. \A k \in 1..Len(gds) : ~(k < 1)
    BY <1>5
  <2> QED BY <1>10, <2>1, <2>4, <2>5, <2>6 DEF InRound
<1>16. LoopInv'
  <2>1. "fds" \notin Ending
    BY DEF Ending
  <2> QED BY <1>10, <1>11, <1>12, <1>13, <1>14, <1>15, <2>1 DEF LoopInv
<1> QED BY <1>10, <1>11, <1>16 DEF StepOK

\* A round is under way, and what it holds.
LEMMA UnderWay ==
  ASSUME Types, LoopInv, loop.at \in Round
  PROVE  loop.dispatching = TRUE /\ InRound(loop, hist.reported, hist.called)
<1>1. loop.dispatching \in BOOLEAN
  BY DEF Types, Loop
<1> QED BY <1>1 DEF LoopInv, Kept

LEMMA Dispatched ==
  ASSUME Types, LoopInv, DispatchFd
  PROVE  StepOK
<1> DEFINE fds == loop.fds
           called == hist.called
           ready == {m \in loop.i..Len(fds) : fds[m].revents # {}}
           k == CHOOSE m \in ready : \A x \in ready : m <= x
           next == [loop EXCEPT !.i = k + 1, !.n = @ - 1]
           e == fds[k]
           rest == {m \in (k + 1)..Len(fds) : fds[m].revents # {}}
<1>0. /\ loop \in Loop /\ hist \in Hist /\ fds \in Seq(Slot) /\ loop.at = "fds" /\ Len(fds) \in Nat
      /\ loop.i \in Nat /\ loop.n \in Nat /\ called \in Seq(Report)
  <2>1. loop.at = "fds"
    BY DEF DispatchFd, At
  <2>2. loop \in Loop /\ hist \in Hist
    BY DEF Types
  <2>3. fds \in Seq(Slot) /\ loop.i \in Nat /\ loop.n \in Nat
    BY <2>2 DEF Loop
  <2>4. called \in Seq(Report)
    BY <2>2 DEF Hist
  <2> QED BY <2>1, <2>2, <2>3, <2>4
<1>1. "fds" \in Round /\ "fds" # "compact" /\ "fds" \notin Ending
  BY DEF Round, Ending
<1>2. loop.dispatching = TRUE /\ InRound(loop, hist.reported, called)
  BY <1>0, <1>1, UnderWay
<1>3. /\ ready # {} /\ loop.n > 0
      /\ IF ~e.active \/ ~Heard(e) THEN loop' = next /\ hist' = hist
         ELSE /\ loop' = [next EXCEPT !.at = IF e.fd = Pipe THEN "pipe callback" ELSE "fd callback"]
              /\ hist' = [hist EXCEPT !.called = Append(@, AsReport(e))]
  BY DEF DispatchFd, CallFd, PastFd, NextFd, ReadyFds, Go, Heard, AsReport
<1>4. k \in ready /\ \A x \in ready : k <= x
  <2>1. ready \in SUBSET Nat
    BY <1>0
  <2> HIDE DEF ready
  <2>2. \E m \in ready : \A x \in ready : m <= x
    BY <1>3, <2>1, LeastNatural
  <2> QED BY <2>2
<1>5. k \in 1..Len(fds) /\ k \in Nat /\ loop.i <= k /\ e.revents # {} /\ e \in Slot
  <2> HIDE DEF k
  <2>1. k \in loop.i..Len(fds) /\ fds[k].revents # {}
    BY <1>4
  <2>2. loop.i # 0
    BY <1>2 DEF InRound
  <2> QED BY <1>0, <2>1, <2>2
<1>6. rest = ready \ {k} /\ loop.n = Cardinality(ready) /\ Cardinality(rest) = loop.n - 1 /\ loop.n - 1 \in Nat
  <2> HIDE DEF k
  <2>1. rest = ready \ {k}
    BY <1>0, <1>4, <1>5
  <2>2. loop.n = Cardinality(ready)
    BY <1>2 DEF InRound
  <2>3. ready \in SUBSET (1..Len(fds))
    BY <1>0, <1>2 DEF InRound
  <2> HIDE DEF ready, rest
  <2>4. IsFiniteSet(ready)
    BY <1>0, <2>3, PartFinite
  <2>5. Cardinality(ready \ {k}) = Cardinality(ready) - 1
    BY <1>4, <2>4, FS_RemoveElement
  <2> QED BY <1>0, <1>3, <2>1, <2>2, <2>5
<1>7. /\ next \in Loop /\ next.fds = fds /\ next.i = k + 1 /\ next.n = loop.n - 1 /\ next.dispatching = TRUE
      /\ next.compact_needed = loop.compact_needed /\ next.at = "fds"
  <2> HIDE DEF k
  <2>1. k + 1 \in Nat /\ loop.n - 1 \in Nat
    BY <1>5, <1>6
  <2>2. next = [loop EXCEPT !.i = k + 1, !.n = loop.n - 1]
    BY <1>0 DEF Loop
  <2> HIDE DEF next
  <2> QED BY <1>0, <1>2, <2>1, <2>2 DEF Loop
<1>8. \A m \in 1..Len(fds) : m < k + 1 /\ Heard(fds[m]) => m < loop.i \/ m = k
  <2> HIDE DEF k
  <2>1. \A m \in 1..Len(fds) : m < k + 1 /\ fds[m].revents # {} => m < loop.i \/ m = k
    BY <1>0, <1>4, <1>5
  <2> QED BY <2>1, Hearing
<1> HIDE DEF ready, k, next, rest
<1>9. ASSUME NEW l \in Loop, NEW h \in Hist, loop' = l, hist' = h,
             l.fds = fds, l.i = k + 1, l.n = loop.n - 1, l.dispatching = TRUE, l.at \in Round,
             l.compact_needed = loop.compact_needed,
             h.watched = hist.watched, h.regs = hist.regs, h.reported = hist.reported, Reported(h),
             \A j \in 1..Len(h.called) :
               h.called[j] = AsReport(e) \/ \E i \in 1..Len(called) : h.called[j] = called[i],
             \A i \in 1..Len(called) : \E j \in 1..Len(h.called) : h.called[j] = called[i],
             e.active /\ Heard(e) => \E j \in 1..Len(h.called) : h.called[j] = AsReport(e)
      PROVE  StepOK
  <2>1. l.at \notin Ending /\ l.at # "compact"
    BY <1>9 DEF Round, Ending
  <2>2. Kept(l)
    BY <1>0, <1>1, <1>9, <2>1 DEF LoopInv, Kept
  <2>3. l.n = Cardinality({m \in l.i..Len(l.fds) : l.fds[m].revents # {}}) /\ l.i # 0
    BY <1>5, <1>6, <1>9 DEF rest
  <2>4. \A j \in 1..Len(h.called) : \E m \in 1..Len(fds) : m < k + 1 /\ h.called[j] = AsReport(fds[m])
    <3> SUFFICES ASSUME NEW j \in 1..Len(h.called)
                 PROVE  \E m \in 1..Len(fds) : m < k + 1 /\ h.called[j] = AsReport(fds[m])
      OBVIOUS
    <3>1. CASE h.called[j] = AsReport(e)
      BY <1>5, <3>1
    <3>2. ASSUME NEW i \in 1..Len(called), h.called[j] = called[i]
          PROVE  \E m \in 1..Len(fds) : m < k + 1 /\ h.called[j] = AsReport(fds[m])
      <4>1. PICK m \in 1..Len(fds) : m < loop.i /\ called[i] = AsReport(fds[m])
        BY <1>2 DEF InRound
      <4>2. m < k + 1
        BY <4>1, <1>0, <1>5
      <4> QED BY <3>2, <4>1, <4>2
    <3> QED BY <1>9, <3>1, <3>2
  <2>5. ASSUME NEW m \in 1..Len(fds), m < k + 1, fds[m].active, Heard(fds[m])
        PROVE  Called1(fds, m, h.called)
    <3>1. CASE m = k
      BY <1>9, <2>5, <3>1 DEF Called1
    <3>2. CASE m < loop.i
      <4>1. Called1(fds, m, called)
        BY <1>2, <2>5, <3>2 DEF InRound
      <4> QED BY <1>9, <4>1 DEF Called1
    <3> QED BY <1>8, <2>5, <3>1, <3>2
  <2>6. InRound(l, h.reported, h.called)
    BY <1>2, <1>9, <2>3, <2>4, <2>5 DEF InRound
  <2>7. LoopInv'
    BY <1>9, <2>1, <2>2, <2>6 DEF LoopInv
  <2> QED BY <1>9, <2>7 DEF StepOK
<1>10. CASE ~e.active \/ ~Heard(e)
  <2>1. loop' = next /\ hist' = hist
    BY <1>3, <1>10
  <2>2. Reported(hist)
    BY DEF LoopInv
  <2> QED BY <1>0, <1>1, <1>7, <1>9, <1>10, <2>1, <2>2
<1>11. CASE e.active /\ Heard(e)
  <2> DEFINE p == IF e.fd = Pipe THEN "pipe callback" ELSE "fd callback"
             l == [next EXCEPT !.at = p]
             d == Append(called, AsReport(e))
             h == [hist EXCEPT !.called = d]
  <2>1. loop' = l /\ hist' = h
    BY <1>3, <1>11
  <2>2. p \in Round /\ p \in Places
    BY DEF Round, Places
  <2>3. /\ l \in Loop /\ l.fds = fds /\ l.i = k + 1 /\ l.n = loop.n - 1 /\ l.dispatching = TRUE /\ l.at = p
        /\ l.compact_needed = loop.compact_needed
    <3> HIDE DEF p
    <3> QED BY <1>7, <2>2 DEF Loop
  <2>4. AsReport(e) \in Report
    BY <1>5, Hearing DEF AsReport, Report, Slot
  <2>5. /\ d \in Seq(Report) /\ Len(d) = Len(called) + 1 /\ d[Len(called) + 1] = AsReport(e)
        /\ \A j \in 1..Len(called) : d[j] = called[j]
    BY <1>0, <2>4
  <2> HIDE DEF d
  <2>6. h \in Hist /\ h.watched = hist.watched /\ h.regs = hist.regs /\ h.reported = hist.reported /\ h.called = d
    BY <1>0, <2>5 DEF Hist
  <2>7. \A j \in 1..Len(called) : called[j] # AsReport(e)
    <3> SUFFICES ASSUME NEW j \in 1..Len(called), called[j] = AsReport(e) PROVE FALSE
      OBVIOUS
    <3>1. PICK m \in 1..Len(fds) : m < loop.i /\ called[j] = AsReport(fds[m])
      BY <1>2 DEF InRound
    <3>2. fds[m].reg = fds[k].reg
      BY <3>1 DEF AsReport
    <3>3. m = k
      BY <1>5, <3>2 DEF LoopInv, Table
    <3> QED BY <1>0, <1>5, <3>1, <3>3
  <2>8. Reported(h)
    <3>1. AsReport(e) \in hist.reported
      BY <1>2, <1>5, <1>11 DEF InRound
    <3>2. Reported(hist) /\ Len(called) \in Nat
      BY <1>0 DEF LoopInv
    <3>3. \A j \in 1..Len(d) : j \in 1..Len(called) \/ j = Len(called) + 1
      BY <2>5, <3>2
    <3>4. \A j \in 1..Len(d) : d[j] \in hist.reported
      BY <2>5, <3>1, <3>2, <3>3 DEF Reported
    <3>5. \A i, j \in 1..Len(d) : d[i] = d[j] => i = j
      BY <2>5, <2>7, <3>2, <3>3 DEF Reported
    <3> QED BY <2>6, <3>2, <3>4, <3>5 DEF Reported
  <2>9. /\ \A j \in 1..Len(d) : d[j] = AsReport(e) \/ \E i \in 1..Len(called) : d[j] = called[i]
        /\ \A i \in 1..Len(called) : \E j \in 1..Len(d) : d[j] = called[i]
        /\ \E j \in 1..Len(d) : d[j] = AsReport(e)
    <3>1. Len(called) \in Nat
      BY <1>0
    <3>2. \A j \in 1..Len(d) : j \in 1..Len(called) \/ j = Len(called) + 1
      BY <2>5, <3>1
    <3>3. (\A j \in 1..Len(called) : j \in 1..Len(d)) /\ Len(called) + 1 \in 1..Len(d)
      BY <2>5, <3>1
    <3> QED BY <2>5, <3>2, <3>3
  <2>10. l.at \in Round /\ loop' = l /\ hist' = h
    BY <2>1, <2>2, <2>3
  <2>11. /\ \A j \in 1..Len(h.called) :
              h.called[j] = AsReport(e) \/ \E i \in 1..Len(called) : h.called[j] = called[i]
         /\ \A i \in 1..Len(called) : \E j \in 1..Len(h.called) : h.called[j] = called[i]
         /\ e.active /\ Heard(e) => \E j \in 1..Len(h.called) : h.called[j] = AsReport(e)
    BY <2>6, <2>9
  <2> HIDE DEF l, h, p
  <2> QED BY <1>9, <2>3, <2>6, <2>8, <2>10, <2>11
<1> QED BY <1>10, <1>11

LEMMA RoundDone ==
  ASSUME Types, LoopInv, FdsDone
  PROVE  StepOK
<1> DEFINE fds == loop.fds
           ready == {m \in loop.i..Len(fds) : fds[m].revents # {}}
           p == IF loop.compact_needed THEN "compact" ELSE "timers"
           l == [loop EXCEPT !.dispatching = FALSE, !.compact_needed = FALSE, !.t = timers.now, !.i = 1]
<1>0. /\ loop \in Loop /\ hist \in Hist /\ fds \in Seq(Slot) /\ loop.at = "fds" /\ Len(fds) \in Nat
      /\ loop.i \in Nat /\ loop.n \in Nat /\ timers.now \in Nat
  BY DEF Types, Loop, Hist, Timers, FdsDone, At
<1>1. "fds" \in Round /\ "fds" # "compact"
  BY DEF Round
<1>2. loop.dispatching = TRUE /\ InRound(loop, hist.reported, hist.called)
  BY <1>0, <1>1, UnderWay
<1>3. ready = {}
  <2>1. CASE loop.n = 0
    <3>1. Cardinality(ready) = 0
      BY <1>2, <2>1 DEF InRound
    <3>2. ready \in SUBSET (1..Len(fds))
      BY <1>0, <1>2 DEF InRound
    <3> HIDE DEF ready
    <3> QED BY <1>0, <3>1, <3>2, PartFinite, FS_EmptySet
  <2>2. CASE \A k \in loop.i..Len(loop.fds) : loop.fds[k].revents = {}
    BY <2>2
  <2> QED BY <2>1, <2>2 DEF FdsDone
<1>4. loop' = [l EXCEPT !.at = p] /\ hist' = hist
  BY DEF FdsDone, Go
<1>5. p \in Places /\ p \notin Round
  BY DEF Places, Round, Ending
<1>6. l \in Loop /\ l.fds = fds /\ l.dispatching = FALSE /\ l.compact_needed = FALSE /\ l.i = 1
  BY <1>0 DEF Loop
<1>7. /\ loop' \in Loop /\ loop'.fds = fds /\ loop'.dispatching = FALSE /\ loop'.compact_needed = FALSE
      /\ loop'.i = 1 /\ loop'.at = p
  <2> HIDE DEF l, p
  <2> QED BY <1>4, <1>5, <1>6 DEF Loop
<1>8. Kept(loop')
  <2>1. p # "compact" => \A k \in 1..Len(fds) : fds[k].active
    BY <1>0, <1>1 DEF LoopInv, Kept
  <2>2. \A k \in 1..Len(fds) : ~(k < 1)
    BY <1>0
  <2> HIDE DEF p
  <2> QED BY <1>5, <1>7, <2>1, <2>2 DEF Kept
<1>9. Complete(hist)
  <2> SUFFICES ASSUME NEW r \in hist.reported, NEW w \in hist.watched, w.reg = r.reg
               PROVE  \E j \in 1..Len(hist.called) : hist.called[j] = r
    BY DEF Complete
  <2>1. PICK k \in 1..Len(fds) : Heard(fds[k]) /\ r = AsReport(fds[k])
    BY <1>2 DEF InRound
  <2>2. PICK m \in 1..Len(fds) : fds[m].active /\ w = AsWatch(fds[m])
    BY DEF LoopInv, Table
  <2>3. fds[m].reg = fds[k].reg
    BY <2>1, <2>2 DEF AsReport, AsWatch
  <2>4. m = k
    BY <2>3 DEF LoopInv, Table
  <2>5. k < loop.i
    <3>1. fds[k].revents # {}
      BY <2>1, Hearing
    <3> QED BY <1>0, <1>3, <3>1
  <2>6. Called1(fds, k, hist.called)
    BY <1>2, <2>1, <2>2, <2>4, <2>5 DEF InRound
  <2> QED BY <2>1, <2>6 DEF Called1
<1>10. LoopInv'
  BY <1>4, <1>7, <1>8, <1>9 DEF LoopInv
<1> QED BY <1>0, <1>4, <1>7, <1>10 DEF StepOK

LEMMA SwappedOut ==
  ASSUME NEW fds \in Seq(Slot), NEW k \in 1..Len(fds)
  PROVE  /\ SwapOut(fds, k) \in Seq(Slot) /\ Len(SwapOut(fds, k)) = Len(fds) - 1
         /\ \A j \in 1..(Len(fds) - 1) :
              SwapOut(fds, k)[j] = IF j = k THEN fds[Len(fds)] ELSE fds[j]
<1>0. Len(fds) \in Nat /\ fds # <<>>
  OBVIOUS
<1>1. CASE k = Len(fds)
  BY <1>0, <1>1, FrontOf DEF SwapOut
<1>2. CASE k # Len(fds)
  <2> DEFINE g == [fds EXCEPT ![k] = Last(fds)]
  <2>1. Last(fds) = fds[Len(fds)] /\ Last(fds) \in Slot
    BY <1>0, FrontOf
  <2>2. /\ g \in Seq(Slot) /\ Len(g) = Len(fds) /\ g # <<>>
        /\ \A j \in 1..Len(fds) : g[j] = IF j = k THEN fds[Len(fds)] ELSE fds[j]
    BY <1>0, <2>1
  <2>3. SwapOut(fds, k) = Front(g)
    BY <1>2 DEF SwapOut
  <2> HIDE DEF g
  <2>4. /\ Front(g) \in Seq(Slot) /\ Len(Front(g)) = Len(fds) - 1
        /\ \A j \in 1..(Len(fds) - 1) : Front(g)[j] = g[j]
    BY <2>2, FrontOf
  <2>5. \A j \in 1..(Len(fds) - 1) : j \in 1..Len(fds)
    BY <1>0
  <2> QED BY <2>2, <2>3, <2>4, <2>5
<1> QED BY <1>1, <1>2

LEMMA TableSwapped ==
  ASSUME NEW fds \in Seq(Slot), NEW k \in 1..Len(fds), NEW W, NEW V, NEW R, Table(fds, W, R),
         \/ ~fds[k].active /\ V = W
         \/ V = W \ {AsWatch(fds[k])}
  PROVE  Table(SwapOut(fds, k), V, R)
<1> DEFINE gds == SwapOut(fds, k)
           n == Len(fds)
           f(j) == IF j = k THEN n ELSE j
<1>0. n \in Nat /\ k \in 1..n
  OBVIOUS
<1>1. Len(gds) = n - 1 /\ \A j \in 1..(n - 1) : gds[j] = fds[f(j)]
  BY SwappedOut
<1>2. \A j \in 1..(n - 1) : f(j) \in 1..n /\ f(j) # k
  BY <1>0
<1>3. \A i, j \in 1..(n - 1) : f(i) = f(j) => i = j
  BY <1>0
<1>4. \A m \in 1..n : m # k => \E j \in 1..(n - 1) : f(j) = m
  <2> SUFFICES ASSUME NEW m \in 1..n, m # k PROVE \E j \in 1..(n - 1) : f(j) = m
    OBVIOUS
  <2>1. CASE m = n
    <3>1. k \in 1..(n - 1) /\ f(k) = m
      BY <1>0, <2>1
    <3> QED BY <3>1
  <2>2. CASE m # n
    <3>1. m \in 1..(n - 1) /\ f(m) = m
      BY <1>0, <2>2
    <3> QED BY <3>1
  <2> QED BY <2>1, <2>2
<1> HIDE DEF f, gds
<1>5. \A i, j \in 1..Len(gds) : gds[i].reg = gds[j].reg => i = j
  BY <1>1, <1>2, <1>3 DEF Table
<1>6. \A i, j \in 1..Len(gds) : gds[i].active /\ gds[j].active /\ gds[i].fd = gds[j].fd => i = j
  BY <1>1, <1>2, <1>3 DEF Table
<1>7. \A j \in 1..Len(gds) : gds[j].reg < R
  BY <1>1, <1>2 DEF Table
<1>8. ASSUME NEW j \in 1..Len(gds), gds[j].active PROVE AsWatch(gds[j]) \in V
  <2>1. gds[j] = fds[f(j)] /\ f(j) \in 1..n /\ f(j) # k
    BY <1>1, <1>2
  <2>2. AsWatch(gds[j]) \in W
    BY <1>8, <2>1 DEF Table
  <2>3. fds[f(j)].reg # fds[k].reg
    BY <2>1 DEF Table
  <2>4. AsWatch(gds[j]) # AsWatch(fds[k])
    BY <2>1, <2>3 DEF AsWatch
  <2> QED BY <2>2, <2>4
<1>9. ASSUME NEW w \in V PROVE \E j \in 1..Len(gds) : gds[j].active /\ w = AsWatch(gds[j])
  <2>1. PICK m \in 1..n : fds[m].active /\ w = AsWatch(fds[m])
    BY DEF Table
  <2>2. m # k
    BY <2>1
  <2>3. PICK j \in 1..(n - 1) : f(j) = m
    BY <1>4, <2>2
  <2> QED BY <1>1, <2>1, <2>3
<1>10. Table(gds, V, R)
  BY <1>5, <1>6, <1>7, <1>8, <1>9 DEF Table
<1> QED BY <1>10 DEF gds

LEMMA Compacted ==
  ASSUME Types, LoopInv, Compact
  PROVE  StepOK
<1> DEFINE fds == loop.fds
           i == loop.i
<1>0. /\ loop \in Loop /\ hist \in Hist /\ fds \in Seq(Slot) /\ loop.at = "compact" /\ Len(fds) \in Nat
      /\ i \in Nat /\ hist' = hist
  BY DEF Types, Loop, Compact, At
<1>1. "compact" \notin Round /\ "compact" \in Ending /\ "timers" \in Ending /\ "timers" \in Places /\ "timers" \notin Round
  BY DEF Round, Ending, Places
<1>2. /\ loop.dispatching = FALSE /\ loop.compact_needed = FALSE /\ i # 0
      /\ \A k \in 1..Len(fds) : k < i => fds[k].active
  <2>1. loop.dispatching \in BOOLEAN /\ loop.compact_needed \in BOOLEAN
    BY <1>0 DEF Loop
  <2> QED BY <1>0, <1>1, <2>1 DEF LoopInv, Kept
<1>3. ASSUME NEW l \in Loop, loop' = l, Table(l.fds, hist.watched, hist.regs), Kept(l), l.dispatching = FALSE
      PROVE  StepOK
  <2>1. LoopInv'
    BY <1>0, <1>1, <1>3 DEF LoopInv
  <2> QED BY <1>0, <1>3, <2>1 DEF StepOK
<1>4. CASE i > Len(fds)
  <2> DEFINE l == [loop EXCEPT !.at = "timers"]
  <2>1. loop' = l
    BY <1>4 DEF Compact, Go
  <2>2. l \in Loop /\ l.fds = fds /\ l.dispatching = FALSE /\ l.compact_needed = FALSE /\ l.at = "timers"
    BY <1>0, <1>1, <1>2 DEF Loop
  <2> HIDE DEF l
  <2>3. \A k \in 1..Len(fds) : fds[k].active
    BY <1>0, <1>2, <1>4
  <2>4. Kept(l)
    BY <1>1, <2>2, <2>3 DEF Kept
  <2>5. Table(l.fds, hist.watched, hist.regs)
    BY <2>2 DEF LoopInv
  <2> QED BY <1>3, <2>1, <2>2, <2>4, <2>5
<1>5. CASE i <= Len(fds) /\ fds[i].active
  <2> DEFINE l == [loop EXCEPT !.i = i + 1]
  <2>1. loop' = l
    BY <1>0, <1>5 DEF Compact
  <2>2. /\ l \in Loop /\ l.fds = fds /\ l.dispatching = FALSE /\ l.compact_needed = FALSE
        /\ l.at = "compact" /\ l.i = i + 1
    BY <1>0, <1>2 DEF Loop
  <2> HIDE DEF l
  <2>3. \A k \in 1..Len(fds) : k < i + 1 => fds[k].active
    BY <1>0, <1>2, <1>5
  <2>4. Kept(l)
    BY <1>0, <1>1, <2>2, <2>3 DEF Kept
  <2>5. Table(l.fds, hist.watched, hist.regs)
    BY <2>2 DEF LoopInv
  <2> QED BY <1>3, <2>1, <2>2, <2>4, <2>5
<1>6. CASE i <= Len(fds) /\ ~fds[i].active
  <2> DEFINE gds == SwapOut(fds, i)
             l == [loop EXCEPT !.fds = gds]
  <2>0. i \in 1..Len(fds)
    BY <1>0, <1>2, <1>6
  <2>1. loop' = l
    BY <1>0, <1>6 DEF Compact
  <2>2. /\ gds \in Seq(Slot) /\ Len(gds) = Len(fds) - 1
        /\ \A j \in 1..(Len(fds) - 1) : gds[j] = IF j = i THEN fds[Len(fds)] ELSE fds[j]
    BY <1>0, <2>0, SwappedOut
  <2>3. Table(gds, hist.watched, hist.regs)
    BY <1>0, <1>6, <2>0, TableSwapped DEF LoopInv
  <2> HIDE DEF gds
  <2>4. /\ l \in Loop /\ l.fds = gds /\ l.dispatching = FALSE /\ l.compact_needed = FALSE
        /\ l.at = "compact" /\ l.i = i
    BY <1>0, <1>2, <2>2 DEF Loop
  <2> HIDE DEF l
  <2>5. \A k \in 1..Len(gds) : k < i => gds[k].active
    BY <1>0, <1>2, <2>2
  <2>6. Kept(l)
    BY <1>0, <1>1, <1>2, <2>4, <2>5 DEF Kept
  <2> QED BY <1>3, <2>1, <2>3, <2>4, <2>6
<1> QED BY <1>0, <1>4, <1>5, <1>6

\* Where the application may call.
LEMMA Calling ==
  ASSUME Types, LoopInv, Calls
  PROVE  /\ loop.at # "compact"
         /\ loop.dispatching \in BOOLEAN /\ (loop.dispatching <=> loop.at \in Round)
         /\ ~loop.dispatching => loop.compact_needed = FALSE /\ \A k \in 1..Len(loop.fds) : loop.fds[k].active
<1>1. loop.at # "compact"
  BY DEF Calls, InApplication
<1>2. loop.dispatching \in BOOLEAN /\ loop.compact_needed \in BOOLEAN
  BY DEF Types, Loop
<1> QED BY <1>1, <1>2 DEF LoopInv, Kept

\* What was watched for when poll reported is called, whatever became of it in
\* the table; only entries that have gone are passed over.
LEMMA RoundKept ==
  ASSUME NEW l \in Loop, NEW m \in Loop, NEW reported, NEW called, InRound(l, reported, called),
         m.i = l.i, m.n = l.n, Len(m.fds) >= Len(l.fds),
         \A k \in 1..Len(l.fds) : /\ m.fds[k].reg = l.fds[k].reg /\ m.fds[k].revents = l.fds[k].revents
                                  /\ m.fds[k].active => l.fds[k].active,
         \A k \in 1..Len(m.fds) : k > Len(l.fds) => m.fds[k].revents = {}
  PROVE  InRound(m, reported, called)
<1> DEFINE f == l.fds
           g == m.fds
<1>0. Len(f) \in Nat /\ Len(g) \in Nat /\ l.i \in Nat /\ l.i # 0 /\ \A k \in 1..Len(f) : k \in 1..Len(g)
  BY DEF Loop, InRound
<1>1. \A k \in 1..Len(f) : AsReport(g[k]) = AsReport(f[k]) /\ (Heard(g[k]) <=> Heard(f[k]))
  BY DEF AsReport, Heard
<1>2. \A k \in 1..Len(g) : g[k].revents # {} => k \in 1..Len(f)
  BY <1>0
<1>3. {k \in l.i..Len(g) : g[k].revents # {}} = {k \in l.i..Len(f) : f[k].revents # {}}
  <2>1. ASSUME NEW k \in l.i..Len(g), g[k].revents # {} PROVE k \in l.i..Len(f) /\ f[k].revents # {}
    <3>1. k \in 1..Len(g)
      BY <1>0
    <3> QED BY <1>0, <1>2, <2>1, <3>1
  <2>2. ASSUME NEW k \in l.i..Len(f), f[k].revents # {} PROVE k \in l.i..Len(g) /\ g[k].revents # {}
    <3>1. k \in 1..Len(f)
      BY <1>0
    <3> QED BY <1>0, <2>2, <3>1
  <2> QED BY <2>1, <2>2
<1>h. \A k \in 1..Len(g) : Heard(g[k]) => k \in 1..Len(f)
  BY <1>2, Hearing
<1>4. \A r \in reported : \E k \in 1..Len(g) : Heard(g[k]) /\ r = AsReport(g[k])
  BY <1>0, <1>1 DEF InRound
<1>5. \A k \in 1..Len(g) : Heard(g[k]) => AsReport(g[k]) \in reported
  BY <1>1, <1>h DEF InRound
<1>6. \A j \in 1..Len(called) : \E k \in 1..Len(g) : k < m.i /\ called[j] = AsReport(g[k])
  BY <1>0, <1>1 DEF InRound
<1>7. \A k \in 1..Len(g) : k < m.i /\ g[k].active /\ Heard(g[k]) => Called1(g, k, called)
  BY <1>1, <1>h DEF InRound, Called1
<1> QED BY <1>0, <1>3, <1>4, <1>5, <1>6, <1>7 DEF InRound

\* The entry that the scans of iox_fd_mod and iox_fd_remove find.
LEMMA Found ==
  ASSUME Types, LoopInv, NEW fd, Watched(fd) # {}
  PROVE  /\ IndexOf(fd) \in 1..Len(loop.fds) /\ loop.fds[IndexOf(fd)].fd = fd
         /\ loop.fds[IndexOf(fd)].active /\ Watched(fd) = {AsWatch(loop.fds[IndexOf(fd)])}
<1> DEFINE fds == loop.fds
           k == IndexOf(fd)
<1>1. \A w \in hist.watched : \E m \in 1..Len(fds) : fds[m].active /\ w = AsWatch(fds[m])
  BY DEF LoopInv, Table
<1>2. \A m \in 1..Len(fds) : AsWatch(fds[m]).fd = fds[m].fd
  BY DEF AsWatch
<1>3. \E m \in 1..Len(fds) : fds[m].fd = fd /\ fds[m].active
  BY <1>1, <1>2 DEF Watched
<1>4. k \in 1..Len(fds) /\ fds[k].fd = fd /\ fds[k].active
  BY <1>3 DEF IndexOf
<1> HIDE DEF k
<1>5. AsWatch(fds[k]) \in Watched(fd)
  BY <1>2, <1>4 DEF Watched, LoopInv, Table
<1>6. ASSUME NEW w \in Watched(fd) PROVE w = AsWatch(fds[k])
  <2>1. PICK m \in 1..Len(fds) : fds[m].active /\ w = AsWatch(fds[m])
    BY <1>1 DEF Watched
  <2>2. fds[m].fd = fd
    BY <1>2, <1>6, <2>1 DEF Watched
  <2>3. m = k
    BY <1>4, <2>1, <2>2 DEF LoopInv, Table
  <2> QED BY <2>1, <2>3
<1> QED BY <1>4, <1>5, <1>6 DEF k

\* A call of the application that changes the table.
LEMMA Changing ==
  ASSUME Types, LoopInv, Calls, NEW l \in Loop, NEW h \in Hist, loop' = l, hist' = h,
         l.at = loop.at, l.dispatching = loop.dispatching,
         h.reported = hist.reported, h.called = hist.called, hist.regs <= h.regs,
         Table(l.fds, h.watched, h.regs), l.dispatching => InRound(l, hist.reported, hist.called),
         l.compact_needed => l.dispatching,
         ~l.compact_needed => \A k \in 1..Len(l.fds) : l.fds[k].active,
         \A w \in h.watched : w.reg = hist.regs \/ \E v \in hist.watched : w.reg = v.reg
  PROVE  StepOK
<1>0. hist \in Hist /\ loop.at # "compact" /\ (loop.dispatching <=> loop.at \in Round)
  BY Calling DEF Types
<1>1. Kept(l)
  BY <1>0 DEF Kept
<1>2. hist.reported \in SUBSET Report /\ hist.regs \in Nat /\ h.regs \in Nat
  BY <1>0 DEF Hist
<1>3. \A r \in hist.reported : r.reg \in Nat /\ r.reg < hist.regs
  BY <1>2 DEF LoopInv, Reported, Report
<1>4. Reported(h)
  BY <1>2, <1>3 DEF LoopInv, Reported
<1>5. ASSUME Complete(hist) PROVE Complete(h)
  <2> SUFFICES ASSUME NEW r \in hist.reported, NEW w \in h.watched, w.reg = r.reg
               PROVE  \E j \in 1..Len(hist.called) : hist.called[j] = r
    BY DEF Complete
  <2>1. w.reg # hist.regs
    BY <1>2, <1>3
  <2>2. \E v \in hist.watched : v.reg = r.reg
    BY <2>1
  <2> QED BY <1>5, <2>2 DEF Complete
<1>6. LoopInv'
  BY <1>1, <1>4, <1>5 DEF LoopInv
<1> QED BY <1>6 DEF StepOK

LEMMA Added ==
  ASSUME Types, LoopInv, NEW fd \in Fds, NEW ev \in EventSets, FdAdd(fd, ev)
  PROVE  StepOK
<1> DEFINE fds == loop.fds
           n == Len(fds)
           reg == hist.regs
           e == Entry(fd, reg, ev)
           w == [fd |-> fd, reg |-> reg, events |-> ev]
           gds == Append(fds, e)
           l == [loop EXCEPT !.fds = gds]
           g == [hist EXCEPT !.regs = reg + 1, !.watched = hist.watched \cup {w}]
           h == [g EXCEPT !.ops = @ + 1]
<1>0. /\ loop \in Loop /\ hist \in Hist /\ fds \in Seq(Slot) /\ n \in Nat /\ reg \in Nat
      /\ hist.watched \in SUBSET Watch /\ Calls
  BY DEF Types, Loop, Hist, FdAdd
<1>1. CASE Len(loop.fds) >= IOX_MAX_FDS
  BY <1>1, Asking DEF FdAdd
<1>2. CASE ~(Len(loop.fds) >= IOX_MAX_FDS)
  <2>1. loop' = l
    BY <1>2 DEF FdAdd
  <2>2. hist' = h
    BY <1>2 DEF FdAdd, Called
  <2>3. ev \in Events
    BY IoxAssumption DEF Events
  <2>4. /\ e \in Slot /\ e.fd = fd /\ e.reg = reg /\ e.events = ev /\ e.revents = {} /\ e.active
        /\ AsWatch(e) = w /\ w \in Watch /\ w.reg = reg
    <3>1. {} \in Revents
      BY DEF Revents
    <3> QED BY <1>0, <2>3, <3>1 DEF Entry, Slot, AsWatch, Watch
  <2> HIDE DEF e, w
  <2>5. /\ gds \in Seq(Slot) /\ Len(gds) = n + 1 /\ gds[n + 1] = e
        /\ \A k \in 1..n : gds[k] = fds[k]
    BY <1>0, <2>4
  <2> HIDE DEF gds
  <2>6. /\ l \in Loop /\ l.fds = gds /\ l.at = loop.at /\ l.dispatching = loop.dispatching
        /\ l.compact_needed = loop.compact_needed /\ l.i = loop.i /\ l.n = loop.n
    BY <1>0, <2>5 DEF Loop
  <2>7. /\ g \in Hist /\ g.watched = hist.watched \cup {w} /\ g.regs = reg + 1
        /\ g.reported = hist.reported /\ g.called = hist.called
    <3>1. hist.watched \cup {w} \in SUBSET Watch /\ reg + 1 \in Nat
      BY <1>0, <2>4
    <3> QED BY <1>0, <3>1 DEF Hist
  <2> HIDE DEF g
  <2>8. /\ h \in Hist /\ h.watched = hist.watched \cup {w} /\ h.regs = reg + 1
        /\ h.reported = hist.reported /\ h.called = hist.called
    BY <2>7, Noted
  <2> HIDE DEF l, h
  <2>9. /\ \A k \in 1..n : fds[k].reg < reg /\ fds[k].reg \in Nat
        /\ \A k \in 1..n : fds[k].active => fds[k].fd # fd
    <3>1. \A k \in 1..n : fds[k].reg < reg /\ fds[k].reg \in Nat
      <4>1. \A k \in 1..n : fds[k] \in Slot
        BY <1>0
      <4> QED BY <4>1 DEF LoopInv, Table, Slot
    <3>2. \A k \in 1..n : fds[k].active => AsWatch(fds[k]) \in hist.watched /\ AsWatch(fds[k]).fd = fds[k].fd
      BY DEF LoopInv, Table, AsWatch
    <3>3. \A v \in hist.watched : v.fd # fd
      BY DEF FdAdd, Watched
    <3> QED BY <3>1, <3>2, <3>3
  <2>10. \A k \in 1..Len(gds) : (k \in 1..n /\ gds[k] = fds[k]) \/ (k = n + 1 /\ gds[k] = e)
    <3>1. \A k \in 1..(n + 1) : k \in 1..n \/ k = n + 1
      BY <1>0
    <3> QED BY <2>5, <3>1
  <2>11. Table(gds, hist.watched \cup {w}, reg + 1)
    <3>1. \A j, k \in 1..Len(gds) : gds[j].reg = gds[k].reg => j = k
      BY <1>0, <2>4, <2>9, <2>10 DEF LoopInv, Table
    <3>2. \A j, k \in 1..Len(gds) : gds[j].active /\ gds[k].active /\ gds[j].fd = gds[k].fd => j = k
      BY <2>4, <2>9, <2>10 DEF LoopInv, Table
    <3>3. \A k \in 1..Len(gds) : gds[k].reg < reg + 1
      BY <1>0, <2>4, <2>9, <2>10
    <3>4. \A k \in 1..Len(gds) : gds[k].active => AsWatch(gds[k]) \in hist.watched \cup {w}
      BY <2>4, <2>10 DEF LoopInv, Table
    <3>5. \A v \in hist.watched \cup {w} : \E k \in 1..Len(gds) : gds[k].active /\ v = AsWatch(gds[k])
      <4>1. (\A k \in 1..n : k \in 1..Len(gds)) /\ n + 1 \in 1..Len(gds)
        BY <1>0, <2>5
      <4>2. \A v \in hist.watched : \E k \in 1..n : fds[k].active /\ v = AsWatch(fds[k])
        BY DEF LoopInv, Table
      <4>3. ASSUME NEW v \in hist.watched PROVE \E k \in 1..Len(gds) : gds[k].active /\ v = AsWatch(gds[k])
        BY <2>5, <4>1, <4>2
      <4> QED BY <2>4, <2>5, <4>1, <4>3
    <3> QED BY <3>1, <3>2, <3>3, <3>4, <3>5 DEF Table
  <2>12. loop.dispatching => InRound(l, hist.reported, hist.called)
    <3>1. \A k \in 1..Len(gds) : k > n => gds[k].revents = {}
      BY <1>0, <2>4, <2>10
    <3>2. Len(gds) >= n
      BY <1>0, <2>5
    <3>3. loop.dispatching => InRound(loop, hist.reported, hist.called)
      BY DEF LoopInv
    <3> QED BY <1>0, <2>5, <2>6, <3>1, <3>2, <3>3, RoundKept
  <2>13. /\ l.compact_needed => l.dispatching
         /\ ~l.compact_needed => \A k \in 1..Len(gds) : gds[k].active
    BY <1>0, <2>4, <2>6, <2>10, Calling DEF LoopInv, Kept
  <2>14. \A v \in h.watched : v.reg = reg \/ \E x \in hist.watched : v.reg = x.reg
    BY <2>4, <2>8
  <2>15. reg <= h.regs
    BY <1>0, <2>8
  <2>16. Table(l.fds, h.watched, h.regs)
    BY <2>6, <2>8, <2>11
  <2> QED BY <1>0, <2>1, <2>2, <2>6, <2>8, <2>12, <2>13, <2>14, <2>15, <2>16, Changing
<1> QED BY <1>1, <1>2

LEMMA Modified ==
  ASSUME Types, LoopInv, NEW fd \in Fds, NEW ev \in EventSets, FdMod(fd, ev)
  PROVE  StepOK
<1> DEFINE fds == loop.fds
           c == IndexOf(fd)
           e == [fds[c] EXCEPT !.events = ev]
           gds == [fds EXCEPT ![c] = e]
           Change(w) == [w EXCEPT !.events = IF w.fd = fd THEN ev ELSE @]
           W == {Change(w) : w \in hist.watched}
           l == [loop EXCEPT !.fds = gds]
           g == [hist EXCEPT !.watched = W]
           h == [g EXCEPT !.ops = @ + 1]
<1>0. /\ loop \in Loop /\ hist \in Hist /\ fds \in Seq(Slot) /\ Len(fds) \in Nat
      /\ hist.watched \in SUBSET Watch /\ Calls /\ Watched(fd) # {}
  BY DEF Types, Loop, Hist, FdMod
<1>1. c \in 1..Len(fds) /\ fds[c].fd = fd /\ fds[c].active
  BY <1>0, Found
<1>2. loop' = l
  BY <1>0, <1>1 DEF FdMod, Loop
<1>3. hist' = h
  BY DEF FdMod, Called
<1>4. ev \in Events
  BY IoxAssumption DEF Events
<1> HIDE DEF c
<1>5. /\ e \in Slot /\ e.fd = fd /\ e.reg = fds[c].reg /\ e.events = ev /\ e.revents = fds[c].revents
      /\ e.active
  <2>1. fds[c] \in Slot
    BY <1>0, <1>1
  <2> QED BY <1>1, <1>4, <2>1 DEF Slot
<1> HIDE DEF e
<1>6. gds \in Seq(Slot) /\ Len(gds) = Len(fds) /\ \A k \in 1..Len(fds) : gds[k] = IF k = c THEN e ELSE fds[k]
  BY <1>0, <1>1, <1>5
<1> HIDE DEF gds
<1>7. \A w \in Watch : /\ Change(w) \in Watch /\ Change(w).fd = w.fd /\ Change(w).reg = w.reg
                       /\ Change(w).events = IF w.fd = fd THEN ev ELSE w.events
  BY <1>4 DEF Watch
<1>8. W \in SUBSET Watch
  BY <1>0, <1>7
<1> HIDE DEF Change
<1>9. \A k \in 1..Len(fds) : fds[k].active =>
        gds[k].active /\ AsWatch(fds[k]) \in hist.watched /\ AsWatch(gds[k]) = Change(AsWatch(fds[k]))
  <2> SUFFICES ASSUME NEW k \in 1..Len(fds), fds[k].active
               PROVE  /\ gds[k].active /\ AsWatch(fds[k]) \in hist.watched
                      /\ AsWatch(gds[k]) = Change(AsWatch(fds[k]))
    OBVIOUS
  <2>1. AsWatch(fds[k]) \in hist.watched
    BY DEF LoopInv, Table
  <2>2. /\ AsWatch(fds[k]) \in Watch /\ AsWatch(fds[k]).fd = fds[k].fd /\ AsWatch(fds[k]).reg = fds[k].reg
        /\ AsWatch(fds[k]).events = fds[k].events
    BY <1>0, <2>1 DEF AsWatch
  <2>3. fds[k].fd = fd <=> k = c
    BY <1>1 DEF LoopInv, Table
  <2>4. gds[k].fd = fds[k].fd /\ gds[k].reg = fds[k].reg /\ gds[k].active
        /\ gds[k].events = IF fds[k].fd = fd THEN ev ELSE fds[k].events
    BY <1>1, <1>5, <1>6, <2>3
  <2>5. AsWatch(gds[k]) \in Watch /\ AsWatch(gds[k]).fd = gds[k].fd /\ AsWatch(gds[k]).reg = gds[k].reg
        /\ AsWatch(gds[k]).events = gds[k].events
    <3>1. gds[k] \in Slot
      BY <1>6
    <3> QED BY <3>1 DEF AsWatch, Slot, Watch
  <2>6. Change(AsWatch(fds[k])) \in Watch
        /\ Change(AsWatch(fds[k])).fd = fds[k].fd /\ Change(AsWatch(fds[k])).reg = fds[k].reg
        /\ Change(AsWatch(fds[k])).events = IF fds[k].fd = fd THEN ev ELSE fds[k].events
    BY <1>7, <2>2
  <2>7. \A a, b \in Watch : a.fd = b.fd /\ a.reg = b.reg /\ a.events = b.events => a = b
    BY DEF Watch
  <2> QED BY <2>1, <2>4, <2>5, <2>6, <2>7
<1>10. \A k \in 1..Len(fds) : /\ gds[k].reg = fds[k].reg /\ gds[k].revents = fds[k].revents
                              /\ gds[k].fd = fds[k].fd /\ (gds[k].active <=> fds[k].active)
  BY <1>1, <1>5, <1>6
<1>11. Table(gds, W, hist.regs)
  <2>1. \A j, k \in 1..Len(gds) : gds[j].reg = gds[k].reg => j = k
    BY <1>6, <1>10 DEF LoopInv, Table
  <2>2. \A j, k \in 1..Len(gds) : gds[j].active /\ gds[k].active /\ gds[j].fd = gds[k].fd => j = k
    BY <1>6, <1>10 DEF LoopInv, Table
  <2>3. \A k \in 1..Len(gds) : gds[k].reg < hist.regs
    BY <1>6, <1>10 DEF LoopInv, Table
  <2>4. \A k \in 1..Len(gds) : gds[k].active => AsWatch(gds[k]) \in W
    BY <1>6, <1>9, <1>10
  <2>5. \A w \in hist.watched : \E k \in 1..Len(fds) : fds[k].active /\ w = AsWatch(fds[k])
    BY DEF LoopInv, Table
  <2>6. \A w \in hist.watched : \E k \in 1..Len(gds) : gds[k].active /\ Change(w) = AsWatch(gds[k])
    BY <1>6, <1>9, <2>5
  <2>7. \A v \in W : \E k \in 1..Len(gds) : gds[k].active /\ v = AsWatch(gds[k])
    BY <2>6
  <2> HIDE DEF W
  <2> QED BY <2>1, <2>2, <2>3, <2>4, <2>7 DEF Table
<1>12. \A v \in W : \E w \in hist.watched : v.reg = w.reg
  BY <1>0, <1>7
<1> HIDE DEF W
<1>13. /\ l \in Loop /\ l.fds = gds /\ l.at = loop.at /\ l.dispatching = loop.dispatching
       /\ l.compact_needed = loop.compact_needed /\ l.i = loop.i /\ l.n = loop.n
  BY <1>0, <1>6 DEF Loop
<1>14. /\ g \in Hist /\ g.watched = W /\ g.regs = hist.regs /\ g.reported = hist.reported
       /\ g.called = hist.called
  BY <1>0, <1>8 DEF Hist
<1> HIDE DEF g
<1>15. /\ h \in Hist /\ h.watched = W /\ h.regs = hist.regs /\ h.reported = hist.reported
       /\ h.called = hist.called /\ hist.regs <= h.regs
  <2>1. hist.regs \in Nat
    BY <1>0 DEF Hist
  <2> QED BY <1>14, <2>1, Noted
<1> HIDE DEF l, h
<1>16. loop.dispatching => InRound(l, hist.reported, hist.called)
  <2>1. \A k \in 1..Len(gds) : ~(k > Len(fds))
    BY <1>0, <1>6
  <2>2. loop.dispatching => InRound(loop, hist.reported, hist.called)
    BY DEF LoopInv
  <2>3. Len(gds) >= Len(fds)
    BY <1>0, <1>6
  <2> QED BY <1>0, <1>10, <1>13, <2>1, <2>2, <2>3, RoundKept
<1>17. /\ l.compact_needed => l.dispatching
       /\ ~l.compact_needed => \A k \in 1..Len(gds) : gds[k].active
  BY <1>0, <1>6, <1>10, <1>13, Calling DEF LoopInv, Kept
<1>18. Table(l.fds, h.watched, h.regs)
  BY <1>11, <1>13, <1>15
<1> QED BY <1>0, <1>2, <1>3, <1>12, <1>13, <1>15, <1>16, <1>17, <1>18, Changing

LEMMA Gone ==
  ASSUME Types, LoopInv, NEW fd \in Fds, FdRemove(fd)
  PROVE  StepOK
<1> DEFINE fds == loop.fds
           c == IndexOf(fd)
           W == hist.watched \ {AsWatch(fds[c])}
           g == [hist EXCEPT !.watched = W]
           h == [g EXCEPT !.ops = @ + 1]
<1>0. /\ loop \in Loop /\ hist \in Hist /\ fds \in Seq(Slot) /\ Len(fds) \in Nat
      /\ hist.watched \in SUBSET Watch /\ Calls /\ Watched(fd) # {} /\ hist.regs \in Nat
  BY DEF Types, Loop, Hist, FdRemove
<1>1. c \in 1..Len(fds) /\ fds[c].fd = fd /\ fds[c].active /\ Watched(fd) = {AsWatch(fds[c])}
  BY <1>0, Found
<1>2. hist' = h
  BY <1>1 DEF FdRemove, Called
<1>3. W \in SUBSET Watch /\ \A w \in W : \E v \in hist.watched : w.reg = v.reg
  BY <1>0
<1>4. /\ h \in Hist /\ h.watched = W /\ h.regs = hist.regs /\ h.reported = hist.reported
      /\ h.called = hist.called /\ hist.regs <= h.regs
  <2> HIDE DEF W
  <2>1. /\ g \in Hist /\ g.watched = W /\ g.regs = hist.regs /\ g.reported = hist.reported
        /\ g.called = hist.called
    BY <1>0, <1>3 DEF Hist
  <2> HIDE DEF g
  <2> QED BY <1>0, <2>1, Noted
<1> HIDE DEF c, h
<1>5. CASE loop.dispatching
  <2> DEFINE e == [fds[c] EXCEPT !.active = FALSE]
             gds == [fds EXCEPT ![c] = e]
             l == [loop EXCEPT !.fds = gds, !.compact_needed = TRUE]
  <2>1. loop' = l
    BY <1>0, <1>1, <1>5 DEF FdRemove, Loop, c
  <2>2. /\ e \in Slot /\ e.fd = fd /\ e.reg = fds[c].reg /\ e.revents = fds[c].revents /\ ~e.active
    <3>1. fds[c] \in Slot
      BY <1>0, <1>1
    <3> QED BY <1>1, <3>1 DEF Slot
  <2> HIDE DEF e
  <2>3. gds \in Seq(Slot) /\ Len(gds) = Len(fds) /\ \A k \in 1..Len(fds) : gds[k] = IF k = c THEN e ELSE fds[k]
    BY <1>0, <1>1, <2>2
  <2> HIDE DEF gds
  <2>4. /\ l \in Loop /\ l.fds = gds /\ l.at = loop.at /\ l.dispatching = loop.dispatching
        /\ l.compact_needed = TRUE /\ l.i = loop.i /\ l.n = loop.n
    BY <1>0, <2>3 DEF Loop
  <2> HIDE DEF l
  <2>5. \A k \in 1..Len(fds) : /\ gds[k].reg = fds[k].reg /\ gds[k].revents = fds[k].revents
                               /\ gds[k].fd = fds[k].fd /\ (gds[k].active <=> fds[k].active /\ k # c)
                               /\ k # c => gds[k] = fds[k]
    BY <1>1, <2>2, <2>3
  <2>6. \A j, k \in 1..Len(fds) : AsWatch(fds[j]) = AsWatch(fds[k]) => j = k
    <3>1. \A j, k \in 1..Len(fds) : AsWatch(fds[j]) = AsWatch(fds[k]) => fds[j].reg = fds[k].reg
      BY DEF AsWatch
    <3> QED BY <3>1 DEF LoopInv, Table
  <2>7. Table(gds, W, hist.regs)
    <3>1. \A j, k \in 1..Len(gds) : gds[j].reg = gds[k].reg => j = k
      BY <2>3, <2>5 DEF LoopInv, Table
    <3>2. \A j, k \in 1..Len(gds) : gds[j].active /\ gds[k].active /\ gds[j].fd = gds[k].fd => j = k
      BY <2>3, <2>5 DEF LoopInv, Table
    <3>3. \A k \in 1..Len(gds) : gds[k].reg < hist.regs
      BY <2>3, <2>5 DEF LoopInv, Table
    <3>4. \A k \in 1..Len(gds) : gds[k].active => AsWatch(gds[k]) \in W
      <4> SUFFICES ASSUME NEW k \in 1..Len(fds), gds[k].active PROVE AsWatch(fds[k]) \in W /\ gds[k] = fds[k]
        BY <2>3
      <4>1. k # c /\ fds[k].active /\ gds[k] = fds[k]
        BY <2>5
      <4>2. AsWatch(fds[k]) \in hist.watched
        BY <4>1 DEF LoopInv, Table
      <4> QED BY <1>1, <2>6, <4>1, <4>2
    <3>5. ASSUME NEW v \in W PROVE \E k \in 1..Len(gds) : gds[k].active /\ v = AsWatch(gds[k])
      <4>1. PICK k \in 1..Len(fds) : fds[k].active /\ v = AsWatch(fds[k])
        BY DEF LoopInv, Table
      <4>2. k # c
        BY <4>1
      <4> QED BY <2>3, <2>5, <4>1, <4>2
    <3> HIDE DEF W
    <3> QED BY <3>1, <3>2, <3>3, <3>4, <3>5 DEF Table
  <2>8. InRound(l, hist.reported, hist.called)
    <3>1. \A k \in 1..Len(gds) : ~(k > Len(fds))
      BY <1>0, <2>3
    <3>2. InRound(loop, hist.reported, hist.called)
      BY <1>5 DEF LoopInv
    <3>3. Len(gds) >= Len(fds)
      BY <1>0, <2>3
    <3> QED BY <1>0, <2>4, <2>5, <3>1, <3>2, <3>3, RoundKept
  <2>9. Table(l.fds, h.watched, h.regs)
    BY <1>4, <2>4, <2>7
  <2> HIDE DEF W
  <2> QED BY <1>0, <1>2, <1>3, <1>4, <1>5, <2>1, <2>4, <2>8, <2>9, Changing
<1>6. CASE ~loop.dispatching
  <2> DEFINE gds == SwapOut(fds, c)
             l == [loop EXCEPT !.fds = gds]
  <2>1. loop' = l
    BY <1>6 DEF FdRemove, c
  <2>2. /\ gds \in Seq(Slot) /\ Len(gds) = Len(fds) - 1
        /\ \A j \in 1..(Len(fds) - 1) : gds[j] = IF j = c THEN fds[Len(fds)] ELSE fds[j]
    BY <1>0, <1>1, SwappedOut
  <2>3. Table(gds, W, hist.regs)
    BY <1>0, <1>1, TableSwapped DEF LoopInv
  <2> HIDE DEF gds
  <2>4. /\ l \in Loop /\ l.fds = gds /\ l.at = loop.at /\ l.dispatching = loop.dispatching
        /\ l.compact_needed = loop.compact_needed
    BY <1>0, <2>2 DEF Loop
  <2> HIDE DEF l
  <2>5. loop.compact_needed = FALSE /\ \A k \in 1..Len(fds) : fds[k].active
    BY <1>0, <1>6, Calling
  <2>6. \A k \in 1..Len(gds) : gds[k].active
    <3>1. \A k \in 1..(Len(fds) - 1) : k \in 1..Len(fds) /\ Len(fds) \in 1..Len(fds)
      BY <1>0
    <3> QED BY <2>2, <2>5, <3>1
  <2>7. Table(l.fds, h.watched, h.regs)
    BY <1>4, <2>3, <2>4
  <2> HIDE DEF W
  <2> QED BY <1>0, <1>2, <1>3, <1>4, <1>6, <2>1, <2>4, <2>5, <2>6, <2>7, Changing
<1> QED BY <1>5, <1>6

-------------------------------------------------------------------------------
(* The invariant. *)

LEMMA StepKept ==
  ASSUME Inv, [Next]_vars
  PROVE  Inv'
<1>0. Types /\ LoopInv /\ Timing
  BY DEF Inv
<1>1. ClockStep
  BY <1>0, ClockSteps
<1>2. Timing' /\ timers' \in Timers
  BY <1>0, <1>1, TimingKept
<1>3. ASSUME NEW fd \in Fds, FdRemove(fd) \/ \E ev \in EventSets : FdAdd(fd, ev) \/ FdMod(fd, ev)
      PROVE  StepOK
  <2>1. CASE FdRemove(fd)
    BY <1>0, <2>1, Gone
  <2>2. ASSUME NEW ev \in EventSets, FdAdd(fd, ev) PROVE StepOK
    BY <1>0, <2>2, Added
  <2>3. ASSUME NEW ev \in EventSets, FdMod(fd, ev) PROVE StepOK
    BY <1>0, <2>3, Modified
  <2> QED BY <1>3, <2>1, <2>2, <2>3
<1>4. ASSUME Turn \/ PollReturns \/ DispatchFd \/ FdsDone \/ Compact PROVE StepOK
  BY <1>0, <1>4, Turned, Polled, Dispatched, RoundDone, Compacted
<1>5. StepOK
  <2>1. CASE Application
    <3>1. CASE \/ \E d \in Delays : TimerAdd(d)
               \/ \E id \in 1..timers.next_id : TimerRemove(id)
               \/ \E s \in Signals : SignalAdd(s) \/ SignalRemove(s)
               \/ Stop
      BY <1>0, <3>1, Going1
    <3> QED BY <1>3, <2>1, <3>1 DEF Application
  <2>2. CASE Turning
    BY <1>0, <1>4, <2>2, Going1 DEF Turning
  <2>3. CASE Tick \/ (\E s \in Signals : SignalArrives(s)) \/ UNCHANGED vars
    BY <1>0, <2>3, Going1
  <2> QED BY <2>1, <2>2, <2>3 DEF Next
<1>6. Types'
  BY <1>2, <1>5 DEF StepOK, Types
<1> QED BY <1>2, <1>5, <1>6 DEF StepOK, Inv

LEMMA FirstTable ==
  ASSUME Init
  PROVE  /\ loop.fds \in Seq(Slot) /\ Len(loop.fds) = Len(Watches) + 1 /\ Len(Watches) \in Nat
         /\ \A k \in 1..Len(loop.fds) :
              /\ loop.fds[k].reg = k - 1 /\ loop.fds[k].active /\ loop.fds[k].events = {"READ"}
              /\ loop.fds[k].fd = IF k = 1 THEN Pipe ELSE Watches[k - 1]
<1> DEFINE N == Len(Watches)
           a == <<Entry(Pipe, 0, {"READ"})>>
           b == [k \in 1..N |-> Entry(Watches[k], k, {"READ"})]
           fds == loop.fds
<1>1. N \in Nat /\ \A k \in 1..N : Watches[k] \in Fds
  BY IoxAssumption
<1>2. \A fd \in Fds \cup {Pipe}, r \in Nat :
        /\ Entry(fd, r, {"READ"}) \in Slot
        /\ Entry(fd, r, {"READ"}).reg = r /\ Entry(fd, r, {"READ"}).fd = fd
        /\ Entry(fd, r, {"READ"}).active /\ Entry(fd, r, {"READ"}).events = {"READ"}
  <2>1. {} \in Revents /\ {"READ"} \in Events
    BY DEF Events, Revents
  <2> QED BY <2>1 DEF Entry, Slot
<1>3. fds = a \o b
  BY DEF Init
<1>4. Pipe \in Fds \cup {Pipe} /\ 0 \in Nat /\ \A k \in 1..N : Watches[k] \in Fds \cup {Pipe} /\ k \in Nat
  BY <1>1
<1>5. Entry(Pipe, 0, {"READ"}) \in Slot /\ \A k \in 1..N : Entry(Watches[k], k, {"READ"}) \in Slot
  BY <1>2, <1>4
<1>6. a \in Seq(Slot) /\ Len(a) = 1 /\ a[1] = Entry(Pipe, 0, {"READ"})
  BY <1>5
<1>7. b \in Seq(Slot) /\ Len(b) = N /\ \A k \in 1..N : b[k] = Entry(Watches[k], k, {"READ"})
  BY <1>1, <1>5
<1> HIDE DEF a, b, N
<1>c. /\ a \o b \in Seq(Slot) /\ Len(a \o b) = Len(a) + Len(b)
      /\ \A k \in 1..(Len(a) + Len(b)) : (a \o b)[k] = IF k <= Len(a) THEN a[k] ELSE b[k - Len(a)]
  BY <1>6, <1>7, ConcatProperties
<1>8. /\ fds \in Seq(Slot) /\ Len(fds) = N + 1
      /\ \A k \in 1..(N + 1) : fds[k] = IF k <= 1 THEN a[k] ELSE b[k - 1]
  <2>1. Len(a) + Len(b) = N + 1
    BY <1>1, <1>6, <1>7
  <2> QED BY <1>3, <1>6, <1>c, <2>1
<1>9. ASSUME NEW k \in 1..(N + 1)
      PROVE  fds[k] = IF k = 1 THEN Entry(Pipe, 0, {"READ"}) ELSE Entry(Watches[k - 1], k - 1, {"READ"})
  <2>1. CASE k = 1
    BY <1>6, <1>8, <2>1
  <2>2. CASE k # 1
    <3>1. k - 1 \in 1..N /\ k > 1 /\ k <= 1 + N /\ k \in Nat
      BY <1>1, <2>2
    <3>2. fds[k] = b[k - 1]
      BY <1>8, <3>1
    <3> QED BY <1>7, <2>2, <3>1, <3>2
  <2> QED BY <2>1, <2>2
<1>10. ASSUME NEW k \in 1..(N + 1)
       PROVE  /\ fds[k].reg = k - 1 /\ fds[k].active /\ fds[k].events = {"READ"}
              /\ fds[k].fd = IF k = 1 THEN Pipe ELSE Watches[k - 1]
  <2>1. CASE k = 1
    BY <1>2, <1>4, <1>9, <2>1
  <2>2. CASE k # 1
    <3>1. k - 1 \in 1..N
      BY <1>1, <2>2
    <3>2. fds[k] = Entry(Watches[k - 1], k - 1, {"READ"})
      BY <1>9, <2>2
    <3>3. Watches[k - 1] \in Fds \cup {Pipe} /\ k - 1 \in Nat
      BY <1>4, <3>1
    <3> QED BY <1>2, <2>2, <3>2, <3>3
  <2> QED BY <2>1, <2>2
<1> QED BY <1>1, <1>8, <1>10 DEF N

LEMMA InitKept ==
  ASSUME Init
  PROVE  Inv
<1> DEFINE fds == loop.fds
           N == Len(Watches)
<1>1. /\ fds \in Seq(Slot) /\ Len(fds) = N + 1 /\ N \in Nat
      /\ \A k \in 1..Len(fds) :
           /\ fds[k].reg = k - 1 /\ fds[k].active /\ fds[k].events = {"READ"}
           /\ fds[k].fd = IF k = 1 THEN Pipe ELSE Watches[k - 1]
  BY FirstTable
<1>2. /\ loop = [fds |-> fds, running |-> FALSE, dispatching |-> FALSE, compact_needed |-> FALSE,
                 at |-> "setup", i |-> 0, n |-> 0, t |-> 0]
      /\ timers = [heap |-> <<>>, next_id |-> 1, now |-> 0]
  BY DEF Init
<1> DEFINE W == {AsWatch(e) : e \in Range(fds)}
<1>3. PICK script \in Scripts :
        hist = [watched |-> W, regs |-> N + 1, ops |-> 0, script |-> script,
                reported |-> {}, called |-> <<>>, rung |-> {}, unheard |-> {}]
  BY DEF Init, AsWatch
<1>4. /\ \A k \in 1..Len(fds) : AsWatch(fds[k]) \in W /\ AsWatch(fds[k]) \in Watch
      /\ \A w \in W : \E k \in 1..Len(fds) : w = AsWatch(fds[k])
  <2>1. DOMAIN fds = 1..Len(fds)
    BY <1>1
  <2>2. Range(fds) = {fds[k] : k \in 1..Len(fds)}
    BY <2>1 DEF Range
  <2>3. \A k \in 1..Len(fds) : AsWatch(fds[k]) \in Watch
    <3> SUFFICES ASSUME NEW k \in 1..Len(fds) PROVE AsWatch(fds[k]) \in Watch
      OBVIOUS
    <3>1. fds[k] \in Slot
      BY <1>1
    <3> QED BY <3>1 DEF AsWatch, Slot, Watch
  <2> QED BY <2>2, <2>3
<1>5. W \in SUBSET Watch
  BY <1>4
<1>6. script \in Seq(Nat)
  <2>1. script \in Seq(0..MaxNow) /\ MaxNow \in Nat
    BY IoxAssumption
  <2>2. \A k \in 1..Len(script) : script[k] \in Nat
    BY <2>1
  <2> QED BY <2>1, <2>2
<1> HIDE DEF W, fds, N
<1>7. loop \in Loop
  <2>1. "setup" \in Places
    BY DEF Places
  <2> QED BY <1>1, <1>2, <2>1 DEF Loop
<1>8. hist \in Hist
  <2>1. <<>> \in Seq(Report) /\ N + 1 \in Nat
    BY <1>1
  <2> QED BY <1>3, <1>5, <1>6, <2>1 DEF Hist
<1>9. timers \in Timers
  <2>1. <<>> \in Seq(Timer)
    OBVIOUS
  <2> QED BY <1>2, <2>1 DEF Timers
<1>10. Table(fds, W, N + 1)
  <2>1. \A j, k \in 1..Len(fds) : fds[j].reg = fds[k].reg => j = k
    BY <1>1
  <2>2. \A j, k \in 1..Len(fds) : fds[j].fd = fds[k].fd => j = k
    <3> SUFFICES ASSUME NEW j \in 1..(N + 1), NEW k \in 1..(N + 1), fds[j].fd = fds[k].fd PROVE j = k
      BY <1>1
    <3>1. Watches \in Seq(Fds) /\ IsInjective(Watches) /\ Pipe \notin Fds
      BY IoxAssumption
    <3>2. DOMAIN Watches = 1..N
      BY <3>1 DEF N
    <3>3. \A m \in 1..N : Watches[m] \in Fds /\ Watches[m] # Pipe
      BY <3>1, <3>2 DEF N
    <3>4. \A m, i \in 1..N : Watches[m] = Watches[i] => m = i
      BY <3>1, <3>2 DEF IsInjective
    <3>5. (j # 1 => j - 1 \in 1..N) /\ (k # 1 => k - 1 \in 1..N)
      BY <1>1
    <3>6. CASE j = 1 \/ k = 1
      BY <1>1, <3>3, <3>5, <3>6
    <3>7. CASE j # 1 /\ k # 1
      <4>1. Watches[j - 1] = Watches[k - 1]
        BY <1>1, <3>7
      <4>2. j - 1 = k - 1
        BY <3>4, <3>5, <3>7, <4>1
      <4> QED BY <1>1, <4>2
    <3> QED BY <3>6, <3>7
  <2>3. \A k \in 1..Len(fds) : fds[k].reg < N + 1
    BY <1>1
  <2> QED BY <1>1, <1>4, <2>1, <2>2, <2>3 DEF Table
<1>11. Kept(loop)
  BY <1>1, <1>2 DEF Kept, Round
<1>12. Reported(hist)
  BY <1>3 DEF Reported
<1>13. LoopInv
  <2>1. "setup" \notin Ending
    BY DEF Ending
  <2> QED BY <1>2, <1>3, <1>10, <1>11, <1>12, <2>1 DEF LoopInv
<1>14. Timing
  BY <1>2, <1>3 DEF Timing, Ordered, Distinct
<1> QED BY <1>7, <1>8, <1>9, <1>13, <1>14 DEF Inv, Types

LEMMA Always == Spec => []Inv
<1>1. Init => Inv
  BY InitKept
<1>2. Inv /\ [Next]_vars => Inv'
  BY StepKept
<1> QED BY <1>1, <1>2, PTL DEF Spec

LEMMA FaithfulByInv ==
  ASSUME Inv
  PROVE  RoundFaithful
<1> DEFINE fds == loop.fds
           W == hist.watched
<1>0. /\ loop \in Loop /\ hist \in Hist /\ fds \in Seq(Slot) /\ Len(fds) \in Nat
      /\ DOMAIN fds = 1..Len(fds) /\ hist.called \in Seq(Report)
      /\ DOMAIN hist.called = 1..Len(hist.called)
  BY DEF Inv, Types, Loop, Hist
<1>1. LoopInv
  BY DEF Inv
<1>2. Range(fds) = {fds[k] : k \in 1..Len(fds)}
  BY <1>0 DEF Range
<1>3. /\ \A k \in 1..Len(fds) : fds[k].active => AsWatch(fds[k]) \in W
      /\ \A w \in W : \E k \in 1..Len(fds) : fds[k].active /\ w = AsWatch(fds[k])
      /\ \A j, k \in 1..Len(fds) : AsWatch(fds[j]) = AsWatch(fds[k]) => j = k
  <2>1. \A j, k \in 1..Len(fds) : AsWatch(fds[j]) = AsWatch(fds[k]) => fds[j].reg = fds[k].reg
    BY DEF AsWatch
  <2> QED BY <1>1, <2>1 DEF LoopInv, Table
<1>4. {[fd |-> e.fd, reg |-> e.reg, events |-> e.events] : e \in {x \in Range(fds) : x.active}} = W
  <2>1. {AsWatch(e) : e \in {x \in Range(fds) : x.active}} = W
    BY <1>2, <1>3
  <2> QED BY <2>1 DEF AsWatch
<1>5. ASSUME ~loop.dispatching, loop.at # "compact" PROVE Len(fds) = Cardinality(W)
  <2> DEFINE f == [k \in 1..Len(fds) |-> AsWatch(fds[k])]
  <2>1. \A k \in 1..Len(fds) : fds[k].active
    BY <1>1, <1>5 DEF LoopInv, Kept
  <2>2. f \in Surjection(1..Len(fds), W)
    <3>1. f \in [1..Len(fds) -> W]
      BY <1>3, <2>1
    <3>2. \A w \in W : \E k \in 1..Len(fds) : f[k] = w
      BY <1>3
    <3> HIDE DEF f
    <3> QED BY <3>1, <3>2 DEF Surjection
  <2>3. f \in Injection(1..Len(fds), W)
    <3>1. f \in [1..Len(fds) -> W]
      BY <1>3, <2>1
    <3>2. \A j, k \in 1..Len(fds) : f[j] = f[k] => j = k
      BY <1>3
    <3> HIDE DEF f
    <3> QED BY <3>1, <3>2 DEF Injection, IsInjective
  <2>4. IsFiniteSet(1..Len(fds)) /\ Cardinality(1..Len(fds)) = Len(fds)
    BY <1>0, FS_Interval
  <2> HIDE DEF f
  <2> QED BY <2>2, <2>3, <2>4, FS_Surjection
<1>6. Range(hist.called) \subseteq hist.reported /\ IsInjective(hist.called)
  BY <1>0, <1>1 DEF LoopInv, Reported, Range, IsInjective
<1>7. ASSUME loop.at = "timers", NEW r \in hist.reported
      PROVE  r \in Range(hist.called) \/ ~\E w \in hist.watched : w.reg = r.reg
  <2>1. Complete(hist)
    BY <1>1, <1>7 DEF LoopInv, Ending
  <2> QED BY <1>0, <2>1 DEF Complete, Range
<1> QED BY <1>4, <1>5, <1>6, <1>7 DEF RoundFaithful, At

\* RoundFaithful, for every table and every sequence of calls in callbacks: a
\* round calls what poll reported, each registration once and none that came
\* later, and leaves out none that is still watched, although the callbacks add,
\* change and remove entries of the table that is being read (iox_loop_poll,
\* iox_fd_remove, compact).
THEOREM RoundFaithfulHolds == Spec => []RoundFaithful
<1>1. Inv => RoundFaithful
  BY FaithfulByInv
<1> QED BY <1>1, Always, PTL

\* What a step does to the list of calls: it is left alone, emptied, or made
\* longer by one of an active entry.
LEMMA CallsActive ==
  ASSUME Inv, [Next]_vars, Len(hist'.called) > Len(hist.called)
  PROVE  \E w \in hist.watched : w.reg = Last(hist'.called).reg
<1> DEFINE fds == loop.fds
           e == fds[NextFd]
           d == Append(hist.called, AsReport(e))
<1>0. /\ loop \in Loop /\ hist \in Hist /\ fds \in Seq(Slot) /\ Len(fds) \in Nat
      /\ hist.called \in Seq(Report) /\ loop.i \in Nat /\ Types /\ LoopInv
  BY DEF Inv, Types, Loop, Hist
<1>1. hist'.called # hist.called /\ hist'.called # <<>>
  <2>1. Len(hist.called) \in Nat /\ Len(<<>>) = 0
    BY <1>0
  <2> QED BY <2>1
<1>2. DispatchFd
  <2>1. \A fd, ev : FdAdd(fd, ev) \/ FdMod(fd, ev) \/ FdRemove(fd) => hist'.called = hist.called
    BY <1>0 DEF FdAdd, FdMod, FdRemove, Called, Hist
  <2>2. \A x : TimerAdd(x) \/ TimerRemove(x) \/ SignalAdd(x) \/ SignalRemove(x) => hist'.called = hist.called
    BY <1>0 DEF TimerAdd, TimerRemove, SignalAdd, SignalRemove, Called, Hist
  <2>3. Stop \/ SetUp \/ Run \/ FdsDone \/ Compact \/ ReadSignals => hist'.called = hist.called
    BY <1>0 DEF Stop, SetUp, Run, FdsDone, Compact, ReadSignals, Called, Hist
  <2>4. SignalNext \/ TimerNext \/ Return \/ Tick => hist'.called = hist.called
    BY <1>0 DEF SignalNext, TimerNext, Return, Tick, Hist
  <2>5. \A s : SignalArrives(s) => hist'.called = hist.called
    BY <1>0 DEF SignalArrives, Hist
  <2>6. Turn => hist'.called = <<>>
    BY <1>0 DEF Turn, Hist
  <2>7. PollReturns => hist'.called = <<>>
    <3>1. PollReturns => \E x : hist' = [hist EXCEPT !.called = <<>>, !.reported = x]
      BY DEF PollReturns
    <3> QED BY <1>0, <3>1 DEF Hist
  <2>8. UNCHANGED vars => hist'.called = hist.called
    BY DEF vars
  <2>9. ~Application
    BY <1>1, <2>1, <2>2, <2>3 DEF Application
  <2>10. ~Tick /\ ~(\E s \in Signals : SignalArrives(s)) /\ ~UNCHANGED vars
    BY <1>1, <2>4, <2>5, <2>8
  <2>11. Turning
    BY <2>9, <2>10 DEF Next
  <2> QED BY <1>1, <2>3, <2>4, <2>6, <2>7, <2>11 DEF Turning
<1>3. NextFd \in 1..Len(fds)
  <2>1. loop.at = "fds" /\ ReadyFds # {}
    BY <1>2 DEF DispatchFd, At
  <2>2. loop.i # 0
    <3>1. loop.at \in Round
      BY <2>1 DEF Round
    <3> QED BY <1>0, <3>1, UnderWay DEF InRound
  <2>3. ReadyFds \in SUBSET (1..Len(fds))
    BY <1>0, <2>2 DEF ReadyFds
  <2>4. ReadyFds \in SUBSET Nat
    BY <1>0, <2>3
  <2>5. \E m \in ReadyFds : \A x \in ReadyFds : m <= x
    BY <2>1, <2>4, LeastNatural
  <2>6. NextFd \in ReadyFds
    BY <2>5 DEF NextFd
  <2> QED BY <2>3, <2>6
<1>4. e.active /\ hist' = [hist EXCEPT !.called = d]
  <2>1. hist' # hist
    BY <1>1
  <2> QED BY <1>2, <2>1 DEF DispatchFd, CallFd, AsReport
<1>5. AsWatch(e) \in hist.watched
  BY <1>0, <1>3, <1>4 DEF LoopInv, Table
<1>6. AsReport(e) \in Report
  <2>1. e \in Slot
    BY <1>0, <1>3
  <2> QED BY <2>1, Hearing DEF AsReport, Report, Slot
<1>7. Last(d) = AsReport(e)
  BY <1>0, <1>6 DEF Last
<1>8. hist'.called = d
  BY <1>0, <1>4 DEF Hist
<1> HIDE DEF d, e
<1> QED BY <1>5, <1>7, <1>8 DEF AsWatch, AsReport

\* CallsWatched, for every table and every sequence of calls in callbacks: the
\* callback that iox_loop_poll calls is that of a registration which the
\* application watches at that moment, so that one which an earlier callback of
\* the round removed is not called any more, and whatever was added in its place
\* does not get its report.
THEOREM CallsWatchedHolds == Spec => CallsWatched
<1>1. Inv /\ [Next]_vars =>
        [Len(hist'.called) > Len(hist.called) =>
           \E w \in hist.watched : w.reg = Last(hist'.called).reg]_vars
  BY CallsActive
<1> QED BY <1>1, Always, PTL DEF Spec, CallsWatched

\* KeepsTime, for every sequence of calls: the heap of iox_timer.c implements
\* Alarm, so that timers ring once, in the order of their deadlines, not early
\* and not after they were removed.
THEOREM KeepsTimeHolds == Spec => KeepsTime
<1>1. Init => Clock!Init
  <2>1. Init => timers.heap = <<>> /\ timers.now = 0 /\ hist.rung = {}
    BY DEF Init
  <2>2. Range(<<>>) = {}
    BY DEF Range
  <2> QED BY <2>1, <2>2 DEF Clock!Init
<1>2. Inv /\ [Next]_vars => [Clock!Next]_<<Range(timers.heap), hist.rung, timers.now>>
  BY ClockSteps, AlarmStep DEF Inv
<1> QED BY <1>1, <1>2, Always, PTL DEF Spec, KeepsTime, Clock!Spec
================================================================================
