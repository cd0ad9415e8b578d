---------------------------------- MODULE Iox ----------------------------------
(***************************************************************************)
(* The event loop of the example programs: iox_loop.c polls a table of     *)
(* descriptors, iox_timer.c keeps one-shot timers in the binary heap of    *)
(* pq.h, and iox_signal.c turns signals into bytes of a pipe that the loop *)
(* watches.  The application runs in callbacks only, where it may add,     *)
(* change and remove whatever it likes, and asks for one registration of a *)
(* descriptor or a signal at a time, as the programs here do.              *)
(***************************************************************************)
EXTENDS Naturals, Sequences, FiniteSets, SequencesExt

CONSTANTS
  Fds,         \* descriptors of the application
  EventSets,   \* what it watches them for
  Signals,
  IOX_MAX_FDS, \* one entry is the signal pipe's
  IOX_MAX_SIGNALS,
  SigRead,     \* signals that one read of the pipe takes
  PipeCap,     \* bytes that the pipe holds
  Scripts,     \* delays of the timers that are armed before the loop runs
  Watches,     \* the descriptors that are added before, each to be read
  Delays,      \* delays of the timers that are armed later
  MaxOps,      \* bound: calls of the application
  MaxSignals,  \* bound: signals delivered
  MaxNow       \* bound: the clock

Pipe == "signal pipe"

\* The application watches each of its descriptors once, and not the pipe.
ASSUME IoxAssumption ==
  /\ IOX_MAX_FDS \in Nat \ {0} /\ IOX_MAX_SIGNALS \in Nat /\ SigRead \in Nat \ {0}
  /\ PipeCap \in Nat \ {0}
  /\ EventSets \subseteq SUBSET {"READ", "WRITE"} /\ Delays \subseteq Nat
  /\ Scripts \subseteq Seq(0..MaxNow) /\ Watches \in Seq(Fds) /\ IsInjective(Watches)
  /\ Pipe \notin Fds /\ MaxOps \in Nat /\ MaxSignals \in Nat /\ MaxNow \in Nat

VARIABLES
  loop,    \* struct iox_loop, and where iox_loop_run is
  timers,  \* the heap, the next identifier and the clock
  sig,     \* the table, the pipe and what the callback has read of it
  hist     \* what the application asked for and what it was told

vars == <<loop, timers, sig, hist>>

Entry(fd, reg, events) ==
  [fd |-> fd, reg |-> reg, events |-> events, revents |-> {}, active |-> TRUE]

-------------------------------------------------------------------------------
(* pq.h: the heap as a sequence, its root at 1. *)

Deeper(a, b) == a.deadline > b.deadline

\* The places from k up to the root.
Ancestors[k \in Nat] == IF k = 0 THEN {} ELSE {k} \cup Ancestors[k \div 2]

\* siftup_: the hole at i moves up while the entry above it belongs below e, and
\* e is put where it stops.
Rises(h, k, e) == k > 1 /\ Deeper(h[k \div 2], e)
SiftUp(h, i, e) ==
  LET holes == {k \in Ancestors[i] : \A a \in Ancestors[i] : a > k => Rises(h, a, e)}
  IN  [k \in 1..Len(h) |-> IF k \notin holes THEN h[k]
                           ELSE IF Rises(h, k, e) THEN h[k \div 2] ELSE e]

\* siftdown_: the hole at i moves down to the child that belongs above the other,
\* while that belongs above e.
Child(h, k) == IF 2 * k < Len(h) /\ Deeper(h[2 * k], h[2 * k + 1]) THEN 2 * k + 1 ELSE 2 * k
Sinks(h, k, e) == 2 * k <= Len(h) /\ Deeper(e, h[Child(h, k)])
SiftDown(h, i, e) ==
  LET holes == {k \in 1..Len(h) :
                  /\ i \in Ancestors[k]
                  /\ \A a \in Ancestors[k] :
                       a > i => a = Child(h, a \div 2) /\ Sinks(h, a \div 2, e)}
  IN  [k \in 1..Len(h) |-> IF k \notin holes THEN h[k]
                           ELSE IF Sinks(h, k, e) THEN h[Child(h, k)] ELSE e]

\* A full queue grows, so that there is always room.
Enqueue(h, e) == SiftUp(Append(h, e), Len(h) + 1, e)

\* Mutant of HeapRemove: the last entry is only ever moved down.
DownwardRemove(h, i) ==
  IF i = Len(h) THEN Front(h) ELSE SiftDown(Front(h), i, Last(h))

HeapRemove(h, i) ==
  IF i = Len(h) THEN Front(h)
  ELSE IF i > 1 /\ Deeper(h[i \div 2], Last(h)) THEN SiftUp(Front(h), i, Last(h))
  ELSE SiftDown(Front(h), i, Last(h))

-------------------------------------------------------------------------------
\* iox_loop_new, and the descriptors that main adds.
Init ==
  /\ loop = [fds |-> <<Entry(Pipe, 0, {"READ"})>> \o
                      [k \in 1..Len(Watches) |-> Entry(Watches[k], k, {"READ"})],
             running |-> FALSE, dispatching |-> FALSE, compact_needed |-> FALSE,
             at |-> "setup", i |-> 0, n |-> 0, t |-> 0]
  /\ timers = [heap |-> <<>>, next_id |-> 1, now |-> 0]
  /\ sig = [table |-> <<>>, pipe |-> <<>>, buf |-> <<>>, arrived |-> 0]
  /\ \E script \in Scripts :
       hist = [watched |-> {[fd |-> e.fd, reg |-> e.reg, events |-> e.events] : e \in Range(loop.fds)},
               regs |-> Len(Watches) + 1, ops |-> 0, script |-> script,
               reported |-> {}, called |-> <<>>, rung |-> {}, unheard |-> {}]

-------------------------------------------------------------------------------
(* What the application may call, before the loop runs and in any callback. *)

InApplication == loop.at \in {"setup", "fd callback", "signal callback", "timer callback", "idle"}
Calls == InApplication /\ hist.script = <<>> /\ hist.ops < MaxOps
Called(h) == hist' = [h EXCEPT !.ops = @ + 1]

Watched(fd) == {w \in hist.watched : w.fd = fd}
\* The first active entry of fd, as the scans of iox_fd_mod and iox_fd_remove find it.
IndexOf(fd) == CHOOSE k \in 1..Len(loop.fds) : loop.fds[k].fd = fd /\ loop.fds[k].active

\* iox_fd_add: entries that wait to be removed still take up room.
FdAdd(fd, events) ==
  /\ Calls /\ Watched(fd) = {}
  /\ IF Len(loop.fds) >= IOX_MAX_FDS THEN Called(hist) /\ UNCHANGED loop
     ELSE /\ loop' = [loop EXCEPT !.fds = Append(@, Entry(fd, hist.regs, events))]
          /\ Called([hist EXCEPT !.regs = @ + 1,
               !.watched = @ \cup {[fd |-> fd, reg |-> hist.regs, events |-> events]}])
  /\ UNCHANGED <<timers, sig>>

FdMod(fd, events) ==
  /\ Calls /\ Watched(fd) # {}
  /\ loop' = [loop EXCEPT !.fds[IndexOf(fd)].events = events]
  /\ Called([hist EXCEPT !.watched = {[w EXCEPT !.events = IF w.fd = fd THEN events ELSE @] :
                                        w \in hist.watched}])
  /\ UNCHANGED <<timers, sig>>

\* Entry k is replaced by the last one.
SwapOut(fds, k) == IF k = Len(fds) THEN Front(fds) ELSE Front([fds EXCEPT ![k] = Last(fds)])

\* Mutant of FdRemove: the entry goes at once, even while the table is being read.
EagerFdRemove(fd) ==
  /\ Calls /\ Watched(fd) # {}
  /\ loop' = [loop EXCEPT !.fds = SwapOut(@, IndexOf(fd))]
  /\ Called([hist EXCEPT !.watched = @ \ Watched(fd)])
  /\ UNCHANGED <<timers, sig>>

\* iox_fd_remove: put off while a round of callbacks is under way.
FdRemove(fd) ==
  /\ Calls /\ Watched(fd) # {}
  /\ loop' = IF loop.dispatching
             THEN [loop EXCEPT !.fds[IndexOf(fd)].active = FALSE, !.compact_needed = TRUE]
             ELSE [loop EXCEPT !.fds = SwapOut(@, IndexOf(fd))]
  /\ Called([hist EXCEPT !.watched = @ \ Watched(fd)])
  /\ UNCHANGED <<timers, sig>>

\* iox_timer_add.
Armed(delay) ==
  [timers EXCEPT !.next_id = @ + 1,
     !.heap = Enqueue(@, [id |-> timers.next_id, deadline |-> timers.now + delay])]

TimerAdd(delay) ==
  /\ Calls /\ timers.now + delay <= MaxNow /\ timers' = Armed(delay)
  /\ Called(hist) /\ UNCHANGED <<loop, sig>>

\* What main arms before it calls iox_loop_run.
SetUp ==
  /\ loop.at = "setup" /\ hist.script # <<>> /\ timers' = Armed(Head(hist.script))
  /\ hist' = [hist EXCEPT !.script = Tail(@)] /\ UNCHANGED <<loop, sig>>

\* iox_timer_remove: a timer that is gone is not found.
TimerRemove(id) ==
  /\ Calls /\ id < timers.next_id
  /\ LET found == {k \in 1..Len(timers.heap) : timers.heap[k].id = id}
     IN  timers' = IF found = {} THEN timers
                   ELSE [timers EXCEPT !.heap = HeapRemove(@, CHOOSE k \in found : TRUE)]
  /\ Called(hist) /\ UNCHANGED <<loop, sig>>

\* iox_signal_add: an entry is used once, also after iox_signal_remove.
Handled(s) == \E k \in 1..Len(sig.table) : sig.table[k] = [signo |-> s, active |-> TRUE]
SignalAdd(s) ==
  /\ Calls /\ ~Handled(s)
  /\ sig' = IF Len(sig.table) >= IOX_MAX_SIGNALS THEN sig
            ELSE [sig EXCEPT !.table = Append(@, [signo |-> s, active |-> TRUE])]
  /\ Called(hist) /\ UNCHANGED <<loop, timers>>

SignalRemove(s) ==
  /\ Calls /\ Handled(s)
  /\ sig' = [sig EXCEPT !.table =
               [k \in DOMAIN @ |-> [@[k] EXCEPT !.active = @ /\ sig.table[k].signo # s]]]
  /\ Called([hist EXCEPT !.unheard = @ \ {s}]) /\ UNCHANGED <<loop, timers>>

\* iox_loop_stop; before iox_loop_run it is forgotten.
Stop ==
  /\ Calls /\ loop' = [loop EXCEPT !.running = FALSE]
  /\ Called(hist) /\ UNCHANGED <<timers, sig>>

-------------------------------------------------------------------------------
(* The loop. *)

At(place) == loop.at = place
Go(l, place) == loop' = [l EXCEPT !.at = place]

Run ==
  /\ At("setup") /\ hist.script = <<>> /\ Go([loop EXCEPT !.running = TRUE], "top")
  /\ UNCHANGED <<timers, sig, hist>>

\* while (loop->running): poll, or leave.  What the last round left in revents
\* and in the locals is not read again.
Turn ==
  /\ At("top")
  /\ Go([loop EXCEPT !.i = 0, !.n = 0, !.t = 0,
           !.fds = [k \in DOMAIN @ |-> [@[k] EXCEPT !.revents = {}]]],
        IF loop.running THEN "poll" ELSE "left")
  /\ hist' = [hist EXCEPT !.reported = {}, !.called = <<>>]
  /\ UNCHANGED <<timers, sig>>

\* iox_events_from_poll: a hangup is something to read.
EventsFromPoll(revents) ==
  (IF revents \cap {"READ", "HUP"} # {} THEN {"READ"} ELSE {}) \cup (revents \cap {"WRITE"})

\* What poll may report of an entry.  Of POLLNVAL the callback hears nothing.
Reports(e) ==
  IF e.fd = Pipe THEN {IF sig.pipe = <<>> THEN {} ELSE {"READ"}}
  ELSE (SUBSET e.events) \cup {{"HUP"}, {"NVAL"}}

\* poll returns when something is ready, or when the wait of iox_timer_next_ms is
\* over, which is rounded up to the deadline.
PollReturns ==
  /\ At("poll")
  /\ \E revents \in [1..Len(loop.fds) -> UNION {Reports(e) : e \in Range(loop.fds)}] :
       LET fds == [k \in 1..Len(loop.fds) |-> [loop.fds[k] EXCEPT !.revents = revents[k]]]
           ready == {k \in 1..Len(fds) : revents[k] # {}}
       IN  /\ \A k \in 1..Len(fds) : revents[k] \in Reports(loop.fds[k])
           /\ \/ ready # {}
              \/ timers.heap # <<>> /\ timers.heap[1].deadline <= timers.now
           /\ Go([loop EXCEPT !.fds = fds, !.n = Cardinality(ready), !.i = 1,
                              !.dispatching = TRUE], "fds")
           /\ hist' = [hist EXCEPT !.called = <<>>,
                !.reported = {[reg |-> fds[k].reg, events |-> EventsFromPoll(revents[k])] :
                                k \in {m \in ready : EventsFromPoll(revents[m]) # {}}}]
  /\ UNCHANGED <<timers, sig>>

\* The for loop of iox_loop_poll, up to the next entry that is ready: its place,
\* the loop behind it, and the callback.
ReadyFds == {m \in loop.i..Len(loop.fds) : loop.fds[m].revents # {}}
NextFd == CHOOSE m \in ReadyFds : \A x \in ReadyFds : m <= x
PastFd == [loop EXCEPT !.i = NextFd + 1, !.n = @ - 1]
CallFd(e) ==
  /\ Go(PastFd, IF e.fd = Pipe THEN "pipe callback" ELSE "fd callback")
  /\ hist' = [hist EXCEPT !.called =
                Append(@, [reg |-> e.reg, events |-> EventsFromPoll(e.revents)])]

\* Mutant of DispatchFd: whether the entry is active is not looked at.
DispatchAnyFd ==
  LET e == loop.fds[NextFd]
  IN  /\ At("fds") /\ loop.n > 0 /\ ReadyFds # {}
      /\ IF EventsFromPoll(e.revents) = {} THEN loop' = PastFd /\ UNCHANGED hist
         ELSE CallFd(e)
      /\ UNCHANGED <<timers, sig>>

DispatchFd ==
  LET e == loop.fds[NextFd]
  IN  /\ At("fds") /\ loop.n > 0 /\ ReadyFds # {}
      /\ IF ~e.active \/ EventsFromPoll(e.revents) = {} THEN loop' = PastFd /\ UNCHANGED hist
         ELSE CallFd(e)
      /\ UNCHANGED <<timers, sig>>

\* The end of the round, and the time that iox_timer_dispatch goes by.
FdsDone ==
  /\ At("fds")
  /\ loop.n = 0 \/ \A k \in loop.i..Len(loop.fds) : loop.fds[k].revents = {}
  /\ Go([loop EXCEPT !.dispatching = FALSE, !.compact_needed = FALSE, !.t = timers.now, !.i = 1],
        IF loop.compact_needed THEN "compact" ELSE "timers")
  /\ UNCHANGED <<timers, sig, hist>>

\* compact, one turn of its loop: an entry swapped in is looked at again.
Compact ==
  /\ At("compact")
  /\ IF loop.i > Len(loop.fds) THEN Go(loop, "timers")
     ELSE IF loop.fds[loop.i].active THEN loop' = [loop EXCEPT !.i = @ + 1]
     ELSE loop' = [loop EXCEPT !.fds = SwapOut(@, loop.i)]
  /\ UNCHANGED <<timers, sig, hist>>

\* sig_pipe_cb: as many bytes as its buffer holds, the last one first.
ReadSignals ==
  /\ At("pipe callback")
  /\ LET n == IF Len(sig.pipe) < SigRead THEN Len(sig.pipe) ELSE SigRead
     IN  sig' = [sig EXCEPT !.buf = SubSeq(sig.pipe, 1, n),
                            !.pipe = SubSeq(sig.pipe, n + 1, Len(sig.pipe))]
  /\ Go(loop, "signals") /\ UNCHANGED <<timers, hist>>

\* Mutant of SignalNext: the byte at the start of the buffer is left out.
ShortSignalNext ==
  /\ At("signals")
  /\ IF Len(sig.buf) <= 1 THEN Go(loop, "fds") /\ UNCHANGED <<sig, hist>>
     ELSE /\ sig' = [sig EXCEPT !.buf = Front(sig.buf)]
          /\ IF Handled(Last(sig.buf))
               THEN /\ Go(loop, "signal callback")
                    /\ hist' = [hist EXCEPT !.unheard = @ \ {Last(sig.buf)}]
               ELSE UNCHANGED <<loop, hist>>
  /\ UNCHANGED timers

SignalNext ==
  /\ At("signals")
  /\ IF sig.buf = <<>> THEN Go(loop, "fds") /\ UNCHANGED <<sig, hist>>
     ELSE /\ sig' = [sig EXCEPT !.buf = Front(sig.buf)]
          /\ IF Handled(Last(sig.buf))
               THEN /\ Go(loop, "signal callback")
                    /\ hist' = [hist EXCEPT !.unheard = @ \ {Last(sig.buf)}]
               ELSE UNCHANGED <<loop, hist>>
  /\ UNCHANGED timers

\* iox_timer_dispatch: what is due at t, and what callbacks make due by then.
TimerNext ==
  /\ At("timers")
  /\ IF timers.heap # <<>> /\ timers.heap[1].deadline <= loop.t
       THEN /\ timers' = [timers EXCEPT !.heap = HeapRemove(@, 1)]
            /\ hist' = [hist EXCEPT !.rung = @ \cup {timers.heap[1].id}]
            /\ Go(loop, "timer callback")
       ELSE Go(loop, "idle") /\ UNCHANGED <<timers, hist>>
  /\ UNCHANGED sig

\* A callback returns to where it was called.
Return ==
  /\ \/ At("fd callback") /\ Go(loop, "fds")
     \/ At("signal callback") /\ Go(loop, "signals")
     \/ At("timer callback") /\ Go(loop, "timers")
     \/ At("idle") /\ Go(loop, "top")
  /\ UNCHANGED <<timers, sig, hist>>

\* sig_handler, in whatever the program is doing: a byte for the pipe, if it has
\* room.  A poll is interrupted, and iox_loop_run begins its next turn.
SignalArrives(s) ==
  LET room == Len(sig.pipe) < PipeCap
  IN  /\ Handled(s) /\ sig.arrived < MaxSignals /\ ~At("left")
      /\ sig' = [sig EXCEPT !.pipe = IF room THEN Append(@, s) ELSE @, !.arrived = @ + 1]
      /\ hist' = [hist EXCEPT !.unheard = IF room THEN @ \cup {s} ELSE @]
      /\ IF At("poll") THEN Go(loop, "top") ELSE UNCHANGED loop
      /\ UNCHANGED timers

\* Time passes while the program waits and, as it seems to timers, in their
\* callbacks.
Tick ==
  /\ timers.now < MaxNow /\ loop.at \in {"poll", "timer callback"}
  /\ timers' = [timers EXCEPT !.now = @ + 1]
  /\ UNCHANGED <<loop, sig, hist>>

Application ==
  \/ \E fd \in Fds : FdRemove(fd) \/ \E ev \in EventSets : FdAdd(fd, ev) \/ FdMod(fd, ev)
  \/ \E d \in Delays : TimerAdd(d)
  \/ \E id \in 1..timers.next_id : TimerRemove(id)
  \/ \E s \in Signals : SignalAdd(s) \/ SignalRemove(s)
  \/ Stop

Turning ==
  \/ SetUp \/ Run \/ Turn \/ PollReturns \/ DispatchFd \/ FdsDone \/ Compact
  \/ ReadSignals \/ SignalNext \/ TimerNext \/ Return

Next == Application \/ Turning \/ Tick \/ \E s \in Signals : SignalArrives(s)

Spec == Init /\ [][Next]_vars

(* The program is one thread: its callbacks return and the loop goes on; time  *)
(* passes.                                                                     *)
FairSpec == Spec /\ WF_vars(Turning) /\ SF_vars(Tick)

-------------------------------------------------------------------------------
(* A round calls what poll reported of descriptors that were in the table then, *)
(* each registration once; and when it is over it has left out none that is     *)
(* still watched.  The table is what the application asked for, and exactly     *)
(* that once a round is compacted (iox_loop_poll, iox_fd_remove).               *)
RoundFaithful ==
  /\ {[fd |-> e.fd, reg |-> e.reg, events |-> e.events] :
        e \in {x \in Range(loop.fds) : x.active}} = hist.watched
  /\ ~loop.dispatching /\ ~At("compact") => Len(loop.fds) = Cardinality(hist.watched)
  /\ Range(hist.called) \subseteq hist.reported /\ IsInjective(hist.called)
  /\ At("timers") =>
       \A r \in hist.reported :
         r \in Range(hist.called) \/ ~\E w \in hist.watched : w.reg = r.reg

(* A descriptor is called only for a registration that is watched at that       *)
(* moment: not for one that an earlier callback of the round removed, nor for   *)
(* one that has taken its place (the active test of iox_loop_poll).             *)
CallsWatched ==
  [][Len(hist'.called) > Len(hist.called) =>
       \E w \in hist.watched : w.reg = Last(hist'.called).reg]_vars

(* The heap keeps the promise of Alarm through any sequence of arming, firing  *)
(* and removal from the middle (pq.h, iox_timer_dispatch).                     *)
Clock == INSTANCE Alarm WITH
  pending <- Range(timers.heap), rung <- hist.rung, clock <- timers.now
KeepsTime == Clock!Spec

(* The timers run out, rung or cancelled, and every signal whose byte the pipe  *)
(* took gets its callback, unless the loop is left: descriptors that are always *)
(* ready and callbacks that arm more timers do not starve them, and an          *)
(* interrupted poll loses nothing.                                              *)
Served ==
  /\ timers.heap # <<>> ~> timers.heap = <<>> \/ At("left")
  /\ \A s \in Signals : s \in hist.unheard ~> s \notin hist.unheard \/ At("left")

(* iox_signal.c:33: "if pipe is full, signal is already pending".  It does not  *)
(* hold of the code where two signals have handlers: the pipe may be full of    *)
(* the bytes of the other.                                                      *)
FullPipePending ==
  [][\A s \in Signals : SignalArrives(s) => s \in Range(sig'.pipe)]_vars
================================================================================
