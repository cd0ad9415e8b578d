--------------------------------- MODULE Alarm ---------------------------------
(***************************************************************************)
(* What one-shot timers promise: each rings once, not before its time, not *)
(* after it was cancelled, and never while an earlier one is pending.      *)
(***************************************************************************)
EXTENDS Naturals

VARIABLES
  pending,  \* timers armed: identifier and deadline
  rung,     \* identifiers of the timers that have rung
  clock

Init == pending = {} /\ rung = {} /\ clock = 0

Arm(id, deadline) ==
  /\ \A p \in pending : p.id # id
  /\ id \notin rung /\ deadline >= clock
  /\ pending' = pending \cup {[id |-> id, deadline |-> deadline]}
  /\ UNCHANGED <<rung, clock>>

Cancel(p) == pending' = pending \ {p} /\ UNCHANGED <<rung, clock>>

Ring(p) ==
  /\ p.deadline <= clock /\ \A q \in pending : p.deadline <= q.deadline
  /\ pending' = pending \ {p} /\ rung' = rung \cup {p.id}
  /\ UNCHANGED clock

Pass == clock' \in {clock + 1} /\ UNCHANGED <<pending, rung>>

Next ==
  \/ \E p \in pending' \ pending : Arm(p.id, p.deadline)
  \/ \E p \in pending : Cancel(p) \/ Ring(p)
  \/ Pass

Spec == Init /\ [][Next]_<<pending, rung, clock>>
================================================================================
