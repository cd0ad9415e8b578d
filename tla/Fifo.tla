--------------------------------- MODULE Fifo ---------------------------------
(***************************************************************************)
(* What a reliable channel promises: on every lane the reader is handed    *)
(* what the writer wrote, in that order, each message once.  Nothing is    *)
(* promised about when: a lane may stop for good.                          *)
(***************************************************************************)
EXTENDS Naturals, Sequences

CONSTANTS Lanes, Messages

VARIABLES sent, got

Init ==
  /\ sent = [l \in Lanes |-> <<>>]
  /\ got = [l \in Lanes |-> <<>>]

Put(l, m) ==
  /\ sent' = [sent EXCEPT ![l] = Append(@, m)]
  /\ UNCHANGED got

Get(l) ==
  /\ Len(got[l]) < Len(sent[l])
  /\ got' = [got EXCEPT ![l] = Append(@, sent[l][Len(@) + 1])]
  /\ UNCHANGED sent

Next == \E l \in Lanes : Get(l) \/ \E m \in Messages : Put(l, m)

Spec == Init /\ [][Next]_<<sent, got>>
===============================================================================
