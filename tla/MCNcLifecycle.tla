----------------------------- MODULE MCNcLifecycle -----------------------------
(* A small instance of NcLifecycle: each end opens a channel, and their OPENs  *)
(* cross or find the pool of one slot taken.                                   *)
EXTENDS NcLifecycle

MCMaxOpens == [e \in Ends |-> 1]
===============================================================================
