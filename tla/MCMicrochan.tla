------------------------------ MODULE MCMicrochan ------------------------------
(* Small instances of Microchan: the client writes, the server answers. *)
EXTENDS Microchan

MCMaxWrites == [e \in Ends |-> IF e = "client" THEN 3 ELSE 0]
===============================================================================
