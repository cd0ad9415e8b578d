------------------------------ MODULE MCNcCrypto -------------------------------
(* An instance of NcCrypto in which one of the ends is started again. *)
EXTENDS NcCrypto, TLC

CONSTANTS p, q

MCPsks == {p, q}

\* Nothing tells one pre-shared key from another but equality.
Symmetric == Permutations(MCPsks)
===============================================================================
