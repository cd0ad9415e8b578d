------------------------------ MODULE MCNcConn ------------------------------
(***************************************************************************)
(* Instances of NcConn for TLC: the constants are in the cfg files.        *)
(***************************************************************************)
EXTENDS NcConn
=============================================================================
