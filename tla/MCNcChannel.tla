---------------------------- MODULE MCNcChannel ----------------------------
(* Model-checking instances of NcChannel: the .cfg files give the sizes.   *)
EXTENDS NcChannel

=============================================================================
