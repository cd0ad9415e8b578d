--------------------------------- MODULE MCIox ---------------------------------
(* An instance of Iox: two descriptors, one of them watched from the start, and *)
(* timers armed in an order that leaves a late one above an early one's place   *)
(* in the heap.                                                                 *)
EXTENDS Iox

MCEventSets == {{"READ"}, {"WRITE"}}
MCOneWatch == <<"a">>
MCScripts == {<<0, 2, 1, 2, 2, 2, 1>>}
================================================================================
