------------------------------ MODULE MCAuthLink -------------------------------
(* An instance of AuthLink: two names, one of them of two words, two passwords. *)
EXTENDS AuthLink

MCOffers == {SrvMethods}
MCChoices == {{"REGISTER"}, {"PUBKEY", "PASSWORD"}}
MCFirstWord == [n \in {"ann", "ann lee", Host} |-> IF n = "ann lee" THEN "ann" ELSE n]
================================================================================
