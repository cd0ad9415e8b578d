------------------------------- MODULE MCNcAuth -------------------------------
(* Small instances of NcAuth: what the store offers and what players choose. *)
EXTENDS NcAuth

MCOffers == {{}, {"PUBKEY", "PASSWORD", "REGISTER"}, {"PASSWORD", "INTERACTIVE"}}
MCChoices == {{}, {"PASSWORD"}, {"REGISTER"}, {"INTERACTIVE", "REGISTER"}}
===============================================================================
