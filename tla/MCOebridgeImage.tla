-------------------------- MODULE MCOebridgeImage --------------------------
(* One package of :real, one of :extra, and one failure. *)
EXTENDS OebridgeImage
=============================================================================
