----------------------------- MODULE MCBrowser -----------------------------
(* A small instance of Browser for TLC. *)
EXTENDS Browser, TLC

CONSTANTS e1, e2, c1, c2, dune

MCTexts == {"", dune}
MCTotalPages == ("" :> 2) @@ (dune :> 1)
=============================================================================
