--------------------------- MODULE MCCheckoutPage ---------------------------
(* Small instances of CheckoutPage for TLC. *)
EXTENDS CheckoutPage

CONSTANTS r1, r2
=============================================================================
