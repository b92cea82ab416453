----------------------------- MODULE MCDelivery -----------------------------
(* Values of the constants of ResultDelivery for TLC. *)
EXTENDS ResultDelivery

CONSTANTS t1, s1, s2, e1, c1
=============================================================================
