----------------------------- MODULE MCResidency -----------------------------
(* Instances of Residency. *)
EXTENDS Residency, TLC

CONSTANTS a, b, c
TheHot == <<a, b>>
=============================================================================
