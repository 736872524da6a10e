----------------------------- MODULE MCRefusal ------------------------------
(***************************************************************************)
(* The small instances of Watch with its history of refusals.              *)
(***************************************************************************)
EXTENDS MCWatch, Refusal
=============================================================================
