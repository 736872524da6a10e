------------------------------ MODULE MCStore -------------------------------
(***************************************************************************)
(* A small instance of Store: one address more than there is room for.     *)
(***************************************************************************)
EXTENDS Store

CONSTANTS a1, a2, a3, a4, a5

FiveAddresses == {a1, a2, a3, a4, a5}
=============================================================================
