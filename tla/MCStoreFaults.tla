--------------------------- MODULE MCStoreFaults ----------------------------
(***************************************************************************)
(* A small instance of StoreFaults: one address more than there is room.   *)
(***************************************************************************)
EXTENDS StoreFaults

CONSTANTS a1, a2, a3, a4, a5

FiveAddresses == {a1, a2, a3, a4, a5}
=============================================================================
