------------------------------ MODULE MCRadar -------------------------------
(***************************************************************************)
(* Signals for the small instances of Radar: one behind the last circle,   *)
(* the last one on it, one just too weak for an invitation and one just    *)
(* strong enough.  A peer saved before it has a strength reads 0.          *)
(***************************************************************************)
EXTENDS Radar

TooWeak == -50
Signals == {-110, -109, -50, -49}
Invitation == {-49}

(* The memory behind i2idx: a number that is a place, and one that is none. *)
SomeMemory == {0, 64}
=============================================================================
