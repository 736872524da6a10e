------------------------------ MODULE MCWatch -------------------------------
(***************************************************************************)
(* Small instances of Watch: one or two avatars, one peer or none, one message.   *)
(***************************************************************************)
EXTENDS Watch

CONSTANTS hello, p1   \* a message and a peer

TwoAvatars == 0 .. 1
OneAvatar == 0 .. 0
OneMessage == {hello}
NoPeers == {}
OnePeer == {p1}
AllGestures == AccelEvents
Untilt == {"UNTILT60"}
=============================================================================
