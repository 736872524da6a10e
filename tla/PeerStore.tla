----------------------------- MODULE PeerStore ------------------------------
(***************************************************************************)
(* What the store promises: a list of peers that only grows, one peer at a *)
(* time and never one it has already, and that comes back after a power    *)
(* loss with at most its newest peer missing.                              *)
(***************************************************************************)
EXTENDS Integers, Sequences

CONSTANTS Addresses,  \* Bluetooth addresses of other watches
          MaxNodes    \* capacity of the store

VARIABLES up,     \* the firmware runs
          peers,  \* the peers it knows, in the order they were paired
          saved   \* those a power loss does not take away

peerVars == <<up, peers, saved>>

PeerInit == up = FALSE /\ peers = << >> /\ saved = << >>

Start == /\ ~up
         /\ up' = TRUE
         /\ peers' = saved
         /\ UNCHANGED saved

(* A peer joins once the one before it is saved. *)
Join(a) == /\ up
           /\ peers = saved
           /\ Len(peers) < MaxNodes
           /\ \A k \in 1 .. Len(peers) : peers[k] # a
           /\ peers' = Append(peers, a)
           /\ UNCHANGED <<up, saved>>

Commit == /\ up
          /\ saved' = peers
          /\ UNCHANGED <<up, peers>>

Stop == /\ up
        /\ up' = FALSE
        /\ peers' = << >>
        /\ UNCHANGED saved

PeerNext == \/ Start
            \/ \E a \in Addresses : Join(a)
            \/ Commit
            \/ Stop

PeerSpec == PeerInit /\ [][PeerNext]_peerVars
=============================================================================
