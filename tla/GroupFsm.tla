------------------------------ MODULE GroupFsm ------------------------------
(***************************************************************************)
(* The grouping state machine (groupfsm.c): while grouping, the watch      *)
(* flags its advertisements as an invitation and stores every near peer    *)
(* whose advertisement invites.                                            *)
(***************************************************************************)
EXTENDS Radio, Integers, FiniteSets

CONSTANTS Peers,    \* Bluetooth addresses of other watches
          MaxNodes  \* capacity of the store

ASSUME NodesAssumption == MaxNodes \in Nat \ {0}

VARIABLES gstate,  \* cur_state of groupfsm.c
          known    \* addresses in the store

GroupTypeOK == /\ gstate \in {"IDLE", "GROUPING"}
               /\ known \subseteq Peers

(* groupfsm_process_event(GROUPING_START) *)
GroupingStart(face) ==
  /\ gstate' = "GROUPING"
  /\ IF gstate = "IDLE" THEN StartAdverts(TRUE, face) ELSE UNCHANGED adv

(* Mutant: leaving GROUPING forgets the flag in the advertisement. *)
GroupingStopSilent(face) == gstate' = "IDLE" /\ UNCHANGED adv

(* groupfsm_process_event(GROUPING_STOP) *)
GroupingStop(face) ==
  /\ gstate' = "IDLE"
  /\ IF gstate = "GROUPING" THEN StartAdverts(FALSE, face) ELSE UNCHANGED adv

(* Mutant: the last place of the store is never given away. *)
StoreAddButLast(p) ==
  known' = IF Cardinality(known) + 1 < MaxNodes THEN known \union {p} ELSE known

(* grpr_store_add: refuses every address once the store is full. *)
StoreAdd(p) ==
  known' = IF Cardinality(known) < MaxNodes THEN known \union {p} ELSE known

(* Mutant: the state of the machine is not consulted. *)
GroupingAdvAlways(p, near) ==
  (IF near THEN StoreAdd(p) ELSE UNCHANGED known) /\ UNCHANGED gstate

(***************************************************************************)
(* grpr_process_adverts of an advertisement of p that invites; near means  *)
(* rssi > GROUPER_MIN_RSSI_INVITATION.  The refresh of the node's          *)
(* timestamp, rssi and avatar that follows is the subject of Radar.        *)
(***************************************************************************)
GroupingAdv(p, near) ==
  /\ IF gstate = "GROUPING" /\ near THEN StoreAdd(p) ELSE UNCHANGED known
  /\ UNCHANGED gstate
=============================================================================
