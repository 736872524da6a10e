------------------------------- MODULE Radio --------------------------------
(***************************************************************************)
(* What the watch asks of the Bluetooth stack: advertising (adverts.c),    *)
(* scanning (blecen_Scan) and the link a phone may hold with it (main.c).  *)
(***************************************************************************)

CONSTANT Faces   \* the avatars an advertisement may carry

VARIABLES adv,     \* advertising: running, and the data it carries
          scan,    \* blecen_scan
          linked   \* a connection is up

radioVars == <<adv, scan, linked>>

(* muchi_service_data: FLAG_GROUPING of the state byte, and the avatar *)
Adverts == [on : BOOLEAN, grouping : BOOLEAN, face : Faces]

RadioTypeOK == /\ adv \in Adverts
               /\ scan \in {"NO_SCAN", "LOW_SCAN"}
               /\ linked \in BOOLEAN

(* No advertisement data was ever set, blecen_Create and the blecen_Scan     *)
(* after it leave the scan off.                                              *)
RadioReset(a, s, link, face) ==
  a = [on |-> FALSE, grouping |-> FALSE, face |-> face] /\ s = "NO_SCAN" /\ link = FALSE

(* grpr_start_adverts(flags), g_avatar being face *)
StartAdverts(grouping, face) ==
  adv' = [on |-> TRUE, grouping |-> grouping, face |-> face]

(* blecen_Scan(mode): the scan and its timer are stopped, then started anew  *)
(* unless the mode is NO_SCAN; a running scan is a running timer.            *)
BlecenScan(mode) == scan' = mode

(* Mutant: the default callback of blecen.c runs. *)
ScanTimedOutStops == scan # "NO_SCAN" /\ scan' = "NO_SCAN"

(***************************************************************************)
(* The scan timer expires.  blecen_ScanTimerCb would lower the scan, but   *)
(* it hands over to blecen_usertimerCb, and muchi_timer_callback only      *)
(* traces: the scan goes on.                                               *)
(***************************************************************************)
ScanTimedOut == scan # "NO_SCAN" /\ UNCHANGED scan

(* A phone connects: the controller stops advertising; the handler         *)
(* muchi_connection_up only cancels a connection attempt of our own.       *)
ConnectionUp == /\ ~linked /\ adv.on
                /\ linked' = TRUE
                /\ adv' = [adv EXCEPT !.on = FALSE]

(* The link drops: muchi_connection_down does not advertise again. *)
ConnectionDown == linked /\ linked' = FALSE /\ UNCHANGED adv
=============================================================================
