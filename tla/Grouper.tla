------------------------------ MODULE Grouper -------------------------------
(***************************************************************************)
(* A watch as other watches meet it: what it advertises, whether it        *)
(* listens, and whom it stores.  Pages, buttons and gestures are gone;     *)
(* what they may do to the radio and to groupfsm.c is one action each, and *)
(* Watch implements this module.  Pairing composes two of them.            *)
(***************************************************************************)
EXTENDS GroupFsm

VARIABLE up   \* the boot is over

vars == <<radioVars, gstate, known, up>>

TypeOK == RadioTypeOK /\ GroupTypeOK /\ up \in BOOLEAN

Init == /\ \E f \in Faces : RadioReset(adv, scan, linked, f)
        /\ gstate = "IDLE" /\ known = {} /\ up = FALSE

(* The boot, with a saved configuration or without; the store keeps some of *)
(* what it held.                                                            *)
Boot(f) == /\ ~up /\ up' = TRUE
           /\ known' \in SUBSET known
           /\ UNCHANGED adv \/ StartAdverts(FALSE, f)
           /\ UNCHANGED <<scan, linked, gstate>>

(* Loss of the battery. *)
PowerLoss(f) == /\ up' = FALSE /\ gstate' = "IDLE"
                /\ RadioReset(adv', scan', linked', f)
                /\ UNCHANGED known

(* A wake-up, a key, a saved configuration or the timeout of the advertising *)
(* starts it anew, without the flag, whether a session is on or not.         *)
Advertise(f) == up /\ StartAdverts(FALSE, f) /\ UNCHANGED <<scan, linked, gstate, known, up>>

(* Tilt, untilt, inactivity: the radar comes and goes, a session stays. *)
Scan(mode) == up /\ BlecenScan(mode) /\ UNCHANGED <<adv, linked, gstate, known, up>>

(* Both buttons are held: whatever the page was, the radio listens. *)
Hold(f) == up /\ GroupingStart(f) /\ BlecenScan("LOW_SCAN") /\ UNCHANGED <<linked, known, up>>

(* A button is let go; leaving the radar stops the scan. *)
Release(f) == /\ up /\ GroupingStop(f)
              /\ UNCHANGED scan \/ BlecenScan("NO_SCAN")
              /\ UNCHANGED <<linked, known, up>>

(* A report of an advertisement of p that invites. *)
Hear(p, near) == up /\ scan # "NO_SCAN" /\ GroupingAdv(p, near) /\ UNCHANGED <<radioVars, up>>

Link == up /\ (ConnectionUp \/ ConnectionDown) /\ UNCHANGED <<scan, gstate, known, up>>

(* What the watch does by itself and by its wearer. *)
Own == \/ \E mode \in {"NO_SCAN", "LOW_SCAN"} : Scan(mode)
       \/ Link
       \/ \E f \in Faces : Boot(f) \/ PowerLoss(f) \/ Advertise(f) \/ Hold(f) \/ Release(f)

Next == Own \/ \E p \in Peers, near \in BOOLEAN : Hear(p, near)

Spec == Init /\ [][Next]_vars
-----------------------------------------------------------------------------
(* What a Grouper keeps, and Pairing relies on: the flag is on the air only  *)
(* in a session, and a watch that is down neither sends nor listens.         *)
Honest == /\ adv.on /\ adv.grouping => gstate = "GROUPING"
          /\ ~up => ~adv.on /\ scan = "NO_SCAN" /\ gstate = "IDLE"
=============================================================================
