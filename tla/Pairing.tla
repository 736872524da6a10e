------------------------------ MODULE Pairing -------------------------------
(***************************************************************************)
(* Two watches, a and b, within reach of each other, and other watches     *)
(* that want to be stored as well.  Each of the two is a Grouper.  What    *)
(* one advertises reaches the other, if that scans, as a report: a         *)
(* snapshot of the advertisement with its strength, which waits in the     *)
(* stack until the callback muchi_advertisement_report looks at it, and    *)
(* by then the sender may have let go, restarted or lost its power.        *)
(***************************************************************************)
EXTENDS Integers, Sequences, FiniteSets

CONSTANTS a, b,      \* the addresses of the two watches
          Peers,     \* the addresses of all watches
          Faces, MaxNodes,
          MaxAir     \* room for reports in the stack

ASSUME PairAssumption == a \in Peers /\ b \in Peers /\ a # b
ASSUME RoomAssumption == MaxNodes \in Nat \ {0} /\ MaxAir \in Nat \ {0}

VARIABLES advA, scanA, linkedA, gstateA, knownA, upA,
          advB, scanB, linkedB, gstateB, knownB, upB,
          toA, toB,   \* reports waiting at a, at b
          close       \* the wearers hold the watches together

A == INSTANCE Grouper WITH adv <- advA, scan <- scanA, linked <- linkedA,
                           gstate <- gstateA, known <- knownA, up <- upA
B == INSTANCE Grouper WITH adv <- advB, scan <- scanB, linked <- linkedB,
                           gstate <- gstateB, known <- knownB, up <- upB

varsA == <<advA, scanA, linkedA, gstateA, knownA, upA>>
varsB == <<advB, scanB, linkedB, gstateB, knownB, upB>>
vars == <<varsA, varsB, toA, toB, close>>

Strangers == Peers \ {a, b}

Reports == [from : Peers, grouping : BOOLEAN, near : BOOLEAN]

TypeOK == /\ A!TypeOK /\ B!TypeOK
          /\ toA \in Seq(Reports) /\ toB \in Seq(Reports)
          /\ Len(toA) <= MaxAir /\ Len(toB) <= MaxAir
          /\ close \in BOOLEAN

Init == /\ A!Init /\ B!Init
        /\ toA = << >> /\ toB = << >>
        /\ close = FALSE

(* The stack reports nothing once the scan is off (blecm_setScanEnable). *)
Kept(reports, scan) == IF scan = "NO_SCAN" THEN << >> ELSE reports

(* A watch does something of its own. *)
StepA == A!Own /\ toA' = Kept(toA, scanA') /\ UNCHANGED <<varsB, toB, close>>
StepB == B!Own /\ toB' = Kept(toB, scanB') /\ UNCHANGED <<varsA, toA, close>>

(* The wearers hold the watches together, or apart. *)
Move == close' = ~close /\ UNCHANGED <<varsA, varsB, toA, toB>>

(* Mutant: the stack does not look for room. *)
ArriveAlways(reports, r) == reports' = Append(reports, r)

(* A report arrives; one that finds no room is not a step. *)
Arrive(reports, r) == Len(reports) < MaxAir /\ reports' = Append(reports, r)

Report(p, grouping, near) == [from |-> p, grouping |-> grouping, near |-> near]

(* An advertisement of one watch reaches the other, with any strength when   *)
(* they are close and a weak one (GROUPER_MIN_RSSI_INVITATION) when not.     *)
ReachB(near) == /\ advA.on /\ scanB # "NO_SCAN" /\ (near => close)
                /\ Arrive(toB, Report(a, advA.grouping, near))
                /\ UNCHANGED <<varsA, varsB, toA, close>>
ReachA(near) == /\ advB.on /\ scanA # "NO_SCAN" /\ (near => close)
                /\ Arrive(toA, Report(b, advB.grouping, near))
                /\ UNCHANGED <<varsA, varsB, toB, close>>

(* A third watch invites, right beside one of the two. *)
Intrude(p) == \/ /\ scanA # "NO_SCAN" /\ Arrive(toA, Report(p, TRUE, TRUE))
                 /\ UNCHANGED <<varsA, varsB, toB, close>>
              \/ /\ scanB # "NO_SCAN" /\ Arrive(toB, Report(p, TRUE, TRUE))
                 /\ UNCHANGED <<varsA, varsB, toA, close>>

(* muchi_advertisement_report *)
HearA == /\ toA # << >> /\ toA' = Tail(toA)
         /\ IF Head(toA).grouping THEN A!Hear(Head(toA).from, Head(toA).near)
                                  ELSE UNCHANGED varsA
         /\ UNCHANGED <<varsB, toB, close>>
HearB == /\ toB # << >> /\ toB' = Tail(toB)
         /\ IF Head(toB).grouping THEN B!Hear(Head(toB).from, Head(toB).near)
                                  ELSE UNCHANGED varsB
         /\ UNCHANGED <<varsA, toA, close>>

Next == \/ StepA \/ StepB
        \/ Move
        \/ \E near \in BOOLEAN : ReachA(near) \/ ReachB(near)
        \/ \E p \in Strangers : Intrude(p)
        \/ HearA \/ HearB

(***************************************************************************)
(* A waiting report is looked at.  Of the advertisements repeated every    *)
(* second to a watch that listens half of the time, close by, one gets     *)
(* through.                                                                *)
(***************************************************************************)
Fairness == /\ WF_vars(HearA) /\ WF_vars(HearB)
            /\ SF_vars(ReachA(TRUE)) /\ SF_vars(ReachB(TRUE))

Spec == Init /\ [][Next]_vars /\ Fairness
-----------------------------------------------------------------------------
(* Safety *)

(* Calls are the invitations waiting at one of the two, strong enough to be  *)
(* accepted; third watches may be held at any time.                          *)
CallsTo(v, reports) ==
  {<<reports[i].from, v>> : i \in {j \in DOMAIN reports : reports[j].grouping /\ reports[j].near}}

Holding == Strangers \union (IF gstateA = "GROUPING" THEN {a} ELSE {})
                     \union (IF gstateB = "GROUPING" THEN {b} ELSE {})

Calls == CallsTo(a, toA) \union CallsTo(b, toB)
Knows == ({a} \X knownA) \union ({b} \X knownB)

Consent == INSTANCE Acquaintance
             WITH Watches <- Peers, holding <- Holding, calls <- Calls, knows <- Knows

(* Nobody is stored without consent: whoever gets into a store sent his      *)
(* invitation while grouping, close by, and was accepted while grouping; no  *)
(* timeout, link, restart or late report puts him there or takes him out.    *)
PairingByConsent == Consent!Spec

-----------------------------------------------------------------------------
(* Liveness *)

(* a can learn of b: the flag is on the air, a is grouping and listens, and  *)
(* its store has b or room for it.                                           *)
Room(known, p) == p \in known \/ Cardinality(known) < MaxNodes

FacingA == /\ close /\ gstateA = "GROUPING" /\ scanA # "NO_SCAN" /\ Room(knownA, b)
           /\ advB.on /\ advB.grouping
FacingB == /\ close /\ gstateB = "GROUPING" /\ scanB # "NO_SCAN" /\ Room(knownB, a)
           /\ advA.on /\ advA.grouping

(* Hold two watches together, both buttons down, and they learn of each      *)
(* other, whatever fills the queue of reports meanwhile, unless one of the   *)
(* conditions goes first: a hand, the flag (to a key, a link or the timeout  *)
(* of the advertising), the scan, or the room in the store.                  *)
FacingWatchesMeet == /\ FacingA ~> (b \in knownA \/ ~FacingA)
                     /\ FacingB ~> (a \in knownB \/ ~FacingB)
=============================================================================
