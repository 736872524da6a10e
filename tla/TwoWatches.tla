----------------------------- MODULE TwoWatches -----------------------------
(***************************************************************************)
(* Two whole watches within reach of each other, with their pages, buttons *)
(* and gestures, and the air between them as Pairing has it.  Pairing is   *)
(* what is left of it when each watch is seen as a Grouper; the theorem at *)
(* the end carries what Pairing promises over to the watches of the code.  *)
(***************************************************************************)
EXTENDS Integers, Sequences, TLAPS

CONSTANTS a, b, Peers, MaxAir,                  \* see Pairing
          AvatarCount, DefaultAvatar, NoAvatar, \* see Config
          Faces, MaxNodes,                      \* see Radio, GroupFsm
          Messages, NoMessage,                  \* see Display
          MaxQueue, Gestures                    \* see Watch

VARIABLES
  avatarA, cursorA, nvAvatarA, nvValidA, litA, frameA, messageA, advA, scanA, linkedA,
  gstateA, knownA, mstateA, ignoreWakeA, pinsA, irqA, evqA,
  avatarB, cursorB, nvAvatarB, nvValidB, litB, frameB, messageB, advB, scanB, linkedB,
  gstateB, knownB, mstateB, ignoreWakeB, pinsB, irqB, evqB,
  toA, toB, close

(* The history of Refusal plays no part here. *)
A == INSTANCE WatchProofs
       WITH avatar <- avatarA, cursor <- cursorA, nvAvatar <- nvAvatarA, nvValid <- nvValidA,
            lit <- litA, frame <- frameA, message <- messageA, adv <- advA, scan <- scanA,
            linked <- linkedA, gstate <- gstateA, known <- knownA, mstate <- mstateA,
            ignoreWake <- ignoreWakeA, pins <- pinsA, irq <- irqA, evq <- evqA,
            refused <- ignoreWakeA
B == INSTANCE WatchProofs
       WITH avatar <- avatarB, cursor <- cursorB, nvAvatar <- nvAvatarB, nvValid <- nvValidB,
            lit <- litB, frame <- frameB, message <- messageB, adv <- advB, scan <- scanB,
            linked <- linkedB, gstate <- gstateB, known <- knownB, mstate <- mstateB,
            ignoreWake <- ignoreWakeB, pins <- pinsB, irq <- irqB, evq <- evqB,
            refused <- ignoreWakeB

(* The two as Groupers, and what becomes of their advertisements. *)
Pair == INSTANCE PairingProofs WITH upA <- mstateA # "BOOT", upB <- mstateB # "BOOT"

varsA == <<avatarA, cursorA, nvAvatarA, nvValidA, litA, frameA, messageA, advA, scanA, linkedA,
           gstateA, knownA, mstateA, ignoreWakeA, pinsA, irqA, evqA>>
varsB == <<avatarB, cursorB, nvAvatarB, nvValidB, litB, frameB, messageB, advB, scanB, linkedB,
           gstateB, knownB, mstateB, ignoreWakeB, pinsB, irqB, evqB>>
vars == <<varsA, varsB, toA, toB, close>>

Init == A!Init /\ B!Init /\ toA = << >> /\ toB = << >> /\ close = FALSE

(* A handler of one watch runs, its pins move or its power goes. *)
StepA == A!Own /\ toA' = Pair!Kept(toA, scanA') /\ UNCHANGED <<varsB, toB, close>>
StepB == B!Own /\ toB' = Pair!Kept(toB, scanB') /\ UNCHANGED <<varsA, toA, close>>

(* muchi_advertisement_report *)
HearA == /\ toA # << >> /\ toA' = Tail(toA)
         /\ IF Head(toA).grouping THEN A!AdvReport(Head(toA).from, Head(toA).near)
                                  ELSE UNCHANGED varsA
         /\ UNCHANGED <<varsB, toB, close>>
HearB == /\ toB # << >> /\ toB' = Tail(toB)
         /\ IF Head(toB).grouping THEN B!AdvReport(Head(toB).from, Head(toB).near)
                                  ELSE UNCHANGED varsB
         /\ UNCHANGED <<varsA, toA, close>>

(* The wearers and the air change nothing inside a watch. *)
Air == /\ UNCHANGED <<varsA, varsB>>
       /\ \/ Pair!Move
          \/ \E near \in BOOLEAN : Pair!ReachA(near) \/ Pair!ReachB(near)
          \/ \E p \in Pair!Strangers : Pair!Intrude(p)

Next == StepA \/ StepB \/ HearA \/ HearB \/ Air

Spec == Init /\ [][Next]_vars
-----------------------------------------------------------------------------
(* The assumptions of Watch and of Pairing about the constants. *)
Assumptions == /\ A!AvatarAssumption /\ A!MessageAssumption /\ A!NodesAssumption
               /\ A!FacesAssumption /\ A!QueueAssumption
               /\ Pair!PairAssumption /\ Pair!RoomAssumption

(* A watch that does not scan has no reports waiting. *)
DeafHearNothing == /\ scanA = "NO_SCAN" => toA = << >>
                   /\ scanB = "NO_SCAN" => toB = << >>

TwoInv == A!WatchInv /\ B!WatchInv /\ Pair!PairInv /\ DeafHearNothing

-----------------------------------------------------------------------------
(* A watch is the same Grouper to Watch and to Pairing. *)
LEMMA SameOwn == /\ A!Others!Own <=> Pair!A!Own
                 /\ B!Others!Own <=> Pair!B!Own
<1>1. A!Others!Own <=> Pair!A!Own
  BY DEF A!Others!Own, A!Others!Boot, A!Others!PowerLoss, A!Others!Advertise, A!Others!Hold,
     A!Others!Release, A!Others!Scan, A!Others!Link, A!Others!StartAdverts, A!Others!RadioReset,
     A!Others!BlecenScan, A!Others!GroupingStart, A!Others!GroupingStop,
     A!Others!ConnectionUp, A!Others!ConnectionDown,
     Pair!A!Own, Pair!A!Boot, Pair!A!PowerLoss, Pair!A!Advertise, Pair!A!Hold,
     Pair!A!Release, Pair!A!Scan, Pair!A!Link, Pair!A!StartAdverts, Pair!A!RadioReset,
     Pair!A!BlecenScan, Pair!A!GroupingStart, Pair!A!GroupingStop,
     Pair!A!ConnectionUp, Pair!A!ConnectionDown
<1>2. B!Others!Own <=> Pair!B!Own
  BY DEF B!Others!Own, B!Others!Boot, B!Others!PowerLoss, B!Others!Advertise, B!Others!Hold,
     B!Others!Release, B!Others!Scan, B!Others!Link, B!Others!StartAdverts, B!Others!RadioReset,
     B!Others!BlecenScan, B!Others!GroupingStart, B!Others!GroupingStop,
     B!Others!ConnectionUp, B!Others!ConnectionDown,
     Pair!B!Own, Pair!B!Boot, Pair!B!PowerLoss, Pair!B!Advertise, Pair!B!Hold,
     Pair!B!Release, Pair!B!Scan, Pair!B!Link, Pair!B!StartAdverts, Pair!B!RadioReset,
     Pair!B!BlecenScan, Pair!B!GroupingStart, Pair!B!GroupingStop,
     Pair!B!ConnectionUp, Pair!B!ConnectionDown
<1> QED BY <1>1, <1>2

LEMMA SameHear ==
  \A p, near : /\ A!Others!Hear(p, near) <=> Pair!A!Hear(p, near)
               /\ B!Others!Hear(p, near) <=> Pair!B!Hear(p, near)
  BY DEF A!Others!Hear, A!Others!GroupingAdv, A!Others!StoreAdd, A!Others!Cardinality,
     A!Others!radioVars, Pair!A!Hear, Pair!A!GroupingAdv, Pair!A!StoreAdd,
     Pair!A!Cardinality, Pair!A!radioVars,
     B!Others!Hear, B!Others!GroupingAdv, B!Others!StoreAdd, B!Others!Cardinality,
     B!Others!radioVars, Pair!B!Hear, Pair!B!GroupingAdv, Pair!B!StoreAdd,
     Pair!B!Cardinality, Pair!B!radioVars

(* The variables are those of the watches, and Pairing sees a part of them. *)
LEMMA WatchVars == /\ UNCHANGED varsA <=> UNCHANGED A!vars
                   /\ UNCHANGED varsB <=> UNCHANGED B!vars
                   /\ UNCHANGED varsA => UNCHANGED Pair!varsA
                   /\ UNCHANGED varsB => UNCHANGED Pair!varsB
                   /\ UNCHANGED A!Others!vars <=> UNCHANGED Pair!varsA
                   /\ UNCHANGED B!Others!vars <=> UNCHANGED Pair!varsB
  BY DEF varsA, A!vars, A!mainVars, A!configVars, A!displayVars, A!radioVars, A!groupVars,
     A!envVars, A!Others!vars, A!Others!radioVars, Pair!varsA,
     varsB, B!vars, B!mainVars, B!configVars, B!displayVars, B!radioVars, B!groupVars,
     B!envVars, B!Others!vars, B!Others!radioVars, Pair!varsB

(* What the two watches and Pairing assume of the constants. *)
LEMMA Given ==
  Assumptions => /\ A!AvatarAssumption /\ A!MessageAssumption /\ A!NodesAssumption
                 /\ A!FacesAssumption /\ A!QueueAssumption
                 /\ B!AvatarAssumption /\ B!MessageAssumption /\ B!NodesAssumption
                 /\ B!FacesAssumption /\ B!QueueAssumption
                 /\ Pair!PairAssumption /\ Pair!RoomAssumption
  BY DEF Assumptions, A!AvatarAssumption, A!MessageAssumption, A!NodesAssumption,
     A!FacesAssumption, A!QueueAssumption, A!Avatars, A!AccelEvents,
     B!AvatarAssumption, B!MessageAssumption, B!NodesAssumption,
     B!FacesAssumption, B!QueueAssumption, B!Avatars, B!AccelEvents

(* A report that is looked at names a watch and a strength. *)
LEMMA ReportsTyped ==
  ASSUME Assumptions, Pair!PairInv
  PROVE  /\ toA # << >> => Head(toA).from \in Peers /\ Head(toA).near \in BOOLEAN
         /\ toB # << >> => Head(toB).from \in Peers /\ Head(toB).near \in BOOLEAN
<1>1. /\ toA \in Seq(Pair!Reports) /\ Len(toA) <= MaxAir
      /\ toB \in Seq(Pair!Reports) /\ Len(toB) <= MaxAir
  BY DEF Pair!PairInv, Pair!TypeOK
<1> QED BY <1>1, Given, Pair!HearType

(* What a step of the two is to each of them. *)
LEMMA StepOfA == ASSUME Assumptions, TwoInv, [Next]_vars PROVE [A!Next]_(A!vars)
<1>1. CASE HearA
  <2>1. CASE Head(toA).grouping
    BY <1>1, <2>1, ReportsTyped DEF HearA, A!Next, TwoInv
  <2>2. CASE ~Head(toA).grouping
    BY <1>1, <2>2, WatchVars DEF HearA
  <2> QED BY <2>1, <2>2
<1>2. CASE StepA
  BY <1>2 DEF StepA, A!Next
<1>3. CASE StepB \/ HearB \/ Air \/ UNCHANGED vars
  <2>1. UNCHANGED varsA
    BY <1>3 DEF StepB, HearB, Air, vars
  <2> QED BY <2>1, WatchVars
<1> QED BY <1>1, <1>2, <1>3 DEF Next

LEMMA StepOfB == ASSUME Assumptions, TwoInv, [Next]_vars PROVE [B!Next]_(B!vars)
<1>1. CASE HearB
  <2>1. CASE Head(toB).grouping
    BY <1>1, <2>1, ReportsTyped DEF HearB, B!Next, TwoInv
  <2>2. CASE ~Head(toB).grouping
    BY <1>1, <2>2, WatchVars DEF HearB
  <2> QED BY <2>1, <2>2
<1>2. CASE StepB
  BY <1>2 DEF StepB, B!Next
<1>3. CASE StepA \/ HearA \/ Air \/ UNCHANGED vars
  <2>1. UNCHANGED varsB
    BY <1>3 DEF StepA, HearA, Air, vars
  <2> QED BY <2>1, WatchVars
<1> QED BY <1>1, <1>2, <1>3 DEF Next

(* Each watch keeps what makes it a Grouper, whatever happens to the other. *)
LEMMA WatchesStep ==
  ASSUME Assumptions, TwoInv, [Next]_vars
  PROVE  A!WatchInv' /\ B!WatchInv'
<1>1. A!WatchInv'
  BY StepOfA, A!WatchInvStep, Given DEF TwoInv
<1>2. B!WatchInv'
  BY StepOfB, B!WatchInvStep, Given DEF TwoInv
<1> QED BY <1>1, <1>2

(* The scan is off when the last report goes. *)
LEMMA DeafStep ==
  ASSUME Assumptions, TwoInv, [Next]_vars
  PROVE  DeafHearNothing'
<1> USE DEF DeafHearNothing, TwoInv
<1>1. CASE StepA
  BY <1>1 DEF StepA, varsB, Pair!Kept
<1>2. CASE StepB
  BY <1>2 DEF StepB, varsA, Pair!Kept
<1>3. CASE HearA
  BY <1>3 DEF HearA, varsA, varsB, A!AdvReport, A!radioVars
<1>4. CASE HearB
  BY <1>4 DEF HearB, varsA, varsB, B!AdvReport, B!radioVars
<1>5. CASE Air
  BY <1>5 DEF Air, varsA, varsB, Pair!Move, Pair!ReachA, Pair!ReachB, Pair!Intrude, Pair!Arrive
<1>6. CASE UNCHANGED vars
  BY <1>6 DEF vars, varsA, varsB
<1> QED BY <1>1, <1>2, <1>3, <1>4, <1>5, <1>6 DEF Next

(* Every step of the two watches is a step of Pairing or a stutter. *)
LEMMA PairStep ==
  ASSUME Assumptions, TwoInv, [Next]_vars
  PROVE  [Pair!Next]_(Pair!vars)
<1>1. CASE StepA
  <2>1. A!Others!Own \/ UNCHANGED A!Others!vars
    BY <1>1, WatchesStep, A!OwnAsGrouper, Given DEF StepA, TwoInv, A!WatchInv
  <2>2. UNCHANGED <<Pair!varsB, toB, close>> /\ toA' = Pair!Kept(toA, scanA')
    BY <1>1, WatchVars DEF StepA
  <2>3. CASE A!Others!Own
    <3>1. Pair!StepA
      BY <2>2, <2>3, SameOwn DEF Pair!StepA
    <3> QED BY <3>1 DEF Pair!Next
  <2>4. CASE UNCHANGED A!Others!vars
    <3>1. UNCHANGED Pair!varsA /\ scanA' = scanA
      BY <2>4, WatchVars DEF Pair!varsA
    <3>2. toA' = toA
      BY <2>2, <3>1 DEF Pair!Kept, TwoInv, DeafHearNothing
    <3> QED BY <2>2, <3>1, <3>2 DEF Pair!vars
  <2> QED BY <2>1, <2>3, <2>4
<1>2. CASE StepB
  <2>1. B!Others!Own \/ UNCHANGED B!Others!vars
    BY <1>2, WatchesStep, B!OwnAsGrouper, Given DEF StepB, TwoInv, B!WatchInv
  <2>2. UNCHANGED <<Pair!varsA, toA, close>> /\ toB' = Pair!Kept(toB, scanB')
    BY <1>2, WatchVars DEF StepB
  <2>3. CASE B!Others!Own
    <3>1. Pair!StepB
      BY <2>2, <2>3, SameOwn DEF Pair!StepB
    <3> QED BY <3>1 DEF Pair!Next
  <2>4. CASE UNCHANGED B!Others!vars
    <3>1. UNCHANGED Pair!varsB /\ scanB' = scanB
      BY <2>4, WatchVars DEF Pair!varsB
    <3>2. toB' = toB
      BY <2>2, <3>1 DEF Pair!Kept, TwoInv, DeafHearNothing
    <3> QED BY <2>2, <3>1, <3>2 DEF Pair!vars
  <2> QED BY <2>1, <2>3, <2>4
<1>3. CASE HearA
  <2>1. toA # << >> /\ toA' = Tail(toA) /\ UNCHANGED <<Pair!varsB, toB, close>>
    BY <1>3, WatchVars DEF HearA
  <2>2. IF Head(toA).grouping THEN Pair!A!Hear(Head(toA).from, Head(toA).near)
                              ELSE UNCHANGED Pair!varsA
    BY <1>3, ReportsTyped, WatchVars, SameHear, A!ReportAsGrouper, Given
       DEF HearA, TwoInv, A!WatchInv
  <2>3. Pair!HearA
    BY <2>1, <2>2 DEF Pair!HearA
  <2> QED BY <2>3 DEF Pair!Next
<1>4. CASE HearB
  <2>1. toB # << >> /\ toB' = Tail(toB) /\ UNCHANGED <<Pair!varsA, toA, close>>
    BY <1>4, WatchVars DEF HearB
  <2>2. IF Head(toB).grouping THEN Pair!B!Hear(Head(toB).from, Head(toB).near)
                              ELSE UNCHANGED Pair!varsB
    BY <1>4, ReportsTyped, WatchVars, SameHear, B!ReportAsGrouper, Given
       DEF HearB, TwoInv, B!WatchInv
  <2>3. Pair!HearB
    BY <2>1, <2>2 DEF Pair!HearB
  <2> QED BY <2>3 DEF Pair!Next
<1>5. CASE Air
  BY <1>5 DEF Air, Pair!Next
<1>6. CASE UNCHANGED vars
  BY <1>6, WatchVars DEF vars, Pair!vars
<1> QED BY <1>1, <1>2, <1>3, <1>4, <1>5, <1>6 DEF Next

LEMMA TwoInit == ASSUME Assumptions, Init PROVE TwoInv /\ Pair!Init
<1>1. A!WatchInv /\ A!Others!Init
  BY Given, A!WatchInvInit, A!GrouperInit DEF Init
<1>2. B!WatchInv /\ B!Others!Init
  BY Given, B!WatchInvInit, B!GrouperInit DEF Init
<1>3. Pair!A!Init /\ Pair!B!Init
  BY <1>1, <1>2 DEF A!Others!Init, A!Others!RadioReset, B!Others!Init, B!Others!RadioReset,
     Pair!A!Init, Pair!A!RadioReset, Pair!B!Init, Pair!B!RadioReset
<1>4. Pair!Init
  BY <1>3 DEF Init, Pair!Init
<1>5. Pair!PairInv
  BY <1>4, Given, Pair!InvInit
<1> QED BY <1>1, <1>2, <1>4, <1>5 DEF Init, TwoInv, DeafHearNothing

LEMMA TwoStep == ASSUME Assumptions, TwoInv, [Next]_vars PROVE TwoInv'
<1>1. Pair!PairInv'
  BY PairStep, Pair!InvStep, Given DEF TwoInv
<1> QED BY <1>1, WatchesStep, DeafStep DEF TwoInv

(* Two watches of the code pair by consent only: whatever their wearers do   *)
(* with buttons, pages and wrists, whatever the radio, messages, failing     *)
(* writes and power losses do, every step of the two is a step of            *)
(* Acquaintance or a stutter.                                                *)
THEOREM WatchesPairByConsent == ASSUME Assumptions PROVE Spec => Pair!PairingByConsent
<1>1. Init => TwoInv /\ Pair!Consent!Init
  BY TwoInit, Pair!ConsentInit, Given
<1>2. TwoInv /\ [Next]_vars => TwoInv'
  BY TwoStep
<1>3. TwoInv /\ [Next]_vars => [Pair!Consent!Next]_(Pair!Consent!vars)
  BY PairStep, Pair!ConsentStep, Given DEF TwoInv
<1>4. Pair!PairingByConsent <=> Pair!Consent!Init /\ [][Pair!Consent!Next]_(Pair!Consent!vars)
  BY DEF Pair!PairingByConsent, Pair!Consent!Spec
<1> QED BY <1>1, <1>2, <1>3, <1>4, PTL DEF Spec
=============================================================================
