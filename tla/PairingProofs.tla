---------------------------- MODULE PairingProofs ----------------------------
(***************************************************************************)
(* Proofs about Pairing for any watches, avatars, capacities of the store  *)
(* and room for reports: its types, and that it implements Acquaintance.   *)
(* The facts about one watch are proved for a and for b alike.             *)
(***************************************************************************)
EXTENDS Pairing, TLAPS

(* What the refinement needs beside the types: an honest watch (Grouper)     *)
(* has its flag on the air only in a session.                                *)
PairInv == TypeOK /\ A!Honest /\ B!Honest

-----------------------------------------------------------------------------
(* The calls that wait at a watch, as reports arrive, are looked at, or go.  *)
LEMMA NoCalls == \A v : CallsTo(v, << >>) = {}
  BY DEF CallsTo

LEMMA CallsAppend ==
  ASSUME NEW v, NEW reports \in Seq(Reports), NEW r \in Reports
  PROVE  CallsTo(v, Append(reports, r)) =
           CallsTo(v, reports) \union (IF r.grouping /\ r.near THEN {<<r.from, v>>} ELSE {})
<1> DEFINE longer == Append(reports, r)
<1>1. Len(longer) = Len(reports) + 1 /\ longer[Len(longer)] = r
  OBVIOUS
<1>2. \A i \in DOMAIN reports : i \in DOMAIN longer /\ longer[i] = reports[i]
  OBVIOUS
<1>3. \A i \in DOMAIN longer : i \in DOMAIN reports \/ i = Len(longer)
  OBVIOUS
<1>4. Len(longer) \in DOMAIN longer
  OBVIOUS
<1> HIDE DEF longer
<1>5. ASSUME NEW x \in CallsTo(v, longer)
      PROVE  x \in CallsTo(v, reports) \/ (r.grouping /\ r.near /\ x = <<r.from, v>>)
  BY <1>1, <1>2, <1>3 DEF CallsTo
<1>6. ASSUME NEW x \in CallsTo(v, reports)
      PROVE  x \in CallsTo(v, longer)
  BY <1>2 DEF CallsTo
<1>7. r.grouping /\ r.near => <<r.from, v>> \in CallsTo(v, longer)
  BY <1>1, <1>4 DEF CallsTo
<1> QED BY <1>5, <1>6, <1>7 DEF longer

LEMMA CallsTail ==
  ASSUME NEW v, NEW reports \in Seq(Reports), reports # << >>
  PROVE  /\ CallsTo(v, Tail(reports)) \subseteq CallsTo(v, reports)
         /\ Head(reports).grouping /\ Head(reports).near
              => <<Head(reports).from, v>> \in CallsTo(v, reports)
<1>1. \A i \in DOMAIN Tail(reports) : i + 1 \in DOMAIN reports /\ Tail(reports)[i] = reports[i + 1]
  OBVIOUS
<1>2. 1 \in DOMAIN reports /\ Head(reports) = reports[1]
  OBVIOUS
<1>3. ASSUME NEW x \in CallsTo(v, Tail(reports)) PROVE x \in CallsTo(v, reports)
  BY <1>1 DEF CallsTo
<1>4. Head(reports).grouping /\ Head(reports).near
        => <<Head(reports).from, v>> \in CallsTo(v, reports)
  BY <1>2 DEF CallsTo
<1> QED BY <1>3, <1>4

(* A stopped scan leaves all of the reports or none. *)
LEMMA KeptReports ==
  ASSUME NEW reports \in Seq(Reports), Len(reports) <= MaxAir, NEW scan
  PROVE  /\ Kept(reports, scan) \in Seq(Reports) /\ Len(Kept(reports, scan)) <= MaxAir
         /\ \A v : CallsTo(v, Kept(reports, scan)) \subseteq CallsTo(v, reports)
  BY NoCalls, RoomAssumption DEF Kept

-----------------------------------------------------------------------------
(* Watch a by itself: its types, its honesty, and that it forgets nobody    *)
(* except at a boot, which finds it outside a session.                       *)
LEMMA OwnA ==
  ASSUME A!TypeOK, A!Honest, A!Own
  PROVE  /\ A!TypeOK' /\ A!Honest'
         /\ \/ knownA' = knownA
            \/ knownA' \subseteq knownA /\ gstateA # "GROUPING" /\ gstateA' = gstateA
<1> USE DEF A!TypeOK, A!RadioTypeOK, A!GroupTypeOK, A!Honest
<1>0. ASSUME NEW g \in BOOLEAN, NEW f \in Faces, A!StartAdverts(g, f)
      PROVE  advA' \in A!Adverts /\ advA'.grouping = g
  BY <1>0 DEF A!StartAdverts, A!Adverts
<1>1. ASSUME NEW f \in Faces, A!Boot(f) PROVE A!TypeOK' /\ A!Honest' /\ knownA' \subseteq knownA
  BY <1>0, <1>1 DEF A!Boot
<1>2. ASSUME NEW f \in Faces, A!PowerLoss(f) PROVE A!TypeOK' /\ A!Honest'
  BY <1>2 DEF A!PowerLoss, A!RadioReset, A!Adverts
<1>3. ASSUME NEW f \in Faces, A!Advertise(f) PROVE A!TypeOK' /\ A!Honest'
  BY <1>0, <1>3 DEF A!Advertise
<1>4. ASSUME NEW f \in Faces, A!Hold(f) PROVE A!TypeOK' /\ A!Honest'
  BY <1>0, <1>4 DEF A!Hold, A!GroupingStart, A!BlecenScan
<1>5. ASSUME NEW f \in Faces, A!Release(f) PROVE A!TypeOK' /\ A!Honest'
  BY <1>0, <1>5 DEF A!Release, A!GroupingStop, A!BlecenScan
<1>6. ASSUME NEW mode \in {"NO_SCAN", "LOW_SCAN"}, A!Scan(mode) PROVE A!TypeOK' /\ A!Honest'
  BY <1>6 DEF A!Scan, A!BlecenScan
<1>7. CASE A!Link
  BY <1>7 DEF A!Link, A!ConnectionUp, A!ConnectionDown, A!Adverts
<1>8. \/ knownA' = knownA
      \/ knownA' \subseteq knownA /\ gstateA # "GROUPING" /\ gstateA' = gstateA
  BY DEF A!Own, A!Boot, A!PowerLoss, A!Advertise, A!Hold, A!Release, A!Scan, A!Link
<1> QED BY <1>1, <1>2, <1>3, <1>4, <1>5, <1>6, <1>7, <1>8 DEF A!Own

(* Watch a hears an invitation: it stores the sender, or nothing happens. *)
LEMMA HearsA ==
  ASSUME A!TypeOK, A!Honest, NEW p \in Peers, NEW near \in BOOLEAN, A!Hear(p, near)
  PROVE  /\ A!TypeOK' /\ A!Honest'
         /\ UNCHANGED <<advA, scanA, linkedA, gstateA, upA>>
         /\ \/ knownA' = knownA
            \/ near /\ gstateA = "GROUPING" /\ knownA' = knownA \union {p}
  BY DEF A!Hear, A!GroupingAdv, A!StoreAdd, A!radioVars, A!TypeOK, A!RadioTypeOK,
     A!GroupTypeOK, A!Honest

-----------------------------------------------------------------------------
(* Watch b by itself: its types, its honesty, and that it forgets nobody    *)
(* except at a boot, which finds it outside a session.                       *)
LEMMA OwnB ==
  ASSUME B!TypeOK, B!Honest, B!Own
  PROVE  /\ B!TypeOK' /\ B!Honest'
         /\ \/ knownB' = knownB
            \/ knownB' \subseteq knownB /\ gstateB # "GROUPING" /\ gstateB' = gstateB
<1> USE DEF B!TypeOK, B!RadioTypeOK, B!GroupTypeOK, B!Honest
<1>0. ASSUME NEW g \in BOOLEAN, NEW f \in Faces, B!StartAdverts(g, f)
      PROVE  advB' \in B!Adverts /\ advB'.grouping = g
  BY <1>0 DEF B!StartAdverts, B!Adverts
<1>1. ASSUME NEW f \in Faces, B!Boot(f) PROVE B!TypeOK' /\ B!Honest' /\ knownB' \subseteq knownB
  BY <1>0, <1>1 DEF B!Boot
<1>2. ASSUME NEW f \in Faces, B!PowerLoss(f) PROVE B!TypeOK' /\ B!Honest'
  BY <1>2 DEF B!PowerLoss, B!RadioReset, B!Adverts
<1>3. ASSUME NEW f \in Faces, B!Advertise(f) PROVE B!TypeOK' /\ B!Honest'
  BY <1>0, <1>3 DEF B!Advertise
<1>4. ASSUME NEW f \in Faces, B!Hold(f) PROVE B!TypeOK' /\ B!Honest'
  BY <1>0, <1>4 DEF B!Hold, B!GroupingStart, B!BlecenScan
<1>5. ASSUME NEW f \in Faces, B!Release(f) PROVE B!TypeOK' /\ B!Honest'
  BY <1>0, <1>5 DEF B!Release, B!GroupingStop, B!BlecenScan
<1>6. ASSUME NEW mode \in {"NO_SCAN", "LOW_SCAN"}, B!Scan(mode) PROVE B!TypeOK' /\ B!Honest'
  BY <1>6 DEF B!Scan, B!BlecenScan
<1>7. CASE B!Link
  BY <1>7 DEF B!Link, B!ConnectionUp, B!ConnectionDown, B!Adverts
<1>8. \/ knownB' = knownB
      \/ knownB' \subseteq knownB /\ gstateB # "GROUPING" /\ gstateB' = gstateB
  BY DEF B!Own, B!Boot, B!PowerLoss, B!Advertise, B!Hold, B!Release, B!Scan, B!Link
<1> QED BY <1>1, <1>2, <1>3, <1>4, <1>5, <1>6, <1>7, <1>8 DEF B!Own

(* Watch b hears an invitation: it stores the sender, or nothing happens. *)
LEMMA HearsB ==
  ASSUME B!TypeOK, B!Honest, NEW p \in Peers, NEW near \in BOOLEAN, B!Hear(p, near)
  PROVE  /\ B!TypeOK' /\ B!Honest'
         /\ UNCHANGED <<advB, scanB, linkedB, gstateB, upB>>
         /\ \/ knownB' = knownB
            \/ near /\ gstateB = "GROUPING" /\ knownB' = knownB \union {p}
  BY DEF B!Hear, B!GroupingAdv, B!StoreAdd, B!radioVars, B!TypeOK, B!RadioTypeOK,
     B!GroupTypeOK, B!Honest

-----------------------------------------------------------------------------
LEMMA InvInit == Init => PairInv
<1> SUFFICES ASSUME Init PROVE PairInv
  OBVIOUS
<1>1. A!TypeOK /\ A!Honest
  <2>1. advA \in A!Adverts /\ ~advA.on
    BY DEF Init, A!Init, A!RadioReset, A!Adverts
  <2> QED BY <2>1 DEF Init, A!Init, A!RadioReset, A!TypeOK, A!RadioTypeOK, A!GroupTypeOK, A!Honest
<1>2. B!TypeOK /\ B!Honest
  <2>1. advB \in B!Adverts /\ ~advB.on
    BY DEF Init, B!Init, B!RadioReset, B!Adverts
  <2> QED BY <2>1 DEF Init, B!Init, B!RadioReset, B!TypeOK, B!RadioTypeOK, B!GroupTypeOK, B!Honest
<1>3. << >> \in Seq(Reports) /\ Len(<< >>) = 0 /\ 0 <= MaxAir
  BY RoomAssumption
<1> QED BY <1>1, <1>2, <1>3, RoomAssumption DEF Init, PairInv, TypeOK

(* A watch nothing happens to keeps its types and its honesty. *)
LEMMA StillA == A!TypeOK /\ A!Honest /\ UNCHANGED varsA => A!TypeOK' /\ A!Honest'
  BY DEF varsA, A!TypeOK, A!RadioTypeOK, A!GroupTypeOK, A!Honest
LEMMA StillB == B!TypeOK /\ B!Honest /\ UNCHANGED varsB => B!TypeOK' /\ B!Honest'
  BY DEF varsB, B!TypeOK, B!RadioTypeOK, B!GroupTypeOK, B!Honest

(* Arriving reports have a place and a type. *)
LEMMA ArriveType ==
  ASSUME NEW reports \in Seq(Reports), NEW next, Len(reports) <= MaxAir, NEW r \in Reports,
         Len(reports) < MaxAir /\ next = Append(reports, r)
  PROVE  next \in Seq(Reports) /\ Len(next) <= MaxAir
  BY RoomAssumption

(* The head of a queue is a report, its tail a queue. *)
LEMMA HearType ==
  ASSUME NEW reports \in Seq(Reports), Len(reports) <= MaxAir, reports # << >>
  PROVE  /\ Tail(reports) \in Seq(Reports) /\ Len(Tail(reports)) <= MaxAir
         /\ Head(reports).from \in Peers /\ Head(reports).near \in BOOLEAN
<1>1. Head(reports) \in Reports /\ Tail(reports) \in Seq(Reports) /\ Len(Tail(reports)) = Len(reports) - 1
  OBVIOUS
<1> QED BY <1>1, RoomAssumption DEF Reports

LEMMA InvStep == PairInv /\ [Next]_vars => PairInv'
<1> SUFFICES ASSUME PairInv, [Next]_vars PROVE PairInv'
  OBVIOUS
<1> USE DEF PairInv, TypeOK
<1>1. CASE StepA
  BY <1>1, OwnA, StillB, KeptReports DEF StepA
<1>2. CASE StepB
  BY <1>2, OwnB, StillA, KeptReports DEF StepB
<1>3. CASE Move
  BY <1>3, StillA, StillB DEF Move
<1>4. ASSUME NEW near \in BOOLEAN, ReachA(near) PROVE PairInv'
  <2>1. Report(b, advB.grouping, near) \in Reports
    BY PairAssumption DEF Report, Reports, B!TypeOK, B!RadioTypeOK, B!Adverts
  <2> QED BY <1>4, <2>1, ArriveType, StillA, StillB DEF ReachA, Arrive
<1>5. ASSUME NEW near \in BOOLEAN, ReachB(near) PROVE PairInv'
  <2>1. Report(a, advA.grouping, near) \in Reports
    BY PairAssumption DEF Report, Reports, A!TypeOK, A!RadioTypeOK, A!Adverts
  <2> QED BY <1>5, <2>1, ArriveType, StillA, StillB DEF ReachB, Arrive
<1>6. ASSUME NEW p \in Strangers, Intrude(p) PROVE PairInv'
  <2>1. Report(p, TRUE, TRUE) \in Reports
    BY DEF Report, Reports, Strangers
  <2> QED BY <1>6, <2>1, ArriveType, StillA, StillB DEF Intrude, Arrive
<1>7. CASE HearA
  <2>1. UNCHANGED varsA => A!TypeOK' /\ A!Honest'
    BY StillA
  <2> QED BY <1>7, <2>1, HearType, HearsA, StillB DEF HearA
<1>8. CASE HearB
  <2> QED BY <1>8, StillA, StillB, HearType, HearsB DEF HearB
<1>9. CASE UNCHANGED vars
  BY <1>9, StillA, StillB DEF vars
<1> QED BY <1>1, <1>2, <1>3, <1>4, <1>5, <1>6, <1>7, <1>8, <1>9 DEF Next

(* Every variable of the two watches and of the air keeps its type. *)
THEOREM PairingTypes == Spec => []TypeOK
<1>1. PairInv => TypeOK
  BY DEF PairInv
<1> QED BY <1>1, InvInit, InvStep, PTL DEF Spec
-----------------------------------------------------------------------------
(* What the abstract variables make of a step of one watch. *)
LEMMA WhoHolds == /\ a \in Holding <=> gstateA = "GROUPING"
                  /\ b \in Holding <=> gstateB = "GROUPING"
                  /\ Strangers \subseteq Holding /\ Holding \subseteq Peers
  BY PairAssumption DEF Holding, Strangers

(* A step of a's own takes hold of it, lets go of it, makes it forget, or   *)
(* at most loses calls.                                                      *)
LEMMA ConsentStepA == PairInv /\ StepA => Consent!Next
<1> SUFFICES ASSUME PairInv, StepA PROVE Consent!Next
  OBVIOUS
<1>1. Calls' \subseteq Calls
  BY KeptReports DEF PairInv, TypeOK, StepA, Calls
<1>2. /\ UNCHANGED <<gstateB, knownB>>
      /\ \/ knownA' = knownA
         \/ knownA' \subseteq knownA /\ gstateA # "GROUPING" /\ gstateA' = gstateA
  BY OwnA DEF PairInv, TypeOK, StepA, varsB
<1>3. Holding' \in {Holding \union {a}, Holding \ {a}}
  BY <1>2, PairAssumption DEF Holding, Strangers
<1>4. CASE knownA' = knownA
  <2>1. Consent!Handle(a)
    BY <1>1, <1>2, <1>3, <1>4 DEF Consent!Handle, Knows
  <2> QED BY <2>1, PairAssumption DEF Consent!Next
<1>5. CASE knownA' \subseteq knownA /\ gstateA # "GROUPING" /\ gstateA' = gstateA
  <2>1. a \notin Holding /\ UNCHANGED Holding
    BY <1>2, <1>5, WhoHolds DEF Holding
  <2>2. Knows' \subseteq Knows
    BY <1>2, <1>5 DEF Knows
  <2>3. \A k \in Knows : k[1] # a => k \in Knows'
    BY <1>2 DEF Knows
  <2>4. Consent!Forget(a)
    BY <1>1, <2>1, <2>2, <2>3 DEF Consent!Forget
  <2> QED BY <2>4, PairAssumption DEF Consent!Next
<1> QED BY <1>2, <1>4, <1>5

(* A report that reaches a is a call if it is a strong invitation. *)
LEMMA ArriveAtA ==
  ASSUME PairInv, NEW p \in Peers, NEW grouping \in BOOLEAN, NEW near \in BOOLEAN,
         grouping => p \in Holding,
         Arrive(toA, Report(p, grouping, near)), UNCHANGED <<varsA, varsB, toB>>
  PROVE  [Consent!Next]_(Consent!vars)
<1>1. Report(p, grouping, near) \in Reports
  BY DEF Report, Reports
<1>2. CallsTo(a, toA') = CallsTo(a, toA) \union (IF grouping /\ near THEN {<<p, a>>} ELSE {})
  BY <1>1, CallsAppend DEF Arrive, Report, PairInv, TypeOK
<1>3. UNCHANGED <<Holding, Knows>>
  BY DEF varsA, varsB, Holding, Knows
<1>4. CASE grouping /\ near
  <2>1. Consent!Call(p, a)
    BY <1>2, <1>3, <1>4 DEF Consent!Call, Calls
  <2> QED BY <2>1, PairAssumption DEF Consent!Next
<1>5. CASE ~(grouping /\ near)
  BY <1>2, <1>3, <1>5 DEF Consent!vars, Calls
<1> QED BY <1>4, <1>5

(* Looking at a report, a learns of its sender or nothing. *)
LEMMA ConsentHearA == PairInv /\ HearA => Consent!Next
<1> SUFFICES ASSUME PairInv, HearA PROVE Consent!Next
  OBVIOUS
<1> DEFINE r == Head(toA)
<1>1. toA \in Seq(Reports) /\ Len(toA) <= MaxAir /\ toA # << >> /\ toA' = Tail(toA)
      /\ UNCHANGED <<varsB, toB>>
  BY DEF PairInv, TypeOK, HearA
<1>2. r.from \in Peers /\ r.near \in BOOLEAN
  BY <1>1, HearType
<1>3. /\ Calls' \subseteq Calls
      /\ r.grouping /\ r.near => <<r.from, a>> \in Calls
  BY <1>1, CallsTail DEF Calls
<1>4. CASE r.grouping
  <2>1. A!Hear(r.from, r.near)
    BY <1>4 DEF HearA
  <2>2. /\ gstateA' = gstateA
        /\ \/ knownA' = knownA
           \/ r.near /\ gstateA = "GROUPING" /\ knownA' = knownA \union {r.from}
    BY <1>2, <2>1, HearsA DEF PairInv, TypeOK
  <2>3. UNCHANGED Holding
    BY <1>1, <2>2 DEF Holding, varsB
  <2>4. CASE knownA' = knownA
    <3>1. Consent!Fade
      BY <1>1, <1>3, <2>3, <2>4 DEF Consent!Fade, Knows, varsB
    <3> QED BY <3>1 DEF Consent!Next
  <2>5. CASE r.near /\ gstateA = "GROUPING" /\ knownA' = knownA \union {r.from}
    <3>1. Knows' = Knows \union {<<a, r.from>>}
      BY <1>1, <2>5 DEF Knows, varsB
    <3>2. Consent!Learn(a, r.from)
      BY <1>3, <1>4, <2>3, <2>5, <3>1, WhoHolds DEF Consent!Learn
    <3> QED BY <1>2, <3>2, PairAssumption DEF Consent!Next
  <2> QED BY <2>2, <2>4, <2>5
<1>5. CASE ~r.grouping
  <2>1. Consent!Fade
    BY <1>1, <1>3, <1>5 DEF Consent!Fade, HearA, Holding, Knows, varsA, varsB
  <2> QED BY <2>1 DEF Consent!Next
<1> QED BY <1>4, <1>5

(* A step of b's own takes hold of it, lets go of it, makes it forget, or   *)
(* at most loses calls.                                                      *)
LEMMA ConsentStepB == PairInv /\ StepB => Consent!Next
<1> SUFFICES ASSUME PairInv, StepB PROVE Consent!Next
  OBVIOUS
<1>1. Calls' \subseteq Calls
  BY KeptReports DEF PairInv, TypeOK, StepB, Calls
<1>2. /\ UNCHANGED <<gstateA, knownA>>
      /\ \/ knownB' = knownB
         \/ knownB' \subseteq knownB /\ gstateB # "GROUPING" /\ gstateB' = gstateB
  BY OwnB DEF PairInv, TypeOK, StepB, varsA
<1>3. Holding' \in {Holding \union {b}, Holding \ {b}}
  BY <1>2, PairAssumption DEF Holding, Strangers
<1>4. CASE knownB' = knownB
  <2>1. Consent!Handle(b)
    BY <1>1, <1>2, <1>3, <1>4 DEF Consent!Handle, Knows
  <2> QED BY <2>1, PairAssumption DEF Consent!Next
<1>5. CASE knownB' \subseteq knownB /\ gstateB # "GROUPING" /\ gstateB' = gstateB
  <2>1. b \notin Holding /\ UNCHANGED Holding
    BY <1>2, <1>5, WhoHolds DEF Holding
  <2>2. Knows' \subseteq Knows
    BY <1>2, <1>5 DEF Knows
  <2>3. \A k \in Knows : k[1] # b => k \in Knows'
    BY <1>2 DEF Knows
  <2>4. Consent!Forget(b)
    BY <1>1, <2>1, <2>2, <2>3 DEF Consent!Forget
  <2> QED BY <2>4, PairAssumption DEF Consent!Next
<1> QED BY <1>2, <1>4, <1>5

(* A report that reaches b is a call if it is a strong invitation. *)
LEMMA ArriveAtB ==
  ASSUME PairInv, NEW p \in Peers, NEW grouping \in BOOLEAN, NEW near \in BOOLEAN,
         grouping => p \in Holding,
         Arrive(toB, Report(p, grouping, near)), UNCHANGED <<varsB, varsA, toA>>
  PROVE  [Consent!Next]_(Consent!vars)
<1>1. Report(p, grouping, near) \in Reports
  BY DEF Report, Reports
<1>2. CallsTo(b, toB') = CallsTo(b, toB) \union (IF grouping /\ near THEN {<<p, b>>} ELSE {})
  BY <1>1, CallsAppend DEF Arrive, Report, PairInv, TypeOK
<1>3. UNCHANGED <<Holding, Knows>>
  BY DEF varsB, varsA, Holding, Knows
<1>4. CASE grouping /\ near
  <2>1. Consent!Call(p, b)
    BY <1>2, <1>3, <1>4 DEF Consent!Call, Calls
  <2> QED BY <2>1, PairAssumption DEF Consent!Next
<1>5. CASE ~(grouping /\ near)
  BY <1>2, <1>3, <1>5 DEF Consent!vars, Calls
<1> QED BY <1>4, <1>5

(* Looking at a report, b learns of its sender or nothing. *)
LEMMA ConsentHearB == PairInv /\ HearB => Consent!Next
<1> SUFFICES ASSUME PairInv, HearB PROVE Consent!Next
  OBVIOUS
<1> DEFINE r == Head(toB)
<1>1. toB \in Seq(Reports) /\ Len(toB) <= MaxAir /\ toB # << >> /\ toB' = Tail(toB)
      /\ UNCHANGED <<varsA, toA>>
  BY DEF PairInv, TypeOK, HearB
<1>2. r.from \in Peers /\ r.near \in BOOLEAN
  BY <1>1, HearType
<1>3. /\ Calls' \subseteq Calls
      /\ r.grouping /\ r.near => <<r.from, b>> \in Calls
  BY <1>1, CallsTail DEF Calls
<1>4. CASE r.grouping
  <2>1. B!Hear(r.from, r.near)
    BY <1>4 DEF HearB
  <2>2. /\ gstateB' = gstateB
        /\ \/ knownB' = knownB
           \/ r.near /\ gstateB = "GROUPING" /\ knownB' = knownB \union {r.from}
    BY <1>2, <2>1, HearsB DEF PairInv, TypeOK
  <2>3. UNCHANGED Holding
    BY <1>1, <2>2 DEF Holding, varsA
  <2>4. CASE knownB' = knownB
    <3>1. Consent!Fade
      BY <1>1, <1>3, <2>3, <2>4 DEF Consent!Fade, Knows, varsA
    <3> QED BY <3>1 DEF Consent!Next
  <2>5. CASE r.near /\ gstateB = "GROUPING" /\ knownB' = knownB \union {r.from}
    <3>1. Knows' = Knows \union {<<b, r.from>>}
      BY <1>1, <2>5 DEF Knows, varsA
    <3>2. Consent!Learn(b, r.from)
      BY <1>3, <1>4, <2>3, <2>5, <3>1, WhoHolds DEF Consent!Learn
    <3> QED BY <1>2, <3>2, PairAssumption DEF Consent!Next
  <2> QED BY <2>2, <2>4, <2>5
<1>5. CASE ~r.grouping
  <2>1. Consent!Fade
    BY <1>1, <1>3, <1>5 DEF Consent!Fade, HearB, Holding, Knows, varsB, varsA
  <2> QED BY <2>1 DEF Consent!Next
<1> QED BY <1>4, <1>5

-----------------------------------------------------------------------------
LEMMA ConsentStep == PairInv /\ [Next]_vars => [Consent!Next]_(Consent!vars)
<1> SUFFICES ASSUME PairInv, [Next]_vars PROVE [Consent!Next]_(Consent!vars)
  OBVIOUS
<1>1. CASE StepA \/ StepB \/ HearA \/ HearB
  BY <1>1, ConsentStepA, ConsentStepB, ConsentHearA, ConsentHearB
<1>2. ASSUME NEW near \in BOOLEAN, ReachA(near) PROVE [Consent!Next]_(Consent!vars)
  <2>1. advB.grouping \in BOOLEAN
    BY DEF PairInv, TypeOK, B!TypeOK, B!RadioTypeOK, B!Adverts
  <2>2. advB.grouping => b \in Holding
    BY <1>2, WhoHolds DEF ReachA, PairInv, B!Honest
  <2> QED BY <1>2, <2>1, <2>2, ArriveAtA, PairAssumption DEF ReachA
<1>3. ASSUME NEW near \in BOOLEAN, ReachB(near) PROVE [Consent!Next]_(Consent!vars)
  <2>1. advA.grouping \in BOOLEAN
    BY DEF PairInv, TypeOK, A!TypeOK, A!RadioTypeOK, A!Adverts
  <2>2. advA.grouping => a \in Holding
    BY <1>3, WhoHolds DEF ReachB, PairInv, A!Honest
  <2> QED BY <1>3, <2>1, <2>2, ArriveAtB, PairAssumption DEF ReachB
<1>4. ASSUME NEW p \in Strangers, Intrude(p) PROVE [Consent!Next]_(Consent!vars)
  <2>1. p \in Peers /\ p \in Holding
    BY WhoHolds DEF Strangers
  <2> QED BY <1>4, <2>1, ArriveAtA, ArriveAtB DEF Intrude
<1>5. CASE Move \/ UNCHANGED vars
  BY <1>5 DEF Move, vars, varsA, varsB, Consent!vars, Holding, Calls, Knows
<1> QED BY <1>1, <1>2, <1>3, <1>4, <1>5 DEF Next

(* At the start nobody calls and nobody is known. *)
LEMMA ConsentInit == Init => Consent!Init
<1> SUFFICES ASSUME Init PROVE Consent!Init
  OBVIOUS
<1>1. Calls = {} /\ Knows = {}
  BY NoCalls DEF Init, Calls, Knows, A!Init, B!Init
<1> QED BY <1>1, WhoHolds DEF Consent!Init

(* Pairing is by consent: every step of the two watches and of the air is a  *)
(* step of Acquaintance or changes nothing it sees.                          *)
THEOREM PairingImplementsAcquaintance == Spec => PairingByConsent
<1>1. PairingByConsent <=> Consent!Init /\ [][Consent!Next]_(Consent!vars)
  BY DEF PairingByConsent, Consent!Spec
<1> QED BY <1>1, ConsentInit, InvInit, InvStep, ConsentStep, PTL DEF Spec
=============================================================================
