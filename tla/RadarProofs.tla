---------------------------- MODULE RadarProofs -----------------------------
(***************************************************************************)
(* Theorems about Radar, for every capacity, expiration and width of the   *)
(* timestamps.                                                             *)
(***************************************************************************)
EXTENDS Radar, TLAPS

(* A stamp is the second of the last advertisement, cut to its width. *)
StampsTrue ==
  \A idx \in 0 .. num - 1 :
    lastSeen[idx] # Never => lastSeen[idx] <= now /\ stamp[idx] = lastSeen[idx] % StampRange

RadarInv == TypeOK /\ StampsTrue

LEMMA ClockIsNow == TypeOK => Clock = now /\ Stamp \in 0 .. StampRange - 1 /\ Stamp = now % StampRange
<1> SUFFICES ASSUME TypeOK PROVE Clock = now /\ Stamp \in 0 .. StampRange - 1 /\ Stamp = now % StampRange
  OBVIOUS
<1>1. now \in 0 .. ClockRange - 1 /\ ClockRange \in Nat \ {0} /\ StampRange \in Nat \ {0}
  BY RadarAssumption DEF TypeOK, Seconds
<1>2. now % ClockRange = now
  BY <1>1
<1>3. now % StampRange \in 0 .. StampRange - 1
  BY <1>1
<1> QED BY <1>2, <1>3 DEF Clock, Stamp

LEMMA RadarInvInit == Init => RadarInv
  BY RadarAssumption, SMT
  DEF Init, Zeros, RadarInv, TypeOK, StampsTrue, Slots, Seconds

LEMMA MeetStep == ASSUME NEW r \in Rssis, RadarInv, Meet(r) PROVE RadarInv'
<1>1. /\ Stamp \in 0 .. StampRange - 1 /\ Stamp = now % StampRange
      /\ num \in Slots
  BY ClockIsNow, RadarAssumption DEF RadarInv, Meet, TypeOK, Slots
<1>2. TypeOK' BY <1>1, RadarAssumption DEF Meet, RadarInv, TypeOK, Slots, Seconds
<1>3. StampsTrue'
  BY <1>1, RadarAssumption DEF Meet, RadarInv, TypeOK, StampsTrue, Slots, Seconds
<1> QED BY <1>2, <1>3 DEF RadarInv

LEMMA SightStep == ASSUME NEW idx \in Slots, NEW r \in Rssis, RadarInv, Sight(idx, r) PROVE RadarInv'
<1>1. Stamp \in 0 .. StampRange - 1 /\ Stamp = now % StampRange
  BY ClockIsNow DEF RadarInv
<1>2. TypeOK' BY <1>1 DEF Sight, nvVars, RadarInv, TypeOK, Slots
<1>3. StampsTrue'
  BY <1>1, RadarAssumption DEF Sight, nvVars, RadarInv, TypeOK, StampsTrue, Slots, Seconds
<1> QED BY <1>2, <1>3 DEF RadarInv

LEMMA RadarInvStep == RadarInv /\ [Next]_vars => RadarInv'
<1> SUFFICES ASSUME RadarInv, [Next]_vars PROVE RadarInv'
  OBVIOUS
<1>1. CASE Second
  BY <1>1, RadarAssumption DEF Second, nodeVars, nvVars, RadarInv, TypeOK, StampsTrue, Seconds, Slots
<1>2. ASSUME NEW r \in Rssis, Meet(r) PROVE RadarInv' BY <1>2, MeetStep
<1>3. ASSUME NEW idx \in Slots, NEW r \in Rssis, Sight(idx, r) PROVE RadarInv' BY <1>3, SightStep
<1>4. CASE Reboot
  BY <1>4, RadarAssumption DEF Reboot, nvVars, RadarInv, TypeOK, StampsTrue, Seconds, Slots
<1>5. CASE UNCHANGED vars
  BY <1>5 DEF vars, nodeVars, nvVars, RadarInv, TypeOK, StampsTrue
<1>6. CASE Session
  BY <1>6 DEF Session, nodeVars, nvVars, RadarInv, TypeOK, StampsTrue
<1> QED BY <1>1, <1>2, <1>3, <1>4, <1>5, <1>6 DEF Next

(* Every variable of the radar keeps its type; a peer of the store has a     *)
(* place among the MaxNodes there are, also after a reboot.                  *)
THEOREM RadarTypes == Spec => []TypeOK
<1>1. RadarInv => TypeOK
  BY DEF RadarInv
<1> QED BY <1>1, RadarInvInit, RadarInvStep, PTL DEF Spec

(* A peer heard since the power-on is shown exactly until it has been silent *)
(* for more than Expiration seconds, if it was heard while the clock fitted a *)
(* timestamp; one heard later is hidden at once.                             *)
THEOREM RadarFresh == Spec => []FreshIffShown
<1>1. RadarInv => FreshIffShown
  <2> SUFFICES ASSUME RadarInv, NEW idx \in 0 .. num - 1, lastSeen[idx] # Never
               PROVE  idx \in Shown <=> lastSeen[idx] < StampRange /\ now - lastSeen[idx] <= Expiration
    BY DEF FreshIffShown
  <2>1. /\ lastSeen[idx] \in 0 .. 2 * StampRange - 1 /\ lastSeen[idx] <= now /\ now \in Nat
        /\ stamp[idx] = lastSeen[idx] % StampRange
        /\ StampRange \in Nat \ {0} /\ Expiration \in 0 .. StampRange - 1
    BY RadarAssumption DEF RadarInv, TypeOK, StampsTrue, Seconds, Slots
  <2>2. Clock = now
    BY ClockIsNow DEF RadarInv
  <2>3. idx \in Shown <=> ~(stamp[idx] + Expiration < now)
    BY <2>2 DEF Shown, IsExpired
  <2>4. CASE lastSeen[idx] < StampRange
    <3>1. stamp[idx] = lastSeen[idx]
      BY <2>1, <2>4
    <3> QED BY <2>1, <2>3, <2>4, <3>1
  <2>5. CASE lastSeen[idx] >= StampRange
    <3>1. stamp[idx] = lastSeen[idx] - StampRange
      BY <2>1, <2>5
    <3> QED BY <2>1, <2>3, <2>5, <3>1
  <2> QED BY <2>1, <2>4, <2>5
<1> QED BY <1>1, RadarInvInit, RadarInvStep, PTL DEF Spec

-----------------------------------------------------------------------------
(* Each peer of the store is a saved one; one that was heard has a strength, *)
(* and one that was saved with a strength still has one.                     *)
Strong ==
  /\ num = nvNum
  /\ \A idx \in 0 .. num - 1 : lastSeen[idx] # Never => rssi[idx] \in Rssis
  /\ \A idx \in 0 .. num - 1 : nvRssi[idx] \in Rssis => rssi[idx] \in Rssis

LEMMA StrongStep == RadarInv /\ Strong /\ [Next]_vars => Strong'
<1> SUFFICES ASSUME RadarInv, Strong, [Next]_vars PROVE Strong'
  OBVIOUS
<1> USE RadarAssumption DEF Strong, RadarInv, TypeOK, Slots
<1>1. CASE Second \/ Session \/ UNCHANGED vars
  BY <1>1 DEF Second, Session, vars, nodeVars, nvVars
<1>2. ASSUME NEW r \in Rssis, Meet(r) PROVE Strong'
  BY <1>2 DEF Meet
<1>3. ASSUME NEW i \in Slots, NEW r \in Rssis, Sight(i, r) PROVE Strong'
  BY <1>3 DEF Sight, nvVars
<1>4. CASE Reboot
  BY <1>4 DEF Reboot, nvVars
<1> QED BY <1>1, <1>2, <1>3, <1>4 DEF Next

(* Whatever power losses come between, a save has the strength of every      *)
(* other peer heard since the power-on, and of each that had one saved.      *)
THEOREM StrengthsRepaired == Spec => SavesRepairStrengths
<1>1. Init => Strong
  BY DEF Init, Strong
<1>2. RadarInv /\ Strong /\ [Next]_vars => [Repairs]_vars
  <2> SUFFICES ASSUME RadarInv, Strong, Next, nvNum' # nvNum PROVE Repairs
    BY DEF Repairs, vars, nvVars
  <2>1. nvRssi' = rssi
    BY DEF Next, Second, Session, Meet, Sight, Reboot, nvVars
  <2> QED BY <2>1 DEF Repairs, Strong
<1> QED BY <1>1, <1>2, RadarInvInit, RadarInvStep, StrongStep, PTL DEF Spec, SavesRepairStrengths

-----------------------------------------------------------------------------
(* The circles follow the strength: a weaker signal is never further in.     *)
LEMMA RingMonotone == \A p, q \in -128 .. 127 : p <= q => Ring(q) <= Ring(p)
  BY SMT DEF Ring

LEMMA RingInside == \A p \in -128 .. 127 : Ring(p) \in 0 .. 3 <=> p >= -109
  BY SMT DEF Ring

(* A peer has a circle exactly down to -109 dBm, and the weaker of two peers *)
(* never a smaller one, for any signals.                                     *)
THEOREM RingsSafe == Spec => []RingsOrdered
<1>1. RadarInv => RingsOrdered
  <2>1. ASSUME RadarInv, NEW p \in Shown PROVE rssi[p] \in -128 .. 127
    <3>1. MaxNodes \in Nat /\ num \in 0 .. MaxNodes
      BY <2>1, RadarAssumption DEF RadarInv, TypeOK
    <3>2. p \in 0 .. num - 1
      BY <2>1 DEF Shown
    <3>3. p \in Slots
      BY <3>1, <3>2 DEF Slots
    <3>4. rssi[p] \in Rssis \union {0}
      BY <2>1, <3>3 DEF RadarInv, TypeOK
    <3>5. Rssis \union {0} \subseteq -128 .. 127
      <4>1. Rssis \subseteq -128 .. 127
        BY RadarAssumption
      <4>2. 0 \in -128 .. 127
        OBVIOUS
      <4> QED BY <4>1, <4>2
    <3> QED BY <3>4, <3>5
  <2> SUFFICES ASSUME RadarInv, NEW p \in Shown
               PROVE  /\ Ring(rssi[p]) \in 0 .. 3 <=> rssi[p] >= -109
                      /\ \A q \in Shown : rssi[q] >= rssi[p] => Ring(rssi[q]) <= Ring(rssi[p])
    BY DEF RingsOrdered
  <2> QED BY <2>1, RingMonotone, RingInside
<1> QED BY <1>1, RadarInvInit, RadarInvStep, PTL DEF Spec
=============================================================================
