------------------------------- MODULE Radar --------------------------------
(***************************************************************************)
(* What the radar page shows (draw_others, display.c): each known peer     *)
(* that has not expired (store.c), at the place its index has on a circle  *)
(* whose size follows the signal strength.                                 *)
(*                                                                         *)
(* A peer expires by comparing the 16-bit second of its last advertisement *)
(* with the 17 bits of seconds the real-time clock counts.  The stamps are *)
(* saved with the store; the clock starts at zero with the power.          *)
(***************************************************************************)
EXTENDS Integers

CONSTANTS MaxNodes,    \* MAX_NODES
          StampRange,  \* values of a UINT16 timestamp
          ClockRange,  \* values of rtc32[0] >> 15
          Expiration,  \* MUCHI_NODE_EXPIRATION_IN_S
          Horizon,     \* seconds a watch is followed after its power-on
          Rssis,       \* signal strengths an advertisement comes with
          MinRssi,     \* GROUPER_MIN_RSSI_INVITATION
          Behind,      \* what the memory behind i2idx may be read as
          Never        \* no advertisement since the power-on

ASSUME RadarAssumption == /\ MaxNodes \in Nat \ {0}
                          /\ StampRange \in Nat \ {0}
                          /\ ClockRange = 2 * StampRange
                          /\ Expiration \in 0 .. StampRange - 1
                          /\ Horizon \in 1 .. ClockRange
                          /\ Rssis \subseteq -128 .. 127
                          /\ MinRssi \in -128 .. 127
                          /\ Behind \subseteq Int
                          /\ Never \notin Nat

VARIABLES now,       \* seconds since the power-on
          gstate,    \* cur_state of groupfsm.c
          num,       \* num_nodes
          stamp,     \* nodes[].timestamp
          rssi,      \* nodes[].rssi
          nvNum,     \* the saved num_nodes
          nvStamp,   \* the saved timestamps
          nvRssi,    \* the saved rssi
          lastSeen   \* when each node's last advertisement really came

nvVars == <<nvNum, nvStamp, nvRssi>>
nodeVars == <<num, stamp, rssi>>
vars == <<now, gstate, nodeVars, nvVars, lastSeen>>

Slots == 0 .. MaxNodes - 1
Seconds == 0 .. Horizon - 1

TypeOK == /\ now \in Seconds
          /\ gstate \in {"IDLE", "GROUPING"}
          /\ num \in 0 .. MaxNodes
          /\ stamp \in [Slots -> 0 .. StampRange - 1]
          /\ rssi \in [Slots -> Rssis \union {0}]
          /\ nvNum \in 0 .. MaxNodes
          /\ nvStamp \in [Slots -> 0 .. StampRange - 1]
          /\ nvRssi \in [Slots -> Rssis \union {0}]
          /\ lastSeen \in [Slots -> Seconds \union {Never}]

Zeros == [s \in Slots |-> 0]

Init == /\ now = 0 /\ gstate = "IDLE"
        /\ num = 0 /\ stamp = Zeros /\ rssi = Zeros
        /\ nvNum = 0 /\ nvStamp = Zeros /\ nvRssi = Zeros
        /\ lastSeen = [s \in Slots |-> Never]

(* rtc_getRTCRawClock, in seconds *)
Clock == now % ClockRange

(* What grpr_store_timestamp stores: the clock cut to 16 bits. *)
Stamp == Clock % StampRange

Second == /\ now + 1 < Horizon
          /\ now' = now + 1
          /\ UNCHANGED <<gstate, nodeVars, nvVars, lastSeen>>

(* GROUPING_START and GROUPING_STOP *)
Session == /\ gstate' \in {"IDLE", "GROUPING"} \ {gstate}
           /\ UNCHANGED <<now, nodeVars, nvVars, lastSeen>>

(* Whether an inviting advertisement reaches grpr_store_add. *)
Invited(r) == gstate = "GROUPING" /\ r > MinRssi

(* Mutant: the test for a full store comes one peer late. *)
MeetWhenFull(r) == /\ Invited(r) /\ num <= MaxNodes
                   /\ num' = num + 1
                   /\ stamp' = [stamp EXCEPT ![num] = Stamp]
                   /\ rssi' = [rssi EXCEPT ![num] = r]
                   /\ lastSeen' = [lastSeen EXCEPT ![num] = now]
                   /\ nvNum' = num' /\ nvStamp' = stamp' /\ nvRssi' = rssi
                   /\ UNCHANGED <<now, gstate>>

(* Mutant: grpr_process_adverts looks the peer up before it is stored. *)
MeetWithoutRssi(r) == /\ Invited(r) /\ num < MaxNodes
                      /\ num' = num + 1
                      /\ stamp' = [stamp EXCEPT ![num] = Stamp]
                      /\ lastSeen' = [lastSeen EXCEPT ![num] = now]
                      /\ nvNum' = num' /\ nvStamp' = stamp' /\ nvRssi' = rssi
                      /\ UNCHANGED <<now, gstate, rssi>>

(* An advertisement that invites and whose peer is new: grpr_store_add stamps *)
(* it and saves it with all the others, its strength is set after that.  One  *)
(* that is too weak, comes outside a session or finds the store full leaves   *)
(* a new peer unknown, and nothing changes.                                   *)
Meet(r) == /\ Invited(r) /\ num < MaxNodes
           /\ num' = num + 1
           /\ stamp' = [stamp EXCEPT ![num] = Stamp]
           /\ rssi' = [rssi EXCEPT ![num] = r]
           /\ lastSeen' = [lastSeen EXCEPT ![num] = now]
           /\ nvNum' = num' /\ nvStamp' = stamp' /\ nvRssi' = rssi
           /\ UNCHANGED <<now, gstate>>

(* An advertisement of a known peer: grpr_process_adverts. *)
Sight(idx, r) == /\ idx < num
                 /\ stamp' = [stamp EXCEPT ![idx] = Stamp]
                 /\ rssi' = [rssi EXCEPT ![idx] = r]
                 /\ lastSeen' = [lastSeen EXCEPT ![idx] = now]
                 /\ UNCHANGED <<now, gstate, num, nvVars>>

(* Power lost and back; Store says what a save cut short leaves. *)
Reboot == /\ now' = 0 /\ gstate' = "IDLE"
          /\ num' = nvNum
          /\ stamp' = nvStamp
          /\ rssi' = nvRssi
          /\ lastSeen' = [s \in Slots |-> Never]
          /\ UNCHANGED nvVars

Next == \/ Second
        \/ Session
        \/ \E r \in Rssis : Meet(r)
        \/ \E idx \in Slots, r \in Rssis : Sight(idx, r)
        \/ Reboot

(* The clock goes on. *)
Spec == Init /\ [][Next]_vars /\ WF_vars(Second)
-----------------------------------------------------------------------------
(* Mutant: a peer expires one second early. *)
IsExpiredEarly(idx) == stamp[idx] + Expiration <= Clock

(* Mutant: the clock is cut to the width of the timestamp as well. *)
IsExpiredCut(idx) == stamp[idx] + Expiration < Stamp

(* grpr_store_is_expired *)
IsExpired(idx) == stamp[idx] + Expiration < Clock

Shown == {idx \in 0 .. num - 1 : ~IsExpired(idx)}

(* i2idx: the place of each index on a circle of ten places *)
i2idx == [idx \in 0 .. 9 |-> <<0, 5, 3, 8, 1, 6, 4, 9, 7, 2>>[idx + 1]]

(* Where the peer with an index may be drawn.  The table ends at the tenth,  *)
(* the store goes on: what is read for the others is up to the memory there. *)
Places(idx) == IF idx \in DOMAIN i2idx THEN {i2idx[idx]} ELSE Behind

(* Mutant: the distance to the strongest signal is not made positive. *)
RingUnsigned(r) == (r + 30) \div 20

(***************************************************************************)
(* rssi_idx, from the innermost circle 0 outwards: 20 dB to a circle,      *)
(* C's division rounding towards zero.  The upper clamp of draw_others     *)
(* tests rssi where it means rssi_idx and never applies.                   *)
(***************************************************************************)
Ring(r) == IF r > -30 THEN 0 ELSE (-(r + 30)) \div 20
-----------------------------------------------------------------------------
(* A peer heard since the power-on is on the radar exactly until it has been *)
(* silent for more than Expiration seconds, if its last advertisement came   *)
(* while the clock fitted a timestamp, which it does for 18 hours.  After    *)
(* that a stamp is cut, the clock it is compared with is not, and nobody is  *)
(* shown, however fresh, until the clock wraps as well.                      *)
FreshIffShown ==
  \A idx \in 0 .. num - 1 :
    lastSeen[idx] # Never =>
      (idx \in Shown <=> lastSeen[idx] < StampRange /\ now - lastSeen[idx] <= Expiration)

(* A new peer is saved before its strength is set, so a power loss brings it *)
(* back with a zero, which would be the innermost circle.  But the save that *)
(* the next new peer causes has the strength of every other peer that was    *)
(* heard since the power-on, and no later save, over any number of power     *)
(* losses, puts a zero back where a strength was saved.                      *)
Repairs ==
  nvNum' # nvNum =>
    \A idx \in 0 .. nvNum - 1 :
      lastSeen[idx] # Never \/ nvRssi[idx] \in Rssis => nvRssi'[idx] \in Rssis
SavesRepairStrengths == [][Repairs]_vars

(* A peer saved long ago and not heard since the power-on may be on the      *)
(* radar, as its stamp lies ahead of the new clock; but not for ever: unless *)
(* it is heard or the power goes again, the clock passes its stamp, whatever *)
(* that was.                                                                 *)
Ghost(idx) == idx \in Shown /\ lastSeen[idx] = Never
GhostsFade == \A idx \in Slots : Ghost(idx) ~> (~Ghost(idx) \/ now = 0)

(* The circle follows the strength: of two peers the weaker is never drawn   *)
(* further in, and the four circles there are reach down to -109 dBm, but no *)
(* further: a weaker signal selects one behind the table.                    *)
RingsOrdered ==
  \A p \in Shown :
    /\ Ring(rssi[p]) \in 0 .. 3 <=> rssi[p] >= -109
    /\ \A q \in Shown : rssi[q] >= rssi[p] => Ring(rssi[q]) <= Ring(rssi[p])

(* "this array is used to position peers along the circle so that they are   *)
(* as far appart as possible" (display.c:70-71): every peer on the radar has *)
(* a place on its circle, and no other peer has the same one.                *)
PeersHavePlaces ==
  \A p \in Shown : \A x \in Places(p) :
    /\ x \in 0 .. 9
    /\ \A q \in Shown \ {p} : x \notin Places(q)
=============================================================================
