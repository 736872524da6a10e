---------------------------- MODULE Acquaintance ----------------------------
(***************************************************************************)
(* What pairing promises: two watches become acquainted only by consent.   *)
(* A watch calls others only while its wearer holds it, and gets to know   *)
(* one only while he holds it and a call of that one has reached it.       *)
(* Calls may fade at any moment; acquaintances are lost only by a watch    *)
(* that nobody holds.                                                      *)
(***************************************************************************)
CONSTANT Watches

VARIABLES holding,  \* watches held for grouping
          calls,    \* <<w, v>>: a call of w on its way to v
          knows     \* <<v, w>>: v has w in its store

vars == <<holding, calls, knows>>

Init == holding \subseteq Watches /\ calls = {} /\ knows = {}

(* The wearer of w takes hold of both buttons or lets go. *)
Handle(w) == /\ holding' \in {holding \union {w}, holding \ {w}}
             /\ calls' \subseteq calls
             /\ UNCHANGED knows

Call(w, v) == /\ w \in holding
              /\ calls' = calls \union {<<w, v>>}
              /\ UNCHANGED <<holding, knows>>

Learn(v, w) == /\ v \in holding /\ <<w, v>> \in calls
               /\ knows' = knows \union {<<v, w>>}
               /\ calls' \subseteq calls
               /\ UNCHANGED holding

Forget(v) == /\ v \notin holding
             /\ knows' \subseteq knows
             /\ \A k \in knows : k[1] # v => k \in knows'
             /\ calls' \subseteq calls
             /\ UNCHANGED holding

Fade == calls' \subseteq calls /\ UNCHANGED <<holding, knows>>

Next == \/ \E w \in Watches : Handle(w) \/ Forget(w)
        \/ \E v, w \in Watches : Call(w, v) \/ Learn(v, w)
        \/ Fade

Spec == Init /\ [][Next]_vars
=============================================================================
