----------------------------- MODULE MCPairing ------------------------------
(***************************************************************************)
(* Two watches and a third that intrudes, room for one in each store.      *)
(***************************************************************************)
EXTENDS Pairing, Adverts

CONSTANTS c, f1   \* a third watch, an avatar

ThreeWatches == {a, b, c}
OneFace == {f1}

(* Advertisements of other devices, and a watch's fields in other orders. *)
Fields == {FlagsField, ServiceField(TRUE, f1), ServiceField(FALSE, f1), ForeignField(TRUE, f1),
           [FlagsField EXCEPT !.len = 0], [FlagsField EXCEPT !.len = AdvLenMax - 1],
           [ServiceField(TRUE, f1) EXCEPT !.len = @ - 1]}
Packets == {packet \in BoundedSeq(Fields, 3) \ {<< >>} : DataLen(packet) <= AdvLenMax}

IsOwn(field) == field.ours /\ field.len = ServiceDataSize + 1

(* What is said in a packet by its first field of service data of ours. *)
Said(packet) == LET ours == {i \in DOMAIN packet : IsOwn(packet[i])}
                IN  IF ours = {} THEN Nothing ELSE packet[Min(ours)].says

Recovered == \A packet \in Packets : Process(packet) = Said(packet)

(* What one watch says the other understands: the advertisement of every     *)
(* report under way fits the 31 bytes there are, and grpr_process_adverts    *)
(* makes of it what grpr_start_adverts put in; in any other advertisement    *)
(* that fits, the walk from field to field finds the service data if and     *)
(* only if it is there, and never takes another service's for its own.       *)
Understood ==
  /\ Recovered
  /\ \A r \in ToSet(toA \o toB), f \in Faces :
       LET packet == Layout(r.grouping, f)
       IN  DataLen(packet) <= AdvLenMax /\ Process(packet) = [grouping |-> r.grouping, face |-> f]
=============================================================================
