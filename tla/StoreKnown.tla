----------------------------- MODULE StoreKnown -----------------------------
(***************************************************************************)
(* The store as the rest of the watch sees it: a set of known peers.       *)
(* GroupFsm and Watch have no more than that set, which an addition        *)
(* enlarges and a boot may shrink; here it is the set of addresses in the  *)
(* array of Store, and, while the power is off, the set there was.         *)
(***************************************************************************)
EXTENDS Store

VARIABLE had   \* the peers known when the power went; the code keeps no such note

knownVars == <<vars, had>>

KnownPeers == IF pc = "OFF" THEN had ELSE Known

KnownInit == Init /\ had = {}

KnownNext == Next /\ had' = IF pc' = "OFF" THEN KnownPeers ELSE had

KnownSpec == KnownInit /\ [][KnownNext]_knownVars
-----------------------------------------------------------------------------
(* The set in groupfsm.c's terms; the radio plays no part in StoreAdd. *)
Set == INSTANCE GroupFsm
         WITH known <- KnownPeers, Peers <- Addresses, gstate <- "GROUPING",
              Faces <- {}, adv <- "ANY", scan <- "ANY", linked <- "ANY"

(* What GroupFsm and Watch take for granted of the store: grpr_store_add     *)
(* refuses when as many peers are known as there is room for, though the     *)
(* code counts nodes and not peers; saving changes nothing; a power loss in  *)
(* the middle of a save, and the boot after it, bring back some of the peers *)
(* there were and no others.                                                 *)
ActsAsSet == /\ \A a \in Addresses : Add(a) => Set!StoreAdd(a)
             /\ WriteRecord \/ WriteCount \/ PowerLoss => UNCHANGED KnownPeers
             /\ StoreInit => KnownPeers' \subseteq KnownPeers
StoreIsSet == [][ActsAsSet]_knownVars
=============================================================================
