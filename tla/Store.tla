------------------------------- MODULE Store --------------------------------
(***************************************************************************)
(* The store of known peers (store.c): an array in RAM and its copy in     *)
(* NVRAM, two nodes to a record and the number of nodes in a record of its *)
(* own.  Adding a peer rewrites every record, then the count; the power    *)
(* may go between any two of these writes.                                 *)
(*                                                                         *)
(* A node is its address: the timestamp, signal strength and avatar that   *)
(* lie beside it are refreshed by advertisements and play no part in what  *)
(* is added, saved and loaded.                                             *)
(***************************************************************************)
EXTENDS Integers, Sequences

CONSTANTS Addresses,  \* Bluetooth addresses of other watches
          NoAddress,  \* the zeroes of an unused node
          MaxNodes    \* MAX_NODES

(* save_to_nvram writes pairs of nodes, num_nodes is a UINT8. *)
ASSUME StoreAssumption == /\ MaxNodes \in 1 .. 255
                          /\ MaxNodes % 2 = 0
                          /\ NoAddress \notin Addresses

VARIABLES nodes,    \* nodes[].addr
          num,      \* num_nodes
          nvNodes,  \* the node records in NVRAM; never written reads as zeroes
          nvCount,  \* the record MUCHI_NVM_STORE_COUNT
          pc,       \* what the firmware is doing to the store
          i         \* the loop variable of save_to_nvram

vars == <<nodes, num, nvNodes, nvCount, pc, i>>

Slots == 0 .. MaxNodes - 1

NoNodes == [s \in Slots |-> NoAddress]

TypeOK == /\ nodes \in [Slots -> Addresses \union {NoAddress}]
          /\ num \in 0 .. MaxNodes
          /\ nvNodes \in [Slots -> Addresses \union {NoAddress}]
          /\ nvCount \in 0 .. MaxNodes
          /\ pc \in {"OFF", "READY", "SAVING"}
          /\ i \in 0 .. MaxNodes

Init == /\ nodes = NoNodes /\ num = 0
        /\ nvNodes = NoNodes /\ nvCount = 0
        /\ pc = "OFF" /\ i = 0

(* Mutant: the loop of load_from_nvram ends one node early. *)
LoadShort(count) ==
  [s \in Slots |-> IF s < count - 1 THEN nvNodes[s] ELSE NoAddress]

(* load_from_nvram: pairs of nodes, up to the one that holds the last. *)
Load(count) ==
  [s \in Slots |-> IF s < count + (count % 2) THEN nvNodes[s] ELSE NoAddress]

(* grpr_store_init; reading has no effect that a power loss could halve. *)
StoreInit == /\ pc = "OFF"
             /\ pc' = "READY"
             /\ num' = nvCount
             /\ nodes' = Load(nvCount)
             /\ UNCHANGED <<nvNodes, nvCount, i>>

(* Mutant: the search misses the last node. *)
KnownButLast == {nodes[s] : s \in 0 .. num - 2}

(* The addresses __grpr_store_lookup finds. *)
Known == {nodes[s] : s \in 0 .. num - 1}

(* Mutant: the count is written before the nodes. *)
NewNodeCountFirst(a) ==
  /\ nodes' = [nodes EXCEPT ![num] = a]
  /\ num' = num + 1
  /\ nvCount' = num + 1
  /\ pc' = "SAVING" /\ i' = 0
  /\ UNCHANGED nvNodes

(* Mutant: only the pair that changed is written. *)
NewNodeLastPair(a) ==
  /\ nodes' = [nodes EXCEPT ![num] = a]
  /\ num' = num + 1
  /\ pc' = "SAVING" /\ i' = num - (num % 2)
  /\ UNCHANGED <<nvNodes, nvCount>>

(* A node is appended, and save_to_nvram entered. *)
NewNode(a) ==
  /\ nodes' = [nodes EXCEPT ![num] = a]
  /\ num' = num + 1
  /\ pc' = "SAVING" /\ i' = 0
  /\ UNCHANGED <<nvNodes, nvCount>>

(* Mutant: a full store is not refused. *)
AddWhenFull(a) ==
  /\ pc = "READY"
  /\ IF a \in Known THEN UNCHANGED vars ELSE NewNode(a)

(* grpr_store_add up to its call of save_to_nvram: a full store refuses, a *)
(* known peer has nothing to save.                                         *)
Add(a) ==
  /\ pc = "READY"
  /\ IF num = MaxNodes \/ a \in Known THEN UNCHANGED vars ELSE NewNode(a)

(* save_to_nvram, one turn of the loop *)
WriteRecord ==
  /\ pc = "SAVING" /\ i < num
  /\ nvNodes' = [s \in Slots |-> IF s \in {i, i + 1} THEN nodes[s] ELSE nvNodes[s]]
  /\ i' = i + 2
  /\ UNCHANGED <<nodes, num, nvCount, pc>>

(* Mutant: the count of before the addition is written. *)
WriteCountStale ==
  /\ pc = "SAVING" /\ i >= num
  /\ nvCount' = num - 1
  /\ pc' = "READY" /\ i' = 0
  /\ UNCHANGED <<nodes, num, nvNodes>>

(* save_to_nvram, after the loop *)
WriteCount ==
  /\ pc = "SAVING" /\ i >= num
  /\ nvCount' = num
  /\ pc' = "READY" /\ i' = 0
  /\ UNCHANGED <<nodes, num, nvNodes>>

(* RAM is zeroed for the next start. *)
PowerLoss == /\ pc # "OFF"
             /\ pc' = "OFF" /\ i' = 0
             /\ nodes' = NoNodes /\ num' = 0
             /\ UNCHANGED <<nvNodes, nvCount>>

Next == \/ StoreInit
        \/ \E a \in Addresses : Add(a)
        \/ WriteRecord
        \/ WriteCount
        \/ PowerLoss

(* A write that was begun ends, unless the power goes. *)
Spec == Init /\ [][Next]_vars /\ WF_vars(WriteRecord) /\ WF_vars(WriteCount)
-----------------------------------------------------------------------------
ListedPeers == [k \in 1 .. num |-> nodes[k - 1]]
SavedPeers == [k \in 1 .. nvCount |-> nvNodes[k - 1]]

(* The store keeps the promise of PeerStore: the write of the count is the   *)
(* instant a peer becomes durable, no other write shows, and a power loss    *)
(* between any two of them loses at most the peer being added.               *)
PS == INSTANCE PeerStore WITH up <- pc # "OFF", peers <- ListedPeers, saved <- SavedPeers

ImplementsPeerStore == PS!PeerSpec

(* What a reboot would find: as many peers as the count says, all of them    *)
(* real and no two the same, whichever writes a power loss cut off.          *)
SavedPeersDistinct ==
  \A s \in 0 .. nvCount - 1 :
    /\ nvNodes[s] \in Addresses
    /\ \A t \in 0 .. nvCount - 1 : nvNodes[s] = nvNodes[t] => s = t

(* "without moving peers that are already in the circle" (display.c:70-73):  *)
(* a peer's place on the radar is its index here, so a saved index is        *)
(* forever, over reboots and additions cut short.                            *)
PlacesKept == \A s \in 0 .. nvCount - 1 : s < nvCount' /\ nvNodes'[s] = nvNodes[s]
PlacesAreForever == [][PlacesKept]_vars

(* A pairing reaches NVRAM unless the power goes first. *)
PairingBecomesDurable ==
  \A a \in Addresses :
    (a \in Known) ~> (pc = "OFF" \/ \E s \in 0 .. nvCount - 1 : nvNodes[s] = a)
=============================================================================
