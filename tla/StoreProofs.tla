---------------------------- MODULE StoreProofs -----------------------------
(***************************************************************************)
(* Theorems about Store, for every capacity and every set of addresses.    *)
(*                                                                         *)
(* The inductive invariant StoreInv says where the two copies of the list  *)
(* agree: on the saved part always while the watch is up, on every record  *)
(* already rewritten during a save, and entirely between saves.  With it   *)
(* the write of the count is the only write that changes what a reboot     *)
(* would find.                                                             *)
(*                                                                         *)
(* Then the same store as the rest of the watch sees it (StoreKnown), and, *)
(* at the end, when writes fail (StoreFaults): a save repairs what earlier *)
(* ones lost.                                                              *)
(***************************************************************************)
EXTENDS StoreFaults, StoreKnown, SequenceTheorems, FiniteSetTheorems, TLAPS

(* The listed peers are real and distinct. *)
ListedDistinct ==
  \A s \in 0 .. num - 1 :
    /\ nodes[s] \in Addresses
    /\ \A t \in 0 .. num - 1 : nodes[s] = nodes[t] => s = t

(* The two copies agree on the saved part, unless RAM is off. *)
SavedAgree ==
  pc # "OFF" => \A s \in 0 .. nvCount - 1 : nvNodes[s] = nodes[s]

(* The count is that of the list, or one behind during a save. *)
CountAgrees == /\ pc = "OFF" => num = 0
               /\ pc = "READY" => nvCount = num
               /\ pc = "SAVING" => nvCount = num - 1

(* The records a save has gone past hold what they should. *)
RecordsWritten ==
  pc = "SAVING" => \A s \in 0 .. num - 1 : s < i => nvNodes[s] = nodes[s]

(* save_to_nvram counts in twos, from zero. *)
LoopEven == i % 2 = 0

StoreInv == /\ TypeOK
            /\ ListedDistinct
            /\ SavedPeersDistinct
            /\ SavedAgree
            /\ CountAgrees
            /\ RecordsWritten
            /\ LoopEven

LEMMA StoreInvInit == Init => StoreInv
  BY StoreAssumption, SMT
  DEF Init, StoreInv, TypeOK, ListedDistinct, SavedPeersDistinct, SavedAgree, CountAgrees,
      RecordsWritten, LoopEven, NoNodes, Slots

LEMMA StoreInitStep == StoreInv /\ StoreInit => StoreInv'
  BY StoreAssumption, SMT
  DEF StoreInit, StoreInv, TypeOK, ListedDistinct, SavedPeersDistinct, SavedAgree,
      CountAgrees, RecordsWritten, LoopEven, Load, Slots

LEMMA NewNodeStep ==
  ASSUME NEW a \in Addresses, StoreInv, pc = "READY", num # MaxNodes, a \notin Known, NewNode(a)
  PROVE  StoreInv'
<1>1. /\ num \in 0 .. MaxNodes - 1 /\ num \in Slots
      /\ num' = num + 1
      /\ nodes' \in [Slots -> Addresses \union {NoAddress}]
      /\ nodes'[num] = a
      /\ \A s \in Slots : s # num => nodes'[s] = nodes[s]
  BY StoreAssumption DEF NewNode, StoreInv, TypeOK, Slots
<1>2. \A s \in 0 .. num - 1 : nodes[s] # a BY DEF Known
<1>3. TypeOK'
  BY <1>1, StoreAssumption DEF NewNode, StoreInv, TypeOK
<1>4. ListedDistinct'
  BY <1>1, <1>2, StoreAssumption DEF StoreInv, ListedDistinct, Slots
<1>5. SavedPeersDistinct' /\ SavedAgree'
  BY <1>1, StoreAssumption DEF NewNode, StoreInv, SavedPeersDistinct, SavedAgree, CountAgrees, TypeOK, Slots
<1>6. CountAgrees' /\ RecordsWritten' /\ LoopEven'
  BY <1>1, StoreAssumption DEF NewNode, StoreInv, CountAgrees, RecordsWritten, LoopEven, TypeOK
<1> QED BY <1>3, <1>4, <1>5, <1>6 DEF StoreInv

LEMMA WriteRecordStep == StoreInv /\ WriteRecord => StoreInv'
  BY StoreAssumption, SMT
  DEF WriteRecord, StoreInv, TypeOK, ListedDistinct, SavedPeersDistinct, SavedAgree,
      CountAgrees, RecordsWritten, LoopEven, Slots

LEMMA WriteCountStep == StoreInv /\ WriteCount => StoreInv'
  BY StoreAssumption, SMT
  DEF WriteCount, StoreInv, TypeOK, ListedDistinct, SavedPeersDistinct, SavedAgree,
      CountAgrees, RecordsWritten, LoopEven, Slots

LEMMA PowerLossStep == StoreInv /\ PowerLoss => StoreInv'
  BY StoreAssumption, SMT
  DEF PowerLoss, NoNodes, StoreInv, TypeOK, ListedDistinct, SavedPeersDistinct, SavedAgree,
      CountAgrees, RecordsWritten, LoopEven, Slots

LEMMA StoreInvStep == StoreInv /\ [Next]_vars => StoreInv'
<1> SUFFICES ASSUME StoreInv, [Next]_vars PROVE StoreInv'
  OBVIOUS
<1>1. CASE StoreInit BY <1>1, StoreInitStep
<1>2. ASSUME NEW a \in Addresses, Add(a) PROVE StoreInv'
  <2>1. CASE num = MaxNodes \/ a \in Known
    BY <1>2, <2>1
    DEF Add, vars, StoreInv, TypeOK, ListedDistinct, SavedPeersDistinct, SavedAgree,
        CountAgrees, RecordsWritten, LoopEven
  <2>2. CASE ~(num = MaxNodes \/ a \in Known)
    BY <1>2, <2>2, NewNodeStep DEF Add
  <2> QED BY <2>1, <2>2
<1>3. CASE WriteRecord BY <1>3, WriteRecordStep
<1>4. CASE WriteCount BY <1>4, WriteCountStep
<1>5. CASE PowerLoss BY <1>5, PowerLossStep
<1>6. CASE UNCHANGED vars
  BY <1>6
  DEF vars, StoreInv, TypeOK, ListedDistinct, SavedPeersDistinct, SavedAgree,
      CountAgrees, RecordsWritten, LoopEven
<1> QED BY <1>1, <1>2, <1>3, <1>4, <1>5, <1>6 DEF Next

(* Whatever write a power loss cuts off, a reboot finds real and distinct    *)
(* peers, as many as the count says.                                         *)
THEOREM StoreSafe == Spec => []TypeOK /\ []SavedPeersDistinct
<1>1. StoreInv => TypeOK /\ SavedPeersDistinct BY DEF StoreInv
<1> QED BY <1>1, StoreInvInit, StoreInvStep, PTL DEF Spec

(* The array is never left: neither the addition to a store that has one     *)
(* place nor the pairs that save an odd number of nodes reach behind it.     *)
THEOREM StoreTypes == Spec => []TypeOK
  BY StoreSafe, PTL

(* A saved peer keeps its place in the list, and so on the radar, forever.   *)
THEOREM PlacesFixed == Spec => PlacesAreForever
<1>1. StoreInv /\ [Next]_vars => [PlacesKept]_vars
  <2> SUFFICES ASSUME StoreInv, Next PROVE PlacesKept
    OBVIOUS
  <2> \A s \in 0 .. nvCount - 1 : s < nvCount
    BY StoreAssumption DEF StoreInv, TypeOK
  <2>1. CASE StoreInit BY <2>1 DEF StoreInit, PlacesKept
  <2>2. ASSUME NEW a \in Addresses, Add(a) PROVE PlacesKept
    BY <2>2 DEF Add, NewNode, vars, PlacesKept
  <2>3. CASE WriteRecord
    BY <2>3, StoreAssumption DEF WriteRecord, PlacesKept, StoreInv, SavedAgree, TypeOK, Slots
  <2>4. CASE WriteCount
    BY <2>4, StoreAssumption DEF WriteCount, PlacesKept, StoreInv, CountAgrees, TypeOK
  <2>5. CASE PowerLoss BY <2>5 DEF PowerLoss, PlacesKept
  <2> QED BY <2>1, <2>2, <2>3, <2>4, <2>5 DEF Next
<1> QED BY <1>1, StoreInvInit, StoreInvStep, PTL DEF Spec, PlacesAreForever

(* Each step of the store is a step of PeerStore or leaves what PeerStore    *)
(* speaks of alone: a new node is Join, the write of the count Commit, the   *)
(* write of a record nothing at all.                                         *)
LEMMA Mapped ==
  ASSUME StoreInv
  PROVE  /\ Len(ListedPeers) = num
         /\ \A k \in 1 .. num : ListedPeers[k] = nodes[k - 1]
         /\ pc = "READY" => ListedPeers = SavedPeers
  BY StoreAssumption
  DEF ListedPeers, SavedPeers, StoreInv, TypeOK, SavedAgree, CountAgrees, Slots

LEMMA StartMapped == StoreInv /\ StoreInit => PS!Start
  BY StoreAssumption
  DEF StoreInit, Load, PS!Start, ListedPeers, SavedPeers, StoreInv, TypeOK, Slots

LEMMA JoinMapped ==
  ASSUME NEW a \in Addresses, StoreInv, pc = "READY", num # MaxNodes, a \notin Known, NewNode(a)
  PROVE  PS!Join(a)
<1>1. num \in 0 .. MaxNodes - 1 /\ num \in Slots /\ num' = num + 1
  BY StoreAssumption DEF NewNode, StoreInv, TypeOK, Slots
<1>2. /\ pc # "OFF" /\ pc' # "OFF"
      /\ ListedPeers = SavedPeers
      /\ Len(ListedPeers) < MaxNodes
  BY <1>1, Mapped, StoreAssumption DEF NewNode
<1>3. \A k \in 1 .. Len(ListedPeers) : ListedPeers[k] # a
  BY <1>1, Mapped DEF Known
<1>4. ListedPeers' = Append(ListedPeers, a)
  <2>1. ListedPeers \in Seq(Addresses)
    BY <1>1 DEF ListedPeers, StoreInv, ListedDistinct
  <2>2. /\ nodes'[num] = a
        /\ \A s \in 0 .. num - 1 : nodes'[s] = nodes[s]
    BY <1>1 DEF NewNode, StoreInv, TypeOK, Slots
  <2>3. /\ ListedPeers' \in Seq(Addresses)
        /\ Len(ListedPeers') = num + 1
        /\ \A k \in 1 .. num + 1 : ListedPeers'[k] = nodes'[k - 1]
    <3>1. ListedPeers' = [k \in 1 .. num + 1 |-> nodes'[k - 1]]
      BY <1>1 DEF ListedPeers
    <3>2. \A k \in 1 .. num + 1 : nodes'[k - 1] \in Addresses
      BY <1>1, <2>2 DEF StoreInv, ListedDistinct
    <3> QED BY <1>1, <3>1, <3>2
  <2>4. /\ Append(ListedPeers, a) \in Seq(Addresses)
        /\ Len(Append(ListedPeers, a)) = num + 1
        /\ Append(ListedPeers, a)[num + 1] = a
        /\ \A k \in 1 .. num : Append(ListedPeers, a)[k] = ListedPeers[k]
    BY <1>1, <2>1, Mapped, AppendProperties
  <2>5. \A k \in 1 .. num + 1 : ListedPeers'[k] = Append(ListedPeers, a)[k]
    BY <1>1, <2>2, <2>3, <2>4, Mapped
  <2> QED BY <2>3, <2>4, <2>5, SeqEqual
<1>5. SavedPeers' = SavedPeers
  BY DEF NewNode, SavedPeers
<1> QED BY <1>2, <1>3, <1>4, <1>5 DEF PS!Join

LEMMA RecordMapped == StoreInv /\ WriteRecord => UNCHANGED <<pc, ListedPeers, SavedPeers>>
<1> SUFFICES ASSUME StoreInv, WriteRecord PROVE UNCHANGED <<pc, ListedPeers, SavedPeers>>
  OBVIOUS
<1>1. UNCHANGED <<pc, ListedPeers>> /\ nvCount' = nvCount
  BY DEF WriteRecord, ListedPeers
<1>2. \A s \in 0 .. nvCount - 1 : nvNodes'[s] = nvNodes[s]
  BY StoreAssumption DEF WriteRecord, StoreInv, SavedAgree, TypeOK, Slots
<1>3. \A k \in 1 .. nvCount : nvNodes'[k - 1] = nvNodes[k - 1]
  BY <1>2, StoreAssumption DEF StoreInv, TypeOK
<1> QED BY <1>1, <1>3 DEF SavedPeers

LEMMA CommitMapped == StoreInv /\ WriteCount => PS!Commit
<1> SUFFICES ASSUME StoreInv, WriteCount PROVE PS!Commit
  OBVIOUS
<1>1. UNCHANGED ListedPeers /\ pc # "OFF" /\ pc' # "OFF"
  BY DEF WriteCount, ListedPeers
<1>2. \A k \in 1 .. num : nvNodes[k - 1] = nodes[k - 1]
  BY StoreAssumption DEF WriteCount, StoreInv, RecordsWritten, TypeOK
<1>3. SavedPeers' = ListedPeers
  BY <1>2 DEF WriteCount, SavedPeers, ListedPeers
<1> QED BY <1>1, <1>3 DEF PS!Commit

LEMMA StopMapped == StoreInv /\ PowerLoss => PS!Stop
  BY DEF PowerLoss, PS!Stop, ListedPeers, SavedPeers

LEMMA StepMapped == StoreInv /\ [Next]_vars => [PS!PeerNext]_(PS!peerVars)
<1> SUFFICES ASSUME StoreInv, [Next]_vars PROVE [PS!PeerNext]_(PS!peerVars)
  OBVIOUS
<1>1. CASE StoreInit BY <1>1, StartMapped DEF PS!PeerNext
<1>2. ASSUME NEW a \in Addresses, Add(a) PROVE [PS!PeerNext]_(PS!peerVars)
  <2>1. CASE UNCHANGED vars
    BY <2>1 DEF vars, PS!peerVars, ListedPeers, SavedPeers
  <2>2. CASE ~(num = MaxNodes \/ a \in Known)
    BY <1>2, <2>2, JoinMapped DEF Add, PS!PeerNext
  <2> QED BY <1>2, <2>1, <2>2 DEF Add
<1>3. CASE WriteRecord BY <1>3, RecordMapped DEF PS!peerVars
<1>4. CASE WriteCount BY <1>4, CommitMapped DEF PS!PeerNext
<1>5. CASE PowerLoss BY <1>5, StopMapped DEF PS!PeerNext
<1>6. CASE UNCHANGED vars
  BY <1>6 DEF vars, PS!peerVars, ListedPeers, SavedPeers
<1> QED BY <1>1, <1>2, <1>3, <1>4, <1>5, <1>6 DEF Next

(* The store implements PeerStore: a reboot brings back the peers of before  *)
(* the power loss, in their order, at most the newest missing.               *)
THEOREM StoreImplementsPeerStore == Spec => ImplementsPeerStore
<1>1. Init => PS!PeerInit
  BY DEF Init, PS!PeerInit, ListedPeers, SavedPeers
<1> QED BY <1>1, StepMapped, StoreInvInit, StoreInvStep, PTL
        DEF Spec, ImplementsPeerStore, PS!PeerSpec

-----------------------------------------------------------------------------
(* StoreKnown.  Counting nodes is counting peers, as no two are the same. *)
LEMMA CountOfKnown == ASSUME StoreInv PROVE Cardinality(Known) = num
<1>1. num \in Nat /\ ListedDistinct
  BY StoreAssumption DEF StoreInv, TypeOK
<1>2. IsFiniteSet(0 .. num - 1) /\ Cardinality(0 .. num - 1) = num
  BY <1>1, FS_Interval
<1> DEFINE f == [s \in 0 .. num - 1 |-> nodes[s]]
<1>3. f \in Bijection(0 .. num - 1, Known)
  <2>1. f \in Surjection(0 .. num - 1, Known)
    BY DEF Known, Surjection
  <2>2. f \in Injection(0 .. num - 1, Known)
    BY <1>1 DEF Known, Injection, IsInjective, ListedDistinct
  <2> QED BY <2>1, <2>2 DEF Bijection
<1> QED BY <1>2, <1>3, FS_Bijection DEF ExistsBijection

(* GroupFsm counts in the same way. *)
LEMMA SameCount == \A S : Set!Cardinality(S) = Cardinality(S)
  BY Zenon DEF Cardinality, Set!Cardinality

(* What a reboot would find were peers when the power went. *)
SavedWereKnown == pc = "OFF" => \A s \in 0 .. nvCount - 1 : nvNodes[s] \in had

KnownInv == StoreInv /\ SavedWereKnown

LEMMA KnownInvInit == KnownInit => KnownInv
  BY StoreInvInit DEF KnownInit, KnownInv, Init, SavedWereKnown

LEMMA KnownInvStep == KnownInv /\ [KnownNext]_knownVars => KnownInv'
<1> SUFFICES ASSUME KnownInv, [KnownNext]_knownVars PROVE KnownInv'
  OBVIOUS
<1>1. StoreInv'
  BY StoreInvStep DEF KnownInv, KnownNext, knownVars
<1>2. SavedWereKnown'
  <2>1. CASE Next /\ pc # "OFF"
    <3> SUFFICES ASSUME pc' = "OFF" PROVE SavedWereKnown'
      BY DEF SavedWereKnown
    <3>1. PowerLoss
      BY <2>1 DEF Next, StoreInit, Add, NewNode, vars, WriteRecord, WriteCount
    <3>2. had' = Known /\ UNCHANGED <<nvNodes, nvCount>>
      BY <2>1, <3>1 DEF KnownNext, knownVars, vars, KnownPeers, PowerLoss
    <3>3. \A s \in 0 .. nvCount - 1 : s \in 0 .. num - 1 /\ nvNodes[s] = nodes[s]
      BY <2>1, StoreAssumption DEF KnownInv, StoreInv, TypeOK, SavedAgree, CountAgrees
    <3> QED BY <3>2, <3>3 DEF SavedWereKnown, Known
  <2>2. CASE Next /\ pc = "OFF"
    <3>1. pc' # "OFF"
      BY <2>2 DEF Next, StoreInit, Add, WriteRecord, WriteCount, PowerLoss
    <3> QED BY <3>1 DEF SavedWereKnown
  <2>3. CASE UNCHANGED knownVars
    BY <2>3 DEF knownVars, vars, SavedWereKnown, KnownInv
  <2> QED BY <2>1, <2>2, <2>3 DEF KnownNext
<1> QED BY <1>1, <1>2 DEF KnownInv

(* To groupfsm.c and to the watch the store is a set: an addition is the     *)
(* StoreAdd of GroupFsm, a boot brings back a part, and nothing else shows.  *)
THEOREM StoreActsAsSet == KnownSpec => StoreIsSet
<1>1. KnownInv /\ [KnownNext]_knownVars => [ActsAsSet]_knownVars
  <2> SUFFICES ASSUME KnownInv, KnownNext PROVE ActsAsSet
    OBVIOUS
  <2>1. ASSUME NEW a \in Addresses, Add(a) PROVE Set!StoreAdd(a)
    <3>1. /\ pc = "READY" /\ KnownPeers = Known
          /\ Set!Cardinality(Known) = num /\ num \in 0 .. MaxNodes
      BY <2>1, CountOfKnown, SameCount, StoreAssumption
         DEF Add, KnownPeers, KnownInv, StoreInv, TypeOK
    <3>2. CASE UNCHANGED vars
      <4>1. num = MaxNodes \/ a \in Known
        BY <2>1, <3>2, <3>1 DEF Add, NewNode, vars
      <4>2. KnownPeers' = Known
        BY <3>1, <3>2 DEF vars, KnownPeers, Known
      <4> QED BY <3>1, <4>1, <4>2, StoreAssumption DEF Set!StoreAdd
    <3>3. CASE num # MaxNodes /\ NewNode(a)
      <4>1. KnownPeers' = Known \union {a}
        <5>1. /\ pc' = "SAVING" /\ num' = num + 1 /\ nodes'[num] = a
              /\ \A s \in 0 .. num - 1 : nodes'[s] = nodes[s]
          BY <3>1, <3>3, StoreAssumption DEF NewNode, KnownInv, StoreInv, TypeOK, Slots
        <5>2. 0 .. num' - 1 = (0 .. num - 1) \union {num}
          BY <3>1, <5>1, StoreAssumption
        <5>3. Known' = {nodes'[s] : s \in (0 .. num - 1) \union {num}}
          BY <5>2 DEF Known
        <5>4. \A x : x \in Known' <=> x \in Known \/ x = a
          BY <5>1, <5>3 DEF Known
        <5> QED BY <5>1, <5>4 DEF KnownPeers
      <4> QED BY <3>1, <3>3, <4>1, StoreAssumption DEF Set!StoreAdd
    <3> QED BY <2>1, <3>2, <3>3 DEF Add
  <2>2. WriteRecord \/ WriteCount => UNCHANGED KnownPeers
    BY DEF WriteRecord, WriteCount, KnownPeers, Known
  <2>3. PowerLoss => UNCHANGED KnownPeers
    BY DEF PowerLoss, KnownNext, KnownPeers
  <2>4. StoreInit => KnownPeers' \subseteq KnownPeers
    <3> SUFFICES ASSUME StoreInit PROVE KnownPeers' \subseteq KnownPeers
      OBVIOUS
    <3>1. /\ pc = "OFF" /\ pc' # "OFF" /\ num' = nvCount
          /\ \A s \in 0 .. nvCount - 1 : nodes'[s] = nvNodes[s]
      BY StoreAssumption DEF StoreInit, Load, KnownInv, StoreInv, TypeOK, Slots
    <3>2. KnownPeers = had /\ KnownPeers' = {nodes'[s] : s \in 0 .. nvCount - 1}
      BY <3>1 DEF KnownPeers, Known
    <3> QED BY <3>1, <3>2 DEF KnownInv, SavedWereKnown
  <2> QED BY <2>1, <2>2, <2>3, <2>4 DEF ActsAsSet
<1> QED BY <1>1, KnownInvInit, KnownInvStep, PTL DEF KnownSpec, StoreIsSet

-----------------------------------------------------------------------------
(* StoreFaults.  Nothing is assumed of NVRAM when a save begins: the writes  *)
(* that failed may have left any mixture of old and new records.             *)

(* The counts stay within the arrays. *)
Counts == /\ num \in 0 .. MaxNodes /\ nvCount \in 0 .. MaxNodes
          /\ i \in Nat
          /\ pc \in {"OFF", "READY", "SAVING"}

(* A save without a failure so far has written all records it has passed. *)
Written == pc = "SAVING" /\ ~failed => \A s \in Slots : s < i => nvNodes[s] = nodes[s]

(* CleanSaveIsComplete, node by node *)
AllSaved == pc = "READY" /\ ~failed =>
              nvCount = num /\ \A s \in 0 .. num - 1 : nvNodes[s] = nodes[s]

FaultInv == Counts /\ Written /\ AllSaved

LEMMA FaultInvInit == FaultInit => FaultInv
  BY StoreAssumption DEF FaultInit, Init, FaultInv, Counts, Written, AllSaved

LEMMA FaultInvStep == FaultInv /\ [FaultNext]_faultVars => FaultInv'
<1> SUFFICES ASSUME FaultInv, [FaultNext]_faultVars PROVE FaultInv'
  OBVIOUS
<1> USE StoreAssumption DEF FaultInv, Counts, Written, AllSaved, Slots
<1>1. CASE StoreInit /\ failed' = FALSE
  BY <1>1 DEF StoreInit, Load
<1>2. ASSUME NEW a \in Addresses, Add(a), failed' = (failed /\ pc' = "READY") PROVE FaultInv'
  <2>1. CASE UNCHANGED vars
    <3>1. pc = "READY" BY <1>2 DEF Add
    <3>2. ~failed' => ~failed BY <1>2, <2>1, <3>1, Zenon DEF vars
    <3> QED BY <2>1, <3>2 DEF vars
  <2>2. CASE num # MaxNodes /\ NewNode(a) BY <1>2, <2>2 DEF NewNode
  <2> QED BY <1>2, <2>1, <2>2 DEF Add
<1>3. CASE WriteRecord /\ UNCHANGED failed
  BY <1>3 DEF WriteRecord
<1>4. CASE WriteCount /\ UNCHANGED failed
  BY <1>4 DEF WriteCount
<1>5. CASE PowerLoss /\ UNCHANGED failed
  BY <1>5 DEF PowerLoss
<1>6. CASE RecordFails \/ CountFails
  BY <1>6 DEF RecordFails, CountFails
<1>7. CASE UNCHANGED faultVars
  BY <1>7 DEF faultVars, vars
<1> QED BY <1>1, <1>2, <1>3, <1>4, <1>5, <1>6, <1>7 DEF FaultNext

(* After a save none of whose writes failed, NVRAM holds the whole list,     *)
(* whatever failed before.                                                   *)
THEOREM CleanSaveRepairs == FaultSpec => []CleanSaveIsComplete
<1>1. FaultInv => CleanSaveIsComplete
  <2> SUFFICES ASSUME FaultInv, pc = "READY", ~failed PROVE SavedPeers = ListedPeers
    BY DEF CleanSaveIsComplete
  <2>1. nvCount = num /\ \A s \in 0 .. num - 1 : nvNodes[s] = nodes[s]
    BY DEF FaultInv, AllSaved
  <2>2. \A k \in 1 .. num : k - 1 \in 0 .. num - 1
    BY DEF FaultInv, Counts
  <2> QED BY <2>1, <2>2 DEF SavedPeers, ListedPeers
<1> QED BY <1>1, FaultInvInit, FaultInvStep, PTL DEF FaultSpec
=============================================================================
