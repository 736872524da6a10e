---------------------------- MODULE StoreFaults -----------------------------
(***************************************************************************)
(* The store when NVRAM writes fail: save_to_nvram looks at no result and  *)
(* goes on.                                                                *)
(***************************************************************************)
EXTENDS Store

VARIABLE failed  \* a write of the latest save failed; the code keeps no such note

faultVars == <<vars, failed>>

FaultInit == Init /\ failed = FALSE

RecordFails == /\ pc = "SAVING" /\ i < num
               /\ i' = i + 2
               /\ failed' = TRUE
               /\ UNCHANGED <<nodes, num, nvNodes, nvCount, pc>>

CountFails == /\ pc = "SAVING" /\ i >= num
              /\ pc' = "READY" /\ i' = 0
              /\ failed' = TRUE
              /\ UNCHANGED <<nodes, num, nvNodes, nvCount>>

FaultNext == \/ StoreInit /\ failed' = FALSE
             \/ \E a \in Addresses : Add(a) /\ failed' = (failed /\ pc' = "READY")
             \/ (WriteRecord \/ WriteCount) /\ UNCHANGED failed
             \/ PowerLoss /\ UNCHANGED failed
             \/ RecordFails
             \/ CountFails

FaultSpec == FaultInit /\ [][FaultNext]_faultVars
-----------------------------------------------------------------------------
(* A save repairs all that earlier ones lost, as it writes every record and  *)
(* not only the one that changed: after a save none of whose writes failed,  *)
(* NVRAM holds the whole list.                                               *)
CleanSaveIsComplete == pc = "READY" /\ ~failed => SavedPeers = ListedPeers
=============================================================================
