---------------------------- MODULE MC_Collection ----------------------------
(* Collection for TLC: the number of faults (crashes and failed writes) and  *)
(* of checkpoints and compactions started is bounded.                        *)
EXTENDS Collection, TLC

CONSTANTS MaxFaults, MaxPersists

VARIABLES faults, persists

budget == <<faults, persists>>

MCInit ==
    /\ Init
    /\ faults = 0
    /\ persists = 0

Fault ==
    \/ Crash
    \/ PersistFails
    \/ CompactFails
    \/ \E e \in Ext : DeleteFails(e) \/ \E v \in Val : UpsertFails(e, v, v)

PersistStep ==
    \/ SealSegment \/ MarkDeleted \/ WriteIndex \/ WriteSparse
    \/ SetSnapshotSeq \/ SetNextId \/ Truncate \/ AutoCompact

Success ==
    \/ \E e \in Ext :
          \/ \E v \in Val : \E t \in {None, v} : Upsert(e, v, t)
          \/ Delete(e)
    \/ PersistStep
    \/ Recover

Maintenance == PersistDocs \/ CompactSegments

Faults == Fault /\ faults < MaxFaults /\ faults' = faults + 1 /\ UNCHANGED persists

MCNext ==
    \/ Success /\ UNCHANGED budget
    \/ Faults
    \/ Maintenance /\ persists < MaxPersists /\ persists' = persists + 1
                   /\ UNCHANGED faults

MCSpec == MCInit /\ [][MCNext]_<<vars, budget>>

(* For liveness: the server's flush task calls persist for ever.            *)
LiveNext ==
    \/ (Success \/ Maintenance) /\ UNCHANGED budget
    \/ Faults

(* Whoever starts the server calls open until it returns, replay_wal and    *)
(* persist run to their end, and the flush task ticks.                      *)
LiveSpec ==
    /\ MCInit
    /\ [][LiveNext]_<<vars, budget>>
    /\ WF_<<vars, budget>>(Recover /\ UNCHANGED budget)
    /\ WF_<<vars, budget>>(PersistStep /\ UNCHANGED budget)
    /\ WF_<<vars, budget>>(PersistDocs /\ UNCHANGED budget)

Symmetry == Permutations(Ext) \cup Permutations(Val)
==============================================================================
