----------------------------- MODULE MC_Database -----------------------------
(* Database for TLC: two shards of one sharded collection, a collection that *)
(* lies in the directory of another, and bounded numbers of operations, of   *)
(* those that fail and of crashes.                                           *)
EXTENDS Database

CONSTANTS docs, docs__s0, docs__s1, acme, acme_notes, MaxOps, MaxFaults, MaxCrashes

MCName == {docs, docs__s0, docs__s1, acme, acme_notes}
MCNamespace == [n \in MCName |-> IF n = acme_notes THEN acme ELSE None]
MCLogical == {docs}
MCPhysical == [L \in {docs} |-> <<docs__s0, docs__s1>>]

VARIABLES ops, faults, crashes

MCInit == Init /\ ops = 0 /\ faults = 0 /\ crashes = 0

MCNext ==
    \/ ops < MaxOps /\ ops' = ops + 1 /\ UNCHANGED <<faults, crashes>> /\ Operate
    \/ /\ ops < MaxOps /\ ops' = ops + 1
       /\ faults < MaxFaults /\ faults' = faults + 1
       /\ UNCHANGED crashes
       /\ Fail
    \/ crashes < MaxCrashes /\ crashes' = crashes + 1 /\ UNCHANGED <<ops, faults>> /\ Crash

MCSpec == MCInit /\ [][MCNext]_<<vars, ops, faults, crashes>>
==============================================================================
