------------------------------ MODULE RecordLog ------------------------------
(***************************************************************************)
(* What Collection relies on its write-ahead log for: a sequence of        *)
(* numbered records that is either read back whole or not at all.          *)
(* WalFile shows that wal.rs provides it.                                  *)
(***************************************************************************)
EXTENDS Naturals, Sequences

CONSTANTS Body      \* what a record says

VARIABLES
    records,        \* the records the file holds in full, since the last truncation
    torn,           \* the file cannot be read
    next_seq,       \* the number the next record gets
    up              \* a process has the log open

vars == <<records, torn, next_seq, up>>

Numbered(n, b) == [seq |-> n, body |-> b]

Init ==
    /\ records = <<>>
    /\ torn = FALSE
    /\ next_seq = 1
    /\ up = TRUE

(* A record acknowledged: it is in the file, and its number is used up. *)
Log(b) ==
    /\ up
    /\ records' = Append(records, Numbered(next_seq, b))
    /\ next_seq' = next_seq + 1
    /\ UNCHANGED <<torn, up>>

(* What an append that is not acknowledged leaves in the file: nothing, a   *)
(* part of a record, or the record.  A part makes the file unreadable for   *)
(* good; only a broken header may be completed by a later part.             *)
LeftOver ==
    \/ torn' \in {torn, TRUE} /\ UNCHANGED records
    \/ records = <<>> /\ torn' = FALSE /\ UNCHANGED records
    \/ \E b \in Body : records' = Append(records, Numbered(next_seq, b))
                       /\ UNCHANGED torn

(* The append fails and the process goes on: the number is not used up. *)
LogFails == up /\ LeftOver /\ UNCHANGED <<next_seq, up>>

Crash == up /\ up' = FALSE /\ LeftOver /\ UNCHANGED next_seq

Truncate ==
    /\ up
    /\ records' = <<>>
    /\ torn' = FALSE
    /\ next_seq' = 1
    /\ UNCHANGED up

(* Opening goes on numbering from the last record read. *)
Open ==
    /\ ~ up
    /\ ~ torn
    /\ up' = TRUE
    /\ next_seq' = IF records = <<>> THEN 1 ELSE records[Len(records)].seq + 1
    /\ UNCHANGED <<records, torn>>

Next == (\E b \in Body : Log(b)) \/ LogFails \/ Crash \/ Truncate \/ Open

Spec == Init /\ [][Next]_vars
=============================================================================
