------------------------------- MODULE WalFile -------------------------------
(***************************************************************************)
(* The write-ahead log as a file (dv-storage/src/wal.rs): what append      *)
(* writes, what a failed or interrupted append leaves behind, and what the *)
(* reader makes of it.                                                     *)
(*                                                                         *)
(* The file is a sequence of 4-byte words.  A word carries what wrote it,  *)
(* so that a checksum is equal to another only when computed from the same *)
(* words, and so that a word read as a length is the number it stands for, *)
(* or, when it is a checksum or a piece of text, a number past the end.    *)
(***************************************************************************)
EXTENDS Naturals, Sequences

CONSTANTS
    Body,       \* records, each the number of words its JSON takes
    MaxWords,   \* bound: words in the file (the disk is full)
    MaxSeq      \* bound: numbers given out between two truncations

ASSUME WalAssumption == Body \subseteq Nat \ {0} /\ MaxWords \in Nat /\ MaxSeq \in Nat

VARIABLES
    file,       \* the words of wal.log
    next_seq,   \* Wal.next_seq
    up,         \* a process holds the Wal
    records,    \* history: records written in full since the last truncation
    acked       \* history: those of them that append acknowledged

vars == <<file, next_seq, up, records, acked>>

-----------------------------------------------------------------------------
(* The format *)

Num(n)  == <<"int", n>>
Text(b) == [i \in 1 .. b |-> <<"text", b, i>>]
Crc(seq, len, payload) == <<"crc", seq, len, payload>>

WAL_MAGIC   == <<<<"magic", 1>>, <<"magic", 2>>>>
WAL_VERSION == Num(1)
Header      == Append(WAL_MAGIC, WAL_VERSION)

(* seq takes two words, len and crc one each. *)
FrameHead == 4

Frame(n, b) ==
    <<Num(n), Num(0), Num(b), Crc(<<Num(n), Num(0)>>, Num(b), Text(b))>> \o Text(b)

(* A mutant: no header. *)
WrittenNoHeader(n, b) == Frame(n, b)

(* All an append writes: the header too, into an empty file. *)
Written(n, b) == IF file = <<>> THEN Header \o Frame(n, b) ELSE Frame(n, b)

(* The number a word is read as; a large one if it was not written as one. *)
AsLength(w) == IF w[1] = "int" THEN w[2] ELSE MaxWords + 1

(* A mutant: the checksum is not compared. *)
CrcIgnored(f, k, len) == TRUE

(* read_all_from: the records of a readable file. *)
Unreadable == [ok |-> FALSE, records |-> <<>>]
Nothing    == [ok |-> TRUE, records |-> <<>>]

CrcMatches(f, k, len) ==
    f[k + 3] = Crc(<<f[k], f[k + 1]>>, f[k + 2], SubSeq(f, k + FrameHead, k + FrameHead + len - 1))

Found(f, k) == [seq |-> AsLength(f[k]), body |-> AsLength(f[k + 2])]
After(f, k) == k + FrameHead + AsLength(f[k + 2])

(* The frame at k is there, all of it, and is what its checksum says. *)
Whole(f, k) ==
    /\ k + FrameHead <= Len(f) + 1
    /\ After(f, k) <= Len(f) + 1
    /\ CrcMatches(f, k, AsLength(f[k + 2]))

(* What the loop reads from the word k on. *)
ReadFrom(f) ==
    LET from[k \in 1 .. Len(f) + 1] ==
          IF k = Len(f) + 1 THEN Nothing
          ELSE IF ~ Whole(f, k) THEN Unreadable
          ELSE IF ~ from[After(f, k)].ok THEN Unreadable
          ELSE [ok |-> TRUE, records |-> <<Found(f, k)>> \o from[After(f, k)].records]
    IN  from

HasHeader(f) == Len(f) >= Len(Header) /\ SubSeq(f, 1, Len(Header)) = Header

Read(f) ==
    IF f = <<>> THEN Nothing
    ELSE IF ~ HasHeader(f) THEN Unreadable
    ELSE ReadFrom(f)[Len(Header) + 1]

-----------------------------------------------------------------------------
Init ==
    /\ file = <<>>
    /\ next_seq = 1
    /\ up = TRUE
    /\ records = <<>>
    /\ acked = <<>>

Fits(words) == Len(file) + Len(words) <= MaxWords

(* Wal::append of a record that is written in full and synced. *)
Log(b) ==
    LET words == Written(next_seq, b)
    IN  /\ up
        /\ next_seq < MaxSeq
        /\ Fits(words)
        /\ file' = file \o words
        /\ next_seq' = next_seq + 1
        /\ records' = Append(records, [seq |-> next_seq, body |-> b])
        /\ acked' = Append(acked, [seq |-> next_seq, body |-> b])
        /\ UNCHANGED up

(* Some of the words of an append reach the file, all of them if what fails *)
(* is the sync.                                                             *)
WritePart(b) ==
    LET words == Written(next_seq, b)
    IN  \E n \in 0 .. Len(words) :
          /\ Len(file) + n <= MaxWords
          /\ file' = file \o SubSeq(words, 1, n)
          /\ records' = IF n = Len(words)
                        THEN Append(records, [seq |-> next_seq, body |-> b])
                        ELSE records

LogFails ==
    /\ up
    /\ next_seq < MaxSeq
    /\ \E b \in Body : WritePart(b)
    /\ UNCHANGED <<next_seq, up, acked>>

(* The process dies, in the middle of an append perhaps. *)
Crash ==
    /\ up
    /\ up' = FALSE
    /\ \E b \in Body : WritePart(b)
    /\ UNCHANGED <<next_seq, acked>>

(* A mutant: the last number is used again. *)
SeqOfLast(read) == IF read = <<>> THEN 1 ELSE read[Len(read)].seq

(* Wal::truncate: a file with just a header is renamed over the log. *)
Truncate ==
    /\ up
    /\ file' = Header
    /\ next_seq' = 1
    /\ records' = <<>>
    /\ acked' = <<>>
    /\ UNCHANGED up

SeqAfter(read) == IF read = <<>> THEN 1 ELSE read[Len(read)].seq + 1

(* Wal::open.  An unreadable file is an error and stays as it is. *)
Open ==
    /\ ~ up
    /\ Read(file).ok
    /\ up' = TRUE
    /\ next_seq' = SeqAfter(Read(file).records)
    /\ UNCHANGED <<file, records, acked>>

Next == (\E b \in Body : Log(b)) \/ LogFails \/ Crash \/ Truncate \/ Open

Spec == Init /\ [][Next]_vars

-----------------------------------------------------------------------------
(* Properties *)

(* A file that can be read gives back the records written in full, in       *)
(* order, and nothing that an interrupted append left.  (read_all_from      *)
(* against append)                                                          *)
ReadsBack == Read(file).ok => Read(file).records = records

(* Records reach the file in the order of their numbers, also across        *)
(* refused appends, which leave their number to the next, and reopenings.   *)
(* (append, open)                                                           *)
NumbersAscend ==
    /\ \A j, k \in 1 .. Len(records) : j < k => records[j].seq <= records[k].seq
    /\ \A j, k \in 1 .. Len(acked) : j < k => acked[j].seq < acked[k].seq

(* The log as Collection uses it: once an append leaves part of a record    *)
(* the file is torn until truncated, whatever is appended to it later.      *)
Abstract == INSTANCE RecordLog WITH torn <- ~ Read(file).ok
RefinesRecordLog == Abstract!Spec

(* Every acknowledged record can be read back.                              *)
AcknowledgedReadable ==
    LET read == Read(file)
    IN  read.ok /\ \A k \in 1 .. Len(acked) : \E j \in 1 .. Len(read.records) :
                       read.records[j] = acked[k]
=============================================================================
