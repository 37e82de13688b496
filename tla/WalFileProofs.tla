---------------------------- MODULE WalFileProofs ----------------------------
(***************************************************************************)
(* Theorems about WalFile, for records of any lengths and any bounds: a    *)
(* file that can be read gives back what was written, numbers ascend, and  *)
(* the file implements RecordLog, whatever appends leave behind.           *)
(***************************************************************************)
EXTENDS WalFile, SequenceTheorems, WellFoundedInduction, TLAPS

-----------------------------------------------------------------------------
(* Words and frames *)

Checksum(n, b) == Crc(<<Num(n), Num(0)>>, Num(b), Text(b))

Ints      == {Num(n) : n \in Nat}
Pieces    == UNION {{<<"text", b, i>> : i \in Nat} : b \in Nat}
Checksums == UNION {{Checksum(n, b) : n \in Nat} : b \in Nat}
Magic     == {<<"magic", 1>>, <<"magic", 2>>}

Word == Ints \cup Pieces \cup Checksums \cup Magic

LEMMA Words ==
    /\ \A n \in Nat : Num(n) \in Word /\ Num(n)[1] = "int" /\ AsLength(Num(n)) = n
    /\ \A b, i \in Nat : <<"text", b, i>> \in Word /\ <<"text", b, i>>[1] = "text"
    /\ \A n, b \in Nat : Checksum(n, b) \in Word /\ Checksum(n, b)[1] = "crc"
    /\ \A w \in Magic : w \in Word /\ w[1] = "magic"
    /\ \A w \in Word : AsLength(w) \in Nat
<1>1. \A n \in Nat : Num(n) \in Word /\ Num(n)[1] = "int" /\ AsLength(Num(n)) = n
  <2>1. \A n \in Nat : Num(n) \in Word
    BY DEF Word, Ints
  <2> QED
    BY <2>1 DEF Num, AsLength
<1>2. \A b, i \in Nat : <<"text", b, i>> \in Word /\ <<"text", b, i>>[1] = "text"
  BY DEF Word, Pieces
<1>3. \A n, b \in Nat : Checksum(n, b) \in Word /\ Checksum(n, b)[1] = "crc"
  <2>1. \A n, b \in Nat : Checksum(n, b) \in Word
    BY DEF Word, Checksums
  <2> QED
    BY <2>1 DEF Checksum, Crc
<1>4. \A w \in Magic : w \in Word /\ w[1] = "magic"
  BY DEF Word, Magic
<1>5. ASSUME NEW w \in Word
      PROVE  AsLength(w) \in Nat
  <2>1. MaxWords + 1 \in Nat
    BY WalAssumption
  <2>2. w[1] # "int" => AsLength(w) \in Nat
    BY <2>1 DEF AsLength
  <2>3. CASE w \in Ints
    BY <1>1, <2>3 DEF Ints
  <2>4. CASE w \in Pieces
    BY <1>2, <2>2, <2>4 DEF Pieces
  <2>5. CASE w \in Checksums
    BY <1>3, <2>2, <2>5 DEF Checksums
  <2>6. CASE w \in Magic
    BY <1>4, <2>2, <2>6
  <2> QED
    BY <2>3, <2>4, <2>5, <2>6 DEF Word
<1> QED
  BY <1>1, <1>2, <1>3, <1>4, <1>5

LEMMA Texts ==
    ASSUME NEW b \in Nat
    PROVE  /\ Text(b) \in Seq(Word)
           /\ Len(Text(b)) = b
           /\ \A i \in 1 .. b : Text(b)[i] = <<"text", b, i>>
<1>1. \A i \in 1 .. b : Text(b)[i] = <<"text", b, i>>
  BY DEF Text
<1>2. Text(b) \in [1 .. b -> Word]
  <2>1. \A i \in 1 .. b : <<"text", b, i>> \in Word
    BY Words
  <2> HIDE DEF Word
  <2> QED
    BY <2>1 DEF Text
<1>3. Text(b) \in Seq(Word)
  BY <1>2, SeqDef
<1> QED
  BY <1>1, <1>2, <1>3, LenProperties

(* The words of a run of words that is two runs, one after the other. *)
LEMMA Joined ==
    ASSUME NEW S, NEW s \in Seq(S), NEW t \in Seq(S), NEW g, g = s \o t
    PROVE  /\ g \in Seq(S)
           /\ Len(g) = Len(s) + Len(t)
           /\ \A i \in 1 .. Len(s) : g[i] = s[i]
           /\ \A i \in 1 .. Len(t) : g[Len(s) + i] = t[i]
<1>1. Len(s) \in Nat /\ Len(t) \in Nat
  OBVIOUS
<1>2. /\ g \in Seq(S)
      /\ Len(g) = Len(s) + Len(t)
      /\ \A i \in 1 .. Len(s) + Len(t) : g[i] = IF i <= Len(s) THEN s[i] ELSE t[i - Len(s)]
  BY ConcatProperties
<1>3. \A i \in 1 .. Len(s) : i \in 1 .. Len(s) + Len(t) /\ i <= Len(s)
  BY <1>1
<1>4. \A i \in 1 .. Len(t) :
        /\ Len(s) + i \in 1 .. Len(s) + Len(t)
        /\ ~ (Len(s) + i <= Len(s))
        /\ Len(s) + i - Len(s) = i
  BY <1>1
<1> QED
  BY <1>2, <1>3, <1>4

LEMMA FrameIs ==
    ASSUME NEW n \in Nat, NEW b \in Nat
    PROVE  /\ Frame(n, b) \in Seq(Word)
           /\ Len(Frame(n, b)) = FrameHead + b
           /\ Frame(n, b)[1] = Num(n)
           /\ Frame(n, b)[2] = Num(0)
           /\ Frame(n, b)[3] = Num(b)
           /\ Frame(n, b)[4] = Checksum(n, b)
           /\ \A i \in 1 .. b : Frame(n, b)[FrameHead + i] = <<"text", b, i>>
<1> DEFINE head == <<Num(n), Num(0), Num(b), Checksum(n, b)>>
<1>1. head \in Seq(Word) /\ Len(head) = 4
  BY Words
<1>2. Frame(n, b) = head \o Text(b)
  BY DEF Frame, Checksum
<1>3. /\ head[1] = Num(n) /\ head[2] = Num(0) /\ head[3] = Num(b) /\ head[4] = Checksum(n, b)
  OBVIOUS
<1> HIDE DEF head
<1>4. /\ Text(b) \in Seq(Word) /\ Len(Text(b)) = b
      /\ \A i \in 1 .. b : Text(b)[i] = <<"text", b, i>>
  BY Texts
<1>5. /\ Frame(n, b) \in Seq(Word)
      /\ Len(Frame(n, b)) = 4 + b
      /\ \A i \in 1 .. 4 : Frame(n, b)[i] = head[i]
      /\ \A i \in 1 .. b : Frame(n, b)[4 + i] = Text(b)[i]
  <2> HIDE DEF head
  <2>1. PICK s \in Seq(Word) : s = head
    BY <1>1
  <2>2. PICK t \in Seq(Word) : t = Text(b)
    BY <1>4
  <2>3. Len(s) = 4 /\ Len(t) = b
    BY <1>1, <1>4, <2>1, <2>2
  <2>4. PICK g : g = s \o t
    OBVIOUS
  <2>5. Frame(n, b) = g
    BY <1>2, <2>1, <2>2, <2>4, Zenon
  <2>6. /\ g \in Seq(Word)
        /\ Len(g) = Len(s) + Len(t)
        /\ \A i \in 1 .. Len(s) : g[i] = s[i]
        /\ \A i \in 1 .. Len(t) : g[Len(s) + i] = t[i]
    BY <2>4, Joined
  <2> QED
    BY <2>1, <2>2, <2>3, <2>5, <2>6
<1>6. 1 \in 1 .. 4 /\ 2 \in 1 .. 4 /\ 3 \in 1 .. 4 /\ 4 \in 1 .. 4
  OBVIOUS
<1> QED
  BY <1>3, <1>4, <1>5, <1>6 DEF FrameHead

LEMMA HeaderIs ==
    /\ Header \in Seq(Word)
    /\ Len(Header) = 3
    /\ Header[1] = <<"magic", 1>> /\ Header[2] = <<"magic", 2>> /\ Header[3] = Num(1)
<1> DEFINE magic == <<<<"magic", 1>>, <<"magic", 2>>>>
<1>1. <<"magic", 1>> \in Word /\ <<"magic", 2>> \in Word /\ Num(1) \in Word
  BY Words DEF Magic
<1>2. /\ magic \in Seq(Word) /\ Len(magic) = 2
      /\ magic[1] = <<"magic", 1>> /\ magic[2] = <<"magic", 2>>
  BY <1>1
<1>3. Header = Append(magic, Num(1))
  BY DEF Header, WAL_MAGIC, WAL_VERSION
<1> HIDE DEF magic
<1>4. PICK s \in Seq(Word), w \in Word : s = magic /\ w = Num(1)
  BY <1>1, <1>2
<1>5. PICK t \in Seq(Word) : t = <<w>> /\ Len(t) = 1 /\ t[1] = w
  <2>1. <<w>> \in Seq(Word) /\ Len(<<w>>) = 1 /\ <<w>>[1] = w
    OBVIOUS
  <2> QED
    BY <2>1, Zenon
<1>6. PICK h : h = s \o t
  OBVIOUS
<1>7. Header = h
  <2>1. Append(s, w) = s \o <<w>>
    BY AppendIsConcat
  <2> QED
    BY <1>3, <1>4, <1>5, <1>6, <2>1, Zenon
<1>8. /\ h \in Seq(Word)
      /\ Len(h) = Len(s) + Len(t)
      /\ \A i \in 1 .. Len(s) : h[i] = s[i]
      /\ \A i \in 1 .. Len(t) : h[Len(s) + i] = t[i]
  BY <1>6, Joined
<1>9. 1 \in 1 .. 2 /\ 2 \in 1 .. 2 /\ 1 \in 1 .. 1
  OBVIOUS
<1>10. Len(s) = 2 /\ s[1] = <<"magic", 1>> /\ s[2] = <<"magic", 2>>
  BY <1>2, <1>4, Zenon
<1>11. Len(h) = 3 /\ h[1] = s[1] /\ h[2] = s[2] /\ h[3] = t[1]
  BY <1>5, <1>8, <1>9, <1>10
<1> QED
  BY <1>4, <1>5, <1>7, <1>8, <1>10, <1>11, Zenon

-----------------------------------------------------------------------------
(* Induction from the end of a file to its beginning, over sets of places.  *)

LEMMA Backwards ==
    ASSUME NEW n \in Nat, NEW T \in SUBSET (1 .. n),
           \A k \in 1 .. n : (\A j \in 1 .. n : j > k => j \in T) => k \in T
    PROVE  T = 1 .. n
<1> DEFINE bad == {n - k : k \in (1 .. n) \ T}
<1> SUFFICES ASSUME bad # {} PROVE FALSE
  <2>1. bad = {} => (1 .. n) \ T = {}
    OBVIOUS
  <2> QED
    BY <2>1
<1>1. bad \subseteq Nat
  <2>1. \A k \in 1 .. n : n - k \in Nat
    OBVIOUS
  <2> QED
    BY <2>1
<1>2. PICK x \in bad : \A y \in bad : ~ (<<y, x>> \in OpToRel(<, Nat))
  <2> HIDE DEF bad
  <2> QED
    BY <1>1, NatLessThanWellFounded, WFMin
<1>3. \A y \in bad : ~ (y < x)
  BY <1>1, <1>2 DEF OpToRel
<1>4. PICK k \in (1 .. n) \ T : x = n - k
  BY <1>2
<1>5. ASSUME NEW j \in 1 .. n, j > k PROVE j \in T
  <2>1. SUFFICES ASSUME j \notin T PROVE FALSE
    OBVIOUS
  <2>2. n - j \in bad
    BY <2>1
  <2>3. n - j < n - k
    BY <1>5
  <2> QED
    BY <1>3, <1>4, <2>2, <2>3
<1> QED
  BY <1>4, <1>5

-----------------------------------------------------------------------------
(* The reader *)

(* One turn of the loop at k, when g is what is read from later places on.  *)
Turn(f, g, k) ==
    IF k = Len(f) + 1 THEN Nothing
    ELSE IF ~ Whole(f, k) THEN Unreadable
    ELSE IF ~ g[After(f, k)].ok THEN Unreadable
    ELSE [ok |-> TRUE, records |-> <<Found(f, k)>> \o g[After(f, k)].records]

LEMMA AfterType ==
    ASSUME NEW f \in Seq(Word), NEW k \in 1 .. Len(f), Whole(f, k)
    PROVE  /\ After(f, k) \in Nat
           /\ k < After(f, k) /\ After(f, k) <= Len(f) + 1
           /\ k + FrameHead <= After(f, k)
           /\ After(f, k) \in 1 .. Len(f) + 1
<1>1. Len(f) \in Nat /\ k + 2 \in 1 .. Len(f)
  BY DEF Whole, FrameHead
<1>2. f[k + 2] \in Word
  BY <1>1
<1>3. AsLength(f[k + 2]) \in Nat
  BY <1>2, Words
<1> QED
  BY <1>1, <1>3 DEF Whole, After, FrameHead

(* The loop ends for every file: there is a function as ReadFrom names it.  *)
LEMMA ReadFromExists ==
    ASSUME NEW f \in Seq(Word)
    PROVE  \E g : g = [k \in 1 .. Len(f) + 1 |-> Turn(f, g, k)]
<1> DEFINE n == Len(f) + 1
           Reads(g, m) == \A k \in m .. n : g[k] = Turn(f, g, k)
           T == {m \in 1 .. n : \E g : Reads(g, m)}
<1>1. n \in Nat /\ 1 \in 1 .. n
  OBVIOUS
<1>2. ASSUME NEW g, NEW h, NEW m \in 1 .. n, \A k \in m + 1 .. n : h[k] = g[k],
             NEW k \in m .. n
      PROVE  Turn(f, h, k) = Turn(f, g, k)
  <2>1. CASE k = Len(f) + 1
    BY <2>1 DEF Turn
  <2>2. CASE k # Len(f) + 1 /\ ~ Whole(f, k)
    BY <2>2 DEF Turn
  <2>3. CASE k # Len(f) + 1 /\ Whole(f, k)
    <3>1. k \in 1 .. Len(f)
      BY <1>1, <2>3
    <3>2. After(f, k) \in m + 1 .. n
      BY <1>1, <2>3, <3>1, AfterType
    <3> QED
      BY <1>2, <3>2 DEF Turn
  <2> QED
    BY <2>1, <2>2, <2>3
<1>3. ASSUME NEW m \in 1 .. n, \A j \in 1 .. n : j > m => j \in T
      PROVE  m \in T
  <2>1. \E g : \A k \in m + 1 .. n : g[k] = Turn(f, g, k)
    <3>1. CASE m = n
      BY <1>1, <3>1
    <3>2. CASE m < n
      <4>1. m + 1 \in 1 .. n /\ m + 1 > m
        BY <1>1, <3>2
      <4>2. m + 1 \in T
        <5> HIDE DEF T
        <5> QED
          BY <1>3, <4>1
      <4> QED
        BY <4>2
    <3> QED
      BY <1>1, <3>1, <3>2
  <2>2. PICK g : \A k \in m + 1 .. n : g[k] = Turn(f, g, k)
    BY <2>1
  <2> DEFINE h == [k \in 1 .. n |-> IF k = m THEN Turn(f, g, m) ELSE g[k]]
  <2>3. \A k \in m + 1 .. n : h[k] = g[k]
    BY <1>1
  <2>4. h[m] = Turn(f, g, m)
    OBVIOUS
  <2> HIDE DEF h
  <2>5. \A k \in m .. n : Turn(f, h, k) = Turn(f, g, k)
    BY <1>2, <2>3
  <2>6. \A k \in m .. n : k = m \/ k \in m + 1 .. n
    BY <1>1
  <2>7. Reads(h, m)
    BY <2>2, <2>3, <2>4, <2>5, <2>6
  <2> QED
    BY <2>7
<1>4. T = 1 .. n
  <2>1. T \in SUBSET (1 .. n)
    OBVIOUS
  <2> HIDE DEF T, n
  <2> QED
    BY <1>1, <1>3, <2>1, Backwards
<1>5. PICK g : Reads(g, 1)
  BY <1>1, <1>4
<1> DEFINE h == [k \in 1 .. n |-> g[k]]
<1>6. \A k \in 1 .. n : h[k] = g[k]
  OBVIOUS
<1>7. \A k \in 1 .. n : Turn(f, h, k) = Turn(f, g, k)
  <2>1. \A k \in 1 + 1 .. n : h[k] = g[k]
    BY <1>1
  <2> HIDE DEF h, n
  <2>2. \A k \in 1 .. n : Turn(f, h, k) = Turn(f, g, k)
    BY <1>1, <1>2, <2>1
  <2> QED
    BY <2>2
<1>8. h = [k \in 1 .. n |-> Turn(f, h, k)]
  BY <1>5, <1>7
<1> QED
  BY <1>8

LEMMA ReadFromIs ==
    ASSUME NEW f \in Seq(Word)
    PROVE  \A k \in 1 .. Len(f) + 1 : ReadFrom(f)[k] = Turn(f, ReadFrom(f), k)
<1>1. ReadFrom(f) = CHOOSE g : g = [k \in 1 .. Len(f) + 1 |-> Turn(f, g, k)]
  BY DEF ReadFrom, Turn
<1>2. ReadFrom(f) = [k \in 1 .. Len(f) + 1 |-> Turn(f, ReadFrom(f), k)]
  BY <1>1, ReadFromExists
<1> QED
  BY <1>2

-----------------------------------------------------------------------------
(* What a file holds *)

Rec == [seq : Nat, body : Nat]

Headed(f) ==
    /\ Len(f) >= 3
    /\ f[1] = <<"magic", 1>> /\ f[2] = <<"magic", 2>> /\ f[3] = Num(1)

(* The record r is at k, whole. *)
HoldsFrame(f, k, r) ==
    /\ k + 3 + r.body <= Len(f)
    /\ f[k] = Num(r.seq) /\ f[k + 1] = Num(0) /\ f[k + 2] = Num(r.body)
    /\ f[k + 3] = Checksum(r.seq, r.body)
    /\ \A i \in 1 .. r.body : f[k + 3 + i] = <<"text", r.body, i>>

(* The records are in the file one after the other from its header on, at   *)
(* the places p; the last place is the one behind them.                     *)
Places(f, recs, p) ==
    /\ p \in [1 .. Len(recs) + 1 -> Nat \ {0}]
    /\ p[1] = 4
    /\ \A i \in 1 .. Len(recs) :
         HoldsFrame(f, p[i], recs[i]) /\ p[i + 1] = p[i] + 4 + recs[i].body

EndsAt(recs, p, k) == k \in Nat \ {0} /\ p[Len(recs) + 1] = k

Intact(f, recs) ==
    /\ Headed(f)
    /\ \E p : Places(f, recs, p) /\ EndsAt(recs, p, Len(f) + 1)

(* At k an append stopped before its checksum, and the word where the       *)
(* checksum would be is not one.                                            *)
CutHead(f, k) == k <= Len(f) /\ (k + 3 <= Len(f) => f[k + 3][1] # "crc")

(* At k an append stopped before a word of its text, and the word there is  *)
(* another one.                                                             *)
CutText(f, k, n, b, i) ==
    /\ i \in 1 .. b
    /\ k + 2 + i <= Len(f)
    /\ f[k + 2] = Num(b) /\ f[k + 3] = Checksum(n, b)
    /\ k + 3 + i <= Len(f) => f[k + 3 + i] # <<"text", b, i>>

Stuck(f, k) == CutHead(f, k) \/ \E n, b, i \in Nat : CutText(f, k, n, b, i)

Torn(f) ==
    /\ Headed(f)
    /\ \E recs \in Seq(Rec) : \E p, k :
         Places(f, recs, p) /\ EndsAt(recs, p, k) /\ k <= Len(f) /\ Stuck(f, k)

(* A header that was never completed, or was by something else. *)
Short(f)     == f \in {<<>>, <<<<"magic", 1>>>>, WAL_MAGIC}
BadHeader(f) == Len(f) >= 2 /\ f[2] # <<"magic", 2>>
Broken(f)    == (Short(f) /\ f # <<>>) \/ BadHeader(f) \/ Torn(f)

Holds(f, recs) == (f = <<>> /\ recs = <<>>) \/ Intact(f, recs) \/ Broken(f)

LEMMA HasHeaderIs ==
    ASSUME NEW f \in Seq(Word)
    PROVE  HasHeader(f) <=> Headed(f)
<1>1. Len(f) \in Nat /\ \A i \in 1 .. Len(f) : f[i] \in Word
  OBVIOUS
<1>2. PICK h : h = SubSeq(f, 1, 3)
  OBVIOUS
<1>3. ASSUME Len(f) >= 3
      PROVE  h \in Seq(Word) /\ Len(h) = 3 /\ h[1] = f[1] /\ h[2] = f[2] /\ h[3] = f[3]
  <2>1. \A i \in 1 .. 3 : f[i] \in Word
    BY <1>1, <1>3
  <2>2. /\ h \in Seq(Word)
        /\ Len(h) = IF 1 <= 3 THEN 3 - 1 + 1 ELSE 0
        /\ \A i \in 1 .. 3 - 1 + 1 : h[i] = f[1 + i - 1]
    BY <1>2, <2>1, SubSeqProperties
  <2>3. 1 \in 1 .. 3 - 1 + 1 /\ 2 \in 1 .. 3 - 1 + 1 /\ 3 \in 1 .. 3 - 1 + 1
    OBVIOUS
  <2> QED
    BY <2>2, <2>3
<1>4. ASSUME Len(f) >= 3 PROVE h = Header <=> Headed(f)
  <2>1. h = Header => Headed(f)
    BY <1>3, <1>4, HeaderIs DEF Headed
  <2>2. ASSUME Headed(f) PROVE h = Header
    <3>1. h[1] = Header[1] /\ h[2] = Header[2] /\ h[3] = Header[3]
      BY <1>3, <1>4, <2>2, HeaderIs DEF Headed
    <3>2. Len(h) = Len(Header) /\ \A i \in 1 .. Len(h) : h[i] = Header[i]
      <4>1. \A i \in 1 .. 3 : i = 1 \/ i = 2 \/ i = 3
        OBVIOUS
      <4> QED
        BY <1>3, <1>4, <3>1, <4>1, HeaderIs
    <3> QED
      BY <1>3, <1>4, <3>2, HeaderIs, SeqEqual
  <2> QED
    BY <2>1, <2>2
<1>5. HasHeader(f) <=> (Len(f) >= 3 /\ h = Header)
  BY <1>2, HeaderIs, Zenon DEF HasHeader
<1> QED
  BY <1>4, <1>5 DEF Headed

LEMMA FrameWhole ==
    ASSUME NEW f \in Seq(Word), NEW k \in Nat \ {0}, NEW r \in Rec, HoldsFrame(f, k, r)
    PROVE  Whole(f, k) /\ Found(f, k) = r /\ After(f, k) = k + 4 + r.body
<1>1. r.seq \in Nat /\ r.body \in Nat /\ r = [seq |-> r.seq, body |-> r.body]
  BY DEF Rec
<1>2. AsLength(f[k]) = r.seq /\ AsLength(f[k + 2]) = r.body
  BY <1>1, Words DEF HoldsFrame
<1>3. Len(f) \in Nat /\ \A i \in 1 .. Len(f) : f[i] \in Word
  OBVIOUS
<1>4. PICK t : t = SubSeq(f, k + 4, k + 4 + r.body - 1)
  OBVIOUS
<1>5. t = Text(r.body)
  <2>1. \A i \in k + 4 .. k + 4 + r.body - 1 : f[i] \in Word
    BY <1>1, <1>3 DEF HoldsFrame
  <2>2. k + 4 \in Int /\ k + 4 + r.body - 1 \in Int
    BY <1>1
  <2>3. /\ t \in Seq(Word)
        /\ Len(t) = IF k + 4 <= k + 4 + r.body - 1 THEN (k + 4 + r.body - 1) - (k + 4) + 1 ELSE 0
        /\ \A i \in 1 .. (k + 4 + r.body - 1) - (k + 4) + 1 : t[i] = f[k + 4 + i - 1]
    BY <1>4, <2>1, <2>2, SubSeqProperties
  <2>4. Len(t) = r.body
    BY <1>1, <2>3
  <2>5. \A i \in 1 .. r.body : t[i] = f[k + 3 + i]
    <3>1. (k + 4 + r.body - 1) - (k + 4) + 1 = r.body
      BY <1>1
    <3>2. \A i \in 1 .. r.body : k + 4 + i - 1 = k + 3 + i
      BY <1>1
    <3> QED
      BY <2>3, <3>1, <3>2
  <2>6. \A i \in 1 .. Len(t) : t[i] = Text(r.body)[i]
    <3>1. \A i \in 1 .. r.body : f[k + 3 + i] = <<"text", r.body, i>>
      BY DEF HoldsFrame
    <3>2. \A i \in 1 .. r.body : Text(r.body)[i] = <<"text", r.body, i>>
      BY <1>1, Texts
    <3> QED
      BY <2>4, <2>5, <3>1, <3>2, Zenon
  <2>7. PICK u \in Seq(Word) : u = Text(r.body) /\ Len(u) = r.body
    BY <1>1, Texts
  <2>8. t \in Seq(Word) /\ Len(t) = Len(u) /\ \A i \in 1 .. Len(t) : t[i] = u[i]
    BY <2>3, <2>4, <2>6, <2>7, Zenon
  <2>9. t = u
    BY <2>8, SeqEqual, SMTT(30)
  <2> QED
    BY <2>7, <2>9, Zenon
<1>6. CrcMatches(f, k, r.body)
  <2>1. f[k + 3] = Crc(<<Num(r.seq), Num(0)>>, Num(r.body), Text(r.body))
    BY DEF HoldsFrame, Checksum
  <2>2. Num(r.seq) = f[k] /\ Num(0) = f[k + 1] /\ Num(r.body) = f[k + 2]
    BY DEF HoldsFrame
  <2>3. f[k + 3] = Crc(<<f[k], f[k + 1]>>, f[k + 2], t)
    BY <1>5, <2>1, <2>2, Zenon
  <2> QED
    BY <1>4, <2>3, Zenon DEF CrcMatches, FrameHead
<1>7. After(f, k) = k + 4 + r.body /\ k + 4 + r.body <= Len(f) + 1
  BY <1>1, <1>2, <1>3 DEF After, FrameHead, HoldsFrame
<1>8. Whole(f, k)
  <2>1. k + FrameHead <= Len(f) + 1
    BY <1>1, <1>3, <1>7 DEF FrameHead
  <2> QED
    BY <1>2, <1>6, <1>7, <2>1 DEF Whole
<1> QED
  BY <1>1, <1>2, <1>7, <1>8 DEF Found

LEMMA StuckNotWhole ==
    ASSUME NEW f \in Seq(Word), NEW k \in Nat \ {0}, k <= Len(f), Stuck(f, k)
    PROVE  ~ Whole(f, k)
<1> SUFFICES ASSUME Whole(f, k) PROVE FALSE
  OBVIOUS
<1>1. Len(f) \in Nat /\ \A i \in 1 .. Len(f) : f[i] \in Word
  OBVIOUS
<1>2. k + 3 <= Len(f) /\ CrcMatches(f, k, AsLength(f[k + 2]))
  BY <1>1 DEF Whole, FrameHead
<1>3. CASE CutHead(f, k)
  <2>1. f[k + 3][1] = "crc"
    BY <1>2 DEF CrcMatches, Crc
  <2> QED
    BY <1>2, <1>3, <2>1 DEF CutHead
<1>4. CASE \E n, b, i \in Nat : CutText(f, k, n, b, i)
  <2>1. PICK n \in Nat, b \in Nat, i \in Nat : CutText(f, k, n, b, i)
    BY <1>4
  <2> i \in 1 .. b
    BY <2>1 DEF CutText
  <2>2. AsLength(f[k + 2]) = b
    BY <2>1, Words DEF CutText
  <2>3. k + 4 + b <= Len(f) + 1
    BY <2>2 DEF Whole, After, FrameHead
  <2>4. PICK t : t = SubSeq(f, k + 4, k + 4 + b - 1)
    OBVIOUS
  <2>5. t[i] = f[k + 3 + i]
    <3>1. \A j \in k + 4 .. k + 4 + b - 1 : f[j] \in Word
      BY <1>1, <2>3
    <3>2. k + 4 \in Int /\ k + 4 + b - 1 \in Int
      OBVIOUS
    <3>3. \A j \in 1 .. (k + 4 + b - 1) - (k + 4) + 1 : t[j] = f[k + 4 + j - 1]
      BY <2>4, <3>1, <3>2, SubSeqProperties
    <3>4. i \in 1 .. (k + 4 + b - 1) - (k + 4) + 1 /\ k + 4 + i - 1 = k + 3 + i
      OBVIOUS
    <3> QED
      BY <3>3, <3>4
  <2>6. Text(b) = t
    <3>1. Crc(<<Num(n), Num(0)>>, Num(b), Text(b)) = Crc(<<f[k], f[k + 1]>>, f[k + 2], t)
      BY <1>2, <2>1, <2>2, <2>4, Zenon DEF CutText, CrcMatches, Checksum, FrameHead
    <3>2. \A a, c, x, e, g, y : Crc(a, c, x) = Crc(e, g, y) => x = y
      BY DEF Crc
    <3> QED
      BY <3>1, <3>2, Zenon
  <2>7. k + 3 + i <= Len(f)
    BY <1>1, <2>3
  <2>8. Text(b)[i] = <<"text", b, i>>
    BY Texts
  <2>9. f[k + 3 + i] # <<"text", b, i>>
    BY <2>1, <2>7 DEF CutText
  <2> QED
    BY <2>5, <2>6, <2>8, <2>9, Zenon
<1> QED
  BY <1>3, <1>4 DEF Stuck

-----------------------------------------------------------------------------
(* What the reader makes of it *)

LEMMA Reading ==
    ASSUME NEW f \in Seq(Word)
    PROVE  /\ ReadFrom(f)[Len(f) + 1] = Nothing
           /\ \A k \in 1 .. Len(f) :
                /\ ~ Whole(f, k) => ~ ReadFrom(f)[k].ok
                /\ Whole(f, k) /\ ~ ReadFrom(f)[After(f, k)].ok => ~ ReadFrom(f)[k].ok
                /\ Whole(f, k) /\ ReadFrom(f)[After(f, k)].ok =>
                     ReadFrom(f)[k] =
                       [ok |-> TRUE,
                        records |-> <<Found(f, k)>> \o ReadFrom(f)[After(f, k)].records]
<1>1. Len(f) \in Nat
  OBVIOUS
<1>2. \A k \in 1 .. Len(f) + 1 : ReadFrom(f)[k] = Turn(f, ReadFrom(f), k)
  BY ReadFromIs
<1>3. ReadFrom(f)[Len(f) + 1] = Nothing
  <2>1. Len(f) + 1 \in 1 .. Len(f) + 1
    BY <1>1
  <2> QED
    BY <1>2, <2>1 DEF Turn
<1>4. ASSUME NEW k \in 1 .. Len(f)
      PROVE  ReadFrom(f)[k] = Turn(f, ReadFrom(f), k) /\ k # Len(f) + 1
  BY <1>1, <1>2
<1>5. ~ Unreadable.ok
  BY DEF Unreadable
<1> QED
  BY <1>3, <1>4, <1>5 DEF Turn

LEMMA PlacesIn ==
    ASSUME NEW f \in Seq(Word), NEW recs \in Seq(Rec), NEW p, Places(f, recs, p)
    PROVE  \A i \in 1 .. Len(recs) :
             /\ p[i] \in 1 .. Len(f)
             /\ recs[i] \in Rec
             /\ Whole(f, p[i])
             /\ Found(f, p[i]) = recs[i]
             /\ After(f, p[i]) = p[i + 1]
<1> SUFFICES ASSUME NEW i \in 1 .. Len(recs)
             PROVE  /\ p[i] \in 1 .. Len(f)
                    /\ recs[i] \in Rec
                    /\ Whole(f, p[i])
                    /\ Found(f, p[i]) = recs[i]
                    /\ After(f, p[i]) = p[i + 1]
  OBVIOUS
<1>1. Len(recs) \in Nat /\ Len(f) \in Nat /\ recs[i] \in Rec
  OBVIOUS
<1>2. p[i] \in Nat \ {0}
  <2>1. i \in 1 .. Len(recs) + 1
    BY <1>1
  <2>2. \A j \in 1 .. Len(recs) + 1 : p[j] \in Nat \ {0}
    BY DEF Places
  <2> QED
    BY <2>1, <2>2, Zenon
<1>3. HoldsFrame(f, p[i], recs[i]) /\ p[i + 1] = p[i] + 4 + recs[i].body
  BY DEF Places
<1>4. recs[i].body \in Nat
  BY <1>1 DEF Rec
<1>5. p[i] \in 1 .. Len(f)
  <2>1. p[i] + 3 + recs[i].body <= Len(f)
    BY <1>3, Zenon DEF HoldsFrame
  <2>2. \A k \in Nat \ {0} : \A b, n \in Nat : k + 3 + b <= n => k \in 1 .. n
    OBVIOUS
  <2> QED
    BY <1>1, <1>2, <1>4, <2>1, <2>2
<1> QED
  BY <1>1, <1>2, <1>3, <1>5, FrameWhole

LEMMA IntactRead ==
    ASSUME NEW f \in Seq(Word), NEW recs \in Seq(Rec), Intact(f, recs)
    PROVE  Read(f) = [ok |-> TRUE, records |-> recs]
<1>1. PICK p : Places(f, recs, p) /\ p[Len(recs) + 1] = Len(f) + 1
  BY DEF Intact, EndsAt
<1>2. Len(recs) \in Nat /\ Len(f) \in Nat
  OBVIOUS
<1> DEFINE n == Len(recs) + 1
           T == {i \in 1 .. n : ReadFrom(f)[p[i]] =
                                  [ok |-> TRUE, records |-> SubSeq(recs, i, Len(recs))]}
<1>3. n \in T
  <2>1. SubSeq(recs, Len(recs) + 1, Len(recs)) = <<>>
    BY <1>2, SubSeqEmpty
  <2>2. ReadFrom(f)[p[n]] = Nothing
    BY <1>1, Reading
  <2>3. n \in 1 .. n
    BY <1>2
  <2> QED
    BY <2>1, <2>2, <2>3, Zenon DEF Nothing
<1>4. ASSUME NEW i \in 1 .. n, \A j \in 1 .. n : j > i => j \in T
      PROVE  i \in T
  <2>1. CASE i = n
    BY <1>3, <2>1
  <2>2. CASE i # n
    <3>1. i \in 1 .. Len(recs) /\ i + 1 \in 1 .. n /\ i + 1 > i
      BY <1>2, <2>2
    <3>2. ReadFrom(f)[p[i + 1]] = [ok |-> TRUE, records |-> SubSeq(recs, i + 1, Len(recs))]
      <4>1. i + 1 \in T
        BY <1>4, <3>1, Zenon
      <4> QED
        BY <4>1
    <3>3. /\ p[i] \in 1 .. Len(f) /\ recs[i] \in Rec /\ Whole(f, p[i])
          /\ Found(f, p[i]) = recs[i] /\ After(f, p[i]) = p[i + 1]
      BY <1>1, <3>1, PlacesIn
    <3>4. /\ ReadFrom(f)[p[i + 1]].ok
          /\ ReadFrom(f)[p[i + 1]].records = SubSeq(recs, i + 1, Len(recs))
      BY <3>2
    <3>5. ReadFrom(f)[p[i]] =
            [ok |-> TRUE, records |-> <<recs[i]>> \o ReadFrom(f)[p[i + 1]].records]
      <4>1. Whole(f, p[i]) /\ ReadFrom(f)[After(f, p[i])].ok =>
              ReadFrom(f)[p[i]] =
                [ok |-> TRUE,
                 records |-> <<Found(f, p[i])>> \o ReadFrom(f)[After(f, p[i])].records]
        BY <3>3, Reading
      <4> QED
        BY <3>3, <3>4, <4>1, Zenon
    <3>6. SubSeq(recs, i, Len(recs)) = <<recs[i]>> \o SubSeq(recs, i + 1, Len(recs))
      <4>1. Len(recs) \in i .. Len(recs)
        BY <1>2, <3>1
      <4> QED
        BY <3>1, <4>1, SubSeqRecursiveFirst
    <3>7. ReadFrom(f)[p[i]] = [ok |-> TRUE, records |-> SubSeq(recs, i, Len(recs))]
      BY <3>4, <3>5, <3>6, Zenon
    <3> QED
      BY <3>7, Zenon
  <2> QED
    BY <2>1, <2>2
<1>5. T = 1 .. n
  <2>1. T \in SUBSET (1 .. n) /\ n \in Nat
    BY <1>2
  <2> HIDE DEF T, n
  <2> QED
    BY <1>4, <2>1, Backwards
<1>6. ReadFrom(f)[4] = [ok |-> TRUE, records |-> recs]
  <2>1. 1 \in T
    <3>1. 1 \in 1 .. n
      BY <1>2
    <3> QED
      BY <1>5, <3>1, Zenon
  <2>2. ReadFrom(f)[p[1]] = [ok |-> TRUE, records |-> SubSeq(recs, 1, Len(recs))]
    BY <2>1, Zenon
  <2>3. p[1] = 4 /\ SubSeq(recs, 1, Len(recs)) = recs
    BY <1>1, SubSeqFull DEF Places
  <2> QED
    BY <2>2, <2>3, Zenon
<1>7. HasHeader(f) /\ f # <<>>
  BY HasHeaderIs DEF Intact, Headed
<1>8. Len(Header) + 1 = 4
  BY HeaderIs
<1> QED
  BY <1>6, <1>7, <1>8, Zenon DEF Read

LEMMA TornUnread ==
    ASSUME NEW f \in Seq(Word), Torn(f)
    PROVE  ~ Read(f).ok
<1>1. PICK recs \in Seq(Rec) : \E p, k :
         Places(f, recs, p) /\ EndsAt(recs, p, k) /\ k <= Len(f) /\ Stuck(f, k)
  BY DEF Torn
<1>1a. PICK p, k : Places(f, recs, p) /\ EndsAt(recs, p, k) /\ k <= Len(f) /\ Stuck(f, k)
  BY <1>1
<1>2. Len(recs) \in Nat /\ Len(f) \in Nat
  OBVIOUS
<1> DEFINE n == Len(recs) + 1
           T == {i \in 1 .. n : ~ ReadFrom(f)[p[i]].ok}
<1>3. n \in T
  <2>1. p[n] = k /\ k \in Nat \ {0}
    BY <1>1a DEF EndsAt
  <2>2. k \in 1 .. Len(f) /\ ~ Whole(f, k)
    BY <1>1a, <1>2, <2>1, StuckNotWhole
  <2>3. n \in 1 .. n
    BY <1>2
  <2>4. ~ ReadFrom(f)[p[n]].ok
    BY <2>1, <2>2, Reading
  <2> QED
    BY <2>3, <2>4, Zenon
<1>4. ASSUME NEW i \in 1 .. n, \A j \in 1 .. n : j > i => j \in T
      PROVE  i \in T
  <2>1. CASE i = n
    BY <1>3, <2>1
  <2>2. CASE i # n
    <3>1. i \in 1 .. Len(recs) /\ i + 1 \in 1 .. n /\ i + 1 > i
      BY <1>2, <2>2
    <3>2. ~ ReadFrom(f)[p[i + 1]].ok
      <4>1. i + 1 \in T
        BY <1>4, <3>1, Zenon
      <4> QED
        BY <4>1
    <3>3. p[i] \in 1 .. Len(f) /\ Whole(f, p[i]) /\ After(f, p[i]) = p[i + 1]
      BY <1>1a, <3>1, PlacesIn
    <3>4. ~ ReadFrom(f)[p[i]].ok
      BY <3>2, <3>3, Reading, Zenon
    <3> QED
      BY <3>4, Zenon
  <2> QED
    BY <2>1, <2>2
<1>5. T = 1 .. n
  <2>1. T \in SUBSET (1 .. n) /\ n \in Nat
    BY <1>2
  <2> HIDE DEF T, n
  <2> QED
    BY <1>4, <2>1, Backwards
<1>6. ~ ReadFrom(f)[4].ok
  <2>1. 1 \in T
    <3>1. 1 \in 1 .. n
      BY <1>2
    <3> QED
      BY <1>5, <3>1, Zenon
  <2>2. p[1] = 4
    BY <1>1a DEF Places
  <2> QED
    BY <2>1, <2>2, Zenon
<1>7. HasHeader(f) /\ f # <<>>
  BY HasHeaderIs DEF Torn, Headed
<1>8. Len(Header) + 1 = 4
  BY HeaderIs
<1> QED
  BY <1>6, <1>7, <1>8, Zenon DEF Read

LEMMA BrokenUnread ==
    ASSUME NEW f \in Seq(Word), Broken(f)
    PROVE  ~ Read(f).ok
<1>1. CASE Torn(f)
  BY <1>1, TornUnread
<1>2. CASE (Short(f) /\ f # <<>>) \/ BadHeader(f)
  <2>1. ~ Headed(f) /\ f # <<>>
    BY <1>2 DEF Short, BadHeader, Headed, WAL_MAGIC
  <2>2. ~ HasHeader(f)
    BY <2>1, HasHeaderIs
  <2> QED
    BY <2>1, <2>2 DEF Read, Unreadable
<1> QED
  BY <1>1, <1>2 DEF Broken

-----------------------------------------------------------------------------
(* What an append makes of it *)

Extends(f, g) == Len(f) <= Len(g) /\ \A i \in 1 .. Len(f) : g[i] = f[i]

With(recs, q, b) == Append(recs, [seq |-> q, body |-> b])

LEMMA PlacesExtend ==
    ASSUME NEW f \in Seq(Word), NEW g \in Seq(Word), Extends(f, g),
           NEW recs \in Seq(Rec), NEW p, Places(f, recs, p)
    PROVE  Places(g, recs, p)
<1>1. ASSUME NEW k \in Nat \ {0}, NEW r \in Rec, HoldsFrame(f, k, r)
      PROVE  HoldsFrame(g, k, r)
  <2>1. r.body \in Nat /\ Len(f) \in Nat /\ Len(g) \in Nat
    BY DEF Rec
  <2>2. k + 3 + r.body <= Len(f)
    BY <1>1 DEF HoldsFrame
  <2>3. k \in 1 .. Len(f) /\ k + 1 \in 1 .. Len(f) /\ k + 2 \in 1 .. Len(f) /\ k + 3 \in 1 .. Len(f)
    BY <2>1, <2>2
  <2>4. \A i \in 1 .. r.body : k + 3 + i \in 1 .. Len(f)
    BY <2>1, <2>2
  <2>5. k + 3 + r.body <= Len(g)
    BY <2>1, <2>2 DEF Extends
  <2> QED
    BY <1>1, <2>3, <2>4, <2>5 DEF HoldsFrame, Extends
<1>2. ASSUME NEW i \in 1 .. Len(recs)
      PROVE  HoldsFrame(g, p[i], recs[i])
  <2>1. p[i] \in Nat \ {0} /\ recs[i] \in Rec /\ HoldsFrame(f, p[i], recs[i])
    <3>1. Len(recs) \in Nat /\ recs[i] \in Rec
      OBVIOUS
    <3>2. i \in 1 .. Len(recs) + 1
      BY <3>1
    <3> QED
      BY <3>1, <3>2 DEF Places
  <2> QED
    BY <1>1, <2>1
<1> QED
  BY <1>2 DEF Places

LEMMA HeadedExtend ==
    ASSUME NEW f \in Seq(Word), NEW g \in Seq(Word), Extends(f, g), Headed(f)
    PROVE  Headed(g)
<1>1. Len(f) \in Nat /\ Len(g) \in Nat
  OBVIOUS
<1>2. 1 \in 1 .. Len(f) /\ 2 \in 1 .. Len(f) /\ 3 \in 1 .. Len(f)
  BY <1>1 DEF Headed
<1> QED
  BY <1>1, <1>2 DEF Extends, Headed

(* A file that ends with the first m words of a record.                     *)
LEMMA PartOfFrame ==
    ASSUME NEW g \in Seq(Word), Headed(g), NEW recs \in Seq(Rec),
           NEW p, Places(g, recs, p), NEW k \in Nat \ {0}, EndsAt(recs, p, k),
           NEW q \in Nat, NEW b \in Nat, NEW m \in 0 .. 4 + b, k + m = Len(g) + 1,
           \A i \in 1 .. m : g[k + i - 1] = Frame(q, b)[i]
    PROVE  /\ m = 0 => Intact(g, recs)
           /\ m # 0 /\ m # 4 + b => Torn(g)
           /\ m = 4 + b => Intact(g, With(recs, q, b))
<1>1. Len(g) \in Nat /\ Len(recs) \in Nat /\ m \in Nat /\ m <= 4 + b
  OBVIOUS
<1>2. k \in Nat /\ k >= 1
  OBVIOUS
<1>3. ASSUME m = 0 PROVE Intact(g, recs)
  <2>1. k = Len(g) + 1
    BY <1>1, <1>2, <1>3
  <2>2. EndsAt(recs, p, Len(g) + 1)
    BY <2>1, Zenon
  <2> QED
    BY <2>2 DEF Intact
<1>4. m >= 3 => g[k + 2] = Num(b)
  <2>1. m >= 3 => 3 \in 1 .. m
    BY <1>1
  <2>2. k + 3 - 1 = k + 2
    BY <1>2
  <2>3. Frame(q, b)[3] = Num(b)
    BY FrameIs
  <2>4. m >= 3 => g[k + 3 - 1] = Frame(q, b)[3]
    BY <2>1
  <2> QED
    BY <2>2, <2>3, <2>4, Zenon
<1>5. m >= 4 => g[k + 3] = Checksum(q, b)
  <2>1. m >= 4 => 4 \in 1 .. m
    BY <1>1
  <2>2. k + 4 - 1 = k + 3
    BY <1>2
  <2>3. Frame(q, b)[4] = Checksum(q, b)
    BY FrameIs
  <2>4. m >= 4 => g[k + 4 - 1] = Frame(q, b)[4]
    BY <2>1
  <2> QED
    BY <2>2, <2>3, <2>4, Zenon
<1>6. ASSUME m # 0, m # 4 + b PROVE Torn(g)
  <2>1. k <= Len(g)
    BY <1>1, <1>2, <1>6
  <2>2. Stuck(g, k)
    <3>1. CASE m < 4
      <4>1. ~ (k + 3 <= Len(g))
        BY <1>1, <1>2, <3>1
      <4> QED
        BY <2>1, <4>1 DEF Stuck, CutHead
    <3>2. CASE m >= 4
      <4>1. PICK i \in Nat : i = m - 3
        BY <1>1, <3>2
      <4>2. i \in 1 .. b /\ k + 2 + i <= Len(g) /\ ~ (k + 3 + i <= Len(g))
        BY <1>1, <1>2, <1>6, <3>2, <4>1
      <4>3. CutText(g, k, q, b, i)
        BY <1>1, <1>4, <1>5, <3>2, <4>2 DEF CutText
      <4> QED
        BY <4>3 DEF Stuck
    <3> QED
      BY <1>1, <3>1, <3>2
  <2> QED
    BY <2>1, <2>2 DEF Torn
<1>7. ASSUME m = 4 + b
      PROVE  Intact(g, With(recs, q, b))
  <2>1. PICK r \in Rec : r = [seq |-> q, body |-> b] /\ r.seq = q /\ r.body = b
    <3>1. [seq |-> q, body |-> b] \in Rec
      BY DEF Rec
    <3> QED
      BY <3>1
  <2>2. PICK more : more = Append(recs, r)
    OBVIOUS
  <2>3. /\ Len(more) = Len(recs) + 1
        /\ \A i \in 1 .. Len(recs) : more[i] = recs[i]
        /\ more[Len(recs) + 1] = r
    BY <2>2, AppendProperties
  <2>4. HoldsFrame(g, k, r)
    <3>1. 1 \in 1 .. m /\ 2 \in 1 .. m /\ k + 1 - 1 = k /\ k + 2 - 1 = k + 1
      BY <1>1, <1>2, <1>7
    <3>2. g[k] = Num(q) /\ g[k + 1] = Num(0)
      <4>1. g[k + 1 - 1] = Frame(q, b)[1] /\ g[k + 2 - 1] = Frame(q, b)[2]
        BY <3>1
      <4>2. Frame(q, b)[1] = Num(q) /\ Frame(q, b)[2] = Num(0)
        BY FrameIs
      <4> QED
        BY <3>1, <4>1, <4>2, Zenon
    <3>3. ASSUME NEW i \in 1 .. b PROVE g[k + 3 + i] = <<"text", b, i>>
      <4>1. FrameHead + i \in 1 .. m /\ k + (FrameHead + i) - 1 = k + 3 + i
        BY <1>1, <1>2, <1>7 DEF FrameHead
      <4> QED
        BY <4>1, FrameIs
    <3>4. k + 3 + b <= Len(g)
      BY <1>1, <1>2, <1>7
    <3>5. m >= 4
      BY <1>1, <1>7
    <3>6. g[k + 2] = Num(b) /\ g[k + 3] = Checksum(q, b)
      BY <1>1, <1>4, <1>5, <3>5
    <3> QED
      BY <2>1, <3>2, <3>3, <3>4, <3>6, Zenon DEF HoldsFrame
  <2> DEFINE last == Len(recs) + 1
             P == [i \in 1 .. last + 1 |-> IF i = last + 1 THEN k + 4 + b ELSE p[i]]
  <2>5. /\ P \in [1 .. Len(more) + 1 -> Nat \ {0}]
        /\ \A i \in 1 .. last : P[i] = p[i]
        /\ P[last + 1] = k + 4 + b
    <3>1. \A i \in 1 .. last + 1 : i # last + 1 => p[i] \in Nat \ {0}
      <4>1. \A i \in 1 .. last : p[i] \in Nat \ {0}
        BY DEF Places
      <4> QED
        BY <1>1, <4>1
    <3>2. k + 4 + b \in Nat \ {0}
      BY <1>2
    <3>3. P \in [1 .. last + 1 -> Nat \ {0}]
      BY <3>1, <3>2
    <3>4. \A i \in 1 .. last : i \in 1 .. last + 1 /\ i # last + 1
      BY <1>1
    <3>5. last + 1 \in 1 .. last + 1
      BY <1>1
    <3> QED
      BY <2>3, <3>3, <3>4, <3>5
  <2> HIDE DEF P
  <2>6. ASSUME NEW i \in 1 .. Len(more)
        PROVE  HoldsFrame(g, P[i], more[i]) /\ P[i + 1] = P[i] + 4 + more[i].body
    <3>1. CASE i = last
      <4>1. P[i] = k /\ more[i] = r
        <5>1. last \in 1 .. last
          BY <1>1
        <5> QED
          BY <2>3, <2>5, <3>1, <5>1, Zenon DEF EndsAt
      <4> QED
        BY <2>1, <2>4, <2>5, <3>1, <4>1
    <3>2. CASE i # last
      <4>1. i \in 1 .. Len(recs) /\ i \in 1 .. last /\ i + 1 \in 1 .. last
        BY <1>1, <2>3, <3>2
      <4>2. P[i] = p[i] /\ P[i + 1] = p[i + 1] /\ more[i] = recs[i]
        BY <2>3, <2>5, <4>1
      <4>3. HoldsFrame(g, p[i], recs[i]) /\ p[i + 1] = p[i] + 4 + recs[i].body
        BY <4>1 DEF Places
      <4> QED
        BY <4>2, <4>3, Zenon
    <3> QED
      BY <3>1, <3>2
  <2>7. Places(g, more, P)
    <3>1. P[1] = 4
      <4>1. 1 \in 1 .. last
        BY <1>1
      <4> QED
        BY <2>5, <4>1 DEF Places
    <3> QED
      BY <2>5, <2>6, <3>1 DEF Places
  <2>8. EndsAt(more, P, Len(g) + 1)
    <3>1. k + 4 + b = Len(g) + 1 /\ k + 4 + b \in Nat \ {0}
      BY <1>1, <1>2, <1>7
    <3> QED
      BY <2>3, <2>5, <3>1, Zenon DEF EndsAt
  <2>9. Intact(g, more)
    BY <2>7, <2>8 DEF Intact
  <2> QED
    BY <2>1, <2>2, <2>9, Zenon DEF With
<1> QED
  BY <1>3, <1>6, <1>7

(* Whatever is appended to a torn file, it stays torn at the same place.    *)
LEMMA TornStays ==
    ASSUME NEW f \in Seq(Word), Torn(f), NEW g \in Seq(Word), Extends(f, g),
           NEW q \in Nat, NEW b \in Nat, NEW m \in 0 .. 4 + b, Len(g) = Len(f) + m,
           \A i \in 1 .. m : g[Len(f) + i] = Frame(q, b)[i]
    PROVE  Torn(g)
<1>1. PICK recs \in Seq(Rec) : \E p, k :
         Places(f, recs, p) /\ EndsAt(recs, p, k) /\ k <= Len(f) /\ Stuck(f, k)
  BY DEF Torn
<1>2. Len(f) \in Nat /\ Len(g) \in Nat /\ m \in Nat
  OBVIOUS
<1>3. PICK p, k : Places(f, recs, p) /\ EndsAt(recs, p, k) /\ k <= Len(f) /\ Stuck(f, k)
  BY <1>1
<1>4. k \in Nat /\ k >= 1 /\ k <= Len(f) /\ k <= Len(g)
  BY <1>2, <1>3 DEF EndsAt
<1>5. Headed(g) /\ Places(g, recs, p)
  BY <1>3, PlacesExtend, HeadedExtend DEF Torn
<1>6. \A i \in 1 .. m : /\ i = 1 => g[Len(f) + i] = Num(q)
                        /\ i = 2 => g[Len(f) + i] = Num(0)
                        /\ i = 3 => g[Len(f) + i] = Num(b)
  <2>1. /\ Frame(q, b)[1] = Num(q)
        /\ Frame(q, b)[2] = Num(0)
        /\ Frame(q, b)[3] = Num(b)
    BY FrameIs
  <2> QED
    BY <2>1, Zenon
<1>7. ASSUME CutHead(f, k) PROVE CutHead(g, k)
  <2>1. SUFFICES ASSUME k + 3 <= Len(g) PROVE g[k + 3][1] # "crc"
    BY <1>4 DEF CutHead
  <2>2. CASE k + 3 <= Len(f)
    <3>1. k + 3 \in 1 .. Len(f)
      BY <1>2, <1>4, <2>2
    <3>2. g[k + 3] = f[k + 3]
      BY <3>1 DEF Extends
    <3> QED
      BY <1>7, <2>2, <3>2 DEF CutHead
  <2>3. CASE ~ (k + 3 <= Len(f))
    <3>1. PICK i \in Nat : i = k + 3 - Len(f)
      <4>1. k + 3 - Len(f) \in Nat
        BY <1>2, <1>4, <2>3
      <4> QED
        BY <4>1
    <3>2. i \in 1 .. m /\ (i = 1 \/ i = 2 \/ i = 3) /\ Len(f) + i = k + 3
      BY <1>2, <1>4, <2>1, <2>3, <3>1
    <3>3. g[k + 3] \in {Num(q), Num(0), Num(b)}
      BY <1>6, <3>2
    <3> QED
      BY <3>3, Words
  <2> QED
    BY <2>2, <2>3
<1>8. ASSUME NEW n \in Nat, NEW c \in Nat, NEW i \in Nat, CutText(f, k, n, c, i)
      PROVE  CutText(g, k, n, c, i)
  <2>1. i \in 1 .. c /\ k + 2 + i <= Len(f) /\ f[k + 2] = Num(c) /\ f[k + 3] = Checksum(n, c)
    BY <1>8 DEF CutText
  <2>2. k + 2 \in 1 .. Len(f) /\ k + 3 \in 1 .. Len(f)
    <3>1. k + 2 + i <= Len(f) /\ i >= 1
      BY <2>1
    <3> QED
      BY <1>2, <1>4, <3>1
  <2>3. g[k + 2] = f[k + 2] /\ g[k + 3] = f[k + 3]
    BY <2>2 DEF Extends
  <2>4. ASSUME k + 3 + i <= Len(g) PROVE g[k + 3 + i] # <<"text", c, i>>
    <3>1. CASE k + 3 + i <= Len(f)
      <4>1. k + 3 + i \in 1 .. Len(f)
        BY <1>2, <1>4, <3>1
      <4>2. g[k + 3 + i] = f[k + 3 + i]
        BY <4>1 DEF Extends
      <4> QED
        BY <1>8, <3>1, <4>2 DEF CutText
    <3>2. CASE ~ (k + 3 + i <= Len(f))
      <4>1. k + 3 + i = Len(f) + 1
        <5>1. \A x, j, l \in Nat : x + 2 + j <= l /\ ~ (x + 3 + j <= l) => x + 3 + j = l + 1
          OBVIOUS
        <5>2. k + 2 + i <= Len(f) /\ ~ (k + 3 + i <= Len(f))
          BY <2>1, <3>2
        <5>3. k \in Nat /\ Len(f) \in Nat
          BY <1>2, <1>4
        <5>4. \A j, l \in Nat : k + 2 + j <= l /\ ~ (k + 3 + j <= l) => k + 3 + j = l + 1
          BY <5>1, <5>3, Zenon
        <5>5. \A l \in Nat : k + 2 + i <= l /\ ~ (k + 3 + i <= l) => k + 3 + i = l + 1
          BY <5>4, Zenon
        <5> QED
          BY <5>2, <5>3, <5>5, Zenon
      <4>1a. 1 \in 1 .. m
        BY <1>2, <2>4, <4>1
      <4>2. g[k + 3 + i] = Num(q)
        BY <1>6, <4>1, <4>1a
      <4> QED
        BY <4>2 DEF Num
    <3> QED
      BY <3>1, <3>2
  <2>5. k + 2 + i <= Len(g)
    BY <1>2, <1>4, <2>1
  <2> QED
    BY <2>1, <2>3, <2>4, <2>5 DEF CutText
<1>9. Stuck(g, k)
  BY <1>3, <1>7, <1>8 DEF Stuck
<1> QED
  BY <1>3, <1>4, <1>5, <1>9 DEF Torn

(* The words an append writes.                                              *)
LEMMA WordsWritten ==
    ASSUME NEW q \in Nat, NEW b \in Nat
    PROVE  /\ Written(q, b) \in Seq(Word)
           /\ file # <<>> => /\ Len(Written(q, b)) = 4 + b
                             /\ \A i \in 1 .. 4 + b : Written(q, b)[i] = Frame(q, b)[i]
           /\ file = <<>> => /\ Len(Written(q, b)) = 7 + b
                             /\ \A i \in 1 .. 3 : Written(q, b)[i] = Header[i]
                             /\ \A i \in 1 .. 4 + b : Written(q, b)[3 + i] = Frame(q, b)[i]
<1>1. CASE file # <<>>
  <2>1. Written(q, b) = Frame(q, b)
    BY <1>1 DEF Written
  <2> QED
    BY <1>1, <2>1, FrameIs DEF FrameHead
<1>2. CASE file = <<>>
  <2>1. PICK s \in Seq(Word), t \in Seq(Word) : s = Header /\ t = Frame(q, b)
    BY HeaderIs, FrameIs
  <2>2. Len(s) = 3 /\ Len(t) = 4 + b
    BY <2>1, HeaderIs, FrameIs DEF FrameHead
  <2>3. PICK g : g = s \o t
    OBVIOUS
  <2>4. Written(q, b) = g
    BY <1>2, <2>1, <2>3, Zenon DEF Written
  <2>5. /\ g \in Seq(Word)
        /\ Len(g) = Len(s) + Len(t)
        /\ \A i \in 1 .. Len(s) : g[i] = s[i]
        /\ \A i \in 1 .. Len(t) : g[Len(s) + i] = t[i]
    BY <2>3, Joined
  <2>6. Len(g) = 7 + b
    BY <2>2, <2>5
  <2> QED
    BY <1>2, <2>1, <2>2, <2>4, <2>5, <2>6
<1> QED
  BY <1>1, <1>2

(* The file with the first n of the words w behind it.                      *)
Grows(f, w, n, g) == g = f \o SubSeq(w, 1, n)

LEMMA Grown ==
    ASSUME NEW f \in Seq(Word), NEW w \in Seq(Word), NEW n \in 0 .. Len(w),
           NEW g, Grows(f, w, n, g)
    PROVE  /\ g \in Seq(Word)
           /\ Len(g) = Len(f) + n
           /\ Extends(f, g)
           /\ \A i \in 1 .. n : g[Len(f) + i] = w[i]
<1>1. Len(w) \in Nat /\ n \in Nat /\ n <= Len(w) /\ Len(f) \in Nat
  OBVIOUS
<1>2. PICK t : t = SubSeq(w, 1, n)
  OBVIOUS
<1>3. t \in Seq(Word) /\ Len(t) = n /\ \A i \in 1 .. n : t[i] = w[i]
  <2>1. \A i \in 1 .. n : w[i] \in Word
    BY <1>1
  <2>2. /\ t \in Seq(Word)
        /\ Len(t) = IF 1 <= n THEN n - 1 + 1 ELSE 0
        /\ \A i \in 1 .. n - 1 + 1 : t[i] = w[1 + i - 1]
    BY <1>1, <1>2, <2>1, SubSeqProperties
  <2>3. n - 1 + 1 = n /\ \A i \in 1 .. n : 1 + i - 1 = i
    BY <1>1
  <2> QED
    BY <1>1, <2>2, <2>3
<1>4. PICK u \in Seq(Word) : u = t
  BY <1>3
<1>5. g = f \o u
  BY <1>2, <1>4, Zenon DEF Grows
<1>6. /\ g \in Seq(Word)
      /\ Len(g) = Len(f) + Len(u)
      /\ \A i \in 1 .. Len(f) : g[i] = f[i]
      /\ \A i \in 1 .. Len(u) : g[Len(f) + i] = u[i]
  BY <1>5, Joined
<1>7. Len(u) = n /\ \A i \in 1 .. n : u[i] = w[i]
  BY <1>3, <1>4, Zenon
<1>8. Len(g) = Len(f) + n /\ Len(f) <= Len(g)
  BY <1>1, <1>6, <1>7
<1> QED
  BY <1>6, <1>7, <1>8 DEF Extends

(* The first m words of a record, behind a file.                            *)
Adds(f, g, q, b, m) ==
    /\ Len(g) = Len(f) + m
    /\ Extends(f, g)
    /\ \A i \in 1 .. m : g[Len(f) + i] = Frame(q, b)[i]

Logged(recs, q, b, all) ==
    IF all THEN With(recs, q, b) ELSE recs

LEMMA AddedToIntact ==
    ASSUME NEW f \in Seq(Word), NEW g \in Seq(Word), NEW recs \in Seq(Rec), Intact(f, recs),
           NEW q \in Nat, NEW b \in Nat, NEW m \in 0 .. 4 + b, Adds(f, g, q, b, m)
    PROVE  /\ m = 0 => Intact(g, recs)
           /\ m # 0 /\ m # 4 + b => Torn(g)
           /\ m = 4 + b => Intact(g, With(recs, q, b))
<1>1. PICK p : Places(f, recs, p) /\ EndsAt(recs, p, Len(f) + 1)
  BY DEF Intact
<1>2. Headed(g) /\ Places(g, recs, p)
  BY <1>1, HeadedExtend, PlacesExtend DEF Intact, Adds
<1>3. Len(f) \in Nat /\ m \in Nat /\ Len(f) + 1 \in Nat \ {0}
  OBVIOUS
<1>4. Len(f) + 1 + m = Len(g) + 1
  BY <1>3 DEF Adds
<1>5. PICK k \in Nat \ {0} : k = Len(f) + 1
  BY <1>3
<1>6. \A i \in 1 .. m : g[k + i - 1] = Frame(q, b)[i]
  <2>1. \A i \in 1 .. m : k + i - 1 = Len(f) + i
    BY <1>3, <1>5
  <2> QED
    BY <2>1 DEF Adds
<1>7. EndsAt(recs, p, k) /\ k + m = Len(g) + 1
  BY <1>1, <1>4, <1>5, Zenon
<1> QED
  BY <1>2, <1>6, <1>7, PartOfFrame

LEMMA AddedToTorn ==
    ASSUME NEW f \in Seq(Word), NEW g \in Seq(Word), Torn(f),
           NEW q \in Nat, NEW b \in Nat, NEW m \in 0 .. 4 + b, Adds(f, g, q, b, m)
    PROVE  Torn(g)
BY TornStays DEF Adds

(* An empty file: there is a header to write first.                         *)
StartsAs(g, q, b, n) ==
    /\ Len(g) = n
    /\ \A i \in 1 .. n : i <= 3 => g[i] = Header[i]
    /\ \A i \in 1 .. 4 + b : 3 + i <= n => g[3 + i] = Frame(q, b)[i]

LEMMA AddedToNothing ==
    ASSUME NEW g \in Seq(Word), NEW q \in Nat, NEW b \in Nat, NEW n \in 0 .. 7 + b,
           StartsAs(g, q, b, n)
    PROVE  /\ n <= 2 => Short(g)
           /\ n = 0 <=> g = <<>>
           /\ n = 3 => Intact(g, <<>>)
           /\ n > 3 /\ n # 7 + b => Torn(g)
           /\ n = 7 + b => Intact(g, With(<<>>, q, b))
<1> USE DEF StartsAs
<1>1. n \in Nat /\ b \in Nat
  OBVIOUS
<1>2. n = 0 <=> g = <<>>
  BY EmptySeq
<1>3. n = 1 => g = <<<<"magic", 1>>>>
  <2> SUFFICES ASSUME n = 1 PROVE g = <<<<"magic", 1>>>>
    OBVIOUS
  <2>1. 1 \in 1 .. n
    OBVIOUS
  <2>2. g[1] = <<"magic", 1>> /\ Len(g) = 1
    BY <2>1, HeaderIs
  <2>3. \A x, s : s \in Seq(Word) /\ Len(s) = 1 /\ s[1] = x => s = <<x>>
    OBVIOUS
  <2> QED
    BY <2>2, <2>3
<1>4. n = 2 => g = WAL_MAGIC
  <2> SUFFICES ASSUME n = 2 PROVE g = WAL_MAGIC
    OBVIOUS
  <2>1. 1 \in 1 .. n /\ 2 \in 1 .. n
    OBVIOUS
  <2>2. g[1] = <<"magic", 1>> /\ g[2] = <<"magic", 2>> /\ Len(g) = 2
    BY <2>1, HeaderIs
  <2>3. \A x, y, s : s \in Seq(Word) /\ Len(s) = 2 /\ s[1] = x /\ s[2] = y => s = <<x, y>>
    OBVIOUS
  <2> QED
    BY <2>2, <2>3 DEF WAL_MAGIC
<1>5. n <= 2 => Short(g)
  BY <1>1, <1>2, <1>3, <1>4 DEF Short
<1>6. ASSUME n >= 3
      PROVE  /\ n = 3 => Intact(g, <<>>)
             /\ n # 3 /\ n # 7 + b => Torn(g)
             /\ n = 7 + b => Intact(g, With(<<>>, q, b))
  <2>1. Headed(g)
    <3>1. 1 \in 1 .. n /\ 2 \in 1 .. n /\ 3 \in 1 .. n
      BY <1>1, <1>6
    <3> QED
      BY <1>6, <3>1, HeaderIs DEF Headed
  <2>2. PICK none \in Seq(Rec) : none = <<>> /\ Len(none) = 0
    BY EmptySeq
  <2> DEFINE p == [i \in 1 .. 1 |-> 4]
  <2>3. Places(g, none, p) /\ EndsAt(none, p, 4)
    BY <2>2 DEF Places, EndsAt
  <2> HIDE DEF p
  <2>4. PICK m \in 0 .. 4 + b : m = n - 3
    <3>1. n - 3 \in 0 .. 4 + b
      BY <1>1, <1>6
    <3> QED
      BY <3>1
  <2>a. PICK k \in Nat \ {0} : k = 4
    OBVIOUS
  <2>5. \A i \in 1 .. m : g[k + i - 1] = Frame(q, b)[i]
    <3>1. \A i \in 1 .. m : i \in 1 .. 4 + b /\ 3 + i <= n /\ k + i - 1 = 3 + i
      BY <1>1, <1>6, <2>4, <2>a
    <3> QED
      BY <3>1
  <2>6. EndsAt(none, p, k) /\ k + m = Len(g) + 1
    <3>1. k + m = Len(g) + 1
      BY <1>1, <2>4, <2>a
    <3> QED
      BY <2>3, <2>a, <3>1, Zenon
  <2>7. /\ m = 0 => Intact(g, none)
        /\ m # 0 /\ m # 4 + b => Torn(g)
        /\ m = 4 + b => Intact(g, With(none, q, b))
    BY <2>1, <2>3, <2>5, <2>6, PartOfFrame
  <2>8. (m = 0 <=> n = 3) /\ (m = 4 + b <=> n = 7 + b)
    BY <1>1, <2>4
  <2> QED
    BY <2>2, <2>7, <2>8, Zenon
<1>7. n = 7 + b => n >= 3 /\ n # 3
  BY <1>1
<1> QED
  BY <1>1, <1>2, <1>5, <1>6, <1>7

(* A header that lacks words: the next word written is a number, which may  *)
(* be the version that was missing, but is not followed by a record.        *)
LEMMA AddedToShort ==
    ASSUME NEW f \in Seq(Word), NEW g \in Seq(Word), Short(f), f # <<>>,
           NEW b \in Nat \ {0}, NEW m \in 1 .. 4 + b, Adds(f, g, 1, b, m)
    PROVE  IF f = WAL_MAGIC THEN IF m = 1 THEN Intact(g, <<>>) ELSE Torn(g)
           ELSE BadHeader(g)
<1>1. m \in Nat /\ Len(f) \in Nat /\ 1 \in Nat
  OBVIOUS
<1>2. g[Len(f) + 1] = Num(1)
  <2>1. 1 \in 1 .. m
    OBVIOUS
  <2>2. g[Len(f) + 1] = Frame(1, b)[1]
    BY <2>1, Zenon DEF Adds
  <2>3. b \in Nat
    OBVIOUS
  <2>4. Frame(1, b)[1] = Num(1)
    BY <1>1, <2>3, FrameIs
  <2> QED
    BY <2>2, <2>4, Zenon
<1>3. ASSUME f # WAL_MAGIC PROVE BadHeader(g)
  <2>1. Len(f) = 1
    BY <1>3 DEF Short
  <2>2. g[2] = Num(1) /\ Len(g) >= 2
    BY <1>2, <2>1 DEF Adds
  <2> QED
    BY <2>2 DEF BadHeader, Num
<1>4. ASSUME f = WAL_MAGIC
      PROVE  IF m = 1 THEN Intact(g, <<>>) ELSE Torn(g)
  <2>1. Len(f) = 2 /\ f[1] = <<"magic", 1>> /\ f[2] = <<"magic", 2>>
    BY <1>4 DEF WAL_MAGIC
  <2>2. Len(g) = 2 + m /\ g[1] = f[1] /\ g[2] = f[2] /\ g[3] = Num(1)
    BY <1>2, <2>1 DEF Adds, Extends
  <2>3. Headed(g)
    BY <1>1, <2>1, <2>2 DEF Headed
  <2>4. PICK none \in Seq(Rec) : none = <<>> /\ Len(none) = 0
    BY EmptySeq
  <2> DEFINE p == [i \in 1 .. 1 |-> 4]
  <2>5. Places(g, none, p) /\ EndsAt(none, p, 4)
    BY <2>4 DEF Places, EndsAt
  <2> HIDE DEF p
  <2>6. CASE m = 1
    <3>1. EndsAt(none, p, Len(g) + 1)
      <4>1. Len(g) + 1 = 4
        BY <2>2, <2>6
      <4> QED
        BY <2>5, <4>1, Zenon
    <3>2. Intact(g, none)
      BY <2>3, <2>5, <3>1 DEF Intact
    <3> QED
      BY <2>4, <2>6, <3>2, Zenon
  <2>7. CASE m # 1
    <3>1. 4 <= Len(g)
      BY <1>1, <2>2, <2>7
    <3>2. ASSUME 7 <= Len(g) PROVE g[7][1] # "crc"
      <4>1. 5 \in 1 .. m /\ Len(f) + 5 = 7
        BY <1>1, <2>1, <2>2, <3>2
      <4>2. g[7] = Frame(1, b)[5]
        BY <4>1 DEF Adds
      <4>3. 1 \in 1 .. b /\ FrameHead + 1 = 5
        BY DEF FrameHead
      <4>4. \A i \in 1 .. b : Frame(1, b)[FrameHead + i] = <<"text", b, i>>
        <5>1. b \in Nat /\ 1 \in Nat
          OBVIOUS
        <5> QED
          BY <5>1, FrameIs, Zenon
      <4>5. Frame(1, b)[5] = <<"text", b, 1>>
        BY <4>3, <4>4, Zenon
      <4> QED
        BY <4>2, <4>5
    <3>3. Stuck(g, 4)
      BY <3>1, <3>2 DEF Stuck, CutHead
    <3>4. Torn(g)
      BY <2>3, <2>5, <3>1, <3>3 DEF Torn
    <3> QED
      BY <2>7, <3>4
  <2> QED
    BY <2>6, <2>7
<1> QED
  BY <1>3, <1>4

LEMMA ShortIs ==
    ASSUME NEW f \in Seq(Word), Short(f)
    PROVE  Len(f) <= 2 /\ ~ Headed(f) /\ ~ BadHeader(f)
<1>1. Len(f) \in Nat /\ Len(f) <= 2 /\ (Len(f) = 2 => f[2] = <<"magic", 2>>)
  <2>1. CASE f = <<>>
    BY <2>1
  <2>2. CASE f = << <<"magic", 1>> >>
    BY <2>2
  <2>3. CASE f = WAL_MAGIC
    BY <2>3 DEF WAL_MAGIC
  <2> QED
    BY <2>1, <2>2, <2>3 DEF Short
<1>2. Len(f) \in Nat /\ Len(f) <= 2
  BY <1>1, Zenon
<1>3. ~ (Len(f) >= 3)
  BY <1>2
<1>4. Len(f) >= 2 => Len(f) = 2
  <2>1. \A l \in Nat : l <= 2 /\ l >= 2 => l = 2
    OBVIOUS
  <2> QED
    BY <1>2, <2>1, Zenon
<1> QED
  BY <1>1, <1>2, <1>3, <1>4, Zenon DEF Headed, BadHeader

LEMMA HoldsReads ==
    ASSUME NEW f \in Seq(Word), NEW recs \in Seq(Rec)
    PROVE  /\ f = <<>> => Read(f).ok /\ Read(f).records = <<>>
           /\ Intact(f, recs) => Read(f).ok /\ Read(f).records = recs
           /\ Broken(f) => ~ Read(f).ok
<1>1. ASSUME f = <<>> PROVE Read(f).ok /\ Read(f).records = <<>>
  BY <1>1 DEF Read, Nothing
<1>2. ASSUME Intact(f, recs) PROVE Read(f).ok /\ Read(f).records = recs
  BY <1>2, IntactRead
<1> QED
  BY <1>1, <1>2, BrokenUnread

(* What an append leaves, complete (all) or not: the file holds the records *)
(* that were written in full, or cannot be read, and stays so.              *)
LEMMA Appended ==
    ASSUME file \in Seq(Word), records \in Seq(Rec), Holds(file, records),
           next_seq \in Nat, Short(file) => next_seq = 1 /\ records = <<>>,
           NEW b \in Nat \ {0}, NEW n \in 0 .. Len(Written(next_seq, b)),
           NEW g, Grows(file, Written(next_seq, b), n, g),
           NEW all \in BOOLEAN, all <=> n = Len(Written(next_seq, b)),
           NEW recs, recs = Logged(records, next_seq, b, all)
    PROVE  /\ g \in Seq(Word)
           /\ Holds(g, recs)
           /\ Short(g) => Short(file) /\ recs = <<>>
           /\ all => (Read(g).ok <=> Read(file).ok)
           /\ ~ all => Read(file).ok \/ ~ Read(g).ok \/ records = <<>>
<1>1. PICK w \in Seq(Word) : w = Written(next_seq, b)
  BY WordsWritten
<1>2. n \in 0 .. Len(w) /\ Grows(file, w, n, g) /\ (all <=> n = Len(w))
  BY <1>1, Zenon
<1>3. Len(file) \in Nat /\ Len(w) \in Nat /\ n \in Nat /\ n <= Len(w) /\ b \in Nat
  BY <1>2
<1>4. /\ g \in Seq(Word)
      /\ Len(g) = Len(file) + n
      /\ Extends(file, g)
      /\ \A i \in 1 .. n : g[Len(file) + i] = w[i]
  BY <1>2, Grown
<1>5. PICK more \in Seq(Rec) : more = With(records, next_seq, b)
  <2>1. [seq |-> next_seq, body |-> b] \in Rec
    BY <1>3 DEF Rec
  <2>2. With(records, next_seq, b) \in Seq(Rec)
    BY <2>1, AppendProperties DEF With
  <2> QED
    BY <2>2
<1>6. (all => recs = more) /\ (~ all => recs = records)
  BY <1>5, Zenon DEF Logged
<1>7. CASE file = <<>>
  <2>1. /\ Len(w) = 7 + b
        /\ \A i \in 1 .. 3 : w[i] = Header[i]
        /\ \A i \in 1 .. 4 + b : w[3 + i] = Frame(next_seq, b)[i]
    BY <1>1, <1>7, WordsWritten
  <2>2. records = <<>> /\ Short(file)
    BY <1>7 DEF Short
  <2>3. Len(file) = 0
    BY <1>7
  <2>4. Len(g) = n /\ \A i \in 1 .. n : g[i] = w[i]
    BY <1>3, <1>4, <2>3
  <2>5. \A i \in 1 .. n : i <= 3 => g[i] = Header[i]
    <3>1. \A i \in 1 .. n : i <= 3 => i \in 1 .. 3
      OBVIOUS
    <3> QED
      BY <2>1, <2>4, <3>1
  <2>6. \A i \in 1 .. 4 + b : 3 + i <= n => g[3 + i] = Frame(next_seq, b)[i]
    <3>1. \A i \in 1 .. 4 + b : 3 + i <= n => 3 + i \in 1 .. n
      BY <1>3
    <3> QED
      BY <2>1, <2>4, <3>1
  <2>7. n \in 0 .. 7 + b
    BY <1>2, <2>1
  <2>8. /\ n <= 2 => Short(g)
        /\ n = 0 <=> g = <<>>
        /\ n = 3 => Intact(g, <<>>)
        /\ n > 3 /\ n # 7 + b => Torn(g)
        /\ n = 7 + b => Intact(g, With(<<>>, next_seq, b))
    <3>1. g \in Seq(Word) /\ b \in Nat /\ next_seq \in Nat /\ Len(g) = n
      BY <1>3, <1>4, <2>4, Zenon
    <3>2. StartsAs(g, next_seq, b, n)
      BY <2>4, <2>5, <2>6 DEF StartsAs
    <3> QED
      BY <2>7, <3>1, <3>2, AddedToNothing
  <2>9. n = 7 + b => Intact(g, more)
    BY <1>5, <2>2, <2>8, Zenon
  <2>10. Read(file).ok
    BY <1>7, HoldsReads
  <2>11. CASE all
    <3>1. n = 7 + b /\ recs = more
      BY <1>2, <1>6, <2>1, <2>11
    <3>2. ~ Short(g)
      <4>1. Len(g) >= 3
        BY <1>3, <2>4, <3>1
      <4> QED
        BY <1>4, <4>1, ShortIs
    <3>3. Intact(g, recs) /\ Read(g).ok
      BY <1>4, <2>9, <3>1, HoldsReads
    <3> QED
      BY <1>4, <2>10, <2>11, <3>2, <3>3 DEF Holds
  <2>12. CASE ~ all
    <3>1. n # 7 + b /\ recs = <<>>
      BY <1>2, <1>6, <2>1, <2>2, <2>12
    <3>2. Holds(g, recs)
      <4>1. n <= 2 \/ n = 3 \/ n > 3
        BY <1>3
      <4>2. n <= 2 => g = <<>> \/ Broken(g)
        BY <2>8 DEF Broken
      <4>3. n = 3 => Intact(g, recs)
        BY <2>8, <3>1, Zenon
      <4>4. n > 3 => Broken(g)
        BY <2>8, <3>1 DEF Broken
      <4> QED
        BY <3>1, <4>1, <4>2, <4>3, <4>4 DEF Holds
    <3> QED
      BY <1>4, <2>2, <2>10, <2>12, <3>1, <3>2
  <2> QED
    BY <2>11, <2>12
<1>8. CASE file # <<>>
  <2>1. Len(w) = 4 + b /\ \A i \in 1 .. 4 + b : w[i] = Frame(next_seq, b)[i]
    BY <1>1, <1>8, WordsWritten
  <2>2. n \in 0 .. 4 + b /\ (all <=> n = 4 + b)
    BY <1>2, <2>1
  <2>3. Adds(file, g, next_seq, b, n)
    <3>1. \A i \in 1 .. n : i \in 1 .. 4 + b
      BY <1>3, <2>1
    <3>2. \A i \in 1 .. n : g[Len(file) + i] = Frame(next_seq, b)[i]
      BY <1>4, <2>1, <3>1
    <3> QED
      BY <1>4, <3>2 DEF Adds
  <2>4. CASE Intact(file, records)
    <3>1. /\ n = 0 => Intact(g, records)
          /\ n # 0 /\ n # 4 + b => Torn(g)
          /\ n = 4 + b => Intact(g, more)
      <4>1. /\ n = 0 => Intact(g, records)
            /\ n # 0 /\ n # 4 + b => Torn(g)
            /\ n = 4 + b => Intact(g, With(records, next_seq, b))
        BY <1>3, <1>4, <2>2, <2>3, <2>4, AddedToIntact
      <4> QED
        BY <1>5, <4>1, Zenon
    <3>2. Headed(g)
      BY <1>4, <2>4, HeadedExtend DEF Intact
    <3>3. ~ Short(g)
      BY <1>4, <3>2, ShortIs
    <3>4. Read(file).ok
      BY <2>4, HoldsReads
    <3>5. all => Intact(g, recs) /\ Read(g).ok
      BY <1>4, <1>6, <2>2, <3>1, HoldsReads
    <3>6. ~ all => Intact(g, recs) \/ Broken(g)
      BY <1>6, <2>2, <3>1 DEF Broken
    <3> QED
      BY <1>4, <3>3, <3>4, <3>5, <3>6 DEF Holds
  <2>5. CASE Torn(file)
    <3>1. Torn(g)
      BY <1>3, <1>4, <2>2, <2>3, <2>5, AddedToTorn
    <3>2. ~ Short(g)
      BY <1>4, <3>1, ShortIs DEF Torn
    <3>3. Broken(g) /\ Broken(file)
      BY <2>5, <3>1 DEF Broken
    <3>4. ~ Read(g).ok /\ ~ Read(file).ok
      BY <1>4, <3>3, BrokenUnread
    <3> QED
      BY <1>4, <3>2, <3>3, <3>4 DEF Holds
  <2>6. CASE BadHeader(file)
    <3>1. BadHeader(g)
      <4>1. 2 \in 1 .. Len(file) /\ Len(g) >= 2
        BY <1>3, <1>4, <2>6 DEF BadHeader
      <4>2. g[2] = file[2]
        BY <1>4, <4>1 DEF Extends
      <4> QED
        BY <2>6, <4>1, <4>2 DEF BadHeader
    <3>2. ~ Short(g)
      BY <1>4, <3>1, ShortIs
    <3>3. Broken(g) /\ Broken(file)
      BY <2>6, <3>1 DEF Broken
    <3>4. ~ Read(g).ok /\ ~ Read(file).ok
      BY <1>4, <3>3, BrokenUnread
    <3> QED
      BY <1>4, <3>2, <3>3, <3>4 DEF Holds
  <2>7. CASE Short(file)
    <3>1. next_seq = 1 /\ records = <<>> /\ Broken(file) /\ ~ Read(file).ok
      BY <1>8, <2>7, BrokenUnread DEF Broken
    <3>2. CASE n = 0
      <4>1. g = file
        <5>1. Len(g) = Len(file) /\ \A i \in 1 .. Len(g) : g[i] = file[i]
          BY <1>3, <1>4, <3>2 DEF Extends
        <5> QED
          BY <1>4, <5>1, SeqEqual
      <4>2. ~ all /\ recs = <<>>
        BY <1>3, <1>6, <2>2, <3>1, <3>2
      <4> QED
        BY <1>4, <2>7, <3>1, <4>1, <4>2 DEF Holds
    <3>3. CASE n # 0
      <4>1. n \in 1 .. 4 + b /\ Adds(file, g, 1, b, n)
        BY <1>3, <2>2, <2>3, <3>1, <3>3
      <4>2. IF file = WAL_MAGIC THEN IF n = 1 THEN Intact(g, <<>>) ELSE Torn(g)
            ELSE BadHeader(g)
        BY <1>4, <1>8, <2>7, <4>1, AddedToShort
      <4>3. ~ Short(g)
        BY <1>4, <4>2, ShortIs DEF Intact, Torn
      <4>4. CASE file = WAL_MAGIC /\ n = 1
        <5>1. ~ all /\ recs = <<>> /\ Intact(g, recs)
          BY <1>3, <1>6, <2>2, <3>1, <4>2, <4>4
        <5> QED
          BY <1>4, <3>1, <4>3, <5>1 DEF Holds
      <4>5. CASE ~ (file = WAL_MAGIC /\ n = 1)
        <5>1. Broken(g)
          BY <4>2, <4>5 DEF Broken
        <5>2. ~ Read(g).ok
          BY <1>4, <5>1, BrokenUnread
        <5> QED
          BY <1>4, <3>1, <4>3, <5>1, <5>2 DEF Holds
      <4> QED
        BY <4>4, <4>5
    <3> QED
      BY <3>2, <3>3
  <2> QED
    BY <1>8, <2>4, <2>5, <2>6, <2>7 DEF Holds, Broken
<1> QED
  BY <1>7, <1>8

-----------------------------------------------------------------------------
(* The inductive invariant *)

LogRecord == [seq : Nat \ {0}, body : Body]

TypeOK ==
    /\ file \in Seq(Word)
    /\ next_seq \in Nat \ {0}
    /\ up \in BOOLEAN
    /\ records \in Seq(LogRecord)
    /\ acked \in Seq(LogRecord)

(* An empty file gets its header with the first record. *)
StartsWithHeader == Short(file) => next_seq = 1 /\ records = <<>>

(* Every number in the file is below the next one, or the next one itself   *)
(* after an append that was refused, or died, with all its words written.   *)
Numbered ==
    /\ \A k \in 1 .. Len(records) : records[k].seq <= next_seq
    /\ \A k \in 1 .. Len(acked) : acked[k].seq < next_seq

AckedInFile == \A k \in 1 .. Len(acked) : \E j \in 1 .. Len(records) : records[j] = acked[k]

IInv ==
    /\ TypeOK
    /\ Holds(file, records)
    /\ StartsWithHeader
    /\ Numbered
    /\ AckedInFile
    /\ NumbersAscend

LEMMA Bodies ==
    ASSUME NEW recs \in Seq(LogRecord)
    PROVE  recs \in Seq(Rec)
<1>1. LogRecord \subseteq Rec
  BY WalAssumption DEF LogRecord, Rec
<1> QED
  BY <1>1, SeqMonotonic

(* One more record behind others.                                           *)
LEMMA OneMore ==
    ASSUME NEW recs \in Seq(LogRecord), NEW q \in Nat \ {0}, NEW b \in Body,
           NEW more, more = With(recs, q, b)
    PROVE  /\ more \in Seq(LogRecord)
           /\ Len(more) = Len(recs) + 1
           /\ \A i \in 1 .. Len(recs) : more[i] = recs[i]
           /\ more[Len(recs) + 1] = [seq |-> q, body |-> b]
<1>1. PICK r \in LogRecord : r = [seq |-> q, body |-> b]
  BY DEF LogRecord
<1>2. more = Append(recs, r)
  BY <1>1, Zenon DEF With
<1>3. /\ more \in Seq(LogRecord)
      /\ Len(more) = Len(recs) + 1
      /\ \A i \in 1 .. Len(recs) : more[i] = recs[i]
      /\ more[Len(recs) + 1] = r
  BY <1>2, AppendProperties
<1> QED
  BY <1>1, <1>3, Zenon

(* What the records of the file are with one more, of the next number.      *)
GrownBy(b, more) ==
    /\ \A j, k \in 1 .. Len(more) : j < k => more[j].seq <= more[k].seq
    /\ \A k \in 1 .. Len(more) : more[k].seq <= next_seq
    /\ \A k \in 1 .. Len(acked) : \E j \in 1 .. Len(more) : more[j] = acked[k]
    /\ \E j \in 1 .. Len(more) : more[j] = [seq |-> next_seq, body |-> b]

LEMMA RecordsGrow ==
    ASSUME IInv, NEW b \in Body, NEW more, more = With(records, next_seq, b)
    PROVE  more \in Seq(LogRecord) /\ more # <<>> /\ GrownBy(b, more)
<1>1. next_seq \in Nat \ {0} /\ records \in Seq(LogRecord) /\ Len(records) \in Nat
  BY DEF IInv, TypeOK
<1>2. /\ more \in Seq(LogRecord)
      /\ Len(more) = Len(records) + 1
      /\ \A i \in 1 .. Len(records) : more[i] = records[i]
      /\ more[Len(records) + 1] = [seq |-> next_seq, body |-> b]
  BY <1>1, OneMore
<1>3. \A k \in 1 .. Len(more) : k \in 1 .. Len(records) \/ k = Len(records) + 1
  BY <1>1, <1>2
<1>4. \A i \in 1 .. Len(records) : i \in 1 .. Len(more)
  BY <1>1, <1>2
<1>5. Len(records) + 1 \in 1 .. Len(more)
  BY <1>1, <1>2
<1>6. more[Len(records) + 1].seq = next_seq
  BY <1>2
<1>7. \A k \in 1 .. Len(more) : more[k].seq <= next_seq
  <2>1. \A i \in 1 .. Len(records) : more[i].seq <= next_seq
    BY <1>2 DEF IInv, Numbered
  <2>2. next_seq <= next_seq
    BY <1>1
  <2> QED
    BY <1>3, <1>6, <2>1, <2>2, Zenon
<1>8. ASSUME NEW j \in 1 .. Len(more), NEW k \in 1 .. Len(more), j < k
      PROVE  more[j].seq <= more[k].seq
  <2>1. CASE k = Len(records) + 1
    BY <1>6, <1>7, <2>1, Zenon
  <2>2. CASE k \in 1 .. Len(records)
    <3>1. j \in 1 .. Len(records)
      BY <1>1, <1>8, <2>2
    <3>2. records[j].seq <= records[k].seq
      BY <1>8, <2>2, <3>1 DEF IInv, NumbersAscend
    <3> QED
      BY <1>2, <2>2, <3>1, <3>2, Zenon
  <2> QED
    BY <1>3, <2>1, <2>2
<1>9. \A k \in 1 .. Len(acked) : \E j \in 1 .. Len(more) : more[j] = acked[k]
  <2>1. \A k \in 1 .. Len(acked) : \E j \in 1 .. Len(records) : records[j] = acked[k]
    BY DEF IInv, AckedInFile
  <2> QED
    BY <1>2, <1>4, <2>1, Zenon
<1>10. more # <<>>
  BY <1>1, <1>2
<1> QED
  BY <1>2, <1>5, <1>7, <1>8, <1>9, <1>10 DEF GrownBy

LEMMA LogIs ==
    ASSUME IInv, NEW b \in Body, Log(b)
    PROVE  /\ Grows(file, Written(next_seq, b), Len(Written(next_seq, b)), file')
           /\ records' = With(records, next_seq, b)
           /\ acked' = With(acked, next_seq, b)
           /\ next_seq' = next_seq + 1 /\ up' = up /\ up
<1>1. next_seq \in Nat /\ b \in Nat
  BY WalAssumption DEF IInv, TypeOK
<1>2. PICK w \in Seq(Word) : w = Written(next_seq, b)
  BY <1>1, WordsWritten
<1>3. file' = file \o w
  BY <1>2, Zenon DEF Log
<1>4. SubSeq(w, 1, Len(w)) = w
  BY SubSeqFull
<1>5. Grows(file, w, Len(w), file')
  BY <1>3, <1>4, Zenon DEF Grows
<1> QED
  BY <1>2, <1>5, Zenon DEF Log, With

LEMMA WritePartIs ==
    ASSUME NEW b \in Body, WritePart(b)
    PROVE  \E n \in 0 .. Len(Written(next_seq, b)) :
             /\ Grows(file, Written(next_seq, b), n, file')
             /\ records' = Logged(records, next_seq, b, n = Len(Written(next_seq, b)))
  BY Zenon DEF WritePart, Grows, Logged, With

(* What an append does to the file and the records in it.                   *)
LEMMA FileStep ==
    ASSUME IInv, NEW b \in Body, NEW n \in 0 .. Len(Written(next_seq, b)),
           Grows(file, Written(next_seq, b), n, file'),
           NEW all \in BOOLEAN, all <=> n = Len(Written(next_seq, b)),
           records' = Logged(records, next_seq, b, all)
    PROVE  /\ file' \in Seq(Word)
           /\ records' \in Seq(LogRecord)
           /\ Holds(file', records')
           /\ Short(file') => next_seq = 1 /\ records' = <<>> /\ ~ all
           /\ all => (Read(file').ok <=> Read(file).ok)
           /\ ~ all => Read(file).ok \/ ~ Read(file').ok \/ records = <<>>
<1>1. /\ file \in Seq(Word) /\ records \in Seq(Rec) /\ Holds(file, records)
      /\ next_seq \in Nat /\ next_seq \in Nat \ {0} /\ b \in Nat \ {0}
      /\ records \in Seq(LogRecord)
      /\ Short(file) => next_seq = 1 /\ records = <<>>
  BY Bodies, WalAssumption DEF IInv, TypeOK, StartsWithHeader
<1>2. PICK g, recs : g = file' /\ recs = records'
  OBVIOUS
<1>3. Grows(file, Written(next_seq, b), n, g) /\ recs = Logged(records, next_seq, b, all)
  BY <1>2, Zenon
<1>4. /\ g \in Seq(Word)
      /\ Holds(g, recs)
      /\ Short(g) => Short(file) /\ recs = <<>>
      /\ all => (Read(g).ok <=> Read(file).ok)
      /\ ~ all => Read(file).ok \/ ~ Read(g).ok \/ records = <<>>
  BY <1>1, <1>3, Appended
<1>5. PICK more : more = With(records, next_seq, b)
  OBVIOUS
<1>6. more \in Seq(LogRecord) /\ more # <<>>
  BY <1>5, RecordsGrow, Zenon
<1>8. recs \in Seq(LogRecord)
  BY <1>1, <1>3, <1>5, <1>6, Zenon DEF Logged
<1>9. all => recs # <<>>
  BY <1>3, <1>5, <1>6, Zenon DEF Logged
<1> QED
  BY <1>1, <1>2, <1>4, <1>8, <1>9, Zenon

LEMMA InitKeeps == Init => IInv
<1> SUFFICES ASSUME Init PROVE IInv
  OBVIOUS
<1>1. file = <<>> /\ next_seq = 1 /\ up = TRUE /\ records = <<>> /\ acked = <<>>
  BY DEF Init
<1>2. TypeOK
  <2>1. <<>> \in Seq(Word) /\ <<>> \in Seq(LogRecord)
    BY EmptySeq
  <2> QED
    BY <1>1, <2>1 DEF TypeOK
<1>3. Len(records) = 0 /\ Len(acked) = 0
  BY <1>1
<1>4. Numbered /\ AckedInFile /\ NumbersAscend
  BY <1>3 DEF Numbered, AckedInFile, NumbersAscend
<1> QED
  BY <1>1, <1>2, <1>4 DEF IInv, Holds, StartsWithHeader

LEMMA LogKeeps ==
    ASSUME IInv, NEW b \in Body, Log(b)
    PROVE  IInv' /\ (Read(file).ok <=> Read(file)'.ok)
<1>1. /\ Grows(file, Written(next_seq, b), Len(Written(next_seq, b)), file')
      /\ records' = With(records, next_seq, b)
      /\ acked' = With(acked, next_seq, b)
      /\ next_seq' = next_seq + 1 /\ up' = up /\ up
  BY LogIs
<1>2. next_seq \in Nat \ {0} /\ acked \in Seq(LogRecord) /\ Len(acked) \in Nat /\ up \in BOOLEAN
  BY DEF IInv, TypeOK
<1>3. PICK n \in 0 .. Len(Written(next_seq, b)) : n = Len(Written(next_seq, b))
  <2>1. Written(next_seq, b) \in Seq(Word)
    <3>1. next_seq \in Nat /\ b \in Nat
      BY <1>2, WalAssumption
    <3> QED
      BY <3>1, WordsWritten
  <2>2. \A l \in Nat : l \in 0 .. l
    OBVIOUS
  <2>3. Len(Written(next_seq, b)) \in Nat
    BY <2>1, LenProperties
  <2> QED
    BY <2>2, <2>3, Zenon
<1>4. /\ file' \in Seq(Word)
      /\ records' \in Seq(LogRecord)
      /\ Holds(file', records')
      /\ Short(file') => next_seq = 1 /\ records' = <<>> /\ ~ TRUE
      /\ TRUE => (Read(file').ok <=> Read(file).ok)
  <2>1. records' = Logged(records, next_seq, b, TRUE)
    BY <1>1, Zenon DEF Logged
  <2>2. Grows(file, Written(next_seq, b), n, file')
    BY <1>1, <1>3, Zenon
  <2>3. TRUE \in BOOLEAN /\ (TRUE <=> n = Len(Written(next_seq, b)))
    BY <1>3, Zenon
  <2> QED
    BY <2>1, <2>2, <2>3, FileStep, Zenon
<1>5. /\ \A j, k \in 1 .. Len(records') : j < k => records'[j].seq <= records'[k].seq
      /\ \A k \in 1 .. Len(records') : records'[k].seq <= next_seq
      /\ \A k \in 1 .. Len(acked) : \E j \in 1 .. Len(records') : records'[j] = acked[k]
      /\ \E j \in 1 .. Len(records') : records'[j] = [seq |-> next_seq, body |-> b]
  <2>1. GrownBy(b, records')
    BY <1>1, RecordsGrow, Zenon
  <2> QED
    BY <2>1 DEF GrownBy
<1>6. /\ acked' \in Seq(LogRecord)
      /\ Len(acked') = Len(acked) + 1
      /\ \A i \in 1 .. Len(acked) : acked'[i] = acked[i]
      /\ acked'[Len(acked) + 1] = [seq |-> next_seq, body |-> b]
  <2>1. PICK more : more = With(acked, next_seq, b)
    OBVIOUS
  <2>2. /\ more \in Seq(LogRecord)
        /\ Len(more) = Len(acked) + 1
        /\ \A i \in 1 .. Len(acked) : more[i] = acked[i]
        /\ more[Len(acked) + 1] = [seq |-> next_seq, body |-> b]
    BY <1>2, <2>1, OneMore
  <2>3. acked' = more
    BY <1>1, <2>1, Zenon
  <2> QED
    BY <2>2, <2>3
<1>7. \A k \in 1 .. Len(acked') : k \in 1 .. Len(acked) \/ k = Len(acked) + 1
  BY <1>2, <1>6
<1>8. acked'[Len(acked) + 1].seq = next_seq
  BY <1>6
<1>9. TypeOK'
  <2>1. next_seq' \in Nat \ {0}
    BY <1>1, <1>2
  <2> QED
    BY <1>1, <1>2, <1>4, <1>6, <2>1 DEF TypeOK
<1>10. Numbered'
  <2>1. ASSUME NEW k \in 1 .. Len(records') PROVE records'[k].seq <= next_seq'
    <3>1. records'[k] \in LogRecord
      BY <1>4
    <3>2. records'[k].seq \in Nat /\ records'[k].seq <= next_seq
      BY <1>5, <3>1 DEF LogRecord
    <3> QED
      BY <1>1, <1>2, <3>2
  <2>2. ASSUME NEW k \in 1 .. Len(acked') PROVE acked'[k].seq < next_seq'
    <3>1. CASE k = Len(acked) + 1
      BY <1>1, <1>2, <1>8, <3>1
    <3>2. CASE k \in 1 .. Len(acked)
      <4>1. acked[k] \in LogRecord
        BY <1>2, <3>2
      <4>2. acked[k].seq \in Nat /\ acked[k].seq < next_seq /\ acked'[k] = acked[k]
        BY <1>6, <3>2, <4>1 DEF LogRecord, IInv, Numbered
      <4> QED
        BY <1>1, <1>2, <4>2
    <3> QED
      BY <1>7, <3>1, <3>2
  <2> QED
    BY <2>1, <2>2 DEF Numbered
<1>11. AckedInFile'
  <2>1. ASSUME NEW k \in 1 .. Len(acked')
        PROVE  \E j \in 1 .. Len(records') : records'[j] = acked'[k]
    <3>1. CASE k = Len(acked) + 1
      BY <1>5, <1>6, <3>1, Zenon
    <3>2. CASE k \in 1 .. Len(acked)
      BY <1>5, <1>6, <3>2, Zenon
    <3> QED
      BY <1>7, <3>1, <3>2
  <2> QED
    BY <2>1 DEF AckedInFile
<1>12. NumbersAscend'
  <2>1. ASSUME NEW j \in 1 .. Len(acked'), NEW k \in 1 .. Len(acked'), j < k
        PROVE  acked'[j].seq < acked'[k].seq
    <3>1. j \in 1 .. Len(acked)
      BY <1>2, <1>6, <2>1
    <3>2. CASE k = Len(acked) + 1
      <4>1. acked[j].seq < next_seq
        BY <3>1 DEF IInv, Numbered
      <4> QED
        BY <1>6, <1>8, <3>1, <3>2, <4>1, Zenon
    <3>3. CASE k \in 1 .. Len(acked)
      <4>1. acked[j].seq < acked[k].seq
        BY <2>1, <3>1, <3>3 DEF IInv, NumbersAscend
      <4> QED
        BY <1>6, <3>1, <3>3, <4>1, Zenon
    <3> QED
      BY <1>7, <3>2, <3>3
  <2> QED
    BY <1>5, <2>1 DEF NumbersAscend
<1>13. StartsWithHeader'
  BY <1>4 DEF StartsWithHeader
<1> QED
  BY <1>4, <1>9, <1>10, <1>11, <1>12, <1>13 DEF IInv

(* An append that is refused or interrupted.                                *)
LEMMA PartKeeps ==
    ASSUME IInv, NEW b \in Body, WritePart(b), next_seq' = next_seq, acked' = acked,
           up' \in BOOLEAN
    PROVE  /\ IInv'
           /\ \/ records' = records /\ (Read(file).ok \/ ~ Read(file)'.ok \/ records = <<>>)
              \/ /\ records' = With(records, next_seq, b)
                 /\ Read(file)'.ok <=> Read(file).ok
<1>1. PICK n \in 0 .. Len(Written(next_seq, b)) :
        /\ Grows(file, Written(next_seq, b), n, file')
        /\ records' = Logged(records, next_seq, b, n = Len(Written(next_seq, b)))
  BY WritePartIs
<1>2. PICK all \in BOOLEAN : all <=> n = Len(Written(next_seq, b))
  OBVIOUS
<1>3. records' = Logged(records, next_seq, b, all)
  BY <1>1, <1>2, Zenon DEF Logged
<1>4. /\ file' \in Seq(Word)
      /\ records' \in Seq(LogRecord)
      /\ Holds(file', records')
      /\ Short(file') => next_seq = 1 /\ records' = <<>> /\ ~ all
      /\ all => (Read(file').ok <=> Read(file).ok)
      /\ ~ all => Read(file).ok \/ ~ Read(file').ok \/ records = <<>>
  BY <1>1, <1>2, <1>3, FileStep, Zenon
<1>5. TypeOK'
  BY <1>4 DEF IInv, TypeOK
<1>6. StartsWithHeader'
  BY <1>4 DEF StartsWithHeader
<1>7. CASE ~ all
  <2>1. records' = records
    BY <1>3, <1>7, Zenon DEF Logged
  <2>2. Numbered' /\ AckedInFile' /\ NumbersAscend'
    BY <2>1 DEF IInv, Numbered, AckedInFile, NumbersAscend
  <2> QED
    BY <1>4, <1>5, <1>6, <1>7, <2>1, <2>2 DEF IInv
<1>8. CASE all
  <2>1. records' = With(records, next_seq, b)
    BY <1>3, <1>8, Zenon DEF Logged
  <2>2. /\ \A j, k \in 1 .. Len(records') : j < k => records'[j].seq <= records'[k].seq
        /\ \A k \in 1 .. Len(records') : records'[k].seq <= next_seq
        /\ \A k \in 1 .. Len(acked) : \E j \in 1 .. Len(records') : records'[j] = acked[k]
    <3>1. GrownBy(b, records')
      BY <2>1, RecordsGrow, Zenon
    <3> QED
      BY <3>1 DEF GrownBy
  <2>3. Numbered' /\ AckedInFile' /\ NumbersAscend'
    BY <2>2 DEF IInv, Numbered, AckedInFile, NumbersAscend
  <2> QED
    BY <1>4, <1>5, <1>6, <1>8, <2>1, <2>3 DEF IInv
<1> QED
  BY <1>7, <1>8

LEMMA TruncateKeeps ==
    ASSUME IInv, Truncate
    PROVE  IInv' /\ Read(file)'.ok
<1>1. file' = Header /\ next_seq' = 1 /\ records' = <<>> /\ acked' = <<>> /\ up' = up
  BY DEF Truncate
<1>2. PICK none \in Seq(Rec) : none = <<>> /\ Len(none) = 0
  BY EmptySeq
<1>3. Intact(Header, <<>>)
  <2>1. Headed(Header)
    BY HeaderIs DEF Headed
  <2> DEFINE p == [i \in 1 .. 1 |-> 4]
  <2>2. Places(Header, none, p) /\ EndsAt(none, p, 4)
    BY <1>2 DEF Places, EndsAt
  <2> HIDE DEF p
  <2>3. EndsAt(none, p, Len(Header) + 1)
    <3>1. Len(Header) + 1 = 4
      BY HeaderIs
    <3> QED
      BY <2>2, <3>1, Zenon
  <2>4. Intact(Header, none)
    BY <2>1, <2>2, <2>3 DEF Intact
  <2> QED
    BY <1>2, <2>4, Zenon
<1>4. Read(Header).ok
  BY <1>2, <1>3, HeaderIs, HoldsReads
<1>5. ~ Short(Header)
  <2>0. 3 >= 3
    OBVIOUS
  <2>1. PICK h \in Seq(Word) : h = Header /\ Len(h) >= 3
    BY <2>0, HeaderIs, Zenon
  <2>2. ~ Short(h)
    BY <2>1, ShortIs
  <2> QED
    BY <2>1, <2>2, Zenon
<1>6. TypeOK'
  <2>1. <<>> \in Seq(LogRecord)
    BY EmptySeq
  <2> QED
    BY <1>1, <2>1, HeaderIs DEF TypeOK, IInv
<1>7. Len(records') = 0 /\ Len(acked') = 0
  BY <1>1
<1>8. Numbered' /\ AckedInFile' /\ NumbersAscend'
  BY <1>7 DEF Numbered, AckedInFile, NumbersAscend
<1>9. Holds(file, records)' /\ StartsWithHeader'
  BY <1>1, <1>3, <1>5 DEF Holds, StartsWithHeader
<1> QED
  BY <1>1, <1>4, <1>6, <1>8, <1>9 DEF IInv

LEMMA OpenKeeps ==
    ASSUME IInv, Open
    PROVE  /\ IInv'
           /\ next_seq' = IF records = <<>> THEN 1 ELSE records[Len(records)].seq + 1
<1>1. /\ ~ up /\ Read(file).ok /\ up' = TRUE
      /\ next_seq' = SeqAfter(Read(file).records)
      /\ file' = file /\ records' = records /\ acked' = acked
  BY DEF Open
<1>2. /\ file \in Seq(Word) /\ records \in Seq(Rec) /\ records \in Seq(LogRecord)
      /\ acked \in Seq(LogRecord) /\ Holds(file, records)
  BY Bodies DEF IInv, TypeOK
<1>3. Read(file).records = records
  BY <1>1, <1>2, HoldsReads DEF Holds
<1>4. next_seq' = IF records = <<>> THEN 1 ELSE records[Len(records)].seq + 1
  BY <1>1, <1>3, Zenon DEF SeqAfter
<1>5. CASE records = <<>>
  <2>1. Len(records) = 0 /\ next_seq' = 1
    BY <1>4, <1>5
  <2>2. Len(acked) = 0
    <3>1. Len(acked) \in Nat
      BY <1>2
    <3>2. \A k \in 1 .. Len(acked) : FALSE
      BY <2>1 DEF IInv, AckedInFile
    <3>3. ASSUME Len(acked) # 0 PROVE FALSE
      <4>1. 1 \in 1 .. Len(acked)
        BY <3>1, <3>3
      <4> QED
        BY <3>2, <4>1
    <3> QED
      BY <3>3
  <2>3. Numbered'
    BY <1>1, <2>1, <2>2 DEF Numbered
  <2>4. TypeOK' /\ StartsWithHeader' /\ Holds(file, records)'
    BY <1>1, <1>2, <1>5, <2>1 DEF TypeOK, StartsWithHeader
  <2>5. AckedInFile' /\ NumbersAscend'
    BY <1>1 DEF IInv, AckedInFile, NumbersAscend
  <2> QED
    BY <1>4, <2>3, <2>4, <2>5 DEF IInv
<1>6. CASE records # <<>>
  <2>1. Len(records) \in Nat /\ Len(records) \in 1 .. Len(records)
    BY <1>2, <1>6
  <2>2. PICK q \in Nat \ {0} : q = records[Len(records)].seq /\ next_seq' = q + 1
    <3>1. records[Len(records)] \in LogRecord
      BY <1>2, <2>1
    <3> QED
      BY <1>4, <1>6, <3>1 DEF LogRecord
  <2>3. ASSUME NEW k \in 1 .. Len(records)
        PROVE  records[k].seq \in Nat /\ records[k].seq <= q
    <3>1. records[k] \in LogRecord
      BY <1>2
    <3>2. records[k].seq \in Nat
      BY <3>1 DEF LogRecord
    <3>3. CASE k = Len(records)
      BY <2>2, <3>2, <3>3
    <3>4. CASE k # Len(records)
      <4>1. k < Len(records)
        BY <2>1, <3>4
      <4>2. records[k].seq <= records[Len(records)].seq
        BY <2>1, <4>1 DEF IInv, NumbersAscend
      <4> QED
        BY <2>2, <3>2, <4>2
    <3> QED
      BY <3>3, <3>4
  <2>4. \A k \in 1 .. Len(records) : records[k].seq <= q + 1 /\ records[k].seq < q + 1
    BY <2>2, <2>3
  <2>5. ASSUME NEW k \in 1 .. Len(acked) PROVE acked[k].seq < q + 1
    <3>1. PICK j \in 1 .. Len(records) : records[j] = acked[k]
      BY DEF IInv, AckedInFile
    <3> QED
      BY <2>4, <3>1, Zenon
  <2>6. Numbered'
    BY <1>1, <2>2, <2>4, <2>5 DEF Numbered
  <2>7. next_seq' \in Nat \ {0}
    BY <2>2
  <2>8. TypeOK' /\ Holds(file, records)'
    BY <1>1, <1>2, <2>7 DEF TypeOK
  <2>9. StartsWithHeader'
    BY <1>1, <1>6 DEF IInv, StartsWithHeader
  <2>10. AckedInFile' /\ NumbersAscend'
    BY <1>1 DEF IInv, AckedInFile, NumbersAscend
  <2> QED
    BY <1>4, <2>6, <2>8, <2>9, <2>10 DEF IInv
<1> QED
  BY <1>5, <1>6

LEMMA NextKeeps == IInv /\ [Next]_vars => IInv'
<1> SUFFICES ASSUME IInv, [Next]_vars PROVE IInv'
  OBVIOUS
<1>1. CASE \E b \in Body : Log(b)
  BY <1>1, LogKeeps
<1>2. CASE LogFails
  <2>1. PICK b \in Body : WritePart(b)
    BY <1>2 DEF LogFails
  <2>2. next_seq' = next_seq /\ acked' = acked /\ up' \in BOOLEAN
    BY <1>2 DEF LogFails, IInv, TypeOK
  <2> QED
    BY <2>1, <2>2, PartKeeps
<1>3. CASE Crash
  <2>1. PICK b \in Body : WritePart(b)
    BY <1>3 DEF Crash
  <2>2. next_seq' = next_seq /\ acked' = acked /\ up' \in BOOLEAN
    BY <1>3 DEF Crash
  <2> QED
    BY <2>1, <2>2, PartKeeps
<1>4. CASE Truncate
  BY <1>4, TruncateKeeps
<1>5. CASE Open
  BY <1>5, OpenKeeps
<1>6. CASE UNCHANGED vars
  BY <1>6 DEF vars, IInv, TypeOK, StartsWithHeader, Numbered, AckedInFile, NumbersAscend
<1> QED
  BY <1>1, <1>2, <1>3, <1>4, <1>5, <1>6 DEF Next

-----------------------------------------------------------------------------
(* The theorems *)

(* What the file holds, as the invariant above says it: every step of append, *)
(* truncate and open keeps it.  (wal.rs)                                    *)
THEOREM FileFaithful == Spec => []IInv
  BY InitKeeps, NextKeeps, PTL DEF Spec

(* A file that can be read gives back exactly the records written in full,  *)
(* in their order, whatever else appends have left: nothing that was cut    *)
(* short is ever taken for a record.  (append, read_all_from)               *)
THEOREM RecordsReadBack == Spec => []ReadsBack
<1>1. IInv => ReadsBack
  <2> SUFFICES ASSUME IInv, Read(file).ok PROVE Read(file).records = records
    BY DEF ReadsBack
  <2>1. file \in Seq(Word) /\ records \in Seq(Rec) /\ Holds(file, records)
    BY Bodies DEF IInv, TypeOK
  <2> QED
    BY <2>1, HoldsReads DEF Holds
<1> QED
  BY <1>1, FileFaithful, PTL

(* Numbers are given out in ascending order and an acknowledged one is never *)
(* given again, also by a process that opens the file after another has     *)
(* died with an append under way.  (append, open)                           *)
THEOREM NumbersKeepAscending == Spec => []NumbersAscend
<1>1. IInv => NumbersAscend
  BY DEF IInv
<1> QED
  BY <1>1, FileFaithful, PTL

LEMMA PartImplements ==
    ASSUME IInv, NEW b \in Body, WritePart(b), next_seq' = next_seq, acked' = acked,
           up' \in BOOLEAN
    PROVE  Abstract!LeftOver
<1>1. \/ records' = records /\ (Read(file).ok \/ ~ Read(file)'.ok \/ records = <<>>)
      \/ records' = With(records, next_seq, b) /\ (Read(file)'.ok <=> Read(file).ok)
  BY PartKeeps
<1>2. CASE records' = With(records, next_seq, b) /\ (Read(file)'.ok <=> Read(file).ok)
  <2>1. records' = Append(records, Abstract!Numbered(next_seq, b))
    BY <1>2 DEF With, Abstract!Numbered
  <2>2. (~ Read(file).ok)' = (~ Read(file).ok)
    BY <1>2
  <2> QED
    BY <2>1, <2>2 DEF Abstract!LeftOver
<1>3. CASE records' = records /\ (Read(file).ok \/ ~ Read(file)'.ok \/ records = <<>>)
  BY <1>3 DEF Abstract!LeftOver
<1> QED
  BY <1>1, <1>2, <1>3

(* The words of wal.log implement RecordLog, which is what Collection       *)
(* relies on: what append acknowledges is in the log, what it does not      *)
(* acknowledge is there whole, or not at all, or tears the log until it is  *)
(* truncated.  (append, truncate, open)                                     *)
THEOREM FileImplements == Spec => RefinesRecordLog
<1>1. Init => Abstract!Init
  <2> SUFFICES ASSUME Init PROVE Abstract!Init
    OBVIOUS
  <2>1. Read(file).ok
    BY DEF Init, Read, Nothing
  <2> QED
    BY <2>1 DEF Init, Abstract!Init
<1>2. IInv /\ [Next]_vars => [Abstract!Next]_(Abstract!vars)
  <2> SUFFICES ASSUME IInv, [Next]_vars
               PROVE  Abstract!Next \/ UNCHANGED Abstract!vars
    OBVIOUS
  <2>1. CASE \E b \in Body : Log(b)
    <3>1. PICK b \in Body : Log(b)
      BY <2>1
    <3>2. Read(file).ok <=> Read(file)'.ok
      BY <3>1, LogKeeps
    <3>3. (~ Read(file).ok)' = (~ Read(file).ok)
      BY <3>2
    <3>4. Abstract!Log(b)
      BY <3>1, <3>3 DEF Log, Abstract!Log, Abstract!Numbered
    <3> QED
      BY <3>4 DEF Abstract!Next
  <2>2. CASE LogFails
    <3>1. PICK b \in Body : WritePart(b)
      BY <2>2 DEF LogFails
    <3>2. next_seq' = next_seq /\ acked' = acked /\ up' = up /\ up /\ up' \in BOOLEAN
      BY <2>2 DEF LogFails, IInv, TypeOK
    <3>3. Abstract!LogFails
      BY <3>1, <3>2, PartImplements DEF Abstract!LogFails
    <3> QED
      BY <3>3 DEF Abstract!Next
  <2>3. CASE Crash
    <3>1. PICK b \in Body : WritePart(b)
      BY <2>3 DEF Crash
    <3>2. next_seq' = next_seq /\ acked' = acked /\ up' = FALSE /\ up /\ up' \in BOOLEAN
      BY <2>3 DEF Crash
    <3>3. Abstract!Crash
      BY <3>1, <3>2, PartImplements DEF Abstract!Crash
    <3> QED
      BY <3>3 DEF Abstract!Next
  <2>4. CASE Truncate
    <3>1. Read(file)'.ok
      BY <2>4, TruncateKeeps
    <3>2. (~ Read(file).ok)' = FALSE
      BY <3>1
    <3>3. Abstract!Truncate
      BY <2>4, <3>2 DEF Truncate, Abstract!Truncate
    <3> QED
      BY <3>3 DEF Abstract!Next
  <2>5. CASE Open
    <3>1. next_seq' = IF records = <<>> THEN 1 ELSE records[Len(records)].seq + 1
      BY <2>5, OpenKeeps
    <3>2. (~ Read(file).ok)' = (~ Read(file).ok)
      BY <2>5 DEF Open
    <3>3. Abstract!Open
      BY <2>5, <3>1, <3>2 DEF Open, Abstract!Open
    <3> QED
      BY <3>3 DEF Abstract!Next
  <2>6. CASE UNCHANGED vars
    BY <2>6 DEF vars, Abstract!vars
  <2> QED
    BY <2>1, <2>2, <2>3, <2>4, <2>5, <2>6 DEF Next
<1> QED
  BY <1>1, <1>2, FileFaithful, PTL DEF Spec, RefinesRecordLog, Abstract!Spec

=============================================================================
