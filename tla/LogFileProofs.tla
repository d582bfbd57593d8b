--------------------------- MODULE LogFileProofs ---------------------------
(***************************************************************************)
(* The records that are all there read back from the log file, wherever    *)
(* it stops, for any names, texts and data, and any bytes fwrite() takes.  *)
(***************************************************************************)
EXTENDS LogFile, Asn1Proofs, FiniteSetTheorems

-----------------------------------------------------------------------------
(* One record.                                                             *)

LEMMA MinIs ==
  ASSUME NEW S \in SUBSET Nat, S # {}
  PROVE  Min(S) \in S /\ \A m \in S : Min(S) <= m
<1>1. \E n \in S : \A m \in S : n <= m
  BY LeastNumber
<1> QED
  BY <1>1 DEF Min

\* The kinds and the bodies of the seven elements of a record, and the elements.
KindsOf(r) ==
  << "integer", "integer", "utf8", "utf8", "utf8", "integer", r.kind >>

BodiesOf(r, beyond) ==
  << BigEndian(r.level, UInt8, beyond),
     BigEndian(r.thread, UInt64, beyond),
     Time,
     r.func,
     r.source,
     BigEndian(LineOf(r), UInt32, beyond),
     ContentOf(r) >>

PartsOf(r, beyond) ==
  << EncodeInteger(r.level, UInt8, beyond),
     EncodeInteger(r.thread, UInt64, beyond),
     EncodeUtf8(Time),
     EncodeUtf8(r.func),
     EncodeUtf8(r.source),
     EncodeInteger(LineOf(r), UInt32, beyond),
     IF r.kind = "utf8" THEN EncodeUtf8(ContentOf(r)) ELSE EncodeBits(ContentOf(r)) >>

BodyOf(r, beyond) == FlattenSeq(PartsOf(r, beyond))

LEMMA RecordIs ==
  ASSUME NEW r \in Record
  PROVE  /\ r.kind \in {"utf8", "bits"} /\ r.kind \in Kinds
         /\ r.level \in Nat /\ r.thread \in Nat /\ r.line \in Nat /\ LineOf(r) \in Nat
         /\ \A string \in {Time, r.func, r.source, r.content, ContentOf(r)} :
              string \in Seq(Byte) /\ Len(string) < Limit(6)
<1>1. /\ r.kind \in {"utf8", "bits"} /\ r.level \in Level /\ r.thread \in ThreadId
      /\ r.line \in Line /\ r.func \in Name /\ r.source \in Name /\ r.content \in Text \cup Data
  BY DEF Record
<1>2. r.kind \in Kinds
  BY <1>1 DEF Kinds
<1>3. r.level \in Nat /\ r.thread \in Nat /\ r.line \in Nat
  <2>1. Limit(UInt8) \in Nat
    BY LimitIs DEF UInt8
  <2>2. r.level \in 0..(Limit(UInt8) - 1) /\ r.thread \in Nat /\ r.line \in Nat
    BY <1>1, LogFileAssumption
  <2> QED
    BY <2>1, <2>2
<1>4. LineOf(r) \in Nat
  <2> DEFINE a == Power[UInt32]
  <2>1. a \in Nat \ {0}
    BY PowerIs DEF UInt32
  <2> HIDE DEF a
  <2>2. r.line % a \in 0..(a - 1)
    BY <1>3, <2>1, DivisionIs
  <2> QED
    BY <2>1, <2>2 DEF LineOf, a
<1>5. \A string \in {Time, r.func, r.source, r.content} :
        string \in Seq(Byte) /\ Len(string) < Limit(6)
  BY <1>1, LogFileAssumption
<1>6. ContentOf(r) \in Seq(Byte) /\ Len(ContentOf(r)) < Limit(6)
  <2> DEFINE c == r.content
             n == Len(c) - 1
             q == SubSeq(c, 1, n)
  <2>1. c \in Seq(Byte) /\ Len(c) \in Nat /\ Len(c) < Limit(6) /\ Limit(6) \in Nat
    BY <1>5, LimitIs
  <2>2. n \in Int /\ n < Limit(6) /\ 0 < Limit(6) /\ 1 \in Int /\ \A i \in 1..n : c[i] \in Byte
    BY <2>1
  <2> HIDE DEF n
  <2>3. q \in Seq(Byte) /\ Len(q) = IF 1 <= n THEN n - 1 + 1 ELSE 0
    BY <2>2, SubSeqProperties
  <2> HIDE DEF q
  <2>4. Len(q) < Limit(6)
    BY <2>2, <2>3
  <2>5. Formatted(c) = q
    BY DEF Formatted, q, n
  <2> QED
    BY <2>1, <2>3, <2>4, <2>5 DEF ContentOf
<1> QED
  BY <1>1, <1>2, <1>3, <1>4, <1>5, <1>6

\* Seven elements, of bodies that fit in memory.
AreElements(k, b, p) ==
  /\ k \in [1..7 -> Kinds]
  /\ b \in [1..7 -> Seq(Byte)]
  /\ \A i \in 1..7 : Len(b[i]) < Limit(6)
  /\ p \in [1..7 -> Seq(Byte)] /\ Len(p) = 7
  /\ \A i \in 1..7 : p[i] = Element(k[i], b[i])

LEMMA PartsAre ==
  ASSUME NEW r \in Record, NEW beyond \in Byte
  PROVE  AreElements(KindsOf(r), BodiesOf(r, beyond), PartsOf(r, beyond))
<1> DEFINE k == KindsOf(r)
           b == BodiesOf(r, beyond)
           p == PartsOf(r, beyond)
<1>1. k \in [1..7 -> Kinds]
  BY RecordIs DEF KindsOf, Kinds
<1>2. /\ \A v, width \in Nat : /\ BigEndian(v, width, beyond) \in Seq(Byte)
                              /\ Len(BigEndian(v, width, beyond)) < Limit(6)
  <2>1. \A v \in Nat : CountOfBytes(v) \in 0..7
    BY CountIs
  <2>2. 7 < Limit(6)
    <3>1. Limit(1) <= Limit(6) /\ Limit(1) = Half /\ Limit(6) \in Nat
      BY LimitIs, LimitsGrow
    <3> QED
      BY <3>1, Bytes
  <2>3. Limit(6) \in Nat
    BY LimitIs
  <2> SUFFICES ASSUME NEW v \in Nat, NEW width \in Nat
               PROVE  /\ BigEndian(v, width, beyond) \in Seq(Byte)
                      /\ Len(BigEndian(v, width, beyond)) < Limit(6)
    OBVIOUS
  <2>4. /\ BigEndian(v, width, beyond) \in Seq(Byte)
        /\ Len(BigEndian(v, width, beyond)) = CountOfBytes(v)
    BY BigEndianType
  <2> QED
    BY <2>1, <2>2, <2>3, <2>4
<1>3. \A i \in 1..7 : b[i] \in Seq(Byte) /\ Len(b[i]) < Limit(6)
  <2>1. /\ b[1] \in Seq(Byte) /\ Len(b[1]) < Limit(6)
        /\ b[2] \in Seq(Byte) /\ Len(b[2]) < Limit(6)
        /\ b[6] \in Seq(Byte) /\ Len(b[6]) < Limit(6)
    BY <1>2, RecordIs DEF BodiesOf, UInt8, UInt32, UInt64
  <2>2. /\ b[3] \in Seq(Byte) /\ Len(b[3]) < Limit(6)
        /\ b[4] \in Seq(Byte) /\ Len(b[4]) < Limit(6)
        /\ b[5] \in Seq(Byte) /\ Len(b[5]) < Limit(6)
        /\ b[7] \in Seq(Byte) /\ Len(b[7]) < Limit(6)
    BY RecordIs DEF BodiesOf
  <2>3. \A i \in 1..7 : i \in {1, 2, 3, 4, 5, 6, 7}
    OBVIOUS
  <2> HIDE DEF b
  <2> QED
    BY <2>1, <2>2, <2>3
<1>4. b \in [1..7 -> Seq(Byte)]
  <2>1. b = [i \in 1..7 |-> b[i]]
    BY DEF BodiesOf
  <2> HIDE DEF b
  <2> QED
    BY <1>3, <2>1
<1>5. \A i \in 1..7 : p[i] = Element(k[i], b[i])
  <2>1. /\ p[1] = Element(k[1], b[1]) /\ p[2] = Element(k[2], b[2]) /\ p[3] = Element(k[3], b[3])
        /\ p[4] = Element(k[4], b[4]) /\ p[5] = Element(k[5], b[5]) /\ p[6] = Element(k[6], b[6])
    BY DEF PartsOf, KindsOf, BodiesOf, EncodeInteger, EncodeUtf8
  <2>2. p[7] = Element(k[7], b[7])
    BY RecordIs DEF PartsOf, KindsOf, BodiesOf, EncodeUtf8, EncodeBits
  <2>3. \A i \in 1..7 : i \in {1, 2, 3, 4, 5, 6, 7}
    OBVIOUS
  <2> HIDE DEF p, k, b
  <2> QED
    BY <2>1, <2>2, <2>3
<1>6. p = [i \in 1..7 |-> p[i]] /\ Len(p) = 7
  BY DEF PartsOf
<1> HIDE DEF p, k, b
<1>7. \A i \in 1..7 : p[i] \in Seq(Byte)
  <2> SUFFICES ASSUME NEW i \in 1..7 PROVE p[i] \in Seq(Byte)
    OBVIOUS
  <2>1. k[i] \in Kinds /\ b[i] \in Seq(Byte)
    BY <1>1, <1>4
  <2>2. Element(k[i], b[i]) \in Seq(Byte)
    BY <2>1, ElementIs
  <2> QED
    BY <1>5, <2>2
<1>8. p \in [1..7 -> Seq(Byte)]
  BY <1>6, <1>7
<1> QED
  <2>1. AreElements(k, b, p)
    BY <1>1, <1>3, <1>4, <1>5, <1>6, <1>8 DEF AreElements
  <2> QED
    BY <2>1 DEF p, k, b

\* How long the body of a record is.
LEMMA LengthIs ==
  ASSUME NEW at, NEW len, NEW limit, NEW last,
         limit \in Nat, last \in Nat, at[0] = 0, at[7] = last,
         \A i \in 1..7 : len[i] \in Nat /\ len[i] <= 8 + limit,
         \A i \in 0..7 : at[i] \in Nat,
         \A j \in 1..7 : at[j] = at[j - 1] + len[j]
  PROVE  last <= 7 * (8 + limit)
<1>1. /\ at[1] = at[0] + len[1] /\ at[2] = at[1] + len[2] /\ at[3] = at[2] + len[3]
      /\ at[4] = at[3] + len[4] /\ at[5] = at[4] + len[5] /\ at[6] = at[5] + len[6]
      /\ at[7] = at[6] + len[7]
  OBVIOUS
<1>2. at[1] \in Nat /\ at[1] <= 8 + limit
  BY <1>1
<1>3. at[2] \in Nat /\ at[2] <= 2 * (8 + limit)
  BY <1>1, <1>2
<1>4. at[3] \in Nat /\ at[3] <= 3 * (8 + limit)
  BY <1>1, <1>3
<1>5. at[4] \in Nat /\ at[4] <= 4 * (8 + limit)
  BY <1>1, <1>4
<1>6. at[5] \in Nat /\ at[5] <= 5 * (8 + limit)
  BY <1>1, <1>5
<1>7. at[6] \in Nat /\ at[6] <= 6 * (8 + limit)
  BY <1>1, <1>6
<1> QED
  BY <1>1, <1>7

LEMMA SevenStringsFit ==
  7 * (8 + Limit(6)) < Limit(7) /\ Limit(7) \in Nat /\ Limit(6) \in Nat
<1>1. Limit(7) = Base * Limit(6) /\ Limit(7) \in Nat /\ Limit(6) \in Nat
  BY LimitIs
<1>2. Limit(6) > 7
  <2>1. Limit(1) <= Limit(6) /\ Limit(1) = Half
    BY LimitIs, LimitsGrow
  <2> QED
    BY <1>1, <2>1, Bytes
<1>3. PICK d \in Nat : Base = 16 + d
  <2>1. Base - 16 \in Nat /\ Base = 16 + (Base - 16)
    BY Bytes
  <2> QED
    BY <2>1
<1>4. Base * Limit(6) = 16 * Limit(6) + d * Limit(6) /\ d * Limit(6) \in Nat
  BY <1>1, <1>3
<1> QED
  BY <1>1, <1>2, <1>4

\* An element adds no more than nine bytes to its body.
LEMMA ElementFits ==
  ASSUME NEW k \in Kinds, NEW b \in Seq(Byte), Len(b) < Limit(6)
  PROVE  Len(Element(k, b)) \in Nat /\ Len(Element(k, b)) <= 8 + Limit(6)
<1>1. PICK c \in 0..7 : /\ Element(k, b) \in Seq(Byte)
                        /\ Len(Element(k, b)) \in {1 + c + Len(b), 2 + c + Len(b)}
  BY ElementIs
<1>2. Limit(6) \in Nat /\ Len(b) \in Nat
  BY LimitIs
<1> QED
  BY <1>1, <1>2

LEMMA BodyFits ==
  ASSUME NEW r \in Record, NEW beyond \in Byte
  PROVE  BodyOf(r, beyond) \in Seq(Byte) /\ Len(BodyOf(r, beyond)) < Limit(7)
<1> DEFINE k == KindsOf(r)
           b == BodiesOf(r, beyond)
           p == PartsOf(r, beyond)
           f == BodyOf(r, beyond)
<1>1. AreElements(k, b, p)
  BY PartsAre
<1>2. IsJoined(f, 7, p)
  <2>1. 7 \in Nat \ {0} /\ p \in [1..7 -> Seq(Byte)] /\ Len(p) = 7
    BY <1>1 DEF AreElements
  <2> HIDE DEF p
  <2>2. IsJoined(FlattenSeq(p), 7, p)
    BY <2>1, FlattenIs
  <2> QED
    BY <2>2 DEF BodyOf, p
<1> HIDE DEF k, b, p, f
<1>3. f \in Seq(Byte) /\ Len(f) \in Nat
  BY <1>2 DEF IsJoined
<1>4. \A i \in 1..7 : Len(p[i]) \in Nat /\ Len(p[i]) <= 8 + Limit(6)
  <2>1. ASSUME NEW i \in 1..7 PROVE Len(p[i]) \in Nat /\ Len(p[i]) <= 8 + Limit(6)
    <3>1. /\ k[i] \in Kinds /\ b[i] \in Seq(Byte) /\ Len(b[i]) < Limit(6)
          /\ p[i] = Element(k[i], b[i])
      BY <1>1 DEF AreElements
    <3> QED
      BY <3>1, ElementFits
  <2> QED
    BY <2>1
<1>5. Len(f) <= 7 * (8 + Limit(6))
  <2>1. PICK at : /\ at \in [0..7 -> 0..Len(f)] /\ at[0] = 0 /\ at[7] = Len(f)
                  /\ \A j \in 1..7 : at[j] = at[j - 1] + Len(p[j])
    BY <1>2 DEF IsJoined
  <2>2. \A i \in 0..7 : at[i] \in Nat
    <3>1. \A n \in Nat : \A g \in [0..7 -> 0..n] : \A i \in 0..7 : g[i] \in Nat
      OBVIOUS
    <3> QED
      BY <1>3, <2>1, <3>1, Zenon
  <2>3. PICK len : /\ \A i \in 1..7 : len[i] = Len(p[i])
                   /\ \A j \in 1..7 : at[j] = at[j - 1] + len[j]
    <3> DEFINE len == [i \in 1..7 |-> Len(p[i])]
    <3>1. \A i \in 1..7 : len[i] = Len(p[i])
      OBVIOUS
    <3> HIDE DEF len
    <3>2. \A j \in 1..7 : at[j] = at[j - 1] + len[j]
      BY <2>1, <3>1
    <3> QED
      BY <3>1, <3>2
  <2>4. \A i \in 1..7 : len[i] \in Nat /\ len[i] <= 8 + Limit(6)
    BY <1>4, <2>3
  <2>5. Limit(6) \in Nat /\ at[0] = 0 /\ at[7] = Len(f)
    BY <2>1, SevenStringsFit
  <2> QED
    BY <1>3, <2>2, <2>3, <2>4, <2>5, LengthIs
<1>6. Len(f) < Limit(7)
  BY <1>3, <1>5, SevenStringsFit
<1> QED
  BY <1>3, <1>6 DEF f

\* An integer in the positive half of its type reads back.
LEMMA IntegerReads ==
  ASSUME NEW v \in Nat, NEW width \in {UInt8, UInt32, UInt64}, NEW beyond \in Byte,
         NEW element, element.body = BigEndian(v, width, beyond)
  PROVE  Reads(element, v, width)
<1> DEFINE n == IF width > 7 THEN 7 ELSE width
<1> SUFFICES ASSUME v < Limit(n) PROVE Number(element.body) = v
  BY DEF Reads
<1>1. n \in 1..7 /\ n <= width /\ width \in Nat
  BY DEF UInt8, UInt32, UInt64
<1> HIDE DEF n
<1>2. CountOfBytes(v) <= n /\ CountOfBytes(v) \in Nat
  BY <1>1, CountIs
<1>3. v < Limit(7)
  <2>1. Limit(n) <= Limit(7) /\ Limit(n) \in Nat /\ Limit(7) \in Nat
    BY <1>1, LimitsGrow, LimitIs
  <2> QED
    BY <2>1
<1>4. CountOfBytes(v) <= width
  BY <1>1, <1>2
<1> QED
  BY <1>1, <1>3, <1>4, IntegerReadsBack

LEMMA RecordReadsBack ==
  ASSUME NEW r \in Record, NEW beyond \in Byte
  PROVE  ReadsAs(Elements(BodyOf(r, beyond)), r)
<1> DEFINE k == KindsOf(r)
           b == BodiesOf(r, beyond)
           p == PartsOf(r, beyond)
           f == Elements(BodyOf(r, beyond))
<1>1. AreElements(k, b, p)
  BY PartsAre
<1>2. Len(f) = 7 /\ \A i \in 1..7 : f[i] = [tag |-> Tag[k[i]], body |-> b[i]]
  <2> HIDE DEF k, b, p
  <2>1. 7 \in Nat \ {0}
    OBVIOUS
  <2>2. /\ k \in [1..7 -> Kinds] /\ b \in [1..7 -> Seq(Byte)] /\ p \in [1..7 -> Seq(Byte)]
        /\ Len(p) = 7 /\ \A i \in 1..7 : p[i] = Element(k[i], b[i])
        /\ \A i \in 1..7 : Len(b[i]) < Limit(7)
    <3>1. /\ k \in [1..7 -> Kinds] /\ b \in [1..7 -> Seq(Byte)] /\ p \in [1..7 -> Seq(Byte)]
          /\ Len(p) = 7 /\ \A i \in 1..7 : p[i] = Element(k[i], b[i])
      BY <1>1 DEF AreElements
    <3>2. ASSUME NEW i \in 1..7 PROVE Len(b[i]) < Limit(7)
      <4>1. Len(b[i]) < Limit(6) /\ Len(b[i]) \in Nat
        <5>1. \A j \in 1..7 : Len(b[j]) < Limit(6)
          BY <1>1 DEF AreElements
        <5>2. b[i] \in Seq(Byte)
          BY <3>1
        <5> QED
          BY <5>1, <5>2
      <4>2. Limit(6) <= Limit(7) /\ Limit(6) \in Nat /\ Limit(7) \in Nat
        BY LimitIs, LimitsGrow
      <4> QED
        BY <4>1, <4>2
    <3> QED
      BY <3>1, <3>2
  <2>3. /\ Len(Elements(FlattenSeq(p))) = 7
        /\ \A i \in 1..7 : Elements(FlattenSeq(p))[i] = [tag |-> Tag[k[i]], body |-> b[i]]
    BY <2>1, <2>2, SequenceReadsBack
  <2> QED
    BY <2>3 DEF BodyOf, p
<1>3. f \in Seq(Parsed)
  <2>1. BodyOf(r, beyond) \in Seq(Byte)
    BY BodyFits
  <2>2. 1 \in 1..(Len(BodyOf(r, beyond)) + 1)
    BY <2>1
  <2> QED
    BY <2>1, <2>2, ElementsFromIs DEF Elements
<1>6. /\ k[1] = "integer" /\ k[2] = "integer" /\ k[3] = "utf8" /\ k[4] = "utf8" /\ k[5] = "utf8"
      /\ k[6] = "integer" /\ k[7] = r.kind
  BY DEF KindsOf
<1>7. /\ b[1] = BigEndian(r.level, UInt8, beyond)
      /\ b[2] = BigEndian(r.thread, UInt64, beyond)
      /\ b[3] = Time /\ b[4] = r.func /\ b[5] = r.source
      /\ b[6] = BigEndian(LineOf(r), UInt32, beyond)
      /\ b[7] = ContentOf(r)
  BY DEF BodiesOf
<1> HIDE DEF k, b, p, f
<1>4. DOMAIN f = 1..7
  BY <1>2, <1>3
<1>5. \A i \in 1..7 : f[i].tag = Tag[k[i]] /\ f[i].body = b[i]
  BY <1>2
<1>8. [i \in DOMAIN f |-> f[i].tag] =
        << Tag["integer"], Tag["integer"], Tag["utf8"], Tag["utf8"], Tag["utf8"],
           Tag["integer"], Tag[r.kind] >>
  <2> DEFINE t == << Tag["integer"], Tag["integer"], Tag["utf8"], Tag["utf8"], Tag["utf8"],
                     Tag["integer"], Tag[r.kind] >>
  <2>1. t = [i \in 1..7 |-> t[i]]
    OBVIOUS
  <2>2. /\ t[1] = Tag[k[1]] /\ t[2] = Tag[k[2]] /\ t[3] = Tag[k[3]] /\ t[4] = Tag[k[4]]
        /\ t[5] = Tag[k[5]] /\ t[6] = Tag[k[6]] /\ t[7] = Tag[k[7]]
    BY <1>6
  <2> HIDE DEF t
  <2>3. \A i \in 1..7 : t[i] = Tag[k[i]]
    <3>1. \A i \in 1..7 : i \in {1, 2, 3, 4, 5, 6, 7}
      OBVIOUS
    <3> QED
      BY <2>2, <3>1
  <2>4. [i \in DOMAIN f |-> f[i].tag] = [i \in 1..7 |-> t[i]]
    BY <1>4, <1>5, <2>3
  <2> QED
    BY <2>1, <2>4 DEF t
<1>9. /\ f[1].body = b[1] /\ f[2].body = b[2] /\ f[3].body = b[3] /\ f[4].body = b[4]
      /\ f[5].body = b[5] /\ f[6].body = b[6] /\ f[7].body = b[7]
  BY <1>5
<1>10. /\ Reads(f[1], r.level, UInt8) /\ Reads(f[2], r.thread, UInt64)
       /\ Reads(f[6], LineOf(r), UInt32)
  BY <1>7, <1>9, RecordIs, IntegerReads
<1>11. f[7].body \in {r.content} \cup (IF r.kind = "utf8" THEN {Front(r.content)} ELSE {})
  BY <1>7, <1>9 DEF ContentOf, Formatted, Front
<1> QED
  BY <1>7, <1>8, <1>9, <1>10, <1>11 DEF ReadsAs, f

-----------------------------------------------------------------------------
(* The file.                                                               *)

\* Where record i of l begins: where the one before it ends.
Start(l, i) == IF i = 1 THEN 0 ELSE l[i - 1].end

\* Record i of l is in f as far as fwrite() took it, which is not nothing.
LaidWith(f, l, i, beyond) ==
  LET e == Encode(l[i].what, beyond)
  IN  /\ l[i].end > Start(l, i)
      /\ l[i].end <= Start(l, i) + Len(e)
      /\ l[i].whole <=> l[i].end = Start(l, i) + Len(e)
      /\ \A n \in 1..(l[i].end - Start(l, i)) : f[Start(l, i) + n] = e[n]

\* The file is the records logged, as far as they were taken, and nothing else.
IsLog(f, l) ==
  /\ Len(f) = Start(l, Len(l) + 1)
  /\ \A i \in 1..Len(l) : \E beyond \in Byte : LaidWith(f, l, i, beyond)

(***************************************************************************)
(* The inductive invariant. ReadsBack alone is not inductive: what a       *)
(* reader finds in a file says nothing of the bytes behind the last whole  *)
(* record, which the next record is written behind.                        *)
(***************************************************************************)
Typed == file \in Seq(Byte) /\ logged \in Seq(Entry)

IInv == Typed /\ IsLog(file, logged)

LEMMA EncodeIs ==
  ASSUME NEW r \in Record, NEW beyond \in Byte
  PROVE  /\ Encode(r, beyond) = Element("sequence", BodyOf(r, beyond))
         /\ Encode(r, beyond) \in Seq(Byte) /\ Len(Encode(r, beyond)) \in Nat \ {0}
<1>1. Encode(r, beyond) = Element("sequence", BodyOf(r, beyond))
  BY DEF Encode, EncodeSequence, BodyOf, PartsOf
<1>2. "sequence" \in Kinds /\ BodyOf(r, beyond) \in Seq(Byte)
  BY BodyFits DEF Kinds
<1>3. /\ Element("sequence", BodyOf(r, beyond)) \in Seq(Byte)
      /\ Len(Element("sequence", BodyOf(r, beyond))) > 0
  BY <1>2, ElementIs
<1> QED
  BY <1>1, <1>3

LEMMA EntryIs ==
  ASSUME NEW l \in Seq(Entry), NEW i \in 1..Len(l)
  PROVE  /\ l[i].what \in Record /\ l[i].end \in Nat /\ l[i].whole \in BOOLEAN
         /\ Start(l, i) \in Nat /\ Len(l) \in Nat
<1>1. l[i] \in Entry /\ (i # 1 => l[i - 1] \in Entry) /\ Len(l) \in Nat
  OBVIOUS
<1> QED
  BY <1>1 DEF Entry, Start

\* One record after another.
LEMMA EndsGrow ==
  ASSUME NEW f, NEW l \in Seq(Entry), IsLog(f, l), NEW i \in 1..Len(l), NEW j \in (i + 1)..Len(l)
  PROVE  l[i].end < l[j].end
<1> DEFINE S == {d \in Nat : i + 1 + d <= Len(l) => l[i].end < l[i + 1 + d].end}
<1>1. ASSUME NEW k \in 1..Len(l), k + 1 \in 1..Len(l)
      PROVE  /\ l[k].end < l[k + 1].end
             /\ l[k].end \in Nat /\ l[k + 1].end \in Nat
  <2>1. PICK b \in Byte : LaidWith(f, l, k + 1, b)
    BY <1>1 DEF IsLog
  <2>2. k + 1 # 1 /\ (k + 1) - 1 = k
    OBVIOUS
  <2>3. l[k + 1].end > l[k].end
    BY <2>1, <2>2 DEF LaidWith, Start
  <2>4. l[k].end \in Nat /\ l[k + 1].end \in Nat
    BY <1>1, EntryIs
  <2> QED
    BY <2>3, <2>4
<1>2. 0 \in S
  BY <1>1
<1>3. ASSUME NEW d \in 0..(Len(l) - 1), d \in S PROVE d + 1 \in S
  <2> SUFFICES ASSUME i + 1 + (d + 1) <= Len(l) PROVE l[i].end < l[i + 1 + (d + 1)].end
    OBVIOUS
  <2>1. i + 1 + d \in 1..Len(l) /\ i + 1 + (d + 1) = (i + 1 + d) + 1 /\ (i + 1 + d) + 1 \in 1..Len(l)
    OBVIOUS
  <2>2. l[i].end < l[i + 1 + d].end
    BY <1>3, <2>1
  <2>3. l[i].end \in Nat
    BY EntryIs
  <2>4. l[i + 1 + d].end < l[(i + 1 + d) + 1].end /\ l[i + 1 + d].end \in Nat
        /\ l[(i + 1 + d) + 1].end \in Nat
    BY <1>1, <2>1
  <2> QED
    BY <2>1, <2>2, <2>3, <2>4
<1> HIDE DEF S
<1>4. \A d \in 0..Len(l) : d \in S
  <2>1. Len(l) \in Nat
    OBVIOUS
  <2> QED
    BY <1>2, <1>3, <2>1, Induction
<1>5. j - (i + 1) \in 0..Len(l) /\ i + 1 + (j - (i + 1)) = j /\ i + 1 + (j - (i + 1)) <= Len(l)
  OBVIOUS
<1> QED
  BY <1>4, <1>5 DEF S

LEMMA EndsInFile ==
  ASSUME NEW f, NEW l \in Seq(Entry), IsLog(f, l), NEW i \in 1..Len(l)
  PROVE  l[i].end <= Len(f) /\ Len(f) = l[Len(l)].end
<1>1. Len(l) \in 1..Len(l) /\ Len(l) + 1 # 1 /\ (Len(l) + 1) - 1 = Len(l)
  OBVIOUS
<1>2. Len(f) = l[Len(l)].end /\ l[Len(l)].end \in Nat /\ l[i].end \in Nat
  BY <1>1, EntryIs DEF IsLog, Start
<1>3. CASE i = Len(l)
  BY <1>2, <1>3
<1>4. CASE i # Len(l)
  <2>1. Len(l) \in (i + 1)..Len(l)
    BY <1>4
  <2> QED
    BY <1>2, <2>1, EndsGrow
<1> QED
  BY <1>3, <1>4

\* Writing a record, or a part of one, behind what is in the file.
IsWritten(f, l, r, beyond, taken, whole, g, m) ==
  /\ taken \in 1..Len(Encode(r, beyond)) /\ whole \in BOOLEAN
  /\ whole <=> taken = Len(Encode(r, beyond))
  /\ g = f \o SubSeq(Encode(r, beyond), 1, taken)
  /\ m = Append(l, [what |-> r, end |-> Len(g), whole |-> whole])

LEMMA WriteKeeps ==
  ASSUME NEW f \in Seq(Byte), NEW l \in Seq(Entry), IsLog(f, l),
         NEW r \in Record, NEW beyond \in Byte, NEW taken, NEW whole, NEW g, NEW m,
         IsWritten(f, l, r, beyond, taken, whole, g, m)
  PROVE  g \in Seq(Byte) /\ m \in Seq(Entry) /\ IsLog(g, m)
<1>w. /\ taken \in 1..Len(Encode(r, beyond)) /\ whole \in BOOLEAN
      /\ whole <=> taken = Len(Encode(r, beyond))
      /\ g = f \o SubSeq(Encode(r, beyond), 1, taken)
      /\ m = Append(l, [what |-> r, end |-> Len(g), whole |-> whole])
  BY DEF IsWritten
<1>e. PICK e : e = Encode(r, beyond)
  OBVIOUS
<1>t. PICK t : t = SubSeq(e, 1, taken)
  OBVIOUS
<1>n. PICK n : n = Len(l) + 1
  OBVIOUS
<1>1. e \in Seq(Byte) /\ Len(e) \in Nat \ {0} /\ taken \in 1..Len(e) /\ taken \in Nat
  BY <1>e, <1>w, EncodeIs
<1>2. t \in Seq(Byte) /\ Len(t) = taken /\ \A i \in 1..taken : t[i] = e[i]
  <2>1. \A i \in 1..taken : e[i] \in Byte
    BY <1>1
  <2>2. /\ SubSeq(e, 1, taken) \in Seq(Byte)
        /\ Len(SubSeq(e, 1, taken)) = IF 1 <= taken THEN taken - 1 + 1 ELSE 0
        /\ \A i \in 1..(taken - 1 + 1) : SubSeq(e, 1, taken)[i] = e[1 + i - 1]
    BY <1>1, <2>1, SubSeqProperties
  <2>3. 1 <= taken /\ taken - 1 + 1 = taken /\ \A i \in 1..taken : 1 + i - 1 = i
    BY <1>1
  <2> QED
    BY <1>t, <2>2, <2>3
<1>3. /\ g \in Seq(Byte) /\ Len(g) = Len(f) + taken /\ Len(f) \in Nat
      /\ \A i \in 1..Len(f) : g[i] = f[i]
      /\ \A i \in 1..taken : g[Len(f) + i] = e[i]
  <2>1. g = f \o t
    BY <1>e, <1>t, <1>w
  <2>2. /\ f \o t \in Seq(Byte) /\ Len(f \o t) = Len(f) + Len(t)
        /\ Len(f) \in Nat
        /\ \A i \in 1..Len(f) : (f \o t)[i] = f[i]
        /\ \A i \in 1..Len(t) : (f \o t)[Len(f) + i] = t[i]
    BY <1>2, JoinedBytes
  <2> QED
    BY <1>2, <2>1, <2>2
<1>4. /\ m \in Seq(Entry) /\ Len(m) = n /\ n \in Nat \ {0} /\ Len(l) = n - 1
      /\ \A i \in 1..(n - 1) : m[i] = l[i]
      /\ m[n].what = r /\ m[n].end = Len(g) /\ m[n].whole = whole
  <2>1. PICK x : x = [what |-> r, end |-> Len(g), whole |-> whole]
    OBVIOUS
  <2>2. x \in Entry
    BY <1>3, <1>w, <2>1 DEF Entry
  <2>3. m = Append(l, x)
    BY <1>w, <2>1
  <2>4. /\ m \in Seq(Entry) /\ Len(m) = n /\ n \in Nat \ {0} /\ Len(l) = n - 1
        /\ \A i \in 1..(n - 1) : m[i] = l[i]
        /\ m[n] = x
    BY <1>n, <2>2, <2>3
  <2> QED
    BY <2>1, <2>4
<1>5. /\ \A i \in 1..n : Start(m, i) = Start(l, i)
      /\ Start(m, n) = Len(f) /\ Start(m, n + 1) = Len(g)
  <2>1. Start(l, n) = Len(f)
    BY <1>n DEF IsLog
  <2>2. ASSUME NEW i \in 1..n PROVE Start(m, i) = Start(l, i)
    <3>1. CASE i = 1
      BY <3>1 DEF Start
    <3>2. CASE i # 1
      <4>1. i - 1 \in 1..(n - 1)
        BY <1>4, <3>2
      <4> QED
        BY <1>4, <3>2, <4>1 DEF Start
    <3> QED
      BY <3>1, <3>2
  <2>3. n \in 1..n /\ n + 1 # 1 /\ (n + 1) - 1 = n
    BY <1>4
  <2>4. Start(m, n + 1) = m[n].end
    BY <2>3 DEF Start
  <2> QED
    BY <1>4, <2>1, <2>2, <2>3, <2>4
<1>6. Len(g) = Start(m, Len(m) + 1)
  BY <1>4, <1>5
<1>7. ASSUME NEW i \in 1..n PROVE \E b \in Byte : LaidWith(g, m, i, b)
  <2>1. CASE i = n
    <3>1. m[i].end = Len(f) + taken /\ Start(m, i) = Len(f) /\ m[i].what = r /\ m[i].whole = whole
      BY <1>3, <1>4, <1>5, <2>1
    <3>2. /\ Len(f) + taken > Len(f)
          /\ Len(f) + taken <= Len(f) + Len(e)
          /\ taken = Len(e) <=> Len(f) + taken = Len(f) + Len(e)
          /\ (Len(f) + taken) - Len(f) = taken
      <4> DEFINE x == Len(f)
                 y == Len(e)
      <4>1. x \in Nat /\ y \in Nat /\ taken \in Nat /\ taken <= y /\ taken > 0
        BY <1>1, <1>3
      <4> HIDE DEF x, y
      <4>2. /\ x + taken > x /\ x + taken <= x + y
            /\ taken = y <=> x + taken = x + y
            /\ (x + taken) - x = taken
        BY <4>1
      <4> QED
        BY <4>2 DEF x, y
    <3>3. m[i].whole <=> Len(f) + taken = Len(f) + Len(e)
      BY <1>e, <1>w, <3>1, <3>2
    <3>5. \A k \in 1..(m[i].end - Start(m, i)) : g[Start(m, i) + k] = e[k]
      <4>1. PICK a, c : a = Start(m, i) /\ c = m[i].end - Start(m, i)
        OBVIOUS
      <4>2. a = Len(f) /\ c = taken
        BY <3>1, <3>2, <4>1
      <4>3. \A k \in 1..c : g[a + k] = e[k]
        BY <1>3, <4>2
      <4> QED
        BY <4>1, <4>3
    <3>6. /\ m[i].end > Start(m, i)
          /\ m[i].end <= Start(m, i) + Len(e)
          /\ m[i].whole <=> m[i].end = Start(m, i) + Len(e)
      BY <3>1, <3>2, <3>3
    <3>7. e = Encode(m[i].what, beyond)
      BY <1>e, <3>1
    <3>4. LaidWith(g, m, i, beyond)
      BY <3>5, <3>6, <3>7 DEF LaidWith
    <3> QED
      BY <3>4
  <2>2. CASE i # n
    <3>1. i \in 1..(n - 1) /\ m[i] = l[i] /\ Start(m, i) = Start(l, i) /\ i \in 1..Len(l)
      BY <1>4, <1>5, <2>2
    <3>2. PICK b \in Byte : LaidWith(f, l, i, b)
      BY <3>1 DEF IsLog
    <3>3. l[i].end <= Len(f)
      BY <3>1, EndsInFile
    <3>4. \A k \in 1..(l[i].end - Start(l, i)) : g[Start(l, i) + k] = f[Start(l, i) + k]
      <4>1. l[i].end \in Nat /\ Start(l, i) \in Nat
        BY <3>1, EntryIs
      <4>2. \A k \in 1..(l[i].end - Start(l, i)) : Start(l, i) + k \in 1..Len(f)
        BY <1>3, <3>3, <4>1
      <4> QED
        BY <1>3, <4>2
    <3>5. \A k \in 1..(m[i].end - Start(m, i)) : g[Start(m, i) + k] = Encode(m[i].what, b)[k]
      <4>1. \A k \in 1..(l[i].end - Start(l, i)) : f[Start(l, i) + k] = Encode(l[i].what, b)[k]
        BY <3>2 DEF LaidWith
      <4>2. PICK a, c, e1 : /\ a = Start(m, i) /\ c = m[i].end - Start(m, i)
                            /\ e1 = Encode(m[i].what, b)
        OBVIOUS
      <4>3. a = Start(l, i) /\ c = l[i].end - Start(l, i) /\ e1 = Encode(l[i].what, b)
        BY <3>1, <4>2
      <4>4. \A k \in 1..c : f[a + k] = e1[k]
        BY <4>1, <4>3
      <4>5. \A k \in 1..c : g[a + k] = f[a + k]
        BY <3>4, <4>3
      <4>6. \A k \in 1..c : g[a + k] = e1[k]
        BY <4>4, <4>5
      <4> QED
        BY <4>2, <4>6
    <3>6. /\ m[i].end > Start(m, i)
          /\ m[i].end <= Start(m, i) + Len(Encode(m[i].what, b))
          /\ m[i].whole <=> m[i].end = Start(m, i) + Len(Encode(m[i].what, b))
      BY <3>1, <3>2 DEF LaidWith
    <3>7. LaidWith(g, m, i, b)
      BY <3>5, <3>6 DEF LaidWith
    <3> QED
      BY <3>7
  <2> QED
    BY <2>1, <2>2
<1> QED
  BY <1>3, <1>4, <1>6, <1>7 DEF IsLog

LEMMA InitInv == Init => IInv
<1> SUFFICES ASSUME Init PROVE IInv
  OBVIOUS
<1>1. file = <<>> /\ logged = <<>> /\ Len(logged) = 0 /\ Len(file) = 0
  BY DEF Init
<1>2. Typed
  BY <1>1 DEF Typed
<1>3. IsLog(file, logged)
  BY <1>1 DEF IsLog, Start
<1> QED
  BY <1>2, <1>3 DEF IInv

\* All of Next's disjuncts write one record, of one kind or another.
LEMMA WriteInv ==
  ASSUME IInv, NEW kind \in {"utf8", "bits"}, NEW content \in Text \cup Data, NEW whole \in BOOLEAN,
         Write(kind, content, whole)
  PROVE  IInv'
<1>1. PICK level \in Level, thread \in ThreadId, func \in Name, source \in Name, line \in Line :
        LET r == [kind |-> kind, level |-> level, thread |-> thread, func |-> func,
                  source |-> source, line |-> line, content |-> content]
        IN  \E beyond \in IF CountOfBytes(LineOf(r)) > UInt32 THEN Beyond ELSE {0} :
            \E taken \in Taken(Len(Encode(r, beyond)), whole) :
              /\ file' = Appended(SubSeq(Encode(r, beyond), 1, taken))
              /\ logged' = Append(logged, [what |-> r, end |-> Len(file'), whole |-> whole])
  BY DEF Write
<1>2. PICK r : r = [kind |-> kind, level |-> level, thread |-> thread, func |-> func,
                    source |-> source, line |-> line, content |-> content]
  OBVIOUS
<1>3. PICK beyond \in IF CountOfBytes(LineOf(r)) > UInt32 THEN Beyond ELSE {0} :
      \E taken \in Taken(Len(Encode(r, beyond)), whole) :
        /\ file' = Appended(SubSeq(Encode(r, beyond), 1, taken))
        /\ logged' = Append(logged, [what |-> r, end |-> Len(file'), whole |-> whole])
  BY <1>1, <1>2
<1>4. PICK taken \in Taken(Len(Encode(r, beyond)), whole) :
        /\ file' = Appended(SubSeq(Encode(r, beyond), 1, taken))
        /\ logged' = Append(logged, [what |-> r, end |-> Len(file'), whole |-> whole])
  BY <1>3
<1>5. r \in Record
  BY <1>2 DEF Record
<1>6. beyond \in Byte
  BY LogFileAssumption, Bytes
<1>7. Len(Encode(r, beyond)) \in Nat \ {0}
  BY <1>5, <1>6, EncodeIs
<1>8. taken \in 1..Len(Encode(r, beyond)) /\ (whole <=> taken = Len(Encode(r, beyond)))
  <2> DEFINE n == Len(Encode(r, beyond))
  <2> HIDE DEF n
  <2>1. n \in Nat \ {0} /\ taken \in Taken(n, whole)
    BY <1>7 DEF n
  <2>2. CASE whole = TRUE
    BY <2>1, <2>2 DEF Taken, n
  <2>3. CASE whole = FALSE
    <3>1. taken \in Short /\ taken < n
      BY <2>1, <2>3 DEF Taken
    <3>2. taken \in Nat \ {0}
      BY <3>1, LogFileAssumption
    <3> QED
      BY <2>1, <2>3, <3>1, <3>2 DEF n
  <2> QED
    BY <2>2, <2>3
<1>9. file \in Seq(Byte) /\ logged \in Seq(Entry) /\ IsLog(file, logged)
  BY DEF IInv, Typed
<1>10. file' \in Seq(Byte) /\ logged' \in Seq(Entry) /\ IsLog(file', logged')
  <2>1. IsWritten(file, logged, r, beyond, taken, whole, file', logged')
    BY <1>4, <1>8 DEF IsWritten, Appended
  <2> QED
    BY <1>5, <1>6, <1>9, <2>1, WriteKeeps
<1> QED
  BY <1>10 DEF IInv, Typed

LEMMA Inductive == Spec => []IInv
<1>1. Init => IInv
  BY InitInv
<1>2. IInv /\ [Next]_vars => IInv'
  <2> SUFFICES ASSUME IInv, [Next]_vars PROVE IInv'
    OBVIOUS
  <2>1. CASE WriteText
    <3>1. PICK text \in Text : Write("utf8", text, TRUE)
      BY <2>1 DEF WriteText
    <3> QED
      BY <3>1, WriteInv
  <2>2. CASE WriteBytes
    <3>1. PICK data \in Data : Write("bits", data, TRUE)
      BY <2>2 DEF WriteBytes
    <3> QED
      BY <3>1, WriteInv
  <2>3. CASE WriteTextPart
    <3>1. PICK text \in Text : Write("utf8", text, FALSE)
      BY <2>3 DEF WriteTextPart
    <3> QED
      BY <3>1, WriteInv
  <2>4. CASE WriteBytesPart
    <3>1. PICK data \in Data : Write("bits", data, FALSE)
      BY <2>4 DEF WriteBytesPart
    <3> QED
      BY <3>1, WriteInv
  <2>5. CASE UNCHANGED vars
    BY <2>5 DEF vars, IInv, Typed
  <2> QED
    BY <2>1, <2>2, <2>3, <2>4, <2>5 DEF Next
<1> QED
  BY <1>1, <1>2, PTL DEF Spec

(***************************************************************************)
(* The file is bytes, and the history that the reader is held to is of     *)
(* records that the program can log, one ending behind the other in the    *)
(* file, whatever integers, strings and failures of fwrite() there are     *)
(* (LogFile's TypeOK).                                                     *)
(***************************************************************************)
THEOREM TypeCorrect == Spec => []TypeOK
<1>1. IInv => TypeOK
  <2> SUFFICES ASSUME IInv PROVE TypeOK
    OBVIOUS
  <2>1. /\ file \in Seq(Byte) /\ logged \in Seq(Entry) /\ IsLog(file, logged)
        /\ DOMAIN logged = 1..Len(logged) /\ Len(logged) \in Nat /\ Len(file) \in Nat
    BY DEF IInv, Typed
  <2>2. ASSUME NEW i \in 1..Len(logged) PROVE logged[i].end \in 1..Len(file)
    <3>1. logged[i].end \in Nat /\ Start(logged, i) \in Nat /\ logged[i].end > Start(logged, i)
      BY <2>1, EntryIs DEF IsLog, LaidWith
    <3>2. logged[i].end <= Len(file)
      BY <2>1, EndsInFile
    <3> QED
      BY <2>1, <3>1, <3>2
  <2>3. ASSUME NEW i \in 1..Len(logged), NEW j \in 1..Len(logged), i < j
        PROVE  logged[i].end < logged[j].end
    <3>1. j \in (i + 1)..Len(logged)
      BY <2>3
    <3> QED
      BY <2>1, <3>1, EndsGrow
  <2> QED
    BY <2>1, <2>2, <2>3 DEF TypeOK
<1> QED
  BY <1>1, Inductive, PTL

-----------------------------------------------------------------------------
(* Reading back.                                                           *)

\* The first k bytes of the file, and the records that a reader must find there.
Cut(k) == SubSeq(file, 1, k)

There(k) == {i \in DOMAIN logged : logged[i].whole /\ logged[i].end <= Min({k, Clean})}

LEMMA CutIs ==
  ASSUME IInv, NEW k \in 0..Len(file)
  PROVE  /\ Cut(k) \in Seq(Byte) /\ Len(Cut(k)) = k
         /\ \A i \in 1..k : Cut(k)[i] = file[i]
<1>1. file \in Seq(Byte) /\ Len(file) \in Nat /\ k \in Nat /\ k <= Len(file)
  BY DEF IInv, Typed
<1>2. \A i \in 1..k : file[i] \in Byte
  BY <1>1
<1>3. /\ SubSeq(file, 1, k) \in Seq(Byte)
      /\ Len(SubSeq(file, 1, k)) = IF 1 <= k THEN k - 1 + 1 ELSE 0
      /\ \A i \in 1..(k - 1 + 1) : SubSeq(file, 1, k)[i] = file[1 + i - 1]
  BY <1>1, <1>2, SubSeqProperties
<1>4. k - 1 + 1 = k /\ (~(1 <= k) => k = 0) /\ \A i \in 1..k : 1 + i - 1 = i
  BY <1>1
<1> QED
  BY <1>3, <1>4 DEF Cut

\* What a reader sees at a record that the file has as far as it goes.
LEMMA RecordInFile ==
  ASSUME IInv, NEW k \in 0..Len(file), NEW i \in 1..Len(logged), Start(logged, i) <= k,
         NEW beyond \in Byte, LaidWith(file, logged, i, beyond),
         logged[i].whole \/ k <= logged[i].end
  PROVE  LET r == logged[i].what
             a == Start(logged, i)
             e == Encode(r, beyond)
         IN  /\ IsWhole(Cut(k), a + 1) <=> a + Len(e) <= k
             /\ IsWhole(Cut(k), a + 1) =>
                  /\ NextAt(Cut(k), a + 1) = a + Len(e) + 1
                  /\ ElementAt(Cut(k), a + 1) = [tag |-> Tag["sequence"], body |-> BodyOf(r, beyond)]
<1> DEFINE r == logged[i].what
           a == Start(logged, i)
           e == Encode(r, beyond)
           b == BodyOf(r, beyond)
           last == logged[i].end
           s == Cut(k)
<1>1. logged \in Seq(Entry) /\ r \in Record /\ a \in Nat /\ last \in Nat /\ k \in Nat
  BY EntryIs DEF IInv, Typed
<1>2. /\ e = Element("sequence", b) /\ e \in Seq(Byte) /\ Len(e) \in Nat
      /\ b \in Seq(Byte) /\ Len(b) < Limit(7) /\ "sequence" \in Kinds
  BY <1>1, EncodeIs, BodyFits DEF Kinds
<1>3. /\ last > a /\ last <= a + Len(e)
      /\ logged[i].whole <=> last = a + Len(e)
      /\ \A n \in 1..(last - a) : file[a + n] = e[n]
  BY DEF LaidWith
<1>4. s \in Seq(Byte) /\ Len(s) = k /\ \A n \in 1..k : s[n] = file[n]
  BY CutIs
<1> HIDE DEF r, a, e, b, last, s
<1>5. Holds(s, a, e)
  <2> SUFFICES ASSUME NEW n \in 1..Len(e), a + n <= k PROVE s[a + n] = e[n]
    BY <1>4 DEF Holds
  <2>1. a + n \in 1..k
    BY <1>1, <1>2
  <2>2. n \in 1..(last - a)
    <3>1. CASE logged[i].whole
      BY <1>1, <1>2, <1>3, <3>1
    <3>2. CASE k <= logged[i].end
      BY <1>1, <1>2, <1>3, <3>2 DEF last
    <3> QED
      BY <3>1, <3>2
  <2> QED
    BY <1>3, <1>4, <2>1, <2>2
<1>6. a \in 0..Len(s)
  BY <1>1, <1>4 DEF a
<1>7. /\ IsWhole(s, a + 1) <=> a + Len(e) <= Len(s)
      /\ IsWhole(s, a + 1) =>
           /\ NextAt(s, a + 1) = a + Len(e) + 1
           /\ ElementAt(s, a + 1) = [tag |-> Tag["sequence"], body |-> b]
  BY <1>2, <1>4, <1>5, <1>6, ElementReadsBack
<1> QED
  BY <1>4, <1>7 DEF r, a, e, b, s

LEMMA CleanIs ==
  ASSUME IInv
  PROVE  /\ Clean \in Nat
         /\ \A i \in 1..Len(logged) : ~logged[i].whole => Clean <= logged[i].end
         /\ Clean = Len(file) \/ \E i \in 1..Len(logged) : ~logged[i].whole /\ Clean = logged[i].end
<1> DEFINE torn == {logged[i].end : i \in {j \in DOMAIN logged : ~logged[j].whole}}
<1>1. logged \in Seq(Entry) /\ Len(file) \in Nat
  BY DEF IInv, Typed
<1>2. DOMAIN logged = 1..Len(logged)
  BY <1>1
<1>3. torn \in SUBSET Nat
  BY <1>1, <1>2, EntryIs
<1>4. Clean = IF torn = {} THEN Len(file) ELSE Min(torn)
  BY DEF Clean
<1>5. \A i \in 1..Len(logged) : ~logged[i].whole => logged[i].end \in torn
  BY <1>2
<1>6. \A n \in torn : \E i \in 1..Len(logged) : ~logged[i].whole /\ n = logged[i].end
  BY <1>2
<1> HIDE DEF torn
<1>7. CASE torn = {}
  BY <1>1, <1>4, <1>5, <1>7
<1>8. CASE torn # {}
  <2>1. Min(torn) \in torn /\ \A n \in torn : Min(torn) <= n
    BY <1>3, <1>8, MinIs
  <2> QED
    BY <1>3, <1>4, <1>5, <1>6, <1>8, <2>1
<1> QED
  BY <1>7, <1>8

\* They are the first m records, and no whole one is behind them.
LEMMA ThereAre ==
  ASSUME IInv, NEW k \in 0..Len(file)
  PROVE  \E m \in 0..Len(logged) :
           /\ There(k) = 1..m
           /\ \A i \in 1..m : logged[i].whole /\ logged[i].end <= k
           /\ m < Len(logged) /\ k <= Clean =>
                /\ k <= logged[m + 1].end
                /\ logged[m + 1].whole => k < logged[m + 1].end
<1> DEFINE n == Len(logged)
           Bad == {i \in 1..(n + 1) : i = n + 1 \/ ~(logged[i].whole /\ logged[i].end <= k)}
<1>1. logged \in Seq(Entry) /\ Len(file) \in Nat /\ k \in Nat /\ n \in Nat /\ k <= Len(file)
      /\ IsLog(file, logged)
  BY DEF IInv, Typed
<1>2. \A i \in 1..n : logged[i].end \in Nat
  BY <1>1, EntryIs
<1>3. \A i, j \in 1..n : i < j => logged[i].end < logged[j].end
  <2> SUFFICES ASSUME NEW i \in 1..n, NEW j \in 1..n, i < j PROVE logged[i].end < logged[j].end
    OBVIOUS
  <2>1. j \in (i + 1)..Len(logged)
    BY <1>1
  <2> QED
    BY <1>1, <2>1, EndsGrow
<1>4. DOMAIN logged = 1..n
  BY <1>1
<1> HIDE DEF n
<1>5. PICK b \in Bad : \A i \in Bad : b <= i
  <2>1. n + 1 \in Bad /\ Bad \in SUBSET Nat
    BY <1>1
  <2> HIDE DEF Bad
  <2> QED
    BY <2>1, LeastNumber
<1>6. b \in 1..(n + 1) /\ \A i \in 1..n : i < b => logged[i].whole /\ logged[i].end <= k
  <2>1. \A i \in 1..n : i < b => i \notin Bad
    BY <1>1, <1>5
  <2>2. \A i \in 1..n : i \in 1..(n + 1)
    BY <1>1
  <2> QED
    BY <1>5, <2>1, <2>2
<1>7. b \in 1..n => ~(logged[b].whole /\ logged[b].end <= k)
  BY <1>1, <1>5
<1> HIDE DEF Bad
<1>8. /\ Clean \in Nat
      /\ \A i \in 1..n : ~logged[i].whole => Clean <= logged[i].end
      /\ Clean = Len(file) \/ \E i \in 1..n : ~logged[i].whole /\ Clean = logged[i].end
  BY CleanIs DEF n
<1>9. \A c \in Nat : c <= Min({k, Clean}) <=> c <= k /\ c <= Clean
  <2>1. {k, Clean} \in SUBSET Nat /\ {k, Clean} # {}
    BY <1>1, <1>8
  <2>2. Min({k, Clean}) \in {k, Clean} /\ Min({k, Clean}) <= k /\ Min({k, Clean}) <= Clean
    BY <2>1, MinIs
  <2> QED
    BY <1>1, <1>8, <2>2
<1>10. ASSUME NEW i \in 1..n, logged[i].whole, logged[i].end <= k, logged[i].end <= Clean
       PROVE  i < b
  <2> SUFFICES ASSUME ~(i < b) PROVE FALSE
    OBVIOUS
  <2>1. b \in 1..n /\ i \in Nat /\ b \in Nat
    BY <1>1, <1>6
  <2>2. b < i
    BY <1>7, <1>10, <2>1
  <2>3. logged[b].end < logged[i].end /\ logged[b].end \in Nat /\ logged[i].end \in Nat
    BY <1>2, <1>3, <2>1, <2>2
  <2>4. CASE logged[b].whole
    <3>1. ~(logged[b].end <= k)
      BY <1>7, <2>1, <2>4
    <3> QED
      BY <1>1, <1>10, <2>3, <3>1
  <2>5. CASE ~logged[b].whole
    <3>1. Clean <= logged[b].end
      BY <1>8, <2>1, <2>5
    <3> QED
      BY <1>8, <1>10, <2>3, <3>1
  <2> QED
    BY <2>4, <2>5
<1>11. ASSUME NEW i \in 1..n, i < b
       PROVE  logged[i].whole /\ logged[i].end <= k /\ logged[i].end <= Clean
  <2>1. logged[i].whole /\ logged[i].end <= k /\ logged[i].end \in Nat
    BY <1>2, <1>6, <1>11
  <2>2. CASE Clean = Len(file)
    BY <1>1, <2>1, <2>2
  <2>3. CASE \E j \in 1..n : ~logged[j].whole /\ Clean = logged[j].end
    <3>1. PICK j \in 1..n : ~logged[j].whole /\ Clean = logged[j].end
      BY <2>3
    <3>2. ~(j < b)
      BY <1>6, <3>1
    <3>3. i < j
      BY <1>1, <1>6, <1>11, <3>2
    <3>4. logged[i].end < logged[j].end /\ logged[j].end \in Nat
      BY <1>2, <1>3, <3>3
    <3> QED
      BY <2>1, <3>1, <3>4
  <2> QED
    BY <1>8, <2>1, <2>2, <2>3
<1>12. There(k) = 1..(b - 1)
  <2>1. There(k) = {i \in 1..n : logged[i].whole /\ logged[i].end <= Min({k, Clean})}
    BY <1>4 DEF There
  <2>2. \A i \in 1..n : logged[i].end <= Min({k, Clean}) <=> logged[i].end <= k /\ logged[i].end <= Clean
    BY <1>2, <1>9
  <2>3. \A i \in 1..n : i \in There(k) <=> i < b
    BY <1>10, <1>11, <2>1, <2>2
  <2>4. \A i \in 1..(b - 1) : i \in 1..n /\ i < b
    BY <1>1, <1>6
  <2>5. \A i \in 1..n : i < b => i \in 1..(b - 1)
    BY <1>1, <1>6
  <2> QED
    BY <2>1, <2>3, <2>4, <2>5
<1>13. /\ b - 1 \in 0..n /\ (b - 1) + 1 = b
       /\ \A i \in 1..(b - 1) : i \in 1..n /\ i < b
       /\ b - 1 < n => b \in 1..n
  BY <1>1, <1>6
<1>14. ASSUME b - 1 < n, k <= Clean
       PROVE  k <= logged[b].end /\ (logged[b].whole => k < logged[b].end)
  <2>1. b \in 1..n /\ logged[b].end \in Nat
    BY <1>2, <1>13, <1>14
  <2>2. CASE logged[b].whole
    <3>1. ~(logged[b].end <= k)
      BY <1>7, <2>1, <2>2
    <3> QED
      BY <1>1, <2>1, <3>1
  <2>3. CASE ~logged[b].whole
    <3>1. Clean <= logged[b].end
      BY <1>8, <2>1, <2>3
    <3> QED
      BY <1>1, <1>8, <1>14, <2>1, <2>3, <3>1
  <2> QED
    BY <2>2, <2>3
<1> QED
  <2>1. b - 1 \in 0..Len(logged)
    BY <1>13 DEF n
  <2> USE <2>1
  <2> WITNESS b - 1 \in 0..Len(logged)
  <2> QED
    BY <1>6, <1>12, <1>13, <1>14 DEF n

\* The reader finds these records, and no other in the clean part of the file.
LEMMA RecordsAreFound ==
  ASSUME IInv, NEW k \in 0..Len(file), NEW m \in 0..Len(logged),
         \A i \in 1..m : logged[i].whole /\ logged[i].end <= k,
         m < Len(logged) /\ k <= Clean =>
           /\ k <= logged[m + 1].end
           /\ logged[m + 1].whole => k < logged[m + 1].end
  PROVE  /\ k <= Clean => Len(Elements(Cut(k))) = m
         /\ \A i \in 1..m : /\ Elements(Cut(k))[i].tag = Tag["sequence"]
                            /\ ReadsAs(Elements(Elements(Cut(k))[i].body), logged[i].what)
<1> DEFINE n == Len(logged)
           s == Cut(k)
           behind(i) == CHOOSE b \in Byte : LaidWith(file, logged, i, b)
           body(i) == BodyOf(logged[i].what, behind(i))
           size(i) == Len(Encode(logged[i].what, behind(i)))
           p == [j \in 0..m |-> Start(logged, j + 1)]
           e == [j \in 1..m |-> [tag |-> Tag["sequence"], body |-> body(j)]]
<1>1. /\ logged \in Seq(Entry) /\ n \in Nat /\ m \in Nat /\ k \in Nat /\ IsLog(file, logged)
      /\ Len(file) \in Nat /\ k <= Len(file)
  BY DEF IInv, Typed
<1>2. s \in Seq(Byte) /\ Len(s) = k
  BY CutIs
<1>3. ASSUME NEW i \in 1..n
      PROVE  /\ behind(i) \in Byte /\ LaidWith(file, logged, i, behind(i))
             /\ logged[i].what \in Record /\ logged[i].end \in Nat
             /\ Start(logged, i) \in Nat /\ Start(logged, i + 1) = logged[i].end
  <2>1. \E b \in Byte : LaidWith(file, logged, i, b)
    BY <1>1 DEF IsLog
  <2>2. i + 1 # 1 /\ (i + 1) - 1 = i
    OBVIOUS
  <2> QED
    BY <1>1, <2>1, <2>2, EntryIs DEF Start
<1> HIDE DEF behind
<1>4. ASSUME NEW i \in 1..n
      PROVE  /\ body(i) \in Seq(Byte) /\ size(i) \in Nat
             /\ logged[i].end <= Start(logged, i) + size(i)
             /\ logged[i].whole <=> logged[i].end = Start(logged, i) + size(i)
  <2>1. body(i) \in Seq(Byte) /\ size(i) \in Nat
    BY <1>3, BodyFits, EncodeIs
  <2> QED
    BY <1>3, <2>1 DEF LaidWith
<1> HIDE DEF s
<1>5. ASSUME NEW i \in 1..n, Start(logged, i) <= k, logged[i].whole \/ k <= logged[i].end
      PROVE  /\ IsWhole(s, Start(logged, i) + 1) <=> Start(logged, i) + size(i) <= k
             /\ IsWhole(s, Start(logged, i) + 1) =>
                  /\ NextAt(s, Start(logged, i) + 1) = Start(logged, i) + size(i) + 1
                  /\ ElementAt(s, Start(logged, i) + 1) =
                       [tag |-> Tag["sequence"], body |-> body(i)]
  BY <1>3, <1>5, RecordInFile DEF s
<1>6. \A i \in 0..m : p[i] \in 0..k
  <2> SUFFICES ASSUME NEW i \in 0..m PROVE p[i] \in 0..k
    OBVIOUS
  <2>1. CASE i = 0
    BY <1>1, <2>1 DEF Start
  <2>2. CASE i # 0
    <3>1. i \in 1..m /\ i \in 1..n
      BY <1>1, <2>2
    <3>2. p[i] = logged[i].end /\ logged[i].end \in Nat /\ logged[i].end <= k
      BY <1>3, <3>1
    <3> QED
      BY <1>1, <3>2
  <2> QED
    BY <2>1, <2>2
<1>7. ASSUME NEW j \in 1..m
      PROVE  /\ IsWhole(s, p[j - 1] + 1)
             /\ NextAt(s, p[j - 1] + 1) = p[j] + 1
             /\ ElementAt(s, p[j - 1] + 1) = e[j]
  <2>1. j \in 1..n /\ j - 1 \in 0..m /\ j \in 0..m /\ (j - 1) + 1 = j
    BY <1>1
  <2>2. /\ p[j - 1] = Start(logged, j) /\ p[j] = logged[j].end
        /\ Start(logged, j) <= k /\ logged[j].end <= k /\ logged[j].whole
    <3>1. p[j - 1] = Start(logged, j) /\ p[j] = logged[j].end
      BY <1>3, <2>1
    <3>2. p[j - 1] \in 0..k
      BY <1>6, <2>1
    <3> HIDE DEF p
    <3> QED
      BY <1>1, <3>1, <3>2
  <2>3. Start(logged, j) + size(j) = logged[j].end
    BY <1>4, <2>1, <2>2
  <2>4. e[j] = [tag |-> Tag["sequence"], body |-> body(j)]
    OBVIOUS
  <2> HIDE DEF p, e, body, size
  <2>5. /\ IsWhole(s, Start(logged, j) + 1)
        /\ NextAt(s, Start(logged, j) + 1) = logged[j].end + 1
        /\ ElementAt(s, Start(logged, j) + 1) = [tag |-> Tag["sequence"], body |-> body(j)]
    BY <1>5, <2>1, <2>2, <2>3
  <2> QED
    BY <2>2, <2>4, <2>5
<1>8. k <= Clean => ~IsWhole(s, p[m] + 1)
  <2> SUFFICES ASSUME k <= Clean, IsWhole(s, p[m] + 1) PROVE FALSE
    OBVIOUS
  <2>1. p[m] = Start(logged, m + 1) /\ p[m] \in 0..k
    BY <1>1, <1>6
  <2> HIDE DEF p, e
  <2>2. CASE m = n
    <3>1. p[m] = Len(file)
      BY <2>1, <2>2 DEF IsLog, IInv
    <3>2. p[m] + 1 + 1 <= k
      BY <1>2 DEF IsWhole
    <3> QED
      BY <1>1, <3>1, <3>2
  <2>3. CASE m # n
    <3>1. /\ m < n /\ m + 1 \in 1..n /\ Start(logged, m + 1) <= k
      BY <1>1, <2>1, <2>3
    <3>2. /\ k <= logged[m + 1].end
          /\ logged[m + 1].whole => k < logged[m + 1].end
      BY <3>1
    <3>3. Start(logged, m + 1) + size(m + 1) <= k
      BY <1>5, <2>1, <3>1, <3>2
    <3>4. /\ logged[m + 1].end <= Start(logged, m + 1) + size(m + 1)
          /\ logged[m + 1].whole <=> logged[m + 1].end = Start(logged, m + 1) + size(m + 1)
          /\ size(m + 1) \in Nat /\ logged[m + 1].end \in Nat /\ Start(logged, m + 1) \in Nat
      BY <1>3, <1>4, <3>1
    <3> HIDE DEF size
    <3>5. logged[m + 1].end = Start(logged, m + 1) + size(m + 1) /\ logged[m + 1].end = k
      BY <1>1, <3>2, <3>3, <3>4
    <3> QED
      BY <1>1, <3>2, <3>4, <3>5
  <2> QED
    BY <2>2, <2>3
<1>9. AreFound(s, m, p, e)
  <2>1. e \in [1..m -> Parsed]
    <3>1. \A j \in 1..m : j \in 1..n
      BY <1>1
    <3>2. \A j \in 1..m : [tag |-> Tag["sequence"], body |-> body(j)] \in Parsed
      <4>1. Tag["sequence"] \in Byte
        BY Asn1Assumption DEF Kinds
      <4>2. \A j \in 1..m : body(j) \in Seq(Byte)
        BY <1>4, <3>1
      <4> HIDE DEF body
      <4> QED
        BY <4>1, <4>2 DEF Parsed
    <3> HIDE DEF body
    <3> QED
      BY <3>2
  <2>2. p \in [0..m -> 0..Len(s)] /\ p[0] = 0
    <3>1. p \in [0..m -> 0..k]
      BY <1>6
    <3>2. p[0] = 0
      BY <1>1 DEF Start
    <3> HIDE DEF p
    <3> QED
      BY <1>2, <3>1, <3>2
  <2> HIDE DEF p, e
  <2>3. AreThere(s, m, p, e)
    BY <1>7, <2>1, <2>2 DEF AreThere
  <2> QED
    BY <1>1, <1>2, <2>3, ElementsAre
<1>10. k <= Clean => Len(Elements(s)) = m
  BY <1>8, <1>9 DEF AreFound
<1>11. ASSUME NEW i \in 1..m
       PROVE  /\ Elements(s)[i].tag = Tag["sequence"]
              /\ ReadsAs(Elements(Elements(s)[i].body), logged[i].what)
  <2>1. Elements(s)[i] = e[i]
    BY <1>9 DEF AreFound
  <2>2. e[i].tag = Tag["sequence"] /\ e[i].body = body(i)
    OBVIOUS
  <2>3. i \in 1..n
    BY <1>1
  <2>4. ReadsAs(Elements(body(i)), logged[i].what)
    BY <1>3, <2>3, RecordReadsBack
  <2> HIDE DEF e, body
  <2> QED
    BY <2>1, <2>2, <2>4
<1> QED
  BY <1>10, <1>11 DEF s

(***************************************************************************)
(* Wherever the file stops, a reader finds the records that are all there  *)
(* before the first torn one, and no other, each with its seven elements   *)
(* and what was logged (ReadsBack of LogFile): whatever bytes the names,   *)
(* texts and data are, however many records there are, and wherever        *)
(* fwrite() failed.                                                        *)
(***************************************************************************)
THEOREM RecordsReadBack == Spec => []ReadsBack
<1>1. IInv => ReadsBack
  <2> SUFFICES ASSUME IInv, NEW k \in 0..Len(file)
               PROVE  /\ k <= Clean => Len(Elements(Cut(k))) = Cardinality(There(k))
                      /\ \A i \in There(k) :
                           /\ Elements(Cut(k))[i].tag = Tag["sequence"]
                           /\ ReadsAs(Elements(Elements(Cut(k))[i].body), logged[i].what)
    BY DEF ReadsBack, There, Cut
  <2>1. PICK m \in 0..Len(logged) :
          /\ There(k) = 1..m
          /\ \A i \in 1..m : logged[i].whole /\ logged[i].end <= k
          /\ m < Len(logged) /\ k <= Clean =>
               /\ k <= logged[m + 1].end
               /\ logged[m + 1].whole => k < logged[m + 1].end
    BY ThereAre
  <2>2. /\ k <= Clean => Len(Elements(Cut(k))) = m
        /\ \A i \in 1..m : /\ Elements(Cut(k))[i].tag = Tag["sequence"]
                           /\ ReadsAs(Elements(Elements(Cut(k))[i].body), logged[i].what)
    BY <2>1, RecordsAreFound
  <2>3. Cardinality(1..m) = m
    <3>1. m \in Nat /\ 1 \in Int /\ m \in Int
      BY DEF IInv, Typed
    <3>2. Cardinality(1..m) = IF 1 > m THEN 0 ELSE m - 1 + 1
      BY <3>1, FS_Interval
    <3> QED
      BY <3>1, <3>2
  <2> QED
    BY <2>1, <2>2, <2>3
<1> QED
  BY <1>1, Inductive, PTL
=============================================================================
