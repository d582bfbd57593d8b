------------------------------ MODULE LogFile ------------------------------
(***************************************************************************)
(* What the default encoders (src/src/ezlog.cpp) put into the log file:    *)
(* each record is one ASN.1 sequence of seven elements, and the file is    *)
(* one record after another, with nothing in between. RollingLogger and    *)
(* AsyncLogger tell which records reach a file and when; here there is one *)
(* file and every record reaches it, but the writing may stop anywhere,    *)
(* and fwrite() may take less of a record than it was given.               *)
(***************************************************************************)
EXTENDS Asn1, FiniteSetsExt

CONSTANTS
  Level,      \* the levels of records, EZLOG_LEVEL_*
  ThreadId,   \* what pthread_self() may return
  Line,       \* the line numbers that callers give, of type size_t
  Name,       \* the names of functions and source files
  Text,       \* the formatted texts of text records
  Data,       \* the data of byte records
  Time,       \* _get_time_info(), always of the same length
  Beyond,     \* the bytes that may lie behind an integer in memory
  Short,      \* how many bytes fwrite() may take when it fails
  MaxRecords  \* bound: how many records are logged

ASSUME LogFileAssumption ==
  /\ Level \subseteq 0..(Limit(UInt8) - 1)
  /\ ThreadId \subseteq Nat /\ Line \subseteq Nat
  /\ Name \cup Text \cup Data \cup {Time} \subseteq Seq(Byte)
  \* A string is in memory: with bytes of eight bits it has less than 2^47.
  /\ \A string \in Name \cup Text \cup Data \cup {Time} : Len(string) < Limit(6)
  /\ Beyond \subseteq Byte /\ Short \subseteq Nat \ {0} /\ MaxRecords \in Nat

VARIABLES
  file,   \* the bytes of the log file
  logged  \* history: the records logged, where each ends in the file, and
          \* whether it is all there

vars == <<file, logged>>

Record == [kind : {"utf8", "bits"}, level : Level, thread : ThreadId, func : Name,
           source : Name, line : Line, content : Text \cup Data]

Entry == [what : Record, end : Nat, whole : BOOLEAN]

\* The records end in the file, one behind the other.
TypeOK ==
  /\ file \in Seq(Byte) /\ logged \in Seq(Entry)
  /\ \A i \in DOMAIN logged : logged[i].end \in 1..Len(file)
  /\ \A i, j \in DOMAIN logged : i < j => logged[i].end < logged[j].end

-----------------------------------------------------------------------------
(* Fault variants: what the code would do with the named mistake in it.    *)

\* fopen(path, "w+"), and the path is opened anew before the record.
Fault_Truncated(bytes) == bytes

-----------------------------------------------------------------------------
\* asn1::uint32_t takes the lower four bytes of a size_t.
LineOf(r) == r.line % Power[UInt32]

\* _format() asks vsnprintf() how long the text is, and gives it a buffer that
\* long to write the text and its end into: the last character is left out.
Formatted(text) == SubSeq(text, 1, Len(text) - 1)

ContentOf(r) == IF r.kind = "utf8" THEN Formatted(r.content) ELSE r.content

\* _text_log_to_asn1() and _byte_log_to_asn1().
Encode(r, beyond) ==
  EncodeSequence(
    << EncodeInteger(r.level, UInt8, beyond),
       EncodeInteger(r.thread, UInt64, beyond),
       EncodeUtf8(Time),
       EncodeUtf8(r.func),
       EncodeUtf8(r.source),
       EncodeInteger(LineOf(r), UInt32, beyond),
       IF r.kind = "utf8" THEN EncodeUtf8(ContentOf(r)) ELSE EncodeBits(ContentOf(r)) >>)

-----------------------------------------------------------------------------
Init == file = <<>> /\ logged = <<>>

\* fopen(path, "a+"): all that is written goes behind what the file has, also
\* when the path was opened anew since the last record.
Appended(bytes) == file \o bytes

\* How many of n bytes fwrite() takes: all of them, or a part of them only, and
\* nobody looks. (When it takes nothing, nothing has changed.)
Taken(n, whole) == IF whole THEN {n} ELSE {k \in Short : k < n}

\* do_commit(), or the worker's flush callback, of one record. What lies
\* behind an integer is read only if its value does not fit.
Write(kind, content, whole) ==
  /\ Len(logged) < MaxRecords
  /\ \E level \in Level, thread \in ThreadId, func, source \in Name, line \in Line :
       LET r == [kind |-> kind, level |-> level, thread |-> thread, func |-> func,
                 source |-> source, line |-> line, content |-> content]
       IN  \E beyond \in IF CountOfBytes(LineOf(r)) > UInt32 THEN Beyond ELSE {0} :
           \E taken \in Taken(Len(Encode(r, beyond)), whole) :
             /\ file' = Appended(SubSeq(Encode(r, beyond), 1, taken))
             /\ logged' = Append(logged, [what |-> r, end |-> Len(file'), whole |-> whole])

WriteText  == \E text \in Text : Write("utf8", text, TRUE)
WriteBytes == \E data \in Data : Write("bits", data, TRUE)

\* The next record is written behind the part.
WriteTextPart  == \E text \in Text : Write("utf8", text, FALSE)
WriteBytesPart == \E data \in Data : Write("bits", data, FALSE)

Next == WriteText \/ WriteBytes \/ WriteTextPart \/ WriteBytesPart

Spec == Init /\ [][Next]_vars

-----------------------------------------------------------------------------
(* Properties.                                                             *)

\* An integer that is in the positive half of its type reads back as it was.
Reads(element, v, width) ==
  v < Limit(IF width > 7 THEN 7 ELSE width) => Number(element.body) = v

\* The elements of one record say what was logged.
ReadsAs(elements, r) ==
  /\ [i \in DOMAIN elements |-> elements[i].tag] =
       << Tag["integer"], Tag["integer"], Tag["utf8"], Tag["utf8"], Tag["utf8"],
          Tag["integer"], Tag[r.kind] >>
  /\ Reads(elements[1], r.level, UInt8)
  /\ Reads(elements[2], r.thread, UInt64)
  /\ elements[3].body = Time
  /\ elements[4].body = r.func
  /\ elements[5].body = r.source
  /\ Reads(elements[6], LineOf(r), UInt32)
  /\ elements[7].body \in {r.content} \cup (IF r.kind = "utf8" THEN {Front(r.content)} ELSE {})

\* How far the file is one record after another: to the end of the first one
\* that is not all there.
Clean ==
  LET torn == {logged[i].end : i \in {j \in DOMAIN logged : ~logged[j].whole}}
  IN  IF torn = {} THEN Len(file) ELSE Min(torn)

(***************************************************************************)
(* Wherever the file stops, a reader finds the records that are all there  *)
(* and no other, each with its seven elements and what was logged, but for *)
(* the last character of a text, whatever bytes the strings contain and    *)
(* however long they are. An integer in the upper half of its type, whose  *)
(* encoding takes a byte from behind it or is empty, spoils its own value  *)
(* and nothing else. A record that fwrite() took in part spoils those      *)
(* behind it and none of those before it. The reader knows of tags and     *)
(* lengths only and takes a body for what it is: the body of a byte record *)
(* is its data, which is not what ASN.1 makes of it (see BitsReadBack).    *)
(***************************************************************************)
ReadsBack ==
  \A k \in 0..Len(file) :
    LET found == Elements(SubSeq(file, 1, k))
        there == {i \in DOMAIN logged : /\ logged[i].whole
                                       /\ logged[i].end <= Min({k, Clean})}
    IN  /\ k <= Clean => Len(found) = Cardinality(there)
        /\ \A i \in there :
             /\ found[i].tag = Tag["sequence"]
             /\ ReadsAs(Elements(found[i].body), logged[i].what)

(***************************************************************************)
(* include/ezlog.h:170-174 says that ezlog_write_hex() outputs the bytes   *)
(* it is given, and asn.1/object.h:18 names the tag that it gives them     *)
(* ASN1_TAG_BIT_STRING. The body of a BIT STRING begins with the number of *)
(* bits that do not count, 0 for whole bytes. The encoder leaves that out, *)
(* and a reader of ASN.1 takes the first byte of the data for it.          *)
(***************************************************************************)
BitsReadBack ==
  \A i \in DOMAIN logged :
    logged[i].what.kind = "bits" /\ logged[i].whole /\ logged[i].end <= Clean =>
      LET body == Elements(Elements(file)[i].body)[7].body
      IN  body # <<>> /\ Bits(body) = [unused |-> 0, bytes |-> logged[i].what.content]
=============================================================================
