-------------------------------- MODULE Asn1 --------------------------------
(***************************************************************************)
(* The ASN.1 encoder (src/src/asn.1): integers, strings and sequences as   *)
(* tag, length and body; and a reader of tags, lengths and bodies, which   *)
(* the repository does not have, to say what the encoder is for.           *)
(*                                                                         *)
(* Bytes are the digits 0..Base-1. The code's Base is 256; a smaller one   *)
(* moves the limits of the code, which are all of the form Base^n / 2, to  *)
(* where TLC can reach them. All else is as in the code.                   *)
(***************************************************************************)
EXTENDS Integers, Sequences, SequencesExt

CONSTANTS
  Base,  \* how many values a byte has
  Tag    \* the ASN1_TAG_ of each kind of element

Kinds == {"integer", "bits", "utf8", "sequence"}
Byte  == 0..(Base - 1)
Half  == Base \div 2

ASSUME Asn1Assumption ==
  /\ Base \in Nat /\ Base % 2 = 0 /\ Half > 7
  /\ Tag \in [Kinds -> Byte]
  /\ \A j, k \in Kinds : Tag[j] = Tag[k] => j = k

\* How many bytes the types of the code have.
UInt8 == 1
UInt32 == 4
UInt64 == 8

\* Base^n, for the numbers of bytes that integers have.
Power[n \in 0..UInt64] == IF n = 0 THEN 1 ELSE Base * Power[n - 1]

\* One more than the largest positive value of n bytes: 0x7f, 0x7fff, ...
Limit(n) == Half * Power[n - 1]

-----------------------------------------------------------------------------
(* Fault variants: what the code would do with the named mistake in it.    *)

\* The limits of unsigned values: 0xff, 0xffff, ...
Fault_CountUnsigned(v) ==
  LET enough == {n \in 1..7 : v < Power[n]}
  IN  IF enough = {} THEN 0 ELSE CHOOSE n \in enough : \A m \in enough : n <= m

-----------------------------------------------------------------------------
(* The encoder.                                                            *)

\* object::get_count_of_bytes(): 0 for what does not fit in seven bytes.
CountOfBytes(v) ==
  LET enough == {n \in 1..7 : v < Limit(n)}
  IN  IF enough = {} THEN 0 ELSE CHOOSE n \in enough : \A m \in enough : n <= m

\* The byte at offset k of a little-endian integer of `width` bytes. A value
\* with its top bit set takes one byte more than its type has, and the byte
\* read then is whatever lies behind it in memory.
ByteOf(v, k, width, beyond) ==
  IF k < width THEN (v \div Power[k]) % Base ELSE beyond

BigEndian(v, width, beyond) ==
  LET n == CountOfBytes(v)
  IN  [i \in 1..n |-> ByteOf(v, n - i, width, beyond)]

\* object::encode_length(), of a size_t.
EncodeLength(n) ==
  LET bytes == BigEndian(n, UInt64, 0)
  IN  IF Len(bytes) > 1 THEN <<Half + Len(bytes)>> \o bytes ELSE bytes

Element(kind, body) == <<Tag[kind]>> \o EncodeLength(Len(body)) \o body

EncodeInteger(v, width, beyond) == Element("integer", BigEndian(v, width, beyond))
EncodeUtf8(string)              == Element("utf8", string)
\* The body is the data and no more: see Bits below.
EncodeBits(bytes)               == Element("bits", bytes)
EncodeSequence(components)      == Element("sequence", FlattenSeq(components))

-----------------------------------------------------------------------------
(* The reader: definite lengths, short and long, as ITU-T X.690 has them.  *)

Number(bytes) ==
  LET first[n \in 0..Len(bytes)] == IF n = 0 THEN 0 ELSE first[n - 1] * Base + bytes[n]
  IN  first[Len(bytes)]

\* Where the body of the element at i begins, and where the next element does.
IsShort(s, i) == s[i + 1] < Half
BodyAt(s, i)  == i + 2 + IF IsShort(s, i) THEN 0 ELSE s[i + 1] - Half
NextAt(s, i) ==
  BodyAt(s, i) + IF IsShort(s, i) THEN s[i + 1]
                 ELSE Number(SubSeq(s, i + 2, BodyAt(s, i) - 1))

IsWhole(s, i) ==
  i + 1 <= Len(s) /\ BodyAt(s, i) <= Len(s) + 1 /\ NextAt(s, i) <= Len(s) + 1

ElementAt(s, i) == [tag |-> s[i], body |-> SubSeq(s, BodyAt(s, i), NextAt(s, i) - 1)]

\* The elements of s, up to the first that is not all there.
ElementsFrom(s) ==
  LET from[i \in 1..(Len(s) + 1)] ==
        IF IsWhole(s, i) THEN <<ElementAt(s, i)>> \o from[NextAt(s, i)] ELSE <<>>
  IN  from

Elements(s) == ElementsFrom(s)[1]

\* The body of a BIT STRING, as X.690 has it: first how many bits of the last
\* byte do not count, and then the bytes.
Bits(body) == [unused |-> Head(body), bytes |-> Tail(body)]
=============================================================================
