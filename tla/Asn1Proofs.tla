----------------------------- MODULE Asn1Proofs -----------------------------
(***************************************************************************)
(* What the encoder writes, the reader reads: for any base of the bytes,   *)
(* any integers and any strings that fit in memory.                        *)
(***************************************************************************)
EXTENDS Asn1, SequenceTheorems, WellFoundedInduction, TLAPS

-----------------------------------------------------------------------------
(* Induction, on sets of numbers.                                          *)

LEMMA LeastNumber ==
  ASSUME NEW S \in SUBSET Nat, S # {}
  PROVE  \E n \in S : \A m \in S : n <= m
<1> DEFINE Less == OpToRel(<, Nat)
<1>1. \A x, y \in Nat : y < x => <<y, x>> \in Less
  BY DEF OpToRel
<1>2. IsWellFoundedOn(Less, Nat)
  BY NatLessThanWellFounded, Zenon
<1> HIDE DEF Less
<1>3. PICK n \in S : \A m \in S : <<m, n>> \notin Less
  BY <1>2, WFMin
<1>4. \A m \in S : ~(m < n)
  BY <1>1, <1>3
<1> QED
  BY <1>4

LEMMA Induction ==
  ASSUME NEW n \in Nat, NEW S, 0 \in S, \A m \in 0..(n - 1) : m \in S => m + 1 \in S
  PROVE  \A m \in 0..n : m \in S
<1> DEFINE Out == {m \in 0..n : m \notin S}
<1> SUFFICES ASSUME Out # {} PROVE FALSE
  OBVIOUS
<1>1. PICK least \in Out : \A m \in Out : least <= m
  <2>1. Out \in SUBSET Nat
    OBVIOUS
  <2> HIDE DEF Out
  <2> QED
    BY <2>1, LeastNumber
<1>2. least # 0 /\ least \in 0..n /\ least - 1 \in 0..(n - 1) /\ least - 1 \notin Out
  BY <1>1
<1> QED
  BY <1>2

-----------------------------------------------------------------------------
(* Powers and division.                                                    *)

LEMMA Bytes ==
  /\ Base \in Nat /\ Half \in Nat /\ Base = 2 * Half /\ Half > 7 /\ Base > 15
  /\ 0 \in Byte
BY Asn1Assumption DEF Half, Byte

LEMMA PowerIs ==
  /\ Power[0] = 1
  /\ \A n \in 0..8 : Power[n] \in Nat \ {0}
  /\ \A n \in 0..7 : Power[n + 1] = Base * Power[n]
<1> DEFINE F(f) == [n \in 0..UInt64 |-> IF n = 0 THEN 1 ELSE Base * f[n - 1]]
           p1 == Base  p2 == Base * p1  p3 == Base * p2  p4 == Base * p3
           p5 == Base * p4  p6 == Base * p5  p7 == Base * p6  p8 == Base * p7
           w == [n \in 0..8 |-> IF n = 0 THEN 1 ELSE IF n = 1 THEN p1 ELSE IF n = 2 THEN p2
                 ELSE IF n = 3 THEN p3 ELSE IF n = 4 THEN p4 ELSE IF n = 5 THEN p5
                 ELSE IF n = 6 THEN p6 ELSE IF n = 7 THEN p7 ELSE p8]
<1>1. w = F(w)
  BY Bytes DEF UInt64
<1>2. Power = F(Power)
  BY <1>1 DEF Power
<1> QED
  BY <1>2, Bytes DEF UInt64

LEMMA DivisionIs ==
  ASSUME NEW v \in Nat, NEW a \in Nat \ {0}
  PROVE  /\ v \div a \in Nat /\ v % a \in 0..(a - 1)
         /\ v = a * (v \div a) + (v % a)
<1> DEFINE p == v \div a
           s == v % a
<1>1. p \in Nat /\ s \in 0..(a - 1) /\ v = a * p + s
  OBVIOUS
<1> QED
  BY <1>1

LEMMA QuotientIs ==
  ASSUME NEW v \in Nat, NEW a \in Nat \ {0}, NEW q \in Nat, NEW r \in 0..(a - 1),
         v = a * q + r
  PROVE  v \div a = q
<1> DEFINE p == v \div a
           s == v % a
<1>1. p \in Nat /\ s \in 0..(a - 1) /\ v = a * p + s
  BY DivisionIs
<1> HIDE DEF p, s
<1>2. CASE p < q
  <2>1. a * (p + 1) <= a * q
    BY <1>1, <1>2
  <2> QED
    BY <1>1, <2>1
<1>3. CASE q < p
  <2>1. a * (q + 1) <= a * p
    BY <1>1, <1>3
  <2> QED
    BY <1>1, <2>1
<1> QED
  BY <1>1, <1>2, <1>3 DEF p

LEMMA DivideTwice ==
  ASSUME NEW v \in Nat, NEW a \in Nat \ {0}, NEW b \in Nat \ {0}
  PROVE  v \div (b * a) = (v \div a) \div b
<1> DEFINE p == v \div a
           r == v % a
           q == p \div b
           s == p % b
<1>1. p \in Nat /\ r \in 0..(a - 1) /\ v = a * p + r
  BY DivisionIs
<1>2. q \in Nat /\ s \in 0..(b - 1) /\ p = b * q + s
  BY <1>1, DivisionIs
<1> HIDE DEF p, r, q, s
<1>3. a * p = (b * a) * q + a * s
  BY <1>1, <1>2
<1>4. a * s <= a * (b - 1) /\ a * (b - 1) = b * a - a /\ a * s \in Nat
  BY <1>2
<1>5. v = (b * a) * q + (a * s + r) /\ a * s + r \in 0..(b * a - 1) /\ b * a \in Nat \ {0}
  BY <1>1, <1>2, <1>3, <1>4
<1>6. v \div (b * a) = q
  BY <1>2, <1>5, QuotientIs
<1> QED
  BY <1>6 DEF p, q

\* Cutting off one more byte.
LEMMA CutByte ==
  ASSUME NEW v \in Nat, NEW k \in 0..7
  PROVE  /\ v \div Power[k] \in Nat
         /\ v \div Power[k] = (v \div Power[k + 1]) * Base + ((v \div Power[k]) % Base)
         /\ (v \div Power[k]) % Base \in Byte
<1> DEFINE p == v \div Power[k]
<1>1. Power[k] \in Nat \ {0} /\ Power[k + 1] = Base * Power[k] /\ Base \in Nat \ {0}
  BY PowerIs, Bytes
<1>2. p \in Nat
  BY <1>1, DivisionIs
<1>3. v \div Power[k + 1] = p \div Base
  BY <1>1, DivideTwice
<1> HIDE DEF p
<1>4. p % Base \in 0..(Base - 1) /\ p = Base * (p \div Base) + (p % Base) /\ p \div Base \in Nat
  BY <1>1, <1>2, DivisionIs
<1>5. Base * (p \div Base) = (p \div Base) * Base
  BY <1>1, <1>4
<1> QED
  BY <1>2, <1>3, <1>4, <1>5 DEF p, Byte

-----------------------------------------------------------------------------
(* Integers.                                                               *)

LEMMA LimitIs ==
  /\ Limit(1) = Half
  /\ \A n \in 1..7 : Limit(n) \in Nat /\ Limit(n) <= Power[n]
  /\ \A n \in 1..6 : Limit(n + 1) = Base * Limit(n) /\ Limit(n) <= Limit(n + 1)
<1>1. Limit(1) = Half
  BY PowerIs, Bytes DEF Limit
<1>2. ASSUME NEW n \in 1..7 PROVE Limit(n) \in Nat /\ Limit(n) <= Power[n]
  <2> DEFINE p == Power[n - 1]
  <2>1. p \in Nat \ {0} /\ Power[n] = Base * p
    <3>1. n - 1 \in 0..7 /\ n - 1 \in 0..8 /\ (n - 1) + 1 = n
      OBVIOUS
    <3> QED
      BY <3>1, PowerIs
  <2> HIDE DEF p
  <2>2. Half * p \in Nat /\ Base * p = Half * p + Half * p
    BY <2>1, Bytes
  <2> QED
    BY <2>1, <2>2 DEF Limit, p
<1>3. ASSUME NEW n \in 1..6 PROVE Limit(n + 1) = Base * Limit(n) /\ Limit(n) <= Limit(n + 1)
  <2> DEFINE p == Power[n - 1]
  <2>1. p \in Nat /\ Power[n] = Base * p
    <3>1. n - 1 \in 0..7 /\ n - 1 \in 0..8 /\ (n - 1) + 1 = n
      OBVIOUS
    <3> QED
      BY <3>1, PowerIs
  <2>2. (n + 1) - 1 = n
    OBVIOUS
  <2> HIDE DEF p
  <2>3. Half * (Base * p) = Base * (Half * p) /\ Half * p <= Base * (Half * p)
    <3>1. Half * p \in Nat
      BY <2>1, Bytes
    <3> QED
      BY <2>1, <3>1, Bytes
  <2> QED
    BY <2>1, <2>2, <2>3 DEF Limit, p
<1> QED
  BY <1>1, <1>2, <1>3

LEMMA LimitsGrow ==
  ASSUME NEW m \in 1..7, NEW n \in m..7
  PROVE  Limit(m) <= Limit(n)
<1> DEFINE S == {d \in Nat : m + d <= 7 => Limit(m) <= Limit(m + d)}
<1>1. 0 \in S
  BY LimitIs
<1>2. ASSUME NEW d \in 0..6, d \in S PROVE d + 1 \in S
  <2> SUFFICES ASSUME m + (d + 1) <= 7 PROVE Limit(m) <= Limit(m + (d + 1))
    OBVIOUS
  <2>1. m + d \in 1..6 /\ m + (d + 1) = (m + d) + 1 /\ m + (d + 1) \in 1..7
    OBVIOUS
  <2>2. Limit(m) <= Limit(m + d) /\ Limit(m + d) <= Limit((m + d) + 1)
    BY <1>2, <2>1, LimitIs
  <2> QED
    BY <2>1, <2>2, LimitIs
<1> HIDE DEF S
<1>3. \A d \in 0..7 : d \in S
  BY <1>1, <1>2, Induction
<1>4. n - m \in 0..7 /\ m + (n - m) = n /\ m + (n - m) <= 7
  OBVIOUS
<1> QED
  BY <1>3, <1>4 DEF S

\* The fewest bytes that a value fits in, or none.
LEMMA CountIs ==
  ASSUME NEW v \in Nat
  PROVE  /\ CountOfBytes(v) \in 0..7
         /\ v < Limit(7) => CountOfBytes(v) # 0 /\ v < Limit(CountOfBytes(v))
         /\ \A n \in 1..7 : v < Limit(n) => CountOfBytes(v) <= n
<1> DEFINE enough == {n \in 1..7 : v < Limit(n)}
           least == CHOOSE n \in enough : \A m \in enough : n <= m
<1>1. CASE enough = {}
  <2>1. CountOfBytes(v) = 0
    BY <1>1 DEF CountOfBytes
  <2> QED
    BY <1>1, <2>1
<1>2. CASE enough # {}
  <2>1. \E n \in enough : \A m \in enough : n <= m
    BY <1>2, LeastNumber
  <2>2. least \in enough /\ \A m \in enough : least <= m
    BY <2>1
  <2>3. CountOfBytes(v) = least
    BY <1>2 DEF CountOfBytes
  <2> QED
    BY <2>2, <2>3
<1> QED
  BY <1>1, <1>2

\* The value of the bytes read so far.
LEMMA NumberIs ==
  ASSUME NEW s \in Seq(Byte)
  PROVE  \E f \in [0..Len(s) -> Nat] :
           /\ f[0] = 0
           /\ \A i \in 1..Len(s) : f[i] = f[i - 1] * Base + s[i]
           /\ Number(s) = f[Len(s)]
<1> DEFINE L == Len(s)
           F(f) == [n \in 0..L |-> IF n = 0 THEN 0 ELSE f[n - 1] * Base + s[n]]
           first == CHOOSE f : f = F(f)
           Upto(m) == {g \in [0..m -> Nat] :
                        g[0] = 0 /\ \A i \in 1..m : g[i] = g[i - 1] * Base + s[i]}
           S == {m \in Nat : Upto(m) # {}}
<1>1. L \in Nat /\ \A i \in 1..L : s[i] \in Nat
  BY Bytes DEF Byte
<1>p. \A a \in Nat : a * Base \in Nat
  BY Bytes
<1> HIDE DEF L
<1>2. 0 \in S
  <2>1. [i \in 0..0 |-> 0] \in Upto(0)
    OBVIOUS
  <2> QED
    BY <2>1
<1>3. ASSUME NEW m \in 0..(L - 1), m \in S PROVE m + 1 \in S
  <2>1. PICK g \in Upto(m) : TRUE
    BY <1>3
  <2> DEFINE h == [i \in 0..(m + 1) |-> IF i = m + 1 THEN g[m] * Base + s[m + 1] ELSE g[i]]
  <2>2. m \in Nat /\ m + 1 \in 1..L /\ g[m] * Base + s[m + 1] \in Nat
    <3>1. m \in Nat /\ m + 1 \in 1..L /\ g[m] \in Nat
      BY <1>1, <2>1
    <3>2. g[m] * Base \in Nat
      BY <1>p, <3>1, Zenon
    <3> QED
      BY <3>1, <3>2, <1>1
  <2>3. h \in [0..(m + 1) -> Nat]
    BY <2>1, <2>2
  <2>4. h[0] = 0 /\ \A i \in 1..(m + 1) : h[i] = h[i - 1] * Base + s[i]
    BY <2>1, <2>2
  <2>5. h \in Upto(m + 1)
    BY <2>3, <2>4
  <2> HIDE DEF Upto, h
  <2> QED
    BY <2>2, <2>5
<1> HIDE DEF S, Upto, F, first
<1>4. L \in S
  <2>1. \A m \in 0..L : m \in S
    BY <1>1, <1>2, <1>3, Induction
  <2> QED
    BY <1>1, <2>1
<1>5. PICK g \in Upto(L) : TRUE
  BY <1>4 DEF S
<1>6. g = F(g)
  BY <1>1, <1>5 DEF Upto, F
<1>7. first = F(first)
  BY <1>6 DEF first
<1>8. Number(s) = first[L]
  BY DEF Number, L, first, F
<1> USE DEF F
<1>9. first[0] = 0 /\ \A i \in 1..L : first[i] = first[i - 1] * Base + s[i]
  BY <1>1, <1>7
<1>10. \A i \in 0..L : first[i] \in Nat
  <2> DEFINE N == {i \in Nat : first[i] \in Nat}
  <2>1. 0 \in N
    BY <1>9
  <2>2. ASSUME NEW m \in 0..(L - 1), m \in N PROVE m + 1 \in N
    <3>1. m + 1 \in 1..L /\ (m + 1) - 1 = m /\ first[m] \in Nat /\ s[m + 1] \in Nat
      BY <1>1, <2>2
    <3>2. first[m] * Base + s[m + 1] \in Nat
      BY <3>1, Bytes
    <3> QED
      BY <1>9, <3>1, <3>2
  <2> HIDE DEF N
  <2>3. \A i \in 0..L : i \in N
    BY <1>1, <2>1, <2>2, Induction
  <2> QED
    BY <2>3 DEF N
<1>11. first \in [0..L -> Nat]
  BY <1>7, <1>10
<1> QED
  BY <1>8, <1>9, <1>11 DEF L

LEMMA NumberType ==
  ASSUME NEW s \in Seq(Byte)
  PROVE  Number(s) \in Nat
BY NumberIs

(***************************************************************************)
(* An integer that its type is wide enough for is written in its bytes,    *)
(* and reads back.                                                         *)
(***************************************************************************)
LEMMA BigEndianType ==
  ASSUME NEW v \in Nat, NEW width \in Nat, NEW beyond \in Byte
  PROVE  BigEndian(v, width, beyond) \in Seq(Byte)
         /\ Len(BigEndian(v, width, beyond)) = CountOfBytes(v)
<1> DEFINE n == CountOfBytes(v)
<1>1. n \in 0..7
  BY CountIs
<1> HIDE DEF n
<1>2. ASSUME NEW i \in 1..n PROVE ByteOf(v, n - i, width, beyond) \in Byte
  <2>1. n - i \in 0..7
    BY <1>1
  <2> QED
    BY <2>1, CutByte DEF ByteOf
<1>3. BigEndian(v, width, beyond) = [i \in 1..n |-> ByteOf(v, n - i, width, beyond)]
  BY DEF BigEndian, n
<1>4. BigEndian(v, width, beyond) \in [1..n -> Byte]
  BY <1>2, <1>3
<1> QED
  BY <1>1, <1>4 DEF n

THEOREM IntegerReadsBack ==
  ASSUME NEW v \in Nat, v < Limit(7),
         NEW width \in Nat, CountOfBytes(v) <= width, NEW beyond \in Byte
  PROVE  Number(BigEndian(v, width, beyond)) = v
<1> DEFINE n == CountOfBytes(v)
           s == BigEndian(v, width, beyond)
<1>1. n \in 1..7 /\ v < Limit(n)
  BY CountIs
<1>2. s \in Seq(Byte) /\ Len(s) = n
  BY BigEndianType
<1>3. ASSUME NEW i \in 1..n PROVE s[i] = (v \div Power[n - i]) % Base
  BY <1>1, <1>3 DEF BigEndian, ByteOf
<1>4. PICK f \in [0..n -> Nat] :
        f[0] = 0 /\ (\A i \in 1..n : f[i] = f[i - 1] * Base + s[i]) /\ Number(s) = f[n]
  <2> HIDE DEF n, s
  <2> QED
    BY <1>2, NumberIs
<1> HIDE DEF n, s
<1> DEFINE S == {i \in Nat : f[i] = v \div Power[n - i]}
<1>5. 0 \in S
  <2>1. v < Power[n] /\ Power[n] \in Nat \ {0}
    <3>1. n \in 0..8 /\ n \in 1..7
      BY <1>1
    <3>2. Limit(n) \in Nat /\ Limit(n) <= Power[n] /\ Power[n] \in Nat \ {0}
      BY <3>1, LimitIs, PowerIs
    <3> QED
      BY <1>1, <3>2
  <2>2. v \div Power[n] = 0
    BY <2>1, QuotientIs
  <2> QED
    BY <1>1, <1>4, <2>2
<1>6. ASSUME NEW i \in 0..(n - 1), i \in S PROVE i + 1 \in S
  <2> DEFINE k == n - (i + 1)
  <2>1. k \in 0..7 /\ k + 1 = n - i /\ i + 1 \in 1..n /\ (i + 1) - 1 = i
    BY <1>1
  <2>2. f[i + 1] = f[i] * Base + s[i + 1]
    BY <1>4, <2>1
  <2>3. f[i] = v \div Power[k + 1] /\ s[i + 1] = (v \div Power[k]) % Base
    BY <1>3, <1>6, <2>1
  <2>4. v \div Power[k] = (v \div Power[k + 1]) * Base + ((v \div Power[k]) % Base)
    BY <2>1, CutByte
  <2> QED
    BY <2>2, <2>3, <2>4
<1> HIDE DEF S
<1>7. n \in S
  BY <1>1, <1>5, <1>6, Induction
<1>8. f[n] = v \div 1
  BY <1>1, <1>7, PowerIs DEF S
<1>9. v \div 1 = v
  BY QuotientIs
<1> QED
  BY <1>4, <1>8, <1>9 DEF n, s

-----------------------------------------------------------------------------
(* Elements.                                                               *)

LEMMA Joined ==
  \A S : \A s, t \in Seq(S) :
    /\ s \o t \in Seq(S)
    /\ Len(s \o t) = Len(s) + Len(t)
    /\ Len(s) \in Nat /\ Len(t) \in Nat
    /\ \A i \in 1..Len(s) : (s \o t)[i] = s[i]
    /\ \A i \in 1..Len(t) : (s \o t)[Len(s) + i] = t[i]
<1> SUFFICES ASSUME NEW S, NEW s \in Seq(S), NEW t \in Seq(S)
    PROVE  /\ s \o t \in Seq(S)
           /\ Len(s \o t) = Len(s) + Len(t)
           /\ Len(s) \in Nat /\ Len(t) \in Nat
           /\ \A i \in 1..Len(s) : (s \o t)[i] = s[i]
           /\ \A i \in 1..Len(t) : (s \o t)[Len(s) + i] = t[i]
  OBVIOUS
<1>1. Len(s) \in Nat /\ Len(t) \in Nat
  OBVIOUS
<1>2. /\ s \o t \in Seq(S) /\ Len(s \o t) = Len(s) + Len(t)
      /\ \A i \in 1..(Len(s) + Len(t)) :
           (s \o t)[i] = IF i <= Len(s) THEN s[i] ELSE t[i - Len(s)]
  BY ConcatProperties
<1>3. ASSUME NEW i \in 1..Len(t) PROVE (s \o t)[Len(s) + i] = t[i]
  <2>1. Len(s) + i \in 1..(Len(s) + Len(t)) /\ ~(Len(s) + i <= Len(s)) /\ (Len(s) + i) - Len(s) = i
    BY <1>1
  <2> QED
    BY <1>2, <2>1
<1>4. ASSUME NEW i \in 1..Len(s) PROVE (s \o t)[i] = s[i]
  BY <1>1, <1>2
<1> QED
  BY <1>1, <1>2, <1>3, <1>4

LEMMA JoinedBytes ==
  \A s, t \in Seq(Byte) :
    /\ s \o t \in Seq(Byte)
    /\ Len(s \o t) = Len(s) + Len(t)
    /\ Len(s) \in Nat /\ Len(t) \in Nat
    /\ \A i \in 1..Len(s) : (s \o t)[i] = s[i]
    /\ \A i \in 1..Len(t) : (s \o t)[Len(s) + i] = t[i]
BY Joined

\* The layout of an element: c bytes of its length follow the first of them.
LEMMA ElementIs ==
  ASSUME NEW kind \in Kinds, NEW body \in Seq(Byte)
  PROVE  \E c \in 0..7 :
           LET e == Element(kind, body)
               n == Len(body)
           IN  /\ e \in Seq(Byte) /\ Len(e) \in {1 + c + n, 2 + c + n} /\ Len(e) > 0
               /\ n < Limit(7) =>
                    /\ Len(e) = 2 + c + n
                    /\ e[1] = Tag[kind]
                    /\ \A i \in 1..n : e[2 + c + i] = body[i]
                    /\ c = 0 => e[2] = n /\ n < Half
                    /\ c > 0 => /\ e[2] = Half + c
                                /\ \E b \in Seq(Byte) : /\ Len(b) = c /\ Number(b) = n
                                                        /\ \A i \in 1..c : e[2 + i] = b[i]
<1> DEFINE n == Len(body)
           b == BigEndian(n, UInt64, 0)
           m == CountOfBytes(n)
           e == Element(kind, body)
           t == <<Tag[kind]>>
<1>1. n \in Nat /\ Len(t) = 1 /\ t[1] = Tag[kind] /\ t \in Seq(Byte)
  BY Asn1Assumption
<1>2. m \in 0..7 /\ (n < Limit(7) => m # 0 /\ n < Limit(m) /\ Number(b) = n)
  BY <1>1, CountIs, IntegerReadsBack, Bytes DEF UInt64
<1>3. b \in Seq(Byte) /\ Len(b) = m
  BY <1>1, BigEndianType, Bytes DEF UInt64
<1> DEFINE l == EncodeLength(n)
<1>4. e = (t \o l) \o body
  BY DEF Element
<1>5. l = IF m > 1 THEN <<Half + m>> \o b ELSE b
  BY <1>3 DEF EncodeLength
<1>6. n < Limit(7) /\ m = 1 => b[1] = n
  <2> SUFFICES ASSUME n < Limit(7), m = 1 PROVE b[1] = n
    OBVIOUS
  <2>1. PICK f \in [0..1 -> Nat] : f[0] = 0 /\ f[1] = f[0] * Base + b[1] /\ Number(b) = f[1]
    <3> HIDE DEF b, m, n
    <3>1. 1 \in 1..1 /\ 1 - 1 = 0
      OBVIOUS
    <3> QED
      BY <1>3, <3>1, NumberIs
  <2>2. b[1] \in Nat
    <3> HIDE DEF b, n, m
    <3>1. 1 \in 1..Len(b)
      BY <1>3
    <3>2. b[1] \in Byte
      BY <1>3, <3>1, ElementOfSeq
    <3> QED
      BY <3>2, Bytes DEF Byte
  <2>3. 0 * Base = 0
    BY Bytes
  <2> QED
    BY <1>2, <2>1, <2>2, <2>3
<1> HIDE DEF m, b, t, n, l
<1> DEFINE r == t \o l
<1>e. l \in Seq(Byte) =>
        /\ e \in Seq(Byte) /\ Len(e) = 1 + Len(l) + n /\ Len(l) \in Nat
        /\ e[1] = Tag[kind]
        /\ \A i \in 1..Len(l) : e[1 + i] = l[i]
        /\ \A i \in 1..n : e[(1 + Len(l)) + i] = body[i]
  <2> SUFFICES ASSUME l \in Seq(Byte) PROVE
        /\ e \in Seq(Byte) /\ Len(e) = 1 + Len(l) + n /\ Len(l) \in Nat
        /\ e[1] = Tag[kind]
        /\ \A i \in 1..Len(l) : e[1 + i] = l[i]
        /\ \A i \in 1..n : e[(1 + Len(l)) + i] = body[i]
    OBVIOUS
  <2>1. /\ r \in Seq(Byte) /\ Len(r) = 1 + Len(l) /\ Len(l) \in Nat /\ r[1] = Tag[kind]
        /\ \A i \in 1..Len(l) : r[1 + i] = l[i]
    <3>1. 1 \in 1..1
      OBVIOUS
    <3> QED
      BY <1>1, <3>1, Joined
  <2> HIDE DEF r
  <2>2. e = r \o body
    BY <1>4 DEF r
  <2> HIDE DEF e
  <2>3. /\ e \in Seq(Byte) /\ Len(e) = Len(r) + n
        /\ \A i \in 1..Len(r) : e[i] = r[i]
        /\ \A i \in 1..n : e[Len(r) + i] = body[i]
    <3>1. /\ r \o body \in Seq(Byte) /\ Len(r \o body) = Len(r) + Len(body)
          /\ \A i \in 1..Len(r) : (r \o body)[i] = r[i]
          /\ \A i \in 1..Len(body) : (r \o body)[Len(r) + i] = body[i]
      BY <2>1, JoinedBytes
    <3> QED
      BY <2>2, <3>1 DEF n
  <2>4. \A i \in 1..Len(l) : 1 + i \in 1..Len(r)
    BY <2>1
  <2>5. 1 \in 1..Len(r)
    BY <2>1
  <2> QED
    BY <2>1, <2>3, <2>4, <2>5
<1> HIDE DEF e
<1>7. CASE m > 1
  <2> DEFINE h == <<Half + m>>
  <2>1. h \in Seq(Byte) /\ Len(h) = 1 /\ h[1] = Half + m
    BY <1>2, Bytes DEF Byte
  <2> HIDE DEF h
  <2>2. l = h \o b
    BY <1>5, <1>7 DEF h
  <2>3. l \in Seq(Byte) /\ Len(l) = 1 + m /\ l[1] = Half + m /\ \A i \in 1..m : l[1 + i] = b[i]
    <3>1. 1 \in 1..1
      OBVIOUS
    <3>2. /\ h \o b \in Seq(Byte) /\ Len(h \o b) = Len(h) + Len(b)
          /\ \A i \in 1..Len(h) : (h \o b)[i] = h[i]
          /\ \A i \in 1..Len(b) : (h \o b)[Len(h) + i] = b[i]
      BY <1>3, <2>1, JoinedBytes
    <3> QED
      BY <1>2, <1>3, <2>1, <2>2, <3>1, <3>2
  <2> HIDE DEF l
  <2>4. e \in Seq(Byte) /\ Len(e) = 2 + m + n /\ e[1] = Tag[kind] /\ e[2] = Half + m
    <3>1. 1 \in 1..Len(l) /\ 1 + 1 = 2 /\ 1 + (1 + m) = 2 + m
      BY <1>2, <2>3
    <3> QED
      BY <1>1, <1>2, <1>e, <2>3, <3>1
  <2>5. ASSUME NEW i \in 1..m PROVE e[2 + i] = b[i]
    <3>1. 1 + i \in 1..(1 + m) /\ 1 + (1 + i) = 2 + i
      BY <1>2
    <3> QED
      BY <1>e, <2>3, <3>1
  <2>6. ASSUME NEW i \in 1..n PROVE e[2 + m + i] = body[i]
    <3>1. (1 + (1 + m)) + i = 2 + m + i
      BY <1>1, <1>2
    <3> QED
      BY <1>e, <2>3, <3>1
  <2> USE <1>2
  <2> WITNESS m \in 0..7
  <2>7. n < Limit(7) => Len(b) = m /\ Number(b) = n /\ \A i \in 1..m : e[2 + i] = b[i]
    BY <1>2, <1>3, <2>5
  <2> QED
    BY <1>1, <1>2, <1>3, <1>7, <2>4, <2>6, <2>7 DEF n, e
<1>8. CASE m = 1
  <2>1. l = b /\ Len(b) = 1 /\ l \in Seq(Byte)
    BY <1>3, <1>5, <1>8
  <2>2. e \in Seq(Byte) /\ Len(e) = 2 + n /\ e[1] = Tag[kind] /\ e[2] = b[1]
    <3>1. 1 \in 1..1 /\ 1 + 1 = 2 /\ 1 + 1 + n = 2 + n
      BY <1>1
    <3> QED
      BY <1>e, <2>1, <3>1
  <2>3. ASSUME NEW i \in 1..n PROVE e[2 + 0 + i] = body[i]
    <3>1. (1 + 1) + i = 2 + 0 + i
      BY <1>1
    <3> QED
      BY <1>e, <2>1, <3>1
  <2>4. n < Limit(7) => n < Half
    BY <1>2, <1>8, LimitIs
  <2> WITNESS 0 \in 0..7
  <2>5. 2 + 0 + n = 2 + n /\ 2 + n > 0
    BY <1>1
  <2> QED
    BY <1>6, <1>8, <2>2, <2>3, <2>4, <2>5 DEF n, e
<1>9. CASE m = 0
  <2>1. l = b /\ Len(b) = 0 /\ l \in Seq(Byte)
    BY <1>3, <1>5, <1>9
  <2>2. e \in Seq(Byte) /\ Len(e) = 1 + 0 + n /\ Len(e) > 0 /\ ~(n < Limit(7))
    BY <1>1, <1>2, <1>e, <1>9, <2>1
  <2> WITNESS 0 \in 0..7
  <2> QED
    BY <2>2 DEF n, e
<1> QED
  BY <1>2, <1>7, <1>8, <1>9

\* s is e from p + 1 on, as far as s goes.
Holds(s, p, e) == \A i \in 1..Len(e) : p + i <= Len(s) => s[p + i] = e[i]

(***************************************************************************)
(* The reader at an element finds out whether it is all there, and if so   *)
(* reads its tag and its body, and goes on right behind it.                *)
(***************************************************************************)
LEMMA ElementReadsBack ==
  ASSUME NEW kind \in Kinds, NEW body \in Seq(Byte), Len(body) < Limit(7),
         NEW s \in Seq(Byte), NEW p \in 0..Len(s), Holds(s, p, Element(kind, body))
  PROVE  LET last == p + Len(Element(kind, body))
         IN  /\ IsWhole(s, p + 1) <=> last <= Len(s)
             /\ IsWhole(s, p + 1) =>
                  /\ NextAt(s, p + 1) = last + 1
                  /\ ElementAt(s, p + 1) = [tag |-> Tag[kind], body |-> body]
<1> DEFINE e == Element(kind, body)
           n == Len(body)
           L == Len(s)
<1>1. n \in Nat /\ L \in Nat /\ p \in Nat
  OBVIOUS
<1>2. PICK c \in 0..7 :
        /\ e \in Seq(Byte) /\ Len(e) = 2 + c + n
        /\ e[1] = Tag[kind]
        /\ \A i \in 1..n : e[2 + c + i] = body[i]
        /\ c = 0 => e[2] = n /\ n < Half
        /\ c > 0 => /\ e[2] = Half + c
                    /\ \E b \in Seq(Byte) : /\ Len(b) = c /\ Number(b) = n
                                            /\ \A i \in 1..c : e[2 + i] = b[i]
  BY ElementIs
<1>3. \A i \in 1..(2 + c + n) : p + i <= L => s[p + i] = e[i]
  BY <1>2 DEF Holds
<1> HIDE DEF e, n, L
<1>4. p + 2 <= L => s[p + 1] = Tag[kind] /\ s[p + 2] = e[2]
  BY <1>1, <1>2, <1>3
<1>5. p + 2 <= L => BodyAt(s, p + 1) = p + 3 + c
  <2> SUFFICES ASSUME p + 2 <= L PROVE BodyAt(s, p + 1) = p + 3 + c
    OBVIOUS
  <2>1. (p + 1) + 1 = p + 2 /\ (p + 1) + 2 = p + 3
    BY <1>1
  <2>2. CASE c = 0
    BY <1>1, <1>2, <1>4, <2>1, <2>2 DEF BodyAt, IsShort
  <2>3. CASE c > 0
    <3>1. s[p + 2] = Half + c /\ ~(Half + c < Half)
      BY <1>2, <1>4, <2>3, Bytes
    <3> QED
      BY <1>1, <2>1, <3>1, Bytes DEF BodyAt, IsShort
  <2> QED
    BY <2>2, <2>3
<1>6. p + 2 <= L /\ p + 2 + c <= L => NextAt(s, p + 1) = p + 3 + c + n
  <2> SUFFICES ASSUME p + 2 <= L, p + 2 + c <= L PROVE NextAt(s, p + 1) = p + 3 + c + n
    OBVIOUS
  <2>1. (p + 1) + 1 = p + 2 /\ (p + 1) + 2 = p + 3
    BY <1>1
  <2>2. CASE c = 0
    BY <1>1, <1>2, <1>4, <1>5, <2>1, <2>2 DEF NextAt, IsShort
  <2>3. CASE c > 0
    <3>1. s[p + 2] = Half + c /\ ~(Half + c < Half)
      BY <1>2, <1>4, <2>3, Bytes
    <3>2. PICK b \in Seq(Byte) : Len(b) = c /\ Number(b) = n /\ \A i \in 1..c : e[2 + i] = b[i]
      BY <1>2, <2>3
    <3>3. SubSeq(s, p + 3, p + 2 + c) = b
      <4> DEFINE q == SubSeq(s, p + 3, p + 2 + c)
      <4>1. \A i \in (p + 3)..(p + 2 + c) : s[i] \in Byte
        BY <1>1 DEF L
      <4>2. /\ q \in Seq(Byte) /\ Len(q) = c
            /\ \A i \in 1..c : q[i] = s[p + 3 + i - 1]
        <5>1. p + 3 \in Int /\ p + 2 + c \in Int /\ (p + 2 + c) - (p + 3) + 1 = c
          BY <1>1
        <5> QED
          BY <2>3, <4>1, <5>1, SubSeqProperties
      <4>3. ASSUME NEW i \in 1..c PROVE q[i] = b[i]
        <5>1. p + 3 + i - 1 = p + (2 + i) /\ 2 + i \in 1..(2 + c + n) /\ p + (2 + i) <= L
          BY <1>1
        <5> QED
          BY <1>3, <3>2, <4>2, <5>1
      <4> HIDE DEF q
      <4> QED
        BY <3>2, <4>2, <4>3, SeqEqual DEF q
    <3>4. BodyAt(s, p + 1) - 1 = p + 2 + c
      BY <1>1, <1>5
    <3> QED
      BY <1>1, <1>5, <2>1, <3>1, <3>2, <3>3, <3>4 DEF NextAt, IsShort
  <2> QED
    BY <2>2, <2>3
<1>7. IsWhole(s, p + 1) <=> p + Len(e) <= L
  <2>1. (p + 1) + 1 = p + 2 /\ p + Len(e) = p + 2 + c + n
    BY <1>1, <1>2
  <2>2. IsWhole(s, p + 1) <=> /\ p + 2 <= L /\ BodyAt(s, p + 1) <= L + 1
                              /\ NextAt(s, p + 1) <= L + 1
    BY <2>1 DEF IsWhole, L
  <2> QED
    BY <1>1, <1>5, <1>6, <2>1, <2>2
<1>8. ASSUME IsWhole(s, p + 1)
      PROVE  /\ NextAt(s, p + 1) = p + Len(e) + 1
             /\ ElementAt(s, p + 1) = [tag |-> Tag[kind], body |-> body]
  <2>1. p + 2 + c + n <= L /\ p + Len(e) + 1 = p + 3 + c + n
    BY <1>1, <1>2, <1>7, <1>8
  <2>2. NextAt(s, p + 1) = p + 3 + c + n /\ BodyAt(s, p + 1) = p + 3 + c
        /\ s[p + 1] = Tag[kind]
    BY <1>1, <1>4, <1>5, <1>6, <2>1
  <2>3. SubSeq(s, p + 3 + c, p + 2 + c + n) = body
    <3> DEFINE q == SubSeq(s, p + 3 + c, p + 2 + c + n)
    <3>1. \A i \in (p + 3 + c)..(p + 2 + c + n) : s[i] \in Byte
      BY <1>1, <2>1 DEF L
    <3>2. /\ q \in Seq(Byte) /\ Len(q) = n
          /\ \A i \in 1..n : q[i] = s[p + 3 + c + i - 1]
      <4>1. /\ p + 3 + c \in Int /\ p + 2 + c + n \in Int
            /\ (p + 2 + c + n) - (p + 3 + c) + 1 = n
            /\ (p + 3 + c <= p + 2 + c + n <=> n > 0)
        BY <1>1
      <4> QED
        BY <1>1, <3>1, <4>1, SubSeqProperties
    <3>3. ASSUME NEW i \in 1..n PROVE q[i] = body[i]
      <4>1. /\ p + 3 + c + i - 1 = p + (2 + c + i) /\ 2 + c + i \in 1..(2 + c + n)
            /\ p + (2 + c + i) <= L
        BY <1>1, <2>1
      <4>2. s[p + (2 + c + i)] = e[2 + c + i] /\ e[2 + c + i] = body[i]
        BY <1>2, <1>3, <4>1
      <4> HIDE DEF q
      <4> QED
        BY <3>2, <4>1, <4>2
    <3> HIDE DEF q
    <3> QED
      BY <3>2, <3>3, SeqEqual DEF q, n
  <2>4. NextAt(s, p + 1) - 1 = p + 2 + c + n
    BY <1>1, <2>2
  <2> QED
    BY <2>1, <2>2, <2>3, <2>4 DEF ElementAt
<1> QED
  BY <1>7, <1>8 DEF e, L

-----------------------------------------------------------------------------
(* One element after another.                                              *)

Parsed == [tag : Byte, body : Seq(Byte)]

\* Every element takes the reader on.
LEMMA WholeIs ==
  ASSUME NEW s \in Seq(Byte), NEW i \in 1..(Len(s) + 1), IsWhole(s, i)
  PROVE  /\ NextAt(s, i) \in (i + 1)..(Len(s) + 1)
         /\ ElementAt(s, i) \in Parsed
<1>1. /\ i + 1 <= Len(s) /\ BodyAt(s, i) <= Len(s) + 1 /\ NextAt(s, i) <= Len(s) + 1
      /\ Len(s) \in Nat /\ i \in Nat
  BY DEF IsWhole
<1>2. s[i] \in Byte /\ s[i + 1] \in Byte
  BY <1>1
<1>3. s[i + 1] \in Nat
  BY <1>2, Bytes DEF Byte
<1>4. BodyAt(s, i) \in Nat /\ BodyAt(s, i) >= i + 2
  BY <1>1, <1>3, Bytes DEF BodyAt, IsShort
<1>5. Number(SubSeq(s, i + 2, BodyAt(s, i) - 1)) \in Nat
  <2> DEFINE m == BodyAt(s, i) - 1
             q == SubSeq(s, i + 2, m)
  <2>1. m \in Int /\ i + 2 \in Int /\ \A j \in (i + 2)..m : s[j] \in Byte
    BY <1>1, <1>4
  <2> HIDE DEF m
  <2>2. q \in Seq(Byte)
    BY <2>1, SubSeqProperties
  <2> HIDE DEF q
  <2>3. Number(q) \in Nat
    BY <2>2, NumberType
  <2> QED
    BY <2>3 DEF q, m
<1>6. NextAt(s, i) \in Nat /\ NextAt(s, i) >= i + 2
  BY <1>1, <1>3, <1>4, <1>5 DEF NextAt
<1>7. SubSeq(s, BodyAt(s, i), NextAt(s, i) - 1) \in Seq(Byte)
  <2> DEFINE m == BodyAt(s, i)
             n == NextAt(s, i) - 1
  <2>1. m \in Int /\ n \in Int /\ \A j \in m..n : s[j] \in Byte
    BY <1>1, <1>4, <1>6
  <2> HIDE DEF m, n
  <2>2. SubSeq(s, m, n) \in Seq(Byte)
    BY <2>1, SubSeqProperties
  <2> QED
    BY <2>2 DEF m, n
<1> QED
  BY <1>1, <1>2, <1>6, <1>7 DEF ElementAt, Parsed

LEMMA ElementsFromIs ==
  ASSUME NEW s \in Seq(Byte)
  PROVE  /\ ElementsFrom(s) \in [1..(Len(s) + 1) -> Seq(Parsed)]
         /\ \A i \in 1..(Len(s) + 1) :
              ElementsFrom(s)[i] = IF IsWhole(s, i)
                                   THEN <<ElementAt(s, i)>> \o ElementsFrom(s)[NextAt(s, i)]
                                   ELSE <<>>
<1> DEFINE L == Len(s)
           Here(i, f) == IF IsWhole(s, i) THEN <<ElementAt(s, i)>> \o f[NextAt(s, i)] ELSE <<>>
           F(f) == [i \in 1..(L + 1) |-> Here(i, f)]
           from == CHOOSE f : f = F(f)
           From(m) == {g \in [(L + 1 - m)..(L + 1) -> Seq(Parsed)] :
                        \A i \in (L + 1 - m)..(L + 1) : g[i] = Here(i, g)}
           S == {m \in Nat : From(m) # {}}
<1>1. L \in Nat
  OBVIOUS
<1>2. \A i \in 1..(L + 1) : IsWhole(s, i) => /\ NextAt(s, i) \in (i + 1)..(L + 1)
                                             /\ ElementAt(s, i) \in Parsed
  BY WholeIs
<1>3. ~IsWhole(s, L + 1)
  BY <1>1 DEF IsWhole
<1>4. ASSUME NEW i \in 1..(L + 1), NEW f, IsWhole(s, i) => f[NextAt(s, i)] \in Seq(Parsed)
      PROVE  Here(i, f) \in Seq(Parsed)
  BY <1>2, <1>4
<1> HIDE DEF L
<1>5. 0 \in S
  <2> DEFINE g == [i \in (L + 1 - 0)..(L + 1) |-> <<>>]
  <2>1. \A i \in (L + 1 - 0)..(L + 1) : i = L + 1
    BY <1>1
  <2>2. g \in From(0)
    BY <1>3, <2>1
  <2> QED
    BY <2>2
<1>6. ASSUME NEW m \in 0..(L - 1), m \in S PROVE m + 1 \in S
  <2>1. PICK g \in From(m) : TRUE
    BY <1>6
  <2> DEFINE k == L + 1 - (m + 1)
             h == [i \in k..(L + 1) |-> IF i = k THEN Here(i, g) ELSE g[i]]
  <2>2. /\ m \in Nat /\ k \in 1..(L + 1) /\ k + 1 = L + 1 - m
        /\ \A i \in k..(L + 1) : i # k => i \in (L + 1 - m)..(L + 1)
        /\ \A i \in k..(L + 1) : i \in 1..(L + 1)
        /\ \A i \in k..(L + 1) : \A j \in (i + 1)..(L + 1) : j \in k..(L + 1) /\ j # k
    BY <1>1
  <2>3. /\ g \in [(L + 1 - m)..(L + 1) -> Seq(Parsed)]
        /\ \A i \in (L + 1 - m)..(L + 1) : g[i] = Here(i, g)
    BY <2>1
  <2> HIDE DEF k
  <2>4. \A i \in k..(L + 1) : IsWhole(s, i) => /\ NextAt(s, i) \in (L + 1 - m)..(L + 1)
                                               /\ h[NextAt(s, i)] = g[NextAt(s, i)]
    BY <1>2, <2>2
  <2>5. Here(k, g) \in Seq(Parsed)
    <3>1. k \in k..(L + 1)
      BY <1>1, <2>2
    <3>2. IsWhole(s, k) => g[NextAt(s, k)] \in Seq(Parsed)
      BY <2>3, <2>4, <3>1
    <3> QED
      BY <1>4, <2>2, <3>2
  <2>6. h \in [k..(L + 1) -> Seq(Parsed)]
    BY <2>2, <2>3, <2>5
  <2>7. \A i \in k..(L + 1) : Here(i, h) = Here(i, g)
    BY <2>4
  <2>8. \A i \in k..(L + 1) : h[i] = Here(i, g)
    BY <2>2, <2>3
  <2> HIDE DEF h, Here
  <2>9. h \in From(m + 1)
    BY <2>6, <2>7, <2>8 DEF k
  <2> HIDE DEF From
  <2> QED
    BY <2>2, <2>9
<1> HIDE DEF S, From, F, from, Here
<1>7. L \in S
  <2>1. \A m \in 0..L : m \in S
    BY <1>1, <1>5, <1>6, Induction
  <2> QED
    BY <1>1, <2>1
<1>8. PICK g \in From(L) : TRUE
  BY <1>7 DEF S
<1>9. g = F(g)
  <2>1. L + 1 - L = 1
    BY <1>1
  <2> QED
    BY <1>8, <2>1 DEF From, F
<1>10. from = F(from)
  BY <1>9 DEF from
<1>11. ElementsFrom(s) = from
  BY DEF ElementsFrom, L, F, Here, from
<1>12. \A i \in 1..(L + 1) : from[i] = Here(i, from)
  BY <1>10 DEF F
<1>13. \A i \in 1..(L + 1) : from[i] \in Seq(Parsed)
  <2> DEFINE N == {m \in Nat : \A i \in (L + 1 - m)..(L + 1) :
                                 i \in 1..(L + 1) => from[i] \in Seq(Parsed)}
  <2>1. 0 \in N
    <3>1. \A i \in (L + 1 - 0)..(L + 1) : i = L + 1
      BY <1>1
    <3>2. L + 1 \in 1..(L + 1)
      BY <1>1
    <3>3. from[L + 1] = <<>>
      BY <1>3, <1>12, <3>2 DEF Here
    <3>4. from[L + 1] \in Seq(Parsed)
      BY <3>3
    <3> QED
      BY <3>1, <3>4, Zenon
  <2>2. ASSUME NEW m \in 0..(L - 1), m \in N PROVE m + 1 \in N
    <3> SUFFICES ASSUME NEW i \in (L + 1 - (m + 1))..(L + 1), i \in 1..(L + 1)
                 PROVE  from[i] \in Seq(Parsed)
      BY <1>1
    <3>1. IsWhole(s, i) => /\ NextAt(s, i) \in (L + 1 - m)..(L + 1)
                           /\ NextAt(s, i) \in 1..(L + 1)
      BY <1>1, <1>2
    <3>2. IsWhole(s, i) => from[NextAt(s, i)] \in Seq(Parsed)
      BY <2>2, <3>1
    <3> QED
      BY <1>4, <1>12, <3>2
  <2> HIDE DEF N
  <2>3. \A m \in 0..L : m \in N
    BY <1>1, <2>1, <2>2, Induction
  <2>4. L \in N /\ L + 1 - L = 1
    BY <1>1, <2>3
  <2> QED
    BY <2>4 DEF N
<1>14. from \in [1..(L + 1) -> Seq(Parsed)]
  BY <1>10, <1>13 DEF F
<1> QED
  BY <1>11, <1>12, <1>14 DEF L, Here

\* The elements e[1], ..., e[m] are all there, between p[0], p[1], ..., p[m].
AreThere(s, m, p, e) ==
  /\ p \in [0..m -> 0..Len(s)] /\ p[0] = 0
  /\ e \in [1..m -> Parsed]
  /\ \A j \in 1..m : /\ IsWhole(s, p[j - 1] + 1)
                     /\ NextAt(s, p[j - 1] + 1) = p[j] + 1
                     /\ ElementAt(s, p[j - 1] + 1) = e[j]

\* The reader finds these, and if nothing whole is behind them, no other.
AreFound(s, m, p, e) ==
  /\ Elements(s) \in Seq(Parsed)
  /\ Len(Elements(s)) >= m
  /\ \A j \in 1..m : Elements(s)[j] = e[j]
  /\ ~IsWhole(s, p[m] + 1) => Len(Elements(s)) = m

LEMMA ElementsAre ==
  ASSUME NEW s \in Seq(Byte), NEW m \in Nat, NEW p, NEW e, AreThere(s, m, p, e)
  PROVE  AreFound(s, m, p, e)
<1>p. p \in [0..m -> 0..Len(s)] /\ p[0] = 0 /\ e \in [1..m -> Parsed]
  BY DEF AreThere
<1> DEFINE q(j) == ElementsFrom(s)[p[j] + 1]
           S == {d \in Nat : /\ Len(q(m - d)) >= d
                             /\ \A i \in 1..d : q(m - d)[i] = e[m - d + i]
                             /\ ~IsWhole(s, p[m] + 1) => Len(q(m - d)) = d}
<1>1. /\ \A j \in 0..m : p[j] + 1 \in 1..(Len(s) + 1)
      /\ \A j \in 0..m : q(j) \in Seq(Parsed)
  <2>1. \A j \in 0..m : p[j] + 1 \in 1..(Len(s) + 1)
    BY <1>p
  <2> QED
    BY <2>1, ElementsFromIs
<1>2. \A j \in 1..m : q(j - 1) = <<e[j]>> \o q(j)
  <2> SUFFICES ASSUME NEW j \in 1..m PROVE q(j - 1) = <<e[j]>> \o q(j)
    OBVIOUS
  <2>1. j - 1 \in 0..m
    OBVIOUS
  <2>2. ElementsFrom(s)[p[j - 1] + 1] =
          <<ElementAt(s, p[j - 1] + 1)>> \o ElementsFrom(s)[NextAt(s, p[j - 1] + 1)]
    BY <1>1, <2>1, ElementsFromIs DEF AreThere
  <2> QED
    BY <2>2 DEF AreThere
<1>3. ~IsWhole(s, p[m] + 1) => q(m) = <<>>
  <2>1. m \in 0..m
    OBVIOUS
  <2> QED
    BY <1>1, <2>1, ElementsFromIs
<1> HIDE DEF q
<1>4. 0 \in S
  BY <1>1, <1>3
<1>5. ASSUME NEW d \in 0..(m - 1), d \in S PROVE d + 1 \in S
  <2> DEFINE k == m - d
             r == q(k)
             t == q(k - 1)
  <2>1. /\ d \in Nat /\ k \in 1..m /\ k \in 0..m /\ k - 1 \in 0..m /\ m - (d + 1) = k - 1
        /\ e[k] \in Parsed
    BY <1>p
  <2>2. /\ r \in Seq(Parsed) /\ Len(r) >= d /\ (\A i \in 1..d : r[i] = e[k + i])
        /\ ~IsWhole(s, p[m] + 1) => Len(r) = d
    BY <1>1, <1>5, <2>1
  <2>3. t = <<e[k]>> \o r
    BY <1>2, <2>1
  <2> HIDE DEF k, r, t, S
  <2>4. /\ Len(t) = Len(r) + 1 /\ Len(r) \in Nat /\ t[1] = e[k]
        /\ \A i \in 1..Len(r) : t[1 + i] = r[i]
    <3> DEFINE h == <<e[k]>>
    <3>1. h \in Seq(Parsed) /\ Len(h) = 1 /\ h[1] = e[k]
      BY <2>1
    <3>2. t = h \o r
      BY <2>3
    <3> HIDE DEF h
    <3>3. \A x, y \in Seq(Parsed) :
            /\ Len(x \o y) = Len(x) + Len(y) /\ Len(y) \in Nat
            /\ \A i \in 1..Len(x) : (x \o y)[i] = x[i]
            /\ \A i \in 1..Len(y) : (x \o y)[Len(x) + i] = y[i]
      BY Joined
    <3>4. 1 \in 1..1
      OBVIOUS
    <3>5. /\ Len(h \o r) = Len(h) + Len(r) /\ Len(r) \in Nat
          /\ \A i \in 1..Len(h) : (h \o r)[i] = h[i]
          /\ \A i \in 1..Len(r) : (h \o r)[Len(h) + i] = r[i]
      BY <2>2, <3>1, <3>3
    <3>6. Len(t) = 1 + Len(r) /\ 1 + Len(r) = Len(r) + 1
      BY <3>1, <3>2, <3>5
    <3>7. t[1] = e[k] /\ \A i \in 1..Len(r) : t[1 + i] = r[i]
      BY <3>1, <3>2, <3>4, <3>5
    <3> QED
      BY <3>5, <3>6, <3>7
  <2>5. ASSUME NEW i \in 1..(d + 1) PROVE t[i] = e[k - 1 + i]
    <3>1. CASE i = 1
      <4>1. k - 1 + i = k
        BY <2>1, <3>1
      <4> QED
        BY <2>4, <3>1, <4>1
    <3>2. CASE i # 1
      <4>1. i - 1 \in 1..d /\ i - 1 \in 1..Len(r) /\ 1 + (i - 1) = i /\ k + (i - 1) = k - 1 + i
        BY <2>1, <2>2, <2>4, <3>2
      <4>2. t[1 + (i - 1)] = r[i - 1] /\ r[i - 1] = e[k + (i - 1)]
        BY <2>2, <2>4, <4>1, Zenon
      <4> QED
        BY <4>1, <4>2, Zenon
    <3> QED
      BY <3>1, <3>2
  <2>6. Len(t) >= d + 1 /\ (~IsWhole(s, p[m] + 1) => Len(t) = d + 1) /\ d + 1 \in Nat
    <3> DEFINE w == IsWhole(s, p[m] + 1)
               x == Len(r)
               y == Len(t)
    <3>1. d \in Nat /\ x \in Nat /\ y = x + 1 /\ x >= d /\ (~w => x = d)
      BY <2>1, <2>2, <2>4, Zenon
    <3> HIDE DEF w, x, y
    <3>2. y >= d + 1 /\ (~w => y = d + 1) /\ d + 1 \in Nat
      BY <3>1
    <3> QED
      BY <3>2 DEF w, x, y
  <2>7. t = q(m - (d + 1)) /\ k - 1 = m - (d + 1)
    BY <2>1 DEF t
  <2>8. \A i \in 1..(d + 1) : q(m - (d + 1))[i] = e[m - (d + 1) + i]
    BY <2>5, <2>7
  <2>9. Len(q(m - (d + 1))) >= d + 1 /\ (~IsWhole(s, p[m] + 1) => Len(q(m - (d + 1))) = d + 1)
    BY <2>6, <2>7
  <2> QED
    BY <2>6, <2>8, <2>9 DEF S
<1> HIDE DEF S
<1>6. m \in S
  <2>1. \A d \in 0..m : d \in S
    BY <1>4, <1>5, Induction
  <2> QED
    BY <2>1
<1>7. Elements(s) = q(m - m) /\ q(m - m) \in Seq(Parsed) /\ \A i \in 1..m : m - m + i = i
  <2>1. m - m = 0 /\ 0 \in 0..m /\ 0 + 1 = 1 /\ \A i \in 1..m : 0 + i = i
    OBVIOUS
  <2> QED
    BY <1>1, <1>p, <2>1 DEF Elements, q
<1> QED
  BY <1>p, <1>6, <1>7 DEF S, AreFound

-----------------------------------------------------------------------------
(* Sequences.                                                              *)

\* One part after another.
IsJoined(f, n, seqs) ==
  /\ f \in Seq(Byte)
  /\ \E p \in [0..n -> 0..Len(f)] :
       /\ p[0] = 0 /\ p[n] = Len(f)
       /\ \A j \in 1..n : /\ p[j] = p[j - 1] + Len(seqs[j])
                          /\ \A i \in 1..Len(seqs[j]) : f[p[j - 1] + i] = seqs[j][i]

LEMMA FlattenIs ==
  ASSUME NEW n \in Nat \ {0}, NEW seqs \in [1..n -> Seq(Byte)], Len(seqs) = n
  PROVE  IsJoined(FlattenSeq(seqs), n, seqs)
<1> DEFINE F(f) == [i \in 1..n |-> IF i = 1 THEN seqs[i] ELSE f[i - 1] \o seqs[i]]
           flatten == CHOOSE f : f = F(f)
           Upto(m) == {g \in [1..m -> Seq(Byte)] :
                        \A i \in 1..m : g[i] = IF i = 1 THEN seqs[i] ELSE g[i - 1] \o seqs[i]}
           S == {m \in Nat : Upto(m + 1) # {}}
<1>n. n - 1 \in Nat /\ (n - 1) + 1 = n /\ n - 1 \in 0..(n - 1)
      /\ 1 \in 1..n /\ \A i \in 2..n : i \in 1..n /\ i # 1
  OBVIOUS
<1>1. 0 \in S
  <2>1. [i \in 1..(0 + 1) |-> seqs[1]] \in Upto(0 + 1)
    OBVIOUS
  <2> HIDE DEF Upto
  <2> QED
    BY <2>1
<1>2. ASSUME NEW m \in 0..((n - 1) - 1), m \in S PROVE m + 1 \in S
  <2>1. PICK g \in Upto(m + 1) : TRUE
    BY <1>2
  <2> DEFINE k == m + 2
             h == [i \in 1..k |-> IF i = k THEN g[m + 1] \o seqs[k] ELSE g[i]]
  <2>2. /\ k \in 2..n /\ m + 1 \in 1..(m + 1) /\ k - 1 = m + 1 /\ (m + 1) + 1 = k /\ m + 1 \in Nat
        /\ \A i \in 1..k : i # k => i \in 1..(m + 1) /\ (i # 1 => i - 1 \in 1..(m + 1))
        /\ \A i \in 1..(m + 1) : i \in 1..k /\ i # k
    OBVIOUS
  <2>3. /\ g \in [1..(m + 1) -> Seq(Byte)]
        /\ \A i \in 1..(m + 1) : g[i] = IF i = 1 THEN seqs[i] ELSE g[i - 1] \o seqs[i]
    BY <2>1
  <2>4. g[m + 1] \o seqs[k] \in Seq(Byte)
    BY <2>2, <2>3
  <2> HIDE DEF k
  <2>5. h \in [1..k -> Seq(Byte)]
    BY <2>2, <2>3, <2>4
  <2>6. \A i \in 1..k : h[i] = IF i = 1 THEN seqs[i] ELSE h[i - 1] \o seqs[i]
    <3> SUFFICES ASSUME NEW i \in 1..k PROVE h[i] = IF i = 1 THEN seqs[i] ELSE h[i - 1] \o seqs[i]
      OBVIOUS
    <3>1. CASE i = k
      <4>1. i # 1 /\ i - 1 = m + 1 /\ m + 1 \in 1..k /\ m + 1 # k
        BY <2>2, <3>1
      <4>2. h[i] = g[m + 1] \o seqs[k] /\ h[m + 1] = g[m + 1]
        BY <3>1, <4>1
      <4> QED
        BY <3>1, <4>1, <4>2
    <3>2. CASE i # k
      <4>1. h[i] = g[i] /\ i \in 1..(m + 1)
        BY <2>2, <3>2
      <4>2. i # 1 => h[i - 1] = g[i - 1]
        BY <2>2, <4>1
      <4> QED
        BY <2>3, <4>1, <4>2
    <3> QED
      BY <3>1, <3>2
  <2> HIDE DEF h
  <2>7. h \in Upto((m + 1) + 1)
    BY <2>2, <2>5, <2>6
  <2> HIDE DEF Upto
  <2> QED
    BY <2>2, <2>7
<1> HIDE DEF S, Upto, F, flatten
<1>3. PICK g \in Upto(n) : TRUE
  <2>1. \A m \in 0..(n - 1) : m \in S
    BY <1>1, <1>2, <1>n, Induction
  <2>2. n - 1 \in S /\ (n - 1) + 1 = n
    BY <1>n, <2>1
  <2> QED
    BY <2>2 DEF S
<1>4. g = F(g)
  BY <1>3 DEF Upto, F
<1>5. flatten = F(flatten)
  BY <1>4 DEF flatten
<1>6. FlattenSeq(seqs) = flatten[n]
  BY DEF FlattenSeq, flatten, F
<1>7. flatten[1] = seqs[1] /\ \A i \in 2..n : flatten[i] = flatten[i - 1] \o seqs[i]
  BY <1>5, <1>n DEF F
<1> DEFINE Laid(f, m) == IsJoined(f, m, seqs)
           T == {m \in Nat : Laid(flatten[m + 1], m + 1)}
<1>8. 0 \in T
  <2> DEFINE f == seqs[1]
             p == [j \in 0..(0 + 1) |-> IF j = 0 THEN 0 ELSE Len(f)]
  <2>1. f \in Seq(Byte) /\ flatten[0 + 1] = f /\ Len(f) \in Nat
    BY <1>7
  <2>2. p \in [0..(0 + 1) -> 0..Len(f)] /\ p[0] = 0 /\ p[0 + 1] = Len(f)
    BY <2>1
  <2>3. \A j \in 1..(0 + 1) : j = 1 /\ j - 1 = 0
    OBVIOUS
  <2> HIDE DEF p
  <2>4. \A j \in 1..(0 + 1) : /\ p[j] = p[j - 1] + Len(seqs[j])
                              /\ \A i \in 1..Len(seqs[j]) : f[p[j - 1] + i] = seqs[j][i]
    BY <2>1, <2>2, <2>3
  <2> HIDE DEF f
  <2>5. 0 + 1 \in Nat /\ 0 \in Nat /\ Laid(f, 0 + 1)
    BY <2>1, <2>2, <2>4 DEF IsJoined
  <2> HIDE DEF Laid
  <2> QED
    BY <2>1, <2>5
<1>9. ASSUME NEW m \in 0..((n - 1) - 1), m \in T PROVE m + 1 \in T
  <2> DEFINE f == flatten[m + 1]
             k == m + 2
             t == seqs[k]
             h == flatten[k]
  <2>1. k \in 2..n /\ k \in 1..n /\ m \in Nat /\ k - 1 = m + 1 /\ (m + 1) + 1 = k /\ m + 1 \in Nat
    OBVIOUS
  <2>2. h = f \o t /\ t \in Seq(Byte)
    BY <1>7, <2>1
  <2>3. f \in Seq(Byte) /\ Len(f) \in Nat
    BY <1>9 DEF IsJoined
  <2>4. PICK p \in [0..(m + 1) -> 0..Len(f)] :
          /\ p[0] = 0 /\ p[m + 1] = Len(f)
          /\ \A j \in 1..(m + 1) : /\ p[j] = p[j - 1] + Len(seqs[j])
                                   /\ \A i \in 1..Len(seqs[j]) : f[p[j - 1] + i] = seqs[j][i]
    BY <1>9 DEF IsJoined
  <2> HIDE DEF f, h, t, k, T
  <2>5. /\ h \in Seq(Byte) /\ Len(h) = Len(f) + Len(t) /\ Len(t) \in Nat
        /\ \A i \in 1..Len(f) : h[i] = f[i]
        /\ \A i \in 1..Len(t) : h[Len(f) + i] = t[i]
    BY <2>2, <2>3, JoinedBytes
  <2> DEFINE r == [j \in 0..k |-> IF j = k THEN Len(h) ELSE p[j]]
  <2>6. /\ r \in [0..k -> 0..Len(h)] /\ r[0] = 0 /\ r[k] = Len(h) /\ r[k - 1] = Len(f)
        /\ \A j \in 1..(m + 1) : r[j] = p[j] /\ r[j - 1] = p[j - 1] /\ p[j] \in 0..Len(f)
                                 /\ p[j - 1] \in 0..Len(f)
    <3>1. \A j \in 0..k : j # k => j \in 0..(m + 1)
      BY <2>1
    <3>5. \A i \in 0..Len(f) : i \in 0..Len(h)
      BY <2>3, <2>5
    <3>6. \A j \in 0..(m + 1) : j \in 0..k /\ j # k
      BY <2>1
    <3>2. \A j \in 0..(m + 1) : j \in 0..k /\ j # k /\ p[j] \in 0..Len(f) /\ p[j] \in 0..Len(h)
      BY <2>4, <3>5, <3>6
    <3>3. \A j \in 1..(m + 1) : j \in 0..(m + 1) /\ j - 1 \in 0..(m + 1)
      BY <2>1
    <3>4. 0 \in 0..(m + 1) /\ m + 1 \in 0..(m + 1) /\ k \in 0..k /\ Len(h) \in 0..Len(h)
      BY <2>1, <2>3, <2>5
    <3> QED
      BY <2>1, <2>4, <3>1, <3>2, <3>3, <3>4
  <2> HIDE DEF r
  <2>7. ASSUME NEW j \in 1..k
        PROVE  /\ r[j] = r[j - 1] + Len(seqs[j])
               /\ \A i \in 1..Len(seqs[j]) : h[r[j - 1] + i] = seqs[j][i]
    <3>1. CASE j = k
      BY <2>5, <2>6, <3>1 DEF t
    <3>2. CASE j # k
      <4>1. j \in 1..(m + 1) /\ j \in 1..n
        BY <2>1, <3>2
      <4>2. r[j] = r[j - 1] + Len(seqs[j]) /\ r[j] \in 0..Len(f) /\ r[j - 1] \in 0..Len(f)
        BY <2>4, <2>6, <4>1
      <4>3. Len(seqs[j]) \in Nat
        BY <4>1
      <4>4. \A i \in 1..Len(seqs[j]) : r[j - 1] + i \in 1..Len(f)
        <5> DEFINE x == r[j - 1]
                   y == Len(seqs[j])
                   z == Len(f)
        <5>1. x \in Nat /\ y \in Nat /\ z \in Nat /\ x + y <= z
          BY <2>3, <4>2, <4>3
        <5> HIDE DEF x, y, z
        <5>2. \A i \in 1..y : x + i \in 1..z
          BY <5>1
        <5> QED
          BY <5>2 DEF x, y, z
      <4>5. \A i \in 1..Len(seqs[j]) : f[r[j - 1] + i] = seqs[j][i]
        <5>1. r[j - 1] = p[j - 1]
          BY <2>6, <4>1
        <5>2. \A i \in 1..Len(seqs[j]) : f[p[j - 1] + i] = seqs[j][i]
          BY <2>4, <4>1
        <5> QED
          BY <5>1, <5>2
      <4> QED
        BY <2>5, <4>2, <4>4, <4>5
    <3> QED
      BY <3>1, <3>2
  <2>8. Laid(h, k)
    BY <2>5, <2>6, <2>7 DEF IsJoined
  <2> HIDE DEF Laid
  <2> QED
    BY <2>1, <2>8 DEF T, h
<1>10. Laid(flatten[n], n)
  <2> HIDE DEF T, Laid
  <2>1. \A m \in 0..(n - 1) : m \in T
    BY <1>8, <1>9, <1>n, Induction
  <2>2. n - 1 \in T /\ (n - 1) + 1 = n
    BY <1>n, <2>1
  <2> QED
    BY <2>2 DEF T
<1> HIDE DEF Laid
<1>11. Laid(FlattenSeq(seqs), n)
  BY <1>6, <1>10
<1> QED
  BY <1>11 DEF Laid

(***************************************************************************)
(* The reader finds the components of a sequence in its body, each with    *)
(* its tag and what it was made of, and nothing else: no byte of a body is *)
(* taken for a tag or a length (object.cpp, sequence.cpp, utf8_string.cpp, *)
(* bit_string.cpp, integer.h).                                             *)
(***************************************************************************)
THEOREM SequenceReadsBack ==
  ASSUME NEW n \in Nat \ {0}, NEW kinds \in [1..n -> Kinds], NEW bodies \in [1..n -> Seq(Byte)],
         \A i \in 1..n : Len(bodies[i]) < Limit(7),
         NEW parts \in [1..n -> Seq(Byte)], Len(parts) = n,
         \A i \in 1..n : parts[i] = Element(kinds[i], bodies[i])
  PROVE  /\ Len(Elements(FlattenSeq(parts))) = n
         /\ \A i \in 1..n : Elements(FlattenSeq(parts))[i] = [tag |-> Tag[kinds[i]], body |-> bodies[i]]
<1>s. PICK s : s = FlattenSeq(parts)
  OBVIOUS
<1>e. PICK e : e = [i \in 1..n |-> [tag |-> Tag[kinds[i]], body |-> bodies[i]]]
  OBVIOUS
<1>1. s \in Seq(Byte) /\ Len(s) \in Nat
  BY <1>s, FlattenIs DEF IsJoined
<1>2. PICK p \in [0..n -> 0..Len(s)] :
        /\ p[0] = 0 /\ p[n] = Len(s)
        /\ \A j \in 1..n : /\ p[j] = p[j - 1] + Len(parts[j])
                           /\ \A i \in 1..Len(parts[j]) : s[p[j - 1] + i] = parts[j][i]
  <2>1. IsJoined(s, n, parts)
    BY <1>s, FlattenIs
  <2> QED
    BY <2>1 DEF IsJoined
<1>3. e \in [1..n -> Parsed]
  BY <1>e, Asn1Assumption DEF Parsed
<1>4. ASSUME NEW j \in 1..n
      PROVE  /\ IsWhole(s, p[j - 1] + 1)
             /\ NextAt(s, p[j - 1] + 1) = p[j] + 1
             /\ ElementAt(s, p[j - 1] + 1) = e[j]
  <2>1. /\ p[j - 1] \in 0..Len(s) /\ p[j] \in 0..Len(s)
        /\ kinds[j] \in Kinds /\ bodies[j] \in Seq(Byte) /\ Len(bodies[j]) < Limit(7)
        /\ parts[j] = Element(kinds[j], bodies[j])
    OBVIOUS
  <2>2. Holds(s, p[j - 1], Element(kinds[j], bodies[j]))
    BY <1>2, <2>1 DEF Holds
  <2>3. p[j - 1] + Len(Element(kinds[j], bodies[j])) = p[j]
    BY <1>2, <2>1
  <2>4. p[j] <= Len(s)
    BY <1>1, <2>1
  <2> DEFINE k == kinds[j]
             b == bodies[j]
             a == p[j - 1]
  <2> HIDE DEF k, b, a
  <2>5. /\ k \in Kinds /\ b \in Seq(Byte) /\ Len(b) < Limit(7) /\ a \in 0..Len(s)
        /\ Holds(s, a, Element(k, b)) /\ a + Len(Element(k, b)) = p[j]
    BY <2>1, <2>2, <2>3 DEF k, b, a
  <2>6. /\ IsWhole(s, a + 1) <=> a + Len(Element(k, b)) <= Len(s)
        /\ IsWhole(s, a + 1) => /\ NextAt(s, a + 1) = a + Len(Element(k, b)) + 1
                                /\ ElementAt(s, a + 1) = [tag |-> Tag[k], body |-> b]
    BY <1>1, <2>5, ElementReadsBack
  <2>7. e[j] = [tag |-> Tag[k], body |-> b]
    BY <1>e DEF k, b
  <2> QED
    BY <2>4, <2>5, <2>6, <2>7 DEF a
<1>5. ~IsWhole(s, p[n] + 1)
  BY <1>1, <1>2 DEF IsWhole
<1>6. /\ Elements(s) \in Seq(Parsed) /\ Len(Elements(s)) = n
      /\ \A j \in 1..n : Elements(s)[j] = e[j]
  <2>1. n \in Nat /\ AreThere(s, n, p, e)
    BY <1>2, <1>3, <1>4 DEF AreThere
  <2>2. AreFound(s, n, p, e)
    BY <1>1, <2>1, ElementsAre
  <2> QED
    BY <1>5, <2>2 DEF AreFound
<1> QED
  BY <1>6, <1>s, <1>e
=============================================================================
