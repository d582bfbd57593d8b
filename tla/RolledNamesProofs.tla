-------------------------- MODULE RolledNamesProofs --------------------------
(***************************************************************************)
(* Rolled files of different paths, and of different indices of a path,    *)
(* are different files, whatever the paths.                                *)
(***************************************************************************)
EXTENDS RolledNames, SequenceTheorems, WellFoundedInduction, TLAPS

\* Where the base name ends: all is base name, or the last dot comes next.
LEMMA BaseEndIs ==
  ASSUME NEW p \in Seq(Char)
  PROVE  /\ BaseEnd(p) \in 0..Len(p)
         /\ \A k \in 1..Len(p) : p[k] = Dot => k <= BaseEnd(p) + 1
         /\ Dots(p) # {} => BaseEnd(p) < Len(p) /\ p[BaseEnd(p) + 1] = Dot
         /\ Dots(p) = {} => BaseEnd(p) = Len(p)
<1>1. CASE Dots(p) = {}
  BY <1>1 DEF BaseEnd, Dots
<1>2. CASE Dots(p) # {}
  <2> DEFINE last == CHOOSE k \in Dots(p) : \A l \in Dots(p) : l <= k
  <2>1. \E k \in Dots(p) : \A l \in Dots(p) : l <= k
    <3> DEFINE Behind == {Len(p) - k : k \in Dots(p)}
    <3>1. Behind \subseteq Nat /\ Behind # {}
      BY <1>2 DEF Dots
    <3> DEFINE Less == OpToRel(<, Nat)
    <3>2. \A x, y \in Nat : y < x => <<y, x>> \in Less
      BY DEF OpToRel
    <3>3. IsWellFoundedOn(Less, Nat)
      BY NatLessThanWellFounded, Zenon
    <3> HIDE DEF Less, Behind
    <3>4. PICK x \in Behind : \A y \in Behind : <<y, x>> \notin Less
      BY <3>1, <3>3, WFMin
    <3>5. \A y \in Behind : ~(y < x)
      BY <3>1, <3>2, <3>4
    <3>6. PICK k \in Dots(p) : x = Len(p) - k
      BY DEF Behind
    <3>7. ASSUME NEW l \in Dots(p) PROVE l <= k
      <4>1. ~(Len(p) - l < x)
        BY <3>5 DEF Behind
      <4>2. Len(p) \in Nat /\ k \in Nat /\ l \in Nat
        BY DEF Dots
      <4> QED
        BY <3>6, <4>1, <4>2
    <3> QED
      BY <3>7
  <2>2. last \in Dots(p) /\ \A l \in Dots(p) : l <= last
    BY <2>1
  <2>3. BaseEnd(p) = last - 1
    BY <1>2 DEF BaseEnd
  <2> HIDE DEF last
  <2>4. last \in 1..Len(p) /\ p[last] = Dot /\ Len(p) \in Nat
    BY <2>2 DEF Dots
  <2>5. BaseEnd(p) + 1 = last /\ BaseEnd(p) \in 0..Len(p) /\ BaseEnd(p) < Len(p)
    BY <2>3, <2>4
  <2>6. \A k \in 1..Len(p) : p[k] = Dot => k <= last
    BY <2>2 DEF Dots
  <2> QED
    BY <1>2, <2>4, <2>5, <2>6
<1> QED
  BY <1>1, <1>2

\* The name, character by character.
LEMMA RolledNameIs ==
  ASSUME NEW p \in Seq(Char), NEW i \in 0..4
  PROVE  LET n == RolledName(p, i)
             e == BaseEnd(p)
         IN  /\ Len(n) = Len(p) + 3
             /\ \A k \in 1..e : n[k] = p[k]
             /\ n[e + 1] = Open /\ n[e + 2] = Digit[i] /\ n[e + 3] = Close
             /\ \A k \in (e + 1)..Len(p) : n[k + 3] = p[k]
<1> DEFINE e == BaseEnd(p)
           mark == <<Open, Digit[i], Close>>
           base == Basename(p)
           suffix == Suffix(p)
<1>1. e \in 0..Len(p) /\ Len(p) \in Nat
  BY BaseEndIs
<1>2. mark \in Seq(Char) /\ Len(mark) = 3
  BY NamesAssumption
<1>3. mark[1] = Open /\ mark[2] = Digit[i] /\ mark[3] = Close
  OBVIOUS
<1> HIDE DEF e, mark
<1>4. base \in Seq(Char) /\ Len(base) = e /\ \A k \in 1..e : base[k] = p[k]
  BY <1>1 DEF Basename, e
<1>5. /\ suffix \in Seq(Char) /\ Len(suffix) = Len(p) - e
      /\ \A k \in 1..(Len(p) - e) : suffix[k] = p[e + k]
  BY <1>1 DEF Suffix, e
<1> HIDE DEF base, suffix
<1> DEFINE head == base \o mark
<1>6. /\ head \in Seq(Char) /\ Len(head) = e + 3
      /\ \A k \in 1..(e + 3) : head[k] = IF k <= e THEN base[k] ELSE mark[k - e]
  <2>1. /\ head \in Seq(Char) /\ Len(head) = Len(base) + Len(mark)
        /\ \A k \in 1..(Len(base) + Len(mark)) :
             head[k] = IF k <= Len(base) THEN base[k] ELSE mark[k - Len(base)]
    BY <1>2, <1>4, ConcatProperties
  <2> HIDE DEF head
  <2> QED
    BY <2>1, <1>2, <1>4
<1>7. RolledName(p, i) = head \o suffix
  BY DEF RolledName, base, mark, suffix
<1> HIDE DEF head
<1>8. /\ Len(RolledName(p, i)) = e + 3 + (Len(p) - e)
      /\ \A k \in 1..(e + 3 + (Len(p) - e)) :
           RolledName(p, i)[k] = IF k <= e + 3 THEN head[k] ELSE suffix[k - (e + 3)]
  <2> DEFINE name == head \o suffix
  <2>1. /\ Len(name) = Len(head) + Len(suffix)
        /\ \A k \in 1..(Len(head) + Len(suffix)) :
             name[k] = IF k <= Len(head) THEN head[k] ELSE suffix[k - Len(head)]
    BY <1>5, <1>6, ConcatProperties
  <2> HIDE DEF name
  <2>2. name = RolledName(p, i)
    BY <1>7 DEF name
  <2> QED
    BY <2>1, <2>2, <1>5, <1>6
<1>9. \A k \in 1..e : RolledName(p, i)[k] = p[k]
  BY <1>1, <1>4, <1>6, <1>8
<1>10. \A k \in 1..3 : RolledName(p, i)[e + k] = mark[k]
  <2> SUFFICES ASSUME NEW k \in 1..3 PROVE RolledName(p, i)[e + k] = mark[k]
    OBVIOUS
  <2>1. /\ e + k \in 1..(e + 3) /\ e + k \in 1..(e + 3 + (Len(p) - e))
        /\ ~(e + k <= e) /\ (e + k) - e = k /\ e + k <= e + 3
    BY <1>1
  <2> QED
    BY <2>1, <1>6, <1>8
<1>11. ASSUME NEW k \in (e + 1)..Len(p) PROVE RolledName(p, i)[k + 3] = p[k]
  <2>1. k - e \in 1..(Len(p) - e) /\ k + 3 - (e + 3) = k - e /\ ~(k + 3 <= e + 3)
    BY <1>1
  <2>2. RolledName(p, i)[k + 3] = suffix[k - e]
    BY <2>1, <1>1, <1>8
  <2> QED
    BY <2>1, <2>2, <1>1, <1>5
<1>12. Len(RolledName(p, i)) = Len(p) + 3
  BY <1>1, <1>8
<1> QED
  BY <1>1, <1>3, <1>9, <1>10, <1>11, <1>12 DEF e

\* The last dot of the name, if any, is that of the suffix.
LEMMA LastDotOfName ==
  ASSUME NEW p \in Seq(Char), NEW i \in 0..4
  PROVE  LET n == RolledName(p, i)
             e == BaseEnd(p)
         IN  /\ Dots(p) # {} => e + 4 \in 1..Len(n) /\ n[e + 4] = Dot
             /\ \A k \in 1..Len(n) : n[k] = Dot => k <= e + 4 /\ Dots(p) # {}
<1> DEFINE n == RolledName(p, i)
           e == BaseEnd(p)
<1>1. /\ Len(n) = Len(p) + 3 /\ \A k \in 1..e : n[k] = p[k]
      /\ n[e + 1] = Open /\ n[e + 2] = Digit[i] /\ n[e + 3] = Close
      /\ \A k \in (e + 1)..Len(p) : n[k + 3] = p[k]
  BY RolledNameIs
<1>2. /\ e \in 0..Len(p) /\ \A k \in 1..Len(p) : p[k] = Dot => k <= e + 1
      /\ Dots(p) # {} => e < Len(p) /\ p[e + 1] = Dot
  BY BaseEndIs
<1>3. Len(p) \in Nat /\ Open # Dot /\ Close # Dot /\ Digit[i] # Dot
  BY NamesAssumption
<1> HIDE DEF n, e
<1>4. Dots(p) # {} => e + 4 \in 1..Len(n) /\ n[e + 4] = Dot
  BY <1>1, <1>2, <1>3
<1>5. ASSUME NEW k \in 1..Len(n), n[k] = Dot PROVE k <= e + 4 /\ Dots(p) # {}
  <2>1. CASE k <= e
    BY <2>1, <1>1, <1>2, <1>3, <1>5 DEF Dots
  <2>2. CASE k \in {e + 1, e + 2, e + 3}
    BY <2>2, <1>1, <1>3, <1>5
  <2>3. CASE k > e + 3
    <3>1. k - 3 \in (e + 1)..Len(p) /\ k - 3 \in 1..Len(p)
      BY <2>3, <1>1, <1>2, <1>3
    <3>2. p[k - 3] = Dot
      BY <3>1, <1>1, <1>3, <1>5
    <3> QED
      BY <3>1, <3>2, <1>2, <1>3 DEF Dots
  <2> QED
    BY <2>1, <2>2, <2>3, <1>2, <1>3
<1> QED
  BY <1>4, <1>5 DEF n, e

(***************************************************************************)
(* No two paths share a rolled file, and no two indices of a path          *)
(* (basic_logger.cpp:31-44 and 153-156): RollingLogger relies on it.       *)
(***************************************************************************)
THEOREM NamesDiffer ==
  ASSUME NEW p \in Seq(Char), NEW q \in Seq(Char), NEW i \in 0..4, NEW j \in 0..4,
         RolledName(p, i) = RolledName(q, j)
  PROVE  p = q /\ i = j
<1> DEFINE n == RolledName(p, i)
           e == BaseEnd(p)
           f == BaseEnd(q)
<1> HIDE DEF n
<1>1. /\ Len(n) = Len(p) + 3 /\ \A k \in 1..e : n[k] = p[k]
      /\ n[e + 1] = Open /\ n[e + 2] = Digit[i] /\ n[e + 3] = Close
      /\ \A k \in (e + 1)..Len(p) : n[k + 3] = p[k]
  BY RolledNameIs DEF n
<1>2. /\ Len(n) = Len(q) + 3 /\ \A k \in 1..f : n[k] = q[k]
      /\ n[f + 1] = Open /\ n[f + 2] = Digit[j] /\ n[f + 3] = Close
      /\ \A k \in (f + 1)..Len(q) : n[k + 3] = q[k]
  BY RolledNameIs DEF n
<1>3. /\ e \in 0..Len(p) /\ \A k \in 1..Len(p) : p[k] = Dot => k <= e + 1
      /\ Dots(p) # {} => e < Len(p) /\ p[e + 1] = Dot
      /\ Dots(p) = {} => e = Len(p)
  BY BaseEndIs
<1>4. /\ f \in 0..Len(q) /\ \A k \in 1..Len(q) : q[k] = Dot => k <= f + 1
      /\ Dots(q) # {} => f < Len(q) /\ q[f + 1] = Dot
      /\ Dots(q) = {} => f = Len(q)
  BY BaseEndIs
<1> HIDE DEF e, f
<1>5. Len(p) \in Nat /\ Len(q) = Len(p)
  BY <1>1, <1>2
<1>6. /\ Dots(p) # {} => e + 4 \in 1..Len(n) /\ n[e + 4] = Dot
      /\ \A k \in 1..Len(n) : n[k] = Dot => k <= e + 4 /\ Dots(p) # {}
  BY LastDotOfName DEF n, e
<1>7. /\ Dots(q) # {} => f + 4 \in 1..Len(n) /\ n[f + 4] = Dot
      /\ \A k \in 1..Len(n) : n[k] = Dot => k <= f + 4 /\ Dots(q) # {}
  BY LastDotOfName DEF n, f
<1>8. e = f
  <2>1. CASE Dots(p) = {}
    BY <2>1, <1>3, <1>4, <1>5, <1>6, <1>7
  <2>2. CASE Dots(p) # {}
    BY <2>2, <1>3, <1>4, <1>5, <1>6, <1>7
  <2> QED
    BY <2>1, <2>2
<1>9. i = j
  BY <1>1, <1>2, <1>8, NamesAssumption
<1>10. ASSUME NEW k \in 1..Len(p) PROVE p[k] = q[k]
  <2>1. CASE k <= e
    BY <2>1, <1>1, <1>2, <1>3, <1>5, <1>8
  <2>2. CASE k > e
    BY <2>2, <1>1, <1>2, <1>3, <1>5, <1>8
  <2> QED
    BY <2>1, <2>2, <1>3, <1>5
<1> QED
  BY <1>5, <1>9, <1>10
=============================================================================
