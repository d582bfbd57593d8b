----------------------------- MODULE RolledNames -----------------------------
(***************************************************************************)
(* What basic_logger::flush() (src/src/basic_logger.cpp) renames a file to *)
(* when it rolls: the path, with the index in brackets before the last     *)
(* dot, wherever in the path that is. RollingLogger takes the names for    *)
(* what they stand for: a path and an index.                               *)
(***************************************************************************)
EXTENDS Naturals, Sequences

CONSTANTS
  Char,              \* the characters of paths
  Dot, Open, Close,  \* of these, '.', '(' and ')'
  Digit              \* of these, the digits of the indices

ASSUME NamesAssumption ==
  /\ {Dot, Open, Close} \subseteq Char
  /\ Digit \in [0..4 -> Char]
  /\ \A i, j \in 0..4 : Digit[i] = Digit[j] => i = j
  /\ Dot \notin {Open, Close} /\ \A i \in 0..4 : Digit[i] # Dot

\* The base name ends where the suffix begins: before the last dot, if any.
Dots(p) == {k \in 1..Len(p) : p[k] = Dot}

BaseEnd(p) ==
  IF Dots(p) = {} THEN Len(p)
  ELSE (CHOOSE k \in Dots(p) : \A l \in Dots(p) : l <= k) - 1

Basename(p) == SubSeq(p, 1, BaseEnd(p))

Suffix(p) == SubSeq(p, BaseEnd(p) + 1, Len(p))

RolledName(p, i) == Basename(p) \o <<Open, Digit[i], Close>> \o Suffix(p)
=============================================================================
