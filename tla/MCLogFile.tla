----------------------------- MODULE MCLogFile -----------------------------
(* Two records with bytes of four bits, for TLC.                           *)
EXTENDS LogFile

Tags == [integer |-> 2, bits |-> 3, utf8 |-> 12, sequence |-> 14]

\* Strings of bytes that look like tags and lengths.
Of(b, n) == [i \in 1..n |-> b]

Levels == {5}
Ids    == {Limit(7) - 1, Limit(7)}
Lines  == {8, Limit(4), Power[4] + 7}
Names  == {Of(14, 8)}
Texts  == {<<>>, Of(12, 8), Of(9, 9), Append(Of(15, 128), 0)}
Datas  == {Of(3, 7), Of(0, 8)}
Behind == {0, 3, 15}
Shorts == {1, 12, 40}
Clock  == Of(1, 3)
=============================================================================
