-------------------------- MODULE MCRollingLogger --------------------------
(* A rolling logger, two files and a standard stream, for TLC, and the     *)
(* characters of the names of their rolled files.                          *)
EXTENDS RollingLogger, RolledNames

CONSTANTS a, b, out

Files          == {a}
TwoFiles       == {a, b}
FilesAndStdout == {a, b, out}
Stdout         == {out}
None           == {}
Symmetry       == Permutations(TwoFiles)

Digits     == [i \in 0..4 |-> ToString(i)]
Characters == Range(Digits) \union {".", "(", ")", "/"}
=============================================================================
