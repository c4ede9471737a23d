------------------------------ MODULE MCCheck -------------------------------
(* A root, two documents beside it and one in a directory of its own.      *)
EXTENDS Check

CONSTANTS root, a, b, c, i1, i2

MCDocs == {root, a, b, c}
MCNear == {root, a, b}
MCBare == {b}
MCAlike == {c}
MCOrder == <<a, b, c, root>>
MCIds == {i1, i2}
=============================================================================
