---------------------------- MODULE MCDeletions -----------------------------
(* A root and three more paths, three documents, two ids, two records.     *)
EXTENDS Deletions, TLC

CONSTANTS root, p1, p2, p3, i1, i2, t1, t2, t3

MCPaths == {root, p1, p2, p3}
MCIds == {i1, i2}
MCTexts == {t1, t2, t3}
Symmetry == Permutations({p1, p2, p3}) \cup Permutations(MCIds) \cup Permutations(MCTexts)
=============================================================================
