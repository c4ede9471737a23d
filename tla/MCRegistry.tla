----------------------------- MODULE MCRegistry -----------------------------
(* Two ids and two paths, either of which may hold the registry document.  *)
EXTENDS Registry, TLC

CONSTANTS i1, i2, r1, r2

MCIds == {i1, i2}
MCPaths == {r1, r2}

Symmetric == Permutations(MCIds) \cup Permutations(MCPaths)
=============================================================================
