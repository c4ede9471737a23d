----------------------------- MODULE MCInbound ------------------------------
(* A root, two more paths that anything may link to, and one id.           *)
EXTENDS Inbound, TLC

CONSTANTS root, p, q, i

MCPaths == {root, p, q}
MCLinkable == {p, q}
MCIds == {i}
Symmetry == Permutations({p, q})
=============================================================================
