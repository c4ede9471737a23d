---------------------------- MODULE MCWorkspace -----------------------------
(* Three documents and their registry, two ids and one foreign edit.       *)
EXTENDS Workspace, TLC

CONSTANTS r, p, q, s, i1, i2, e1

MCIds == {i1, i2}
MCPaths == {r, p, q, s}
MCEdits == {e1}
MCPolicies == {{"up", "down"}, {"create"}}
MCStorages == {"registry", "frontmatter"}
OnlyOthersWrite == {"external"}
Symmetry == Permutations(MCIds) \cup Permutations({p, q, s})
=============================================================================
