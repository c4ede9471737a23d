--------------------------- MODULE MCContainment ----------------------------
(***************************************************************************)
(* A root and three more paths, two links at a time that are not answered, *)
(* and no entry twice: where a path is listed and not there, each create   *)
(* lists it once more.                                                     *)
(***************************************************************************)
EXTENDS Containment

CONSTANTS root, p1, p2, p3

MCPaths == {root, p1, p2, p3}

\* Links up that name no document that lists them, and entries that name none
\* that claims them.
StrayUp == {c \in Present : docs[c].up # NoPath /\ ~(docs[c].up \in Present /\ Lists(docs[c].up, c))}
StrayDown == {<<c, p>> \in Present \X Paths : Lists(c, p) /\ ~(p \in Present /\ docs[p].up = c)}

FewStray ==
  /\ Cardinality(StrayUp) + Cardinality(StrayDown) <= 2
  /\ \A c \in Present : IsInjective(docs[c].down)
=============================================================================
