------------------------------- MODULE Forest -------------------------------
(***************************************************************************)
(* What the verbs of containment promise: a forest, and four ways to       *)
(* change it.  Each document has one parent or none; no document is        *)
(* beneath itself; and a document that is moved or given another path      *)
(* takes everything beneath it along.                                      *)
(***************************************************************************)
CONSTANTS Paths, Orphan, Absent

VARIABLE parent \* of each path: a path, Orphan, or Absent where no document is

There == {p \in Paths : parent[p] # Absent}

\* p is c, or somewhere beneath it: in every set that has c and all that is
\* beneath what it has.
HasAllBelow(below) == \A q \in There : parent[q] \in below => q \in below

Within(c, p) == \A below \in SUBSET Paths : c \in below /\ HasAllBelow(below) => p \in below

Init ==
  /\ parent \in [Paths -> Paths \cup {Orphan, Absent}]
  /\ \A p \in There :
       parent[p] # Orphan => parent[p] \in There /\ ~Within(p, parent[p])

\* A new leaf.
Plant(p, c) ==
  /\ p \notin There
  /\ c \in There \cup {Orphan}
  /\ parent' = [parent EXCEPT ![p] = c]

\* A document and everything beneath it, to another parent.
Graft(p, c) ==
  /\ p \in There
  /\ c \in There
  /\ ~Within(p, c)
  /\ parent' = [parent EXCEPT ![p] = c]

\* A document at another path.
Relabel(from, to) ==
  /\ from \in There
  /\ to \notin There
  /\ parent' = [q \in Paths |-> IF q = from THEN Absent
                                ELSE IF q = to THEN parent[from]
                                ELSE IF parent[q] = from THEN to
                                ELSE parent[q]]

\* A leaf falls.
Prune(p) ==
  /\ p \in There
  /\ \A q \in There : parent[q] # p
  /\ parent' = [parent EXCEPT ![p] = Absent]

Next ==
  \E p \in Paths :
    \/ \E c \in Paths \cup {Orphan} : Plant(p, c) \/ Graft(p, c)
    \/ \E to \in Paths : Relabel(p, to)
    \/ Prune(p)

Spec == Init /\ [][Next]_parent
=============================================================================
