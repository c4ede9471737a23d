---------------------------- MODULE Containment -----------------------------
(***************************************************************************)
(* The containment tree and the verbs that change it (prov/src/mutate:     *)
(* create, adopt, reparent, reorder, duplicate, rename, delete).           *)
(*                                                                         *)
(* A document is its one link up (`part_of`, or NoPath) and the sequence   *)
(* of its links down (`contents`), each the path it resolves to.  A verb   *)
(* reads, checks and lands as one step; that the set it builds lands whole *)
(* or not at all is module Workspace's.  A verb the code refuses is a step *)
(* that is not enabled.                                                    *)
(***************************************************************************)
EXTENDS Naturals, Sequences, SequencesExt, FiniteSets

CONSTANTS Paths,
          NoPath,
          NoDoc,
          RootPath   \* the document the workspace node names as the root

ASSUME ContainmentPaths == IsFiniteSet(Paths) /\ RootPath \in Paths
ASSUME ContainmentSentinels ==
  /\ NoPath \notin Paths
  /\ NoDoc \notin [up : Paths \cup {NoPath}, down : Seq(Paths)] \cup Paths \cup {NoPath}

VARIABLE docs \* the documents

Docs == [up : Paths \cup {NoPath}, down : Seq(Paths)]

Present == {p \in Paths : docs[p] # NoDoc}
Lists(c, p) == \E k \in DOMAIN docs[c].down : docs[c].down[k] = p

\* A root, what it contains, and documents that predate the workspace.  No verb
\* here moves or removes the root (as in mutate/properties.rs).
Init ==
  \E contained, loose \in SUBSET (Paths \ {RootPath}) :
    /\ contained \cap loose = {}
    /\ docs = [p \in Paths |->
                 IF p = RootPath THEN [up |-> NoPath, down |-> SetToSeq(contained)]
                 ELSE IF p \in contained THEN [up |-> RootPath, down |-> <<>>]
                 ELSE IF p \in loose THEN [up |-> NoPath, down |-> <<>>]
                 ELSE NoDoc]

-----------------------------------------------------------------------------
(* maintain.rs: the walks.                                                 *)

\* The rungs of a climb by links up: what every set has that has the start and
\* the parents of what it has.
HasAllAbove(rungs) ==
  \A q \in rungs \cap Present : docs[q].up # NoPath => docs[q].up \in rungs

Rungs(from) == {c \in Paths : \A rungs \in SUBSET Paths :
                                from \in rungs /\ HasAllAbove(rungs) => c \in rungs}

\* c contains p, through any number of links up, or is p.
Above(c, p) == c \in Rungs(p)

\* A climb ends at a document with no parent or at a path with no document; in a
\* loop, at the rung where it enters the loop, which it meets again.
IsTop(p) == p \notin Present \/ docs[p].up = NoPath

Enters(at, from) ==
  /\ \E c \in Rungs(at) \cap Present : docs[c].up = at
  /\ at = from \/ \E c \in (Rungs(from) \ Rungs(at)) \cap Present : docs[c].up = at

ClimbEnd(from) == CHOOSE at \in Rungs(from) : IsTop(at) \/ Enters(at, from)

\* spanning_root: the end of the climb, or the root where it has not moved.
SpanningRoot(from) == IF ClimbEnd(from) = from THEN RootPath ELSE ClimbEnd(from)

\* The documents a walk down from start visits.
HasAllListed(visited) == \A c \in visited : \A p \in Present : Lists(c, p) => p \in visited

Visited(start) == {p \in Present : \A visited \in SUBSET Present :
                                     {start} \cap Present \subseteq visited /\ HasAllListed(visited)
                                       => p \in visited}

-----------------------------------------------------------------------------
(* Edits.                                                                  *)

\* The first entry for p taken out.
IsFirst(k, seq, p) ==
  k \in DOMAIN seq /\ seq[k] = p /\ \A l \in DOMAIN seq : seq[l] = p => k <= l

Without(seq, p) ==
  IF \E k \in DOMAIN seq : seq[k] = p
  THEN RemoveAt(seq, CHOOSE k \in DOMAIN seq : IsFirst(k, seq, p)) ELSE seq

Retarget(seq, from, to) == [k \in DOMAIN seq |-> IF seq[k] = from THEN to ELSE seq[k]]

\* The entry appended, or the sequence as it was where it has one.
Linked(ds, child, parent) ==
  [ds EXCEPT ![child].up = parent,
             ![parent].down = IF \E k \in DOMAIN @ : @[k] = child THEN @ ELSE Append(@, child)]

-----------------------------------------------------------------------------
(* The verbs.                                                              *)

\* create: the new document and the entry for it.
Create(p, parent) ==
  /\ parent \in Present
  /\ p \notin Present
  /\ docs' = [docs EXCEPT ![p] = [up |-> parent, down |-> <<>>],
                          ![parent].down = Append(@, p)]

\* A parent that is replaced, not asked about, and not told.
AdoptUnasked(child, parent) ==
  /\ child # parent
  /\ {child, parent} \subseteq Present
  /\ docs' = Linked(docs, child, parent)

\* adopt: either direction that is missing; a child that claims another parent
\* is refused.  What is above the parent is not asked.
Adopt(child, parent) ==
  /\ child # parent
  /\ {child, parent} \subseteq Present
  /\ docs[child].up \in {NoPath, parent}
  /\ docs' = Linked(docs, child, parent)

\* Nobody climbs from the new parent.
CheckReparentNoClimb(child, parent) ==
  /\ child # parent
  /\ {child, parent} \subseteq Present

\* check_reparent: the new parent is not beneath the child.
CheckReparent(child, parent) ==
  /\ child # parent
  /\ {child, parent} \subseteq Present
  /\ ~Above(child, parent)

\* reparent: both directions, and the entry of the old parent if that is there.
Reparent(child, parent) ==
  LET old == docs[child].up
      linked == Linked(docs, child, parent)
  IN /\ CheckReparent(child, parent)
     /\ docs' = IF old \in Present \ {parent}
                THEN [linked EXCEPT ![old].down = Without(@, child)] ELSE linked
   
\* reorder: a permutation of the entries.
Reorder(parent) ==
  /\ parent \in Present
  /\ \E perm \in Bijection(DOMAIN docs[parent].down, DOMAIN docs[parent].down) :
       docs' = [docs EXCEPT ![parent].down = [k \in DOMAIN @ |-> @[perm[k]]]]

\* duplicate: the link up is copied, the links down are not, and the parent,
\* which must be there to be read, lists the copy.
Duplicate(source, dest) ==
  LET parent == docs[source].up
      copied == [docs EXCEPT ![dest] = [up |-> parent, down |-> <<>>]]
  IN /\ source \in Present
     /\ dest \notin Present
     /\ parent \in Present \cup {NoPath}
     /\ docs' = IF parent = NoPath THEN copied
                ELSE [copied EXCEPT ![parent].down = Append(@, dest)]
   
\* rename: the document, and every link to it in the documents the census
\* visits.
InboundSources(from) == Visited(SpanningRoot(from)) \ {from}

Retargeted(doc, from, to) ==
  [up |-> IF doc.up = from THEN to ELSE doc.up, down |-> Retarget(doc.down, from, to)]

\* Only the parent's entry follows the move.
RenamedForParent(from, to) ==
  [p \in Paths |-> IF p = to THEN docs[from]
                   ELSE IF p = from THEN NoDoc
                   ELSE IF p = docs[from].up /\ p \in Present
                   THEN Retargeted(docs[p], from, to) ELSE docs[p]]

Renamed(from, to) ==
  [p \in Paths |-> IF p = to THEN docs[from]
                   ELSE IF p = from THEN NoDoc
                   ELSE IF p \in InboundSources(from)
                   THEN Retargeted(docs[p], from, to) ELSE docs[p]]

Rename(from, to) ==
  /\ from \in Present \ {RootPath}
  /\ to \notin Present
  /\ docs' = Renamed(from, to)

\* delete: refused to a document with children unless forced, and to one whose
\* parent cannot be read; then the parent is written without its first entry for
\* it, if it has one.
Delete(p, force) ==
  LET parent == docs[p].up
      removed == [docs EXCEPT ![p] = NoDoc]
  IN /\ p \in Present \ {RootPath}
     /\ docs[p].down = <<>> \/ force
     /\ parent \in Present \cup {NoPath}
     /\ docs' = IF parent # NoPath /\ Lists(parent, p)
                THEN [removed EXCEPT ![parent] = [docs[parent] EXCEPT !.down = Without(@, p)]]
                ELSE removed

Next ==
  \/ \E p, q \in Paths :
       Create(p, q) \/ Adopt(p, q) \/ Reparent(p, q) \/ Duplicate(p, q) \/ Rename(p, q)
  \/ \E p \in Paths : Reorder(p) \/ \E force \in BOOLEAN : Delete(p, force)

Spec == Init /\ [][Next]_docs

-----------------------------------------------------------------------------
\* The two halves of a tree's record agree: the document a link down names is
\* there and says it is contained by the one that lists it, which lists it once;
\* and the document a link up names is there and lists the one that claims it.
LinksAreAnswered ==
  \A c \in Present :
    /\ IsInjective(docs[c].down)
    /\ \A p \in Paths : Lists(c, p) => p \in Present /\ docs[p].up = c
    /\ docs[c].up # NoPath => docs[c].up \in Present /\ Lists(docs[c].up, c)

\* A delete that is forced where it would be refused.
LeavesChildren == \E p \in Present : docs[p].down # <<>> /\ Delete(p, TRUE)

\* A rename of a document with children whose climb ends where it starts: of the
\* top of another tree than the root's, or of a document in a loop.
RenamesAsTop ==
  \E from \in Present, to \in Paths :
    docs[from].down # <<>> /\ ClimbEnd(from) = from /\ Rename(from, to)

\* Where all links are answered, the seven verbs leave them so, loops or not, but
\* for two that leave children behind: a forced delete, which says so, and a rename
\* whose census is of the root's tree and not of the document's (maintain.rs:205).
AnswersAreKept ==
  [][LinksAreAnswered => LinksAreAnswered' \/ LeavesChildren \/ RenamesAsTop]_docs

\* No document is beneath itself: a loop would claim and list itself in full,
\* and no walk from the root would meet it again.
NothingContainsItself == \A p \in Present : docs[p].up # NoPath => ~Above(p, docs[p].up)

InOrder == LinksAreAnswered /\ NothingContainsItself

\* An adoption by what the adopted document contains.
AdoptsItsOwner == \E child, parent \in Present : Above(child, parent) /\ Adopt(child, parent)

\* Of documents in order no verb makes a loop but adopt, which does not climb from
\* the new parent as check_reparent (reparent.rs) does.
LoopsAreAdopted == [][InOrder => NothingContainsItself' \/ AdoptsItsOwner]_docs

ParentOf == [p \in Paths |-> IF docs[p] = NoDoc THEN NoDoc ELSE docs[p].up]

Promise == INSTANCE Forest WITH
  Orphan <- NoPath,
  Absent <- NoDoc,
  parent <- ParentOf

\* The links up are a forest at first, and each verb changes them in one of the
\* four ways a forest is changed: whole subtrees move, and only leaves come and go.
\* It is so for as long as documents are in order; the three steps that leave them
\* otherwise are named.
VerbsTendForest ==
  /\ Promise!Init
  /\ [][InOrder =>
          [Promise!Next]_ParentOf \/ LeavesChildren \/ RenamesAsTop \/ AdoptsItsOwner]_docs
=============================================================================
