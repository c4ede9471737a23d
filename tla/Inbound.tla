------------------------------ MODULE Inbound -------------------------------
(***************************************************************************)
(* The inverse of the link graph that a Workspace keeps across verbs       *)
(* (prov/src/workspace/inbound.rs): the answer to "which documents link    *)
(* here?", left behind by a census, checked by stat before it is used, and *)
(* updated or dropped by each change set.                                  *)
(*                                                                         *)
(* A document is its links down and the paths and ids its other links      *)
(* name.  The tree is the one beneath RootPath, where the climb of         *)
(* spanning_root ends (module Containment has it).  Modification time and  *)
(* length are not numbers here: `vouched` is the set of the paths whose    *)
(* file has the stamp the index, or the ask under way, took of it.  A      *)
(* backend that reports no modification time keeps no index, and is left   *)
(* out, and so is a write that leaves the stamp as it was.                 *)
(***************************************************************************)
EXTENDS Naturals, FiniteSets

CONSTANTS Paths, RootPath,
          Ids,       \* ids of documents other than the root
          Linkable,  \* the paths documents link to by path: the bound on links
          NoDoc, NoPath, NoIndex, NoAsk,
          MaxLinks,  \* bound on the links of all documents that are not entries
          MaxStale   \* bound on the documents changed since the index saw them

ASSUME InboundPaths == RootPath \in Paths /\ Linkable \subseteq Paths
ASSUME InboundBounds == {MaxLinks, MaxStale} \subseteq Nat
ASSUME InboundSentinel ==
  NoDoc \notin [down : SUBSET Paths, links : SUBSET Linkable, refs : SUBSET Ids]

VARIABLES files,   \* the documents on disk
          where,   \* the path each id resolves to, or NoPath
          index,   \* NoIndex, or the edges of each document and the absent ones
          vouched, \* the paths that are as they were stamped
          ask,     \* NoAsk, or what the census under way has found so far
          landed,  \* the rewritten documents whose stamps are still to be taken
          unseen   \* history: the documents whose links have changed, in the text
                   \* or in what an id resolves to, where no stamp will show it

vars == <<files, where, index, vouched, ask, landed, unseen>>

Docs ==
  {doc \in [down : SUBSET (Paths \ {RootPath}), links : SUBSET Linkable, refs : SUBSET Ids] :
     Cardinality(doc.links) + Cardinality(doc.refs) <= MaxLinks}

\* The links that are not entries, in all documents.
OtherLinks ==
  {link \in Paths \X (Linkable \cup Ids) :
     files[link[1]] # NoDoc /\ link[2] \in files[link[1]].links \cup files[link[1]].refs}

Present == {p \in Paths : files[p] # NoDoc}

\* edges_of: what a document's links resolve to, and by which form.
EdgesOf(doc) ==
  [spanning |-> doc.down,
   targets |-> {<<p, "path">> : p \in doc.links \cup doc.down}
                 \cup {<<where[i], "id">> : i \in {j \in doc.refs : where[j] # NoPath}}]

Nothing == [p \in {} |-> NoDoc]

Init ==
  /\ \E down \in SUBSET (Paths \ {RootPath}) :
       files = [p \in Paths |->
                  IF p = RootPath THEN [down |-> down, links |-> {}, refs |-> {}]
                  ELSE IF p \in down THEN [down |-> {}, links |-> {}, refs |-> {}]
                  ELSE NoDoc]
  /\ where = [i \in Ids |-> NoPath]
  /\ index = NoIndex
  /\ vouched = {}
  /\ ask = NoAsk
  /\ landed = Nothing
  /\ unseen = {}

-----------------------------------------------------------------------------
(* The truth: a census of the files.                                       *)

\* What holds the root, and each document listed by one it holds.
Closed(reached) ==
  RootPath \in reached /\ \A c \in reached : files[c].down \cap Present \subseteq reached

Visited == {p \in Paths : \A reached \in SUBSET Present : Closed(reached) => p \in reached}

Forms == {{"path"}, {"path", "id"}}

\* sources_of, over the edges of a set of documents.
Sources(edges, target, form) ==
  {p \in DOMAIN edges \ {target} : \E f \in form : <<target, f>> \in edges[p].targets}

CensusEdges == [p \in Visited |-> EdgesOf(files[p])]

-----------------------------------------------------------------------------
(* inbound_sources_of.                                                     *)

\* still_fresh: stats only.
StillFresh ==
  /\ DOMAIN index.docs \subseteq vouched
  /\ index.absent \cap Present = {}

Idle == ask = NoAsk /\ landed = Nothing

\* No index, or one that cannot vouch for itself and is dropped: a census.
Ask ==
  /\ Idle
  /\ index # NoIndex => ~StillFresh
  /\ index' = NoIndex
  /\ vouched' = {}
  /\ unseen' = {}
  /\ ask' = [read |-> Nothing, missing |-> {}, todo |-> {}, keep |-> TRUE]
  /\ UNCHANGED <<files, where, landed>>

Known == DOMAIN ask.read
Frontier ==
  ({RootPath} \cup UNION {ask.read[p].spanning : p \in Known}) \ (Known \cup ask.missing)

\* The walk reads a document once: the scope remembers it.
Read(p) ==
  /\ ask # NoAsk
  /\ p \in Frontier
  /\ ask' = IF p \in Present
            THEN [ask EXCEPT !.read = [q \in Known \cup {p} |->
                                         IF q = p THEN EdgesOf(files[p]) ELSE ask.read[q]],
                             !.todo = @ \cup {p}]
            ELSE [ask EXCEPT !.missing = @ \cup {p}]
  /\ UNCHANGED <<files, where, index, vouched, landed, unseen>>

\* index_census: the stamps, once the walk is over.
Stamp(p) ==
  /\ ask # NoAsk
  /\ Frontier = {}
  /\ p \in ask.todo
  /\ ask' = [ask EXCEPT !.todo = @ \ {p}, !.keep = @ /\ p \in Present]
  /\ vouched' = IF p \in Present THEN vouched \cup {p} ELSE vouched
  /\ UNCHANGED <<files, where, index, landed, unseen>>

Answer ==
  /\ ask # NoAsk
  /\ Frontier = {}
  /\ ask.todo = {}
  /\ index' = IF ask.keep THEN [docs |-> ask.read, absent |-> ask.missing] ELSE NoIndex
  /\ vouched' = IF ask.keep THEN vouched ELSE {}
  /\ unseen' = IF ask.keep THEN unseen ELSE {}
  /\ ask' = NoAsk
  /\ UNCHANGED <<files, where, landed>>

-----------------------------------------------------------------------------
(* apply_set.                                                              *)

Drop == index' = NoIndex /\ vouched' = {} /\ unseen' = {}

\* Every document known, and never mind what they list.
KeepsIndexOfKnown(writes) == DOMAIN writes \subseteq DOMAIN index.docs

\* plan_inbound, for a set of writes: all to documents the index knows, none of
\* which lists others than it did.
KeepsIndex(writes) ==
  /\ DOMAIN writes \subseteq DOMAIN index.docs
  /\ \A p \in DOMAIN writes : EdgesOf(writes[p]).spanning = index.docs[p].spanning

\* A set of writes lands; what is known of its documents follows in Settle.
Land(writes) ==
  /\ Idle
  /\ files' = [p \in Paths |-> IF p \in DOMAIN writes THEN writes[p] ELSE files[p]]
  /\ IF index # NoIndex /\ KeepsIndex(writes)
     THEN /\ landed' = [p \in DOMAIN writes |-> EdgesOf(writes[p])]
          /\ vouched' = vouched \ DOMAIN writes
          /\ unseen' = unseen \ DOMAIN writes
          /\ UNCHANGED index
     ELSE Drop /\ UNCHANGED landed
  /\ UNCHANGED <<where, ask>>

\* save_document and the relabels of a retitle: any links, the same entries.
Save(p, links, refs) ==
  /\ p \in Present
  /\ Land([q \in {p} |-> [files[p] EXCEPT !.links = links, !.refs = refs]])
  /\ Cardinality(OtherLinks') <= MaxLinks

\* create and adopt: a document and the entry for it in its parent.
Enter(p, parent) ==
  /\ p \in Paths \ {RootPath, parent}
  /\ parent \in Present
  /\ p \notin files[parent].down
  /\ Land([q \in {p, parent} |->
             IF q = parent THEN [files[parent] EXCEPT !.down = @ \cup {p}]
             ELSE IF p \in Present THEN files[p]
             ELSE [down |-> {}, links |-> {}, refs |-> {}]])

\* reparent: the document, the parent it leaves and the parent it enters.
Reparent(p, old, parent) ==
  /\ {p, old, parent} \subseteq Present
  /\ p \notin {RootPath, old, parent} /\ old # parent
  /\ p \in files[old].down \ files[parent].down
  /\ Land([q \in {p, old, parent} |->
             IF q = parent THEN [files[parent] EXCEPT !.down = @ \cup {p}]
             ELSE [files[q] EXCEPT !.down = @ \ {p}]])

\* delete: the set removes a file, and the entry for it if its parent has one.
Delete(p, parent) ==
  /\ Idle
  /\ p \in Present \ {RootPath, parent}
  /\ parent \in Present
  /\ files' = [files EXCEPT ![p] = NoDoc, ![parent].down = @ \ {p}]
  /\ where' = [i \in Ids |-> IF where[i] = p THEN NoPath ELSE where[i]]
  /\ Drop
  /\ UNCHANGED <<ask, landed>>

\* rename, on an answer from the index: the file moves with its id, and the
\* sources the index names are retargeted.
Retargeted(doc, from, to) ==
  [doc EXCEPT !.down = IF from \in @ THEN (@ \ {from}) \cup {to} ELSE @,
              !.links = IF from \in @ THEN (@ \ {from}) \cup {to} ELSE @]

Rename(from, to) ==
  /\ Idle
  /\ index # NoIndex
  /\ StillFresh
  /\ from \in DOMAIN index.docs \ {RootPath}
  /\ to \in Linkable \ Present
  /\ \A i, j \in Ids : where[i] = from /\ where[j] = to => i = j
  /\ files' = [p \in Paths |->
                 IF p = to THEN files[from]
                 ELSE IF p = from THEN NoDoc
                 ELSE IF p \in Sources(index.docs, from, {"path"})
                 THEN Retargeted(files[p], from, to) ELSE files[p]]
  /\ where' = [i \in Ids |-> IF where[i] = from THEN to ELSE where[i]]
  /\ Drop
  /\ UNCHANGED <<ask, landed>>

\* Fix::RegisterId and commit: an id is bound, and no document is written.  The
\* registry's own write drops the index; with no registry document none is made.
RegisterId(i, p, hosted) ==
  /\ Idle
  /\ p \in Present \ {RootPath}
  /\ where[i] # p
  /\ where' = [j \in Ids |-> IF j = i THEN p ELSE IF where[j] = p THEN NoPath ELSE where[j]]
  /\ IF hosted \/ index = NoIndex THEN Drop
     ELSE /\ unseen' = unseen \cup {q \in Present : \E j \in files[q].refs : where'[j] # where[j]}
          /\ UNCHANGED <<index, vouched>>
  /\ Cardinality(unseen') <= MaxStale
  /\ UNCHANGED <<files, ask, landed>>

\* A set that fails, and recover_journal: forgotten.
Forget ==
  /\ Idle
  /\ index # NoIndex
  /\ Drop
  /\ UNCHANGED <<files, where, ask, landed>>

\* settle_inbound: the stamps the rewritten documents have on disk, or, if one
\* has gone, nothing.
Settle ==
  /\ landed # Nothing
  /\ landed' = Nothing
  /\ IF DOMAIN landed \subseteq Present
     THEN /\ index' = [index EXCEPT !.docs = [p \in DOMAIN index.docs \cup DOMAIN landed |->
                         IF p \in DOMAIN landed THEN landed[p] ELSE index.docs[p]]]
          /\ vouched' = vouched \cup DOMAIN landed
          /\ UNCHANGED unseen
     ELSE Drop
  /\ UNCHANGED <<files, where, ask>>

-----------------------------------------------------------------------------
\* Written or read, and its stamp still to be taken.
Exposed == DOMAIN landed \cup (IF ask = NoAsk THEN {} ELSE ask.todo)

Stale ==
  (IF index # NoIndex THEN DOMAIN index.docs ELSE IF ask # NoAsk THEN Known \ ask.todo ELSE {})
    \ (vouched \cup DOMAIN landed)

\* Another writer makes, edits or removes a document, at any time: what it writes
\* after a read, or a write, and before the stamp is taken for what was read.
External(p, doc) ==
  /\ doc # files[p]
  /\ IF doc = NoDoc THEN p # RootPath ELSE p \notin doc.down
  /\ Cardinality(Stale \cup unseen \cup {p}) <= MaxStale
  /\ files' = [files EXCEPT ![p] = doc]
  /\ Cardinality(OtherLinks') <= MaxLinks
  /\ vouched' = vouched \ {p}
  /\ unseen' = unseen \cup ({p} \cap Exposed)
  /\ UNCHANGED <<where, index, ask, landed>>

Next ==
  \/ Ask \/ Answer \/ Forget \/ Settle
  \/ \E p \in Paths :
       \/ Read(p) \/ Stamp(p)
       \/ \E doc \in Docs \cup {NoDoc} : External(p, doc)
       \/ \E links \in SUBSET Linkable, refs \in SUBSET Ids : Save(p, links, refs)
       \/ \E q \in Paths : Enter(p, q) \/ Delete(p, q) \/ Rename(p, q)
       \/ \E old, q \in Paths : Reparent(p, old, q)
       \/ \E i \in Ids : \E hosted \in BOOLEAN : RegisterId(i, p, hosted)

Spec == Init /\ [][Next]_vars

-----------------------------------------------------------------------------
\* Whatever verbs and other writers have done since, of an index that a sweep of
\* stats finds fresh the links are those of the files but in the documents that
\* changed unseen (a text between its reading and its stamp, an id bound with no
\* registry document); and where there are none, it gives the answer of a census.
FreshIndexIsTheCensus ==
  Idle /\ index # NoIndex /\ StillFresh =>
    /\ \A p \in DOMAIN index.docs : p \in Present /\ (p \in unseen \/ index.docs[p] = EdgesOf(files[p]))
    /\ unseen = {} =>
         \A target \in Paths, form \in Forms :
           Sources(index.docs, target, form) = Sources(CensusEdges, target, form)
=============================================================================
