----------------------------- MODULE Deletions ------------------------------
(***************************************************************************)
(* The deletion log and restore (prov/src/mutate/tombstone.rs, delete.rs): *)
(* what a delete writes down, and what restore repairs from it once        *)
(* somebody has put the bytes back.  A record of the recycle bin the log   *)
(* replaced parks its bytes, and restore moves them home.                  *)
(*                                                                         *)
(* A document is its text (which document it is), the id it spells, its    *)
(* link up and its links down.  ids is module IdLedger's status: what the  *)
(* registry has for each id.  A verb reads and builds its set in one step  *)
(* and lands in another: a second session may delete, and a version        *)
(* control put a file back, between the two.                               *)
(***************************************************************************)
EXTENDS Naturals, FiniteSets, Sequences, SequencesExt

CONSTANTS Paths, RootPath, Ids, Texts,
          NoPath, NoDoc, NoId, NoLog, NoPlan, Fresh, Retired,
          MaxLog,    \* bound on the records of the log
          Freedoms   \* a path the log names already is used, or deleted at, again ("again")

ASSUME DeletionsRoot == RootPath \in Paths
ASSUME DeletionsSettings == MaxLog \in Nat /\ Freedoms \subseteq {"again"}

VARIABLES stamps,  \* id_storage: whether documents spell their ids
          docs,    \* the files
          ids,     \* of each id: its path, Retired, or Fresh
          log,     \* the records, or NoLog where there is no log document
          linked,  \* the root points at the log
          parked,  \* the bytes a recycle bin keeps, by the path they came from
          deleted, \* of each path: the document last deleted there
          plan     \* the set a verb has built, or NoPlan

vars == <<stamps, docs, ids, log, linked, parked, deleted, plan>>

Docs == [text : Texts, id : Ids \cup {NoId}, up : Paths \cup {NoPath}, down : SUBSET Paths]
Records == [from : Paths, parent : Paths \cup {NoPath}, id : Ids \cup {NoId}, bin : BOOLEAN]

ASSUME DeletionsSentinels ==
  /\ NoPath \notin Paths /\ NoId \notin Ids /\ NoDoc \notin Docs /\ NoLog \notin Seq(Records)
  /\ {Fresh, Retired} \cap Paths = {}

Present == {p \in Paths : docs[p] # NoDoc}
IdAt(p) == IF \E i \in Ids : ids[i] = p THEN CHOOSE i \in Ids : ids[i] = p ELSE NoId
Recorded == IF log = NoLog THEN {} ELSE {log[k].from : k \in DOMAIN log}
Unused == Texts \ {d.text : d \in (Range(docs) \cup Range(parked) \cup Range(deleted)) \ {NoDoc}}

Leaf(text, id, parent) == [text |-> text, id |-> id, up |-> parent, down |-> {}]
Spelled(id) == IF stamps THEN id ELSE NoId

\* A root, and a workspace that is new or still has the recycle bin of an older
\* prov, with one document in it.
Init ==
  /\ stamps \in BOOLEAN
  /\ plan = NoPlan
  /\ deleted = [p \in Paths |-> NoDoc]
  /\ \E text \in Texts :
       docs = [p \in Paths |-> IF p = RootPath THEN Leaf(text, NoId, NoPath) ELSE NoDoc]
  /\ \/ /\ log = NoLog
        /\ linked = FALSE
        /\ parked = deleted
        /\ ids = [i \in Ids |-> Fresh]
     \/ \E p \in Paths \ {RootPath}, i \in Ids, text \in Texts \ {docs[RootPath].text} :
          /\ log = <<[from |-> p, parent |-> RootPath, id |-> i, bin |-> TRUE]>>
          /\ linked = TRUE
          /\ parked = [deleted EXCEPT ![p] = Leaf(text, Spelled(i), RootPath)]
          /\ ids = [j \in Ids |-> IF j = i THEN Retired ELSE Fresh]

-----------------------------------------------------------------------------
(* The registry, and the climb.                                            *)

Registered(status, i, p) ==
  [j \in Ids |-> IF j = i THEN p ELSE IF status[j] = p THEN Retired ELSE status[j]]

\* spanning_root: where the climb by links up ends, at a file or at none.
SpanningRoot(p) ==
  LET Rung(n, q) == IF q \in Present /\ docs[q].up # NoPath THEN docs[q].up ELSE q
  IN FoldSet(Rung, p, 1..Cardinality(Paths))

-----------------------------------------------------------------------------
(* The verbs that do not touch the log: create, rename, and whatever gives *)
(* a document an id.                                                       *)

Idle == plan = NoPlan /\ UNCHANGED <<stamps, log, linked, parked, deleted, plan>>

Unrecorded(p) == "again" \in Freedoms \/ p \notin Recorded
Free(p) == p \notin Present /\ Unrecorded(p)

Create(p, parent) ==
  /\ Idle
  /\ Free(p)
  /\ parent \in Present
  /\ \E text \in Unused :
       docs' = [docs EXCEPT ![p] = Leaf(text, NoId, parent), ![parent].down = @ \cup {p}]
  /\ UNCHANGED ids

\* register_for_authoring: a document something links to earns an id.
Earn(p, i) ==
  /\ Idle
  /\ p \in Present \ {RootPath}
  /\ IdAt(p) = NoId
  /\ ids[i] = Fresh
  /\ ids' = Registered(ids, i, p)
  /\ docs' = IF stamps THEN [docs EXCEPT ![p].id = i] ELSE docs

\* rename, of a document in the root's tree (module Containment has the others):
\* the links the census finds follow, and so does the registry.
Closed(reached) ==
  RootPath \in reached /\ \A c \in reached : docs[c].down \cap Present \subseteq reached

Visited == {p \in Present : \A reached \in SUBSET Present : Closed(reached) => p \in reached}

Moved(q, from, to) == IF q = from THEN to ELSE q
Retargeted(doc, from, to) ==
  [doc EXCEPT !.up = Moved(@, from, to), !.down = {Moved(q, from, to) : q \in @}]

Rename(from, to) ==
  /\ Idle
  /\ from \in Visited \ {RootPath}
  /\ Free(to)
  /\ IdAt(from) # NoId => IdAt(to) = NoId
  /\ docs' = [q \in Paths |-> IF q = to THEN docs[from]
                              ELSE IF q = from THEN NoDoc
                              ELSE IF q \in Visited THEN Retargeted(docs[q], from, to)
                              ELSE docs[q]]
  /\ ids' = IF IdAt(from) = NoId THEN ids ELSE Registered(ids, IdAt(from), to)

-----------------------------------------------------------------------------
(* The verbs that do.  A plan is the documents it writes, what it makes of *)
(* the registry and the log, the log it expects to find, the paths it      *)
(* expects to find empty, and the records it means to cut.                 *)

Plan(writes, status, records, absent, cut) ==
  /\ plan = NoPlan
  /\ plan' = [writes |-> writes, ids |-> status, log |-> records, read |-> log,
              absent |-> absent, cut |-> cut]
  /\ UNCHANGED <<stamps, docs, ids, log, linked, parked, deleted>>

\* unregister: the delete retires the id the path has.
Unregistered(p) == [i \in Ids |-> IF ids[i] = p THEN Retired ELSE ids[i]]

\* delete: refused to a document with children, to one whose parent can not be
\* read, and where the climb to the log's root ends at no document.  The root
\* gains the pointer to the log in the set that creates it.
Delete(p) ==
  LET parent == docs[p].up
      records == IF log = NoLog THEN <<>> ELSE log
      record == [from |-> p, parent |-> parent, id |-> IdAt(p), bin |-> FALSE]
      pointer == IF linked THEN {} ELSE {RootPath}
      writes == [q \in {p, parent} \cup pointer |->
                   IF q = parent THEN [docs[q] EXCEPT !.down = @ \ {p}]
                   ELSE IF q = p THEN NoDoc ELSE docs[q]]
  IN /\ p \in Present \ {RootPath}
     /\ Unrecorded(p)
     /\ docs[p].down = {}
     /\ parent \in Present
     /\ SpanningRoot(p) \in Present
     /\ Len(records) < MaxLog
     /\ Plan(writes, Unregistered(p), Append(records, record), {}, {})

\* registration_conflict, both ways.
ConflictUnasked(i, p) == FALSE
Conflict(i, p) == ids[i] \in Paths \ {p} \/ IdAt(p) \notin {NoId, i}

\* restore: the first record of the path, and the bytes at the path or parked.
\* The id is the record's; the parent, if it is there, lists the path again.
First(pos, p) == log[pos].from = p /\ \A k \in DOMAIN log : log[k].from = p => pos <= k

Restore(p) ==
  /\ linked
  /\ p \in Recorded
  /\ \E pos \in DOMAIN log :
       LET record == log[pos]
           home == record.bin /\ parked[p] # NoDoc
           back == IF home THEN parked[p] ELSE docs[p]
           parent == {record.parent} \cap Present
           writes == [q \in parent \cup (IF home THEN {p} ELSE {}) |->
                        IF q \in parent THEN [docs[q] EXCEPT !.down = @ \cup {p}] ELSE back]
       IN /\ First(pos, p)
          /\ home <=> p \notin Present
          /\ record.id # NoId => back.id \in {NoId, record.id} /\ ~Conflict(record.id, p)
          /\ Plan(writes,
                  IF record.id = NoId THEN ids ELSE Registered(ids, record.id, p),
                  RemoveAt(log, pos),
                  IF home THEN {p} ELSE {},
                  {record})

\* clear_deletions: the records go, and what the bin has parked for them.
Clear ==
  /\ linked
  /\ Plan([q \in {} |-> NoDoc], ids, <<>>, {}, Range(log))

-----------------------------------------------------------------------------
(* The landing: whole, or refused because what was read has changed.       *)

DriftedUnasked == FALSE
DriftedNoAbsence == log # plan.read
Drifted == log # plan.read \/ plan.absent \cap Present # {}

\* What the bin parked for a record goes with the record, home or for good.
ParkedAfter(cut) ==
  [p \in Paths |-> IF \E r \in cut : r.from = p /\ r.bin THEN NoDoc ELSE parked[p]]

Land ==
  /\ plan # NoPlan
  /\ ~Drifted
  /\ docs' = [p \in Paths |-> IF p \in DOMAIN plan.writes THEN plan.writes[p] ELSE docs[p]]
  /\ ids' = plan.ids
  /\ log' = plan.log
  /\ linked' = TRUE
  /\ parked' = ParkedAfter(plan.cut)
  /\ deleted' = [p \in Paths |-> IF p \in Present /\ docs'[p] = NoDoc THEN docs[p] ELSE deleted[p]]
  /\ plan' = NoPlan
  /\ UNCHANGED stamps

Refuse ==
  /\ plan # NoPlan
  /\ Drifted
  /\ plan' = NoPlan
  /\ UNCHANGED <<stamps, docs, ids, log, linked, parked, deleted>>

-----------------------------------------------------------------------------
(* The others.                                                             *)

\* A second session deletes a document that has no id.
OtherDelete(p) ==
  LET parent == docs[p].up
      records == IF log = NoLog THEN <<>> ELSE log
  IN /\ p \in Present \ {RootPath}
     /\ Unrecorded(p)
     /\ docs[p].down = {} /\ docs[p].id = NoId /\ IdAt(p) = NoId
     /\ parent \in Present
     /\ SpanningRoot(p) \in Present
     /\ Len(records) < MaxLog
     /\ docs' = [docs EXCEPT ![p] = NoDoc, ![parent].down = @ \ {p}]
     /\ log' = Append(records, [from |-> p, parent |-> parent, id |-> NoId, bin |-> FALSE])
     /\ linked' = TRUE
     /\ deleted' = [deleted EXCEPT ![p] = docs[p]]
     /\ UNCHANGED <<stamps, ids, parked, plan>>

\* Version control puts back what was last deleted at a path.
PutBack(p) ==
  /\ p \notin Present
  /\ deleted[p] # NoDoc
  /\ docs' = [docs EXCEPT ![p] = deleted[p]]
  /\ UNCHANGED <<stamps, ids, log, linked, parked, deleted, plan>>

\* A sync brings a file, which nothing lists, to a path the bin has bytes of.
Arrive(p) ==
  /\ p \notin Present
  /\ parked[p] # NoDoc
  /\ \E text \in Unused : docs' = [docs EXCEPT ![p] = Leaf(text, NoId, RootPath)]
  /\ UNCHANGED <<stamps, ids, log, linked, parked, deleted, plan>>

Next ==
  \/ \E p, q \in Paths : Create(p, q) \/ Rename(p, q)
  \/ \E p \in Paths, i \in Ids : Earn(p, i)
  \/ \E p \in Paths : Delete(p) \/ Restore(p) \/ OtherDelete(p) \/ PutBack(p) \/ Arrive(p)
  \/ Clear \/ Land \/ Refuse

Spec == Init /\ [][Next]_vars

-----------------------------------------------------------------------------
\* Each entry names a document that is there and claims the one that lists it:
\* two sessions that delete at once do not bring each other's entries back.
EntriesAreAnswered ==
  \A c \in Present : \A p \in docs[c].down : p \in Present /\ docs[p].up = c

\* A record leaves the log by a verb that read it and means to cut it; none is
\* lost to a log written over a racing delete's.
RecordsAreKept ==
  [][log # NoLog => \A r \in Range(log) : r \in Range(log') \/ (plan # NoPlan /\ r \in plan.cut)]_vars

TextsOf(files) == {d.text : d \in Range(files) \ {NoDoc}}

\* What a document was is in the tree, in the bin or where version control can
\* find it; only clear_deletions (a set that expects no path empty) destroys
\* bytes, and only what the bin had.
BytesAreKept ==
  [][/\ TextsOf(docs) \subseteq (TextsOf(docs) \cup TextsOf(parked) \cup TextsOf(deleted))'
     /\ \A p \in Paths : parked[p] # NoDoc /\ parked'[p] = NoDoc =>
          docs'[p] = parked[p] \/ plan.absent = {}]_vars

\* A live id stays live while its document does.
LiveIdsStay ==
  [][\A i \in Ids, p \in Present :
       ids[i] = p /\ ids'[i] \notin Paths => docs'[p] = NoDoc]_vars
=============================================================================
