----------------------------- MODULE Workspace ------------------------------
(***************************************************************************)
(* A Workspace at work (prov/src/workspace.rs, prov/src/mutate, writable   *)
(* .rs): the verbs that give, move and retire ids, the change set each one *)
(* builds, the commit that stamps it, adds the registry and applies it     *)
(* through the journal, and what a failure, a crash or another writer may  *)
(* do in between.                                                          *)
(*                                                                         *)
(* A document is the id it carries and the set of edits other writers have *)
(* made to it; its links are module Containment's.  The registry document  *)
(* is there from the start and stays where it is (module Registry moves    *)
(* it), so it is one of Paths and the store's host throughout.             *)
(*                                                                         *)
(* A verb reads the tree and builds its set in one step (phase "built"),   *)
(* commit stages stamps and registry in a second ("staged") and applies    *)
(* the set in a third: other writers come between.  After a crash, the     *)
(* next session starts with Open.                                          *)
(*                                                                         *)
(* Where ids live is the workspace's to say (id_storage): in the registry, *)
(* in the documents, or in both. A caller persists what a verb could not   *)
(* (persist_identity): the stamps in one set ("stamping"), then, where a   *)
(* registry is kept, the registry in another ("stamped", "saving").        *)
(***************************************************************************)
EXTENDS FileIndex, Sequences, SequencesExt, FiniteSets, FiniteSetsExt, Naturals

CONSTANTS RegPath,   \* the registry document
          NoDoc,     \* nothing at a path
          Unread,    \* a path a set has no expectation of
          NoJournal,
          Edits,     \* the edits other writers may make: the bound on them
          MaxStamps, \* bound on the stamps a session may leave queued
          Policies,  \* what a configuration may have register an id: the
                     \* links "up" and "down" the tree, the event "create"
          Storages,  \* the id_storage a workspace may have been set up with
          Freedoms   \* what may happen besides: a verb fails between change
                     \* and commit ("abandon"), documents are edited from
                     \* outside ("external"), a session recovers the journal
                     \* in its midst ("recoverLate"), a delete of a document
                     \* whose stamp is still queued ("deleteEarned"), a failure
                     \* between the two sets of persist_identity ("persistTorn"),
                     \* another session mints while this one runs
                     \* ("twoSessions")

ASSUME RegPathIsAPath == RegPath \in Paths
ASSUME PathsAreFinite == IsFiniteSet(Paths)
ASSUME DocSentinels == /\ NoDoc \notin [id : Ids \cup {NoId}, edits : SUBSET Edits]
                       /\ Unread \notin [id : Ids \cup {NoId}, edits : SUBSET Edits] \cup {NoDoc}
ASSUME PolicyNames == Policies \subseteq SUBSET {"up", "down", "create"}
ASSUME StorageNames == Storages \subseteq {"registry", "both", "frontmatter"}
ASSUME FreedomNames ==
  Freedoms \subseteq {"abandon", "external", "recoverLate", "deleteEarned", "persistTorn",
                      "twoSessions"}

VARIABLES policy,  \* the configuration, one for the whole behaviour,
          storage, \* but for the id_storage, which its owner may change
          ix,      \* the store in memory
          stamps,  \* pending_stamps: pairs of a path and the id it has earned
          phase,   \* "idle", "built", "staged"; "stamping", "stamped",
                   \* "saving"; or, with no process, "down"
          ops,     \* the operations of the change set being built, in order
          expects, \* what the set expects to find at each path
          tree,    \* the files: docs, and recs, the registry's records
          journal  \* the operations an interrupted apply has left to do

vars == <<policy, storage, ix, stamps, phase, ops, expects, tree, journal>>

DocPaths == Paths \ {RegPath}
Docs == [id : Ids \cup {NoId}, edits : SUBSET Edits]

NoExpectations == [p \in DocPaths |-> Unread]

-----------------------------------------------------------------------------
(* Operations of a change set.                                             *)

WriteOp(p, doc) == [op |-> "write", path |-> p, doc |-> doc]
MoveOp(p, to) == [op |-> "move", path |-> p, to |-> to]
RemoveOp(p) == [op |-> "remove", path |-> p]
RegistryOp(recs) == [op |-> "registry", recs |-> recs]

Ops ==
  [op : {"write"}, path : DocPaths, doc : Docs] \cup
  [op : {"move"}, path : DocPaths, to : DocPaths] \cup
  [op : {"remove"}, path : DocPaths] \cup
  [op : {"registry"}, recs : RecordMaps]

ASSUME NoJournalIsNoSet == NoJournal \notin Seq(Ops)

\* fs-transaction's ops; a replay finds some of them done, and does no harm.
ApplyOp(t, o) ==
  CASE o.op = "write" -> [t EXCEPT !.docs[o.path] = o.doc]
    [] o.op = "move" -> [t EXCEPT !.docs[o.to] = t.docs[o.path], !.docs[o.path] = NoDoc]
    [] o.op = "remove" -> [t EXCEPT !.docs[o.path] = NoDoc]
    [] o.op = "registry" -> [t EXCEPT !.recs = o.recs]

ApplyOps(t, os) ==
  LET done[k \in 0..Len(os)] == IF k = 0 THEN t ELSE ApplyOp(done[k - 1], os[k])
  IN done[Len(os)]

Writes(os, p) == {k \in DOMAIN os : os[k].op = "write" /\ os[k].path = p}
Renames(os, p) == \E k \in DOMAIN os : os[k].op = "move" /\ os[k].path = p

\* ChangeSet::staged, and the tree for what the set does not write.
LoadStaged(os, p) ==
  IF Writes(os, p) = {} THEN tree.docs[p] ELSE os[Max(Writes(os, p))].doc

Present(p) == tree.docs[p] # NoDoc

\* What recovery would make of the files now: the interrupted set, finished.
Healed == IF journal = NoJournal THEN tree ELSE ApplyOps(tree, journal)

-----------------------------------------------------------------------------
(* Where ids live (IdStorage).                                             *)

StampsFrontmatter == storage \in {"both", "frontmatter"}
KeepsRegistry == storage \in {"registry", "both"}

\* scan_ids: what the documents say of themselves.  It registers them one by
\* one, so of two that say the same the one met last has the id; the model
\* leaves open which that is.
Carried(docs) == {p \in DocPaths : docs[p] # NoDoc /\ docs[p].id # NoId}
Carriers(docs, i) == {p \in Carried(docs) : docs[p].id = i}

MetLast(docs) ==
  {at \in [Ids -> DocPaths \cup {NoPath}] :
     \A i \in Ids : IF Carriers(docs, i) = {} THEN at[i] = NoPath
                                              ELSE at[i] \in Carriers(docs, i)}

ScannedIndex(docs) ==
  {[EmptyStore EXCEPT
      !.live = [fwd |-> at, rev |-> [p \in Paths |-> IF \E i \in Ids : at[i] = p
                                                     THEN docs[p].id ELSE NoId]],
      !.dirty = Carried(docs) # {}] : at \in MetLast(docs)}

MarkClean(store) == [store EXCEPT !.dirty = FALSE]

\* open_for_writing: the registry the root declares, or the documents.
Opened(t) ==
  IF KeepsRegistry THEN Parse(RegPath, t.recs, FALSE)
  ELSE {MarkClean(store) : store \in ScannedIndex(t.docs)}

-----------------------------------------------------------------------------
\* A tree whose documents have no ids yet, and its empty registry.
Init ==
  /\ \E present \in SUBSET DocPaths :
       tree = [docs |-> [p \in DocPaths |-> IF p \in present
                                            THEN [id |-> NoId, edits |-> {}] ELSE NoDoc],
               recs |-> NoRecords]
  /\ policy \in Policies
  /\ storage \in Storages
  /\ ix \in Opened(tree)
  /\ stamps = <<>>
  /\ phase = "idle"
  /\ ops = <<>>
  /\ expects = NoExpectations
  /\ journal = NoJournal

-----------------------------------------------------------------------------
(* Registration.                                                           *)

\* register, register_for_authoring: the id the path has, or a minted one.
Registered(store, p) ==
  IF IdForPath(store, p) # NoId THEN {store}
  ELSE {Register(store, i, p) : i \in Ids \ KnownIds(store)}

\* The same, for a link whose style registers its target or does not.
Authored(store, p, link) == IF link \in policy THEN Registered(store, p) ELSE {store}

\* queue_stamp, for a path that has earned an id between two stores.
Earned(before, after, p) ==
  IF StampsFrontmatter /\ IdForPath(before, p) = NoId /\ IdForPath(after, p) # NoId
  THEN <<<<p, IdForPath(after, p)>>>> ELSE <<>>

\* The id of a minted one is queued for its document by the public register,
\* which opens no change set.
RegisterDoc(p) ==
  /\ phase = "idle"
  /\ Present(p)
  /\ Len(stamps) < MaxStamps
  /\ \E store \in Registered(ix, p) :
       /\ store # ix
       /\ ix' = store
       /\ stamps' = stamps \o Earned(ix, store, p)
  /\ UNCHANGED <<policy, storage, phase, ops, expects, tree, journal>>

-----------------------------------------------------------------------------
(* The verbs, up to commit.  change() unwinds an outstanding checkpoint    *)
(* and takes its own; a verb that fails between it and commit leaves what  *)
(* it registered and queued, and no set.                                   *)

Change == Checkpoint(Rollback(ix))

Hand(store, queue, set, expected) ==
  /\ phase' = "built"
  /\ ix' = store
  /\ stamps' = queue
  /\ ops' = set
  /\ expects' = expected
  /\ UNCHANGED <<policy, storage, tree, journal>>

Abandon(store, queue) ==
  /\ "abandon" \in Freedoms
  /\ ix' = store
  /\ stamps' = queue
  /\ UNCHANGED <<policy, storage, phase, ops, expects, tree, journal>>

Expecting(absent, read) ==
  [p \in DocPaths |-> IF p \in absent THEN NoDoc
                      ELSE IF p \in read THEN tree.docs[p] ELSE Unread]

\* The documents a verb writes back besides its own, in whatever order.
Rewrites(ps) == SetToSeqs({WriteOp(p, tree.docs[p]) : p \in ps})

\* stage_create: the up link may register the parent, the down link the child,
\* and an eager policy the child at birth, whose id is composed into it.
Create(p, parent) ==
  /\ phase = "idle"
  /\ Len(stamps) + 2 <= MaxStamps
  /\ Present(parent)
  /\ ~Present(p)
  /\ \E up \in Authored(Change, parent, "up") :
     \E down \in Authored(up, p, "down") :
     \E store \in Authored(down, p, "create") :
       LET queue == stamps \o Earned(Change, down, parent) \o Earned(Change, down, p)
       IN \/ Abandon(store, queue)
          \/ Hand(store, queue,
                  <<WriteOp(p, [id |-> IF StampsFrontmatter THEN IdForPath(store, p) ELSE NoId,
                                edits |-> {}]),
                    WriteOp(parent, tree.docs[parent])>>,
                  Expecting({p}, {}))

\* adopt, and a reparent of a document that has no parent to leave.
Adopt(child, parent) ==
  /\ phase = "idle"
  /\ Len(stamps) + 2 <= MaxStamps
  /\ child # parent
  /\ Present(child)
  /\ Present(parent)
  /\ \E up \in Authored(Change, parent, "up") :
     \E store \in Authored(up, child, "down") :
       LET queue == stamps \o Earned(Change, store, parent) \o Earned(Change, store, child)
       IN \/ Abandon(store, queue)
          \/ Hand(store, queue, <<WriteOp(child, tree.docs[child]),
                                  WriteOp(parent, tree.docs[parent])>>, NoExpectations)

\* rename: the document, the documents that link to it by path, and its id.
RenameDoc(from, to, inbound) ==
  LET id == IdForPath(ix, from)
      moved == IF id = NoId THEN Change ELSE SetPath(Change, id, to)
  IN /\ phase = "idle"
     /\ Present(from)
     /\ ~Present(to)
     /\ \A p \in inbound : Present(p) /\ p # from
     /\ id # NoId => IdForPath(ix, to) \in {NoId, id}
     /\ \E rewrites \in Rewrites(inbound) :
          Hand(moved, stamps,
               <<MoveOp(from, to), WriteOp(to, tree.docs[from])>> \o rewrites,
               Expecting({to}, inbound \cup {from}))

\* delete: the document, the entry for it in its parent, if it has one, and
\* its id, read before change().
Delete(p, parents) ==
  LET id == IdForPath(ix, p)
  IN /\ phase = "idle"
     /\ Present(p)
     /\ \A q \in parents : Present(q) /\ q # p
     /\ "deleteEarned" \in Freedoms \/ \A k \in DOMAIN stamps : stamps[k][1] # p
     /\ \E rewrites \in Rewrites(parents) :
          Hand(IF id = NoId THEN Change ELSE Unregister(Change, id), stamps,
               <<RemoveOp(p)>> \o rewrites, NoExpectations)

\* retitle: the document and the documents whose labels spell its title.
Retitle(p, inbound) ==
  /\ phase = "idle"
  /\ Present(p)
  /\ \A q \in inbound : Present(q) /\ q # p
  /\ \E rewrites \in Rewrites(inbound) :
       Hand(Change, stamps, <<WriteOp(p, tree.docs[p])>> \o rewrites,
            Expecting({}, inbound \cup {p}))

-----------------------------------------------------------------------------
(* Workspace::commit.                                                      *)

\* The stamp of a document the set renames lands where it was.
StampOpsOntoRenamed(os, stamp) ==
  LET doc == LoadStaged(os, stamp[1])
  IN IF doc = NoDoc THEN os
     ELSE IF doc.id = stamp[2] THEN os
     ELSE Append(os, WriteOp(stamp[1], [doc EXCEPT !.id = stamp[2]]))

\* stage_pending_stamps: one document written with its id, over what the set
\* already writes there; a renamed or missing document is skipped, and one
\* that carries the id already needs nothing.
StampOps(os, stamp) ==
  LET doc == LoadStaged(os, stamp[1])
  IN IF Renames(os, stamp[1]) \/ doc = NoDoc THEN os
     ELSE IF doc.id = stamp[2] THEN os
     ELSE Append(os, WriteOp(stamp[1], [doc EXCEPT !.id = stamp[2]]))

Stamped(os, queue) ==
  LET done[k \in 0..Len(queue)] == IF k = 0 THEN os ELSE StampOps(done[k - 1], queue[k])
  IN done[Len(queue)]

\* The registry goes last.
WithRegistry(os) == IF HasPendingWrite(ix) THEN Append(os, RegistryOp(Render(ix).text)) ELSE os

Stage ==
  /\ phase = "built"
  /\ phase' = "staged"
  /\ ops' = WithRegistry(Stamped(ops, stamps))
  /\ stamps' = <<>>
  /\ ix' = PendingWrite(ix)
  /\ UNCHANGED <<policy, storage, expects, tree, journal>>

\* The unwinding forgotten on the way out.
UndoNothing == ix

Undo == Rollback(ix)

Settle(store) ==
  /\ phase' = "idle"
  /\ ix' = store
  /\ ops' = <<>>
  /\ expects' = NoExpectations

\* A document that does not parse when its stamp is due.
StageFails ==
  /\ phase = "built"
  /\ stamps # <<>>
  /\ stamps' = <<>>
  /\ Settle(Undo)
  /\ UNCHANGED <<policy, storage, tree, journal>>

StagesRegistry == \E k \in DOMAIN ops : ops[k].op = "registry"

\* The expectations staged and never looked at.
DriftIgnored == FALSE

Drifted == \E p \in DocPaths : expects[p] # Unread /\ expects[p] # tree.docs[p]

\* The journal is there (StaleJournal), or an expectation fails (Drifted).
Refused == journal # NoJournal \/ Drifted

\* What a set leaves of the store: a verb's, by way of commit, is settled either
\* way; those of persist_identity were rendered from a store nobody unwinds.
AfterFailure == IF phase = "staged" THEN Undo ELSE ix
AfterLanding ==
  CASE phase = "staged" -> Committed(ix, StagesRegistry)
    [] phase = "stamping" -> ix
    [] phase = "saving" -> Committed(ix, TRUE)

Applying == phase \in {"staged", "stamping", "saving"}

\* persist_identity is half done: documents carry what no registry has yet.
HalfPersisted ==
  /\ phase \in {"stamping", "stamped", "saving"}
  /\ KeepsRegistry /\ ix.dirty /\ journal = NoJournal
MayStopHere == HalfPersisted => "persistTorn" \in Freedoms

ApplyRefused ==
  /\ Applying
  /\ Refused
  /\ Settle(AfterFailure)
  /\ UNCHANGED <<policy, storage, stamps, tree, journal>>

ApplyLands ==
  /\ Applying
  /\ ~Refused
  /\ tree' = ApplyOps(tree, ops)
  /\ phase' = IF phase = "stamping" THEN "stamped" ELSE "idle"
  /\ ix' = AfterLanding
  /\ ops' = <<>>
  /\ expects' = NoExpectations
  /\ UNCHANGED <<policy, storage, stamps, journal>>

\* An operation fails and those before it are undone.
ApplyFails ==
  /\ Applying
  /\ phase = "saving" => MayStopHere
  /\ ~Refused
  /\ Settle(AfterFailure)
  /\ UNCHANGED <<policy, storage, stamps, tree, journal>>

\* The set stops after k operations; the journal still holds it.
Interrupted(k) ==
  /\ Applying
  /\ MayStopHere
  /\ ~Refused
  /\ Len(ops) > 1
  /\ tree' = ApplyOps(tree, SubSeq(ops, 1, k))
  /\ journal' = SubSeq(ops, k + 1, Len(ops))

\* Undoing failed too (Torn), and the process goes on.
ApplyTorn(k) ==
  /\ Interrupted(k)
  /\ Settle(AfterFailure)
  /\ UNCHANGED <<policy, storage, stamps>>

Down ==
  /\ phase' = "down"
  /\ ops' = <<>>
  /\ expects' = NoExpectations
  /\ stamps' = <<>>
  /\ ix' = EmptyStore

CrashInApply(k) == Interrupted(k) /\ Down /\ UNCHANGED <<policy, storage>>

\* Anywhere else, the last instant of an apply included, a crash loses memory.
Crash ==
  /\ phase # "down"
  /\ MayStopHere
  /\ Down
  /\ UNCHANGED <<policy, storage, tree, journal>>

-----------------------------------------------------------------------------
(* Workspace::persist_identity, which a caller runs after a verb.          *)

Unstamped(p) == Present(p) /\ IdForPath(ix, p) \notin {NoId, tree.docs[p].id}

\* stamp_ids: every live id, into its document.
StampIds ==
  /\ phase = "idle"
  /\ StampsFrontmatter
  /\ \E p \in DocPaths : Unstamped(p)
  /\ phase' = "stamping"
  /\ ops' \in SetToSeqs({WriteOp(p, [tree.docs[p] EXCEPT !.id = IdForPath(ix, p)]) :
                            p \in {q \in DocPaths : Unstamped(q)}})
  /\ UNCHANGED <<policy, storage, ix, stamps, expects, tree, journal>>

\* save_index: the registry as it is on disk, brought up to date, where one is
\* kept and something has changed.
SaveIndex ==
  /\ \/ phase = "stamped"
     \/ phase = "idle" /\ ix.dirty /\ (StampsFrontmatter => \A p \in DocPaths : ~Unstamped(p))
  /\ LET store == SetHost(ix, RegPath, tree.recs, FALSE)
     IN IF KeepsRegistry /\ ix.dirty
        THEN /\ phase' = "saving"
             /\ ix' = PendingWrite(store)
             /\ ops' = <<RegistryOp(Render(store).text)>>
        ELSE /\ phase' = "idle"
             /\ ix' = IF KeepsRegistry THEN ix ELSE MarkClean(ix)
             /\ UNCHANGED ops
  /\ UNCHANGED <<policy, storage, stamps, expects, tree, journal>>

-----------------------------------------------------------------------------
(* Sessions.                                                               *)

\* The journal thrown away: the interrupted set left half applied.
RecoverDiscarding ==
  /\ journal # NoJournal
  /\ phase = "down" \/ (phase = "idle" /\ "recoverLate" \in Freedoms)
  /\ journal' = NoJournal
  /\ UNCHANGED <<policy, storage, ix, stamps, phase, ops, expects, tree>>

\* recover_journal: before the next session opens or, by a caller that does as
\* StaleJournal says, in the middle of one.
Recover ==
  /\ journal # NoJournal
  /\ phase = "down" \/ (phase = "idle" /\ "recoverLate" \in Freedoms)
  /\ tree' = Healed
  /\ journal' = NoJournal
  /\ UNCHANGED <<policy, storage, ix, stamps, phase, ops, expects>>

\* open_for_writing, once recovery has run.
Open ==
  /\ phase = "down"
  /\ journal = NoJournal
  /\ phase' = "idle"
  /\ ix' \in Opened(tree)
  /\ UNCHANGED <<policy, storage, stamps, ops, expects, tree, journal>>

\* The owner has ids kept in the documents as well, between two sessions: those
\* the registry has are back-filled by the next persist_identity.
Migrate ==
  /\ phase = "down"
  /\ journal = NoJournal
  /\ storage = "registry"
  /\ storage' = "both"
  /\ UNCHANGED <<policy, ix, stamps, phase, ops, expects, tree, journal>>

\* Another session, opened on the files as they are, gives a document its id.
OtherSession(p, i) ==
  /\ phase = "down" \/ "twoSessions" \in Freedoms
  /\ journal = NoJournal
  /\ KeepsRegistry
  /\ Present(p) /\ tree.docs[p].id = NoId
  /\ tree.recs[i] = NoRecord /\ \A j \in Ids : tree.recs[j] # p
  /\ tree' = [tree EXCEPT !.docs[p].id = IF StampsFrontmatter THEN i ELSE NoId, !.recs[i] = p]
  /\ UNCHANGED <<policy, storage, ix, stamps, phase, ops, expects, journal>>

\* Another writer edits a document, once per edit and never over an
\* interrupted set.
ExternalEdit(p, e) ==
  /\ "external" \in Freedoms
  /\ journal = NoJournal
  /\ Present(p)
  /\ \A q \in DocPaths : Present(q) => e \notin tree.docs[q].edits
  /\ tree' = [tree EXCEPT !.docs[p].edits = @ \cup {e}]
  /\ UNCHANGED <<policy, storage, ix, stamps, phase, ops, expects, journal>>

-----------------------------------------------------------------------------
Next ==
  \/ \E p \in DocPaths : RegisterDoc(p)
  \/ \E p, parent \in DocPaths : Create(p, parent) \/ Adopt(p, parent)
  \/ \E p \in DocPaths, others \in SUBSET DocPaths :
       \/ \E to \in DocPaths : RenameDoc(p, to, others)
       \/ Cardinality(others) <= 1 /\ Delete(p, others)
       \/ Retitle(p, others)
  \/ Stage
  \/ StageFails
  \/ ApplyRefused
  \/ ApplyLands
  \/ ApplyFails
  \/ \E k \in 0..Len(ops) : ApplyTorn(k) \/ CrashInApply(k)
  \/ StampIds
  \/ SaveIndex
  \/ Crash
  \/ Recover
  \/ Open
  \/ Migrate
  \/ \E p \in DocPaths, i \in Ids : OtherSession(p, i)
  \/ \E p \in DocPaths, e \in Edits : ExternalEdit(p, e)

Spec == Init /\ [][Next]_vars

-----------------------------------------------------------------------------
(* Properties.  They speak of Healed: a half-applied set counts as what    *)
(* recovery is bound to make of it.                                        *)

\* The registry as it is, and between the two sets of persist_identity as the
\* session is bound to leave it.
Records == IF HalfPersisted /\ phase # "stamping" THEN CurrentRecords(ix) ELSE Healed.recs

\* The two homes of an id cannot disagree because of an interrupted write: a
\* document that carries an id is the one the registry has for it, so no two
\* documents carry one id and none carries an id the registry has not heard of.
\* Where no registry is kept, the documents have nothing but one another.
TwoHomesAgree ==
  \A p \in Carried(Healed.docs) :
    /\ KeepsRegistry => Records[Healed.docs[p].id] = p
    /\ \A q \in Carried(Healed.docs) \ {p} : Healed.docs[q].id # Healed.docs[p].id

\* The registry names no document that was never written or is gone.
RecordsNameDocuments ==
  KeepsRegistry =>
    \A i \in Ids : Healed.recs[i] \in Paths => Healed.docs[Healed.recs[i]] # NoDoc

\* What the registry has recorded stays recorded, through failures and crashes.
NothingRecordedIsDropped ==
  [][\A i \in Ids : Healed.recs[i] # NoRecord => (Healed.recs[i])' # NoRecord]_vars

EditsAt(t, ps) == UNION {t.docs[p].edits : p \in {q \in ps : t.docs[q] # NoDoc}}

\* A set that read a document as an expectation never loses another writer's
\* edit to it: the edit is in what lands, or the set is refused.
GuardedReadsKeepEdits ==
  [][phase = "staged" =>
       EditsAt(Healed, {p \in DocPaths : expects[p] # Unread}) \subseteq
         (EditsAt(Healed, DocPaths))']_vars

=============================================================================
