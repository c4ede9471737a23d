------------------------------ MODULE FileIndex ------------------------------
(***************************************************************************)
(* The persistent id registry of prov-store/src/index.rs as a value and    *)
(* the methods on it as operators: a method that takes &mut self is an     *)
(* operator from the store before the call to the store after it.  The     *)
(* modules that keep a registry (Registry, Workspace) hold such a value in *)
(* a variable and apply these operators to it.                             *)
(*                                                                         *)
(* A store is a record                                                     *)
(*   live       the two maps of InMemoryIndex: fwd (id to path) and rev    *)
(*              (path to id); an id or path that has no entry maps to      *)
(*              NoPath or NoId                                             *)
(*   tomb       the retired ids                                            *)
(*   host       the document the registry is written into, or NoPath       *)
(*   text       the records host_text spells under its `registry` key      *)
(*   persisted  the records this store believes it has written there       *)
(*   requote    host_text spells some id as a bare number                  *)
(*   dirty      there is something to write                                *)
(*   saved      the last checkpoint, or NoCheckpoint                       *)
(* The other keys, comments and layout of the host document are left out,  *)
(* and so is has_registry_key: a text with no `registry` key spells no     *)
(* record, and the branch of render for it writes what the general one     *)
(* would.                                                                  *)
(***************************************************************************)
CONSTANTS Ids,          \* the ids a workspace can mint
          Paths,        \* workspace-relative paths
          NoId, NoPath, \* no entry in a map; NoPath is also "no host"
          Null,         \* the record of a tombstone, `id: null`
          NoRecord,     \* an id the text has no line for
          NoCheckpoint

ASSUME SentinelsAreApart ==
  /\ NoId \notin Ids
  /\ NoPath \notin Paths
  /\ Null \notin Paths
  /\ NoRecord \notin Paths \cup {Null}

LiveMaps == [fwd : [Ids -> Paths \cup {NoPath}], rev : [Paths -> Ids \cup {NoId}]]

\* What a registry document spells: a path, a tombstone, or nothing, per id.
RecordMaps == [Ids -> Paths \cup {Null, NoRecord}]

Snapshots ==
  [live : LiveMaps, tomb : SUBSET Ids, text : RecordMaps, persisted : RecordMaps,
   requote : BOOLEAN, dirty : BOOLEAN]

Stores ==
  [live : LiveMaps, tomb : SUBSET Ids, host : Paths \cup {NoPath},
   text : RecordMaps, persisted : RecordMaps, requote : BOOLEAN, dirty : BOOLEAN,
   saved : Snapshots \cup {NoCheckpoint}]

\* A missing checkpoint is no checkpoint, and no records one could hold.
ASSUME CheckpointsAreApart == NoCheckpoint \notin Snapshots /\ NoCheckpoint \notin RecordMaps

NoLive == [fwd |-> [i \in Ids |-> NoPath], rev |-> [p \in Paths |-> NoId]]
NoRecords == [i \in Ids |-> NoRecord]

\* FileIndex::new: an empty registry with no document behind it.
EmptyStore ==
  [live |-> NoLive, tomb |-> {}, host |-> NoPath, text |-> NoRecords,
   persisted |-> NoRecords, requote |-> FALSE, dirty |-> FALSE, saved |-> NoCheckpoint]

\* The two maps name each other.
IsBijection(live) ==
  \A i \in Ids, p \in Paths : live.fwd[i] = p <=> live.rev[p] = i

-----------------------------------------------------------------------------
(* Lookups.                                                                *)

Resolve(ix, id) == ix.live.fwd[id]
IdForPath(ix, p) == ix.live.rev[p]
IsKnown(ix, id) == Resolve(ix, id) # NoPath \/ id \in ix.tomb
KnownIds(ix) == {id \in Ids : IsKnown(ix, id)}

-----------------------------------------------------------------------------
(* InMemoryIndex: the live half.                                           *)

\* A plausible slip: the path the id leaves keeps its reverse entry.
LiveRegisterKeepingOldPath(live, id, p) ==
  LET displaced == IF live.fwd[id] = p THEN NoId ELSE live.rev[p]
  IN [fwd |-> [i \in Ids |-> IF i = id THEN p
                             ELSE IF i = displaced THEN NoPath ELSE live.fwd[i]],
      rev |-> [live.rev EXCEPT ![p] = id]]

\* register: the id leaves the path it had, and the path the id it had.
LiveRegister(live, id, p) ==
  LET left == live.fwd[id]
      displaced == IF left = p THEN NoId ELSE live.rev[p]
  IN [fwd |-> [i \in Ids |-> IF i = id THEN p
                             ELSE IF i = displaced THEN NoPath ELSE live.fwd[i]],
      rev |-> [q \in Paths |-> IF q = p THEN id
                               ELSE IF q = left THEN NoId ELSE live.rev[q]]]

LiveUnregister(live, id) ==
  [fwd |-> [live.fwd EXCEPT ![id] = NoPath],
   rev |-> [q \in Paths |-> IF q = live.fwd[id] THEN NoId ELSE live.rev[q]]]

-----------------------------------------------------------------------------
(* What a mutation does to the records.                                    *)

\* The eviction without the tombstone it is meant to leave.
RegisterForgettingDisplaced(ix, id, p) ==
  [ix EXCEPT !.live = LiveRegister(ix.live, id, p),
             !.tomb = @ \ {id},
             !.dirty = TRUE]

\* Un-retiring skipped: the id would be live and retired at once.
RegisterKeepingTombstone(ix, id, p) ==
  LET displaced == {IdForPath(ix, p)} \ {NoId, id}
  IN [ix EXCEPT !.live = LiveRegister(ix.live, id, p),
                !.tomb = @ \cup displaced,
                !.dirty = TRUE]

\* register, and set_path, which is the same operation: what the id displaces
\* is retired, and the id itself is no longer.
Register(ix, id, p) ==
  LET displaced == {IdForPath(ix, p)} \ {NoId, id}
  IN [ix EXCEPT !.live = LiveRegister(ix.live, id, p),
                !.tomb = (@ \cup displaced) \ {id},
                !.dirty = TRUE]

SetPath(ix, id, p) == Register(ix, id, p)

Unregister(ix, id) ==
  [ix EXCEPT !.live = LiveUnregister(ix.live, id),
             !.tomb = @ \cup {id},
             !.dirty = TRUE]

-----------------------------------------------------------------------------
(* The registry document.                                                  *)

\* `current` in render: live records laid down over the tombstones.
CurrentRecords(ix) ==
  [i \in Ids |-> IF ix.live.fwd[i] # NoPath THEN ix.live.fwd[i]
                 ELSE IF i \in ix.tomb THEN Null ELSE NoRecord]

\* The same, of a store's records or of a checkpoint's.
StatusOf(live, tomb) ==
  [i \in Ids |-> IF live.fwd[i] # NoPath THEN live.fwd[i]
                 ELSE IF i \in tomb THEN Null ELSE NoRecord]

\* Only live records written: the tombstones stay in memory.
RenderWithoutTombstones(ix) ==
  LET current == [i \in Ids |-> IF ix.live.fwd[i] # NoPath THEN ix.live.fwd[i] ELSE NoRecord]
  IN [ix EXCEPT !.text = [i \in Ids |-> IF current[i] = NoRecord THEN @[i] ELSE current[i]],
                !.persisted = current]

\* render: nothing when nothing changed; the whole value, once, when the text
\* must be requoted; otherwise an upsert of each record that differs from what
\* this store wrote last, which leaves the lines it does not know about.
Render(ix) ==
  LET current == CurrentRecords(ix)
      upserted == [i \in Ids |-> IF current[i] \in {NoRecord, ix.persisted[i]}
                                 THEN ix.text[i] ELSE current[i]]
  IN IF current = ix.persisted THEN ix
     ELSE [ix EXCEPT !.text = IF ix.requote THEN current ELSE upserted,
                     !.persisted = current,
                     !.requote = FALSE]

HasPendingWrite(ix) == ix.dirty /\ ix.host # NoPath

\* The store after pending_write; what it stages is its `text`, at its `host`.
PendingWrite(ix) == IF HasPendingWrite(ix) THEN Render(ix) ELSE ix

\* set_host: the write target is adopted, the records in memory stay.
SetHost(ix, p, recs, bare) ==
  [ix EXCEPT !.host = p, !.text = recs, !.persisted = recs, !.requote = bare]

\* A text no two lines of which claim one path: what prov itself writes.
Uncontested(recs) ==
  \A i, j \in Ids : recs[i] = recs[j] /\ recs[i] \in Paths => i = j

\* Two ids may claim one path in a text.  parse registers the lines in document
\* order with the eviction of LiveRegister, so the last one keeps the path; the
\* model leaves the order of the lines open.
Claimants(recs, p) == {i \in Ids : recs[i] = p}

PathOwners(recs) ==
  {w \in [Paths -> Ids \cup {NoId}] :
     \A p \in Paths : IF Claimants(recs, p) = {} THEN w[p] = NoId
                                                ELSE w[p] \in Claimants(recs, p)}

\* Every record read as a live one, a tombstone as the path it does not have.
LiveOfEveryRecord(recs, owner) ==
  [fwd |-> [i \in Ids |-> IF recs[i] = NoRecord THEN NoPath ELSE recs[i]],
   rev |-> owner]

LiveOf(recs, owner) ==
  [fwd |-> [i \in Ids |-> IF recs[i] \in Paths /\ owner[recs[i]] = i
                          THEN recs[i] ELSE NoPath],
   rev |-> owner]

\* parse: the stores a registry document reads as.
Parse(p, recs, bare) ==
  {[live |-> LiveOf(recs, owner), tomb |-> {i \in Ids : recs[i] = Null},
    host |-> p, text |-> recs, persisted |-> recs, requote |-> bare,
    dirty |-> FALSE, saved |-> NoCheckpoint] : owner \in PathOwners(recs)}

-----------------------------------------------------------------------------
(* The staging hooks Workspace::change and Workspace::commit call.         *)

Checkpoint(ix) ==
  [ix EXCEPT !.saved = [live |-> ix.live, tomb |-> ix.tomb, text |-> ix.text,
                        persisted |-> ix.persisted, requote |-> ix.requote,
                        dirty |-> ix.dirty]]

\* rollback: every field of the snapshot; host is not one of them.
Rollback(ix) ==
  IF ix.saved = NoCheckpoint THEN ix
  ELSE [ix EXCEPT !.live = ix.saved.live, !.tomb = ix.saved.tomb,
                  !.text = ix.saved.text, !.persisted = ix.saved.persisted,
                  !.requote = ix.saved.requote, !.dirty = ix.saved.dirty,
                  !.saved = NoCheckpoint]

\* The write counted as landed whether or not it was staged.
CommittedAlwaysClean(ix, persisted) == [ix EXCEPT !.saved = NoCheckpoint, !.dirty = FALSE]

Committed(ix, persisted) ==
  [ix EXCEPT !.saved = NoCheckpoint, !.dirty = @ /\ ~persisted]

\* rebase, for a set that leaves the host at dest with its bytes as they were.
RebaseMoved(ix, dest) == IF ix.host = NoPath THEN ix ELSE [ix EXCEPT !.host = dest]

\* rebase, for a set that stages the text (recs, bare) of the host at dest.
RebaseStaged(ix, dest, recs, bare) ==
  IF ix.host = NoPath THEN ix ELSE SetHost(ix, dest, recs, bare)
=============================================================================
