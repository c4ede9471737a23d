------------------------------ MODULE Registry ------------------------------
(***************************************************************************)
(* A registry in use: one FileIndex held by a Workspace                    *)
(* (prov/src/workspace.rs), the registry document on disk, and the pointer *)
(* the root document keeps at it.  The documents the ids name are left to  *)
(* module Workspace; here a change set is only what it does to the         *)
(* registry document: leave it alone, rewrite its other keys, move it.     *)
(*                                                                         *)
(* Workspace::commit rebases the store on its change set, renders it,      *)
(* applies the set and then keeps or rolls back the store, with no other   *)
(* call in between (it holds &mut self), so a commit is one step here: it  *)
(* lands or it fails.                                                      *)
(***************************************************************************)
EXTENDS FileIndex

CONSTANTS HostPaths,    \* where the registry document may live
          NoFile,
          MovesCanFail \* whether a set that moves the registry may fail

ASSUME HostPathsArePaths == HostPaths \subseteq Paths
ASSUME NoFileIsNoText == NoFile \notin [recs : RecordMaps, bare : BOOLEAN]
ASSUME MovesCanFailIsBoolean == MovesCanFail \in BOOLEAN

VARIABLES ix,      \* the store in memory
          disk,    \* what each host path holds
          pointer  \* the registry document the root declares, or NoPath

vars == <<ix, disk, pointer>>

Texts == [recs : RecordMaps, bare : BOOLEAN]
EmptyText == [recs |-> NoRecords, bare |-> FALSE]

\* The store, the files and the pointer have their types.
TypeOK ==
  /\ ix \in Stores
  /\ disk \in [HostPaths -> Texts \cup {NoFile}]
  /\ pointer \in HostPaths \cup {NoPath}

-----------------------------------------------------------------------------
(* open_for_writing: the declared registry, parsed, or an empty store.  A  *)
(* declared file that is not there reads as an empty text.                 *)

DeclaredText == IF disk[pointer] = NoFile THEN EmptyText ELSE disk[pointer]

OpenStores ==
  IF pointer = NoPath THEN {EmptyStore}
                      ELSE Parse(pointer, DeclaredText.recs, DeclaredText.bare)

\* A workspace with no registry yet, or one an earlier session (or an older
\* prov, whose ids may be bare numbers) wrote.
Init ==
  /\ \/ /\ pointer = NoPath
        /\ disk = [h \in HostPaths |-> NoFile]
     \/ /\ pointer \in HostPaths
        /\ \E text \in Texts :
             /\ Uncontested(text.recs)
             /\ text.bare => text.recs # NoRecords
             /\ disk = [h \in HostPaths |-> IF h = pointer THEN text ELSE NoFile]
  /\ ix \in OpenStores

-----------------------------------------------------------------------------
(* The calls of an operation on the store.                                 *)

\* Workspace::change: an abandoned operation's leavings are unwound first.
Change ==
  /\ ix' = Checkpoint(Rollback(ix))
  /\ UNCHANGED <<disk, pointer>>

\* register and register_for_authoring: an id no record knows, at a path that
\* has none.
Mint(id, p) ==
  /\ IdForPath(ix, p) = NoId
  /\ ~IsKnown(ix, id)
  /\ ix' = Register(ix, id, p)
  /\ UNCHANGED <<disk, pointer>>

\* An id carried to a path: set_path by a move, register by a restore or a
\* repair.  Unguarded: the store is the last line of defence.
Carry(id, p) ==
  /\ ix' = SetPath(ix, id, p)
  /\ UNCHANGED <<disk, pointer>>

Retire(id) ==
  /\ ix' = Unregister(ix, id)
  /\ UNCHANGED <<disk, pointer>>

-----------------------------------------------------------------------------
(* Workspace::commit.  The set leaves the declared registry document at    *)
(* dest (elsewhere than pointer if it moves it, and then where no file     *)
(* was), and rewrites it or not.                                           *)

SetMay(dest) == pointer # NoPath /\ (dest = pointer \/ disk[dest] = NoFile)

\* renamed_to, asked about this store's host.
HostAfter(dest) == IF ix.host = pointer THEN dest ELSE ix.host

\* The rewritten text carries the records that are on disk: the operation
\* edited other keys of the document.
Rebased(dest, rewrites) ==
  IF rewrites /\ HostAfter(dest) = dest
  THEN RebaseStaged(ix, dest, DeclaredText.recs, DeclaredText.bare)
  ELSE RebaseMoved(ix, HostAfter(dest))

Staged(dest, rewrites) == PendingWrite(Rebased(dest, rewrites))

\* The files after the set: the move, and then the registry's own write, last.
MovedFiles(dest) ==
  [h \in HostPaths |-> IF h = dest THEN disk[pointer]
                       ELSE IF h = pointer THEN NoFile ELSE disk[h]]

FilesAfter(dest, rewrites) ==
  LET based == Rebased(dest, rewrites)
      store == Staged(dest, rewrites)
  IN IF HasPendingWrite(based)
     THEN [MovedFiles(dest) EXCEPT ![store.host] = [recs |-> store.text, bare |-> store.requote]]
     ELSE MovedFiles(dest)

CommitLands(dest, rewrites) ==
  /\ ix.saved # NoCheckpoint
  /\ SetMay(dest)
  /\ disk' = FilesAfter(dest, rewrites)
  /\ pointer' = dest
  /\ ix' = Committed(Staged(dest, rewrites), HasPendingWrite(Rebased(dest, rewrites)))

\* A workspace with no registry document commits too, and stays dirty.
CommitLandsUnhosted ==
  /\ ix.saved # NoCheckpoint
  /\ pointer = NoPath
  /\ ix' = Committed(ix, HasPendingWrite(ix))
  /\ UNCHANGED <<disk, pointer>>

CommitFails(dest, rewrites) ==
  /\ ix.saved # NoCheckpoint
  /\ SetMay(dest)
  /\ MovesCanFail \/ dest = pointer
  /\ ix' = Rollback(Staged(dest, rewrites))
  /\ UNCHANGED <<disk, pointer>>

CommitFailsUnhosted ==
  /\ ix.saved # NoCheckpoint
  /\ pointer = NoPath
  /\ ix' = Rollback(ix)
  /\ UNCHANGED <<disk, pointer>>

-----------------------------------------------------------------------------
(* writable.rs.                                                            *)

\* ensure_registry: a registry document and the pointer at it, in one set.
EnsureRegistry(h) ==
  /\ pointer = NoPath
  /\ pointer' = h
  /\ disk' = [disk EXCEPT ![h] = EmptyText]
  /\ UNCHANGED ix

\* save_index: the declared document is adopted as host and written.
Adopted == SetHost(ix, pointer, DeclaredText.recs, DeclaredText.bare)

SaveIndex ==
  /\ pointer # NoPath
  /\ ix.dirty
  /\ ix' = Committed(PendingWrite(Adopted), TRUE)
  /\ disk' = [disk EXCEPT ![pointer] = [recs |-> PendingWrite(Adopted).text,
                                         bare |-> PendingWrite(Adopted).requote]]
  /\ UNCHANGED pointer

\* The write fails, and nothing is rolled back.
SaveIndexFails ==
  /\ pointer # NoPath
  /\ ix.dirty
  /\ ix' = PendingWrite(Adopted)
  /\ UNCHANGED <<disk, pointer>>

\* The process ends, at any point, and another opens the workspace.
Reopen ==
  /\ ix' \in OpenStores
  /\ UNCHANGED <<disk, pointer>>

-----------------------------------------------------------------------------
Next ==
  \/ Change
  \/ \E id \in Ids, p \in Paths : Mint(id, p) \/ Carry(id, p)
  \/ \E id \in Ids : Retire(id)
  \/ \E dest \in HostPaths, rewrites \in BOOLEAN :
       CommitLands(dest, rewrites) \/ CommitFails(dest, rewrites)
  \/ CommitLandsUnhosted
  \/ CommitFailsUnhosted
  \/ \E h \in HostPaths : EnsureRegistry(h)
  \/ SaveIndex
  \/ SaveIndexFails
  \/ Reopen

Spec == Init /\ [][Next]_vars

-----------------------------------------------------------------------------
\* The two maps of the live half name each other, in the store and in its
\* checkpoint: no id resolves to two paths and no path carries two ids.
Bijection ==
  /\ IsBijection(ix.live)
  /\ ix.saved # NoCheckpoint => IsBijection(ix.saved.live)

\* An id is live, retired or unknown, and never live and retired at once.
LiveOrRetired ==
  /\ \A i \in ix.tomb : ix.live.fwd[i] = NoPath
  /\ ix.saved # NoCheckpoint => \A i \in ix.saved.tomb : ix.saved.live.fwd[i] = NoPath

\* A rendered registry reads back as itself, tombstones included, whatever
\* calls led to it.
ReadsBack ==
  ix.host # NoPath =>
    \A s \in Parse(ix.host, Render(ix).text, Render(ix).requote) :
      s.live = ix.live /\ s.tomb = ix.tomb

\* A store that says it has nothing to write is on disk, where the root looks.
CleanIsDurable ==
  ~ix.dirty /\ pointer # NoPath =>
    \A i \in KnownIds(ix) : DeclaredText.recs[i] = CurrentRecords(ix)[i]

\* The registry is an implementation of the ledger: an id's status in memory,
\* in the checkpoint and in the declared document.
Ledger == INSTANCE IdLedger WITH
  Fresh <- NoRecord,
  Retired <- Null,
  NoUndo <- NoCheckpoint,
  status <- StatusOf(ix.live, ix.tomb),
  undo <- IF ix.saved = NoCheckpoint THEN NoCheckpoint
          ELSE StatusOf(ix.saved.live, ix.saved.tomb),
  durable <- IF pointer = NoPath THEN NoRecords ELSE DeclaredText.recs,
  homed <- ix.host # NoPath

\* Every step of the registry is a step of the ledger, or changes nothing it
\* speaks of.
ImplementsLedger == Ledger!Spec

=============================================================================
