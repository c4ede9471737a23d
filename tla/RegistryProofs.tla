--------------------------- MODULE RegistryProofs ---------------------------
(***************************************************************************)
(* Every id resolves to at most one path, every path carries at most one   *)
(* id, and no id is live and retired at once, for every set of ids and     *)
(* paths and whatever the workspace asks of its registry.                  *)
(*                                                                         *)
(* And what the registry keeps across its document: a rendered registry    *)
(* reads back as itself, nothing the declared document records is          *)
(* forgotten, a store with nothing to write is on disk, and every step of  *)
(* the registry is a step of the ledger of IdLedger, whose promises the    *)
(* registry keeps.                                                         *)
(*                                                                         *)
(* The lemmas of FileIndexProofs say what each method does to a store; the *)
(* theorems walk the actions of Registry through them.                     *)
(***************************************************************************)
EXTENDS Registry, FileIndexProofs

\* The inductive invariant: a sound store, and files of the right shape.
IInv ==
  /\ StoreOK(ix)
  /\ disk \in [HostPaths -> Texts \cup {NoFile}]
  /\ pointer \in HostPaths \cup {NoPath}

\* It is the conjunction of the invariants the runs check.
LEMMA IInvMeaning == IInv <=> TypeOK /\ Bijection /\ LiveOrRetired
  BY DEF IInv, StoreOK, RecordsOK, TypeOK, Bijection, LiveOrRetired

\* The declared text is a text, whatever the file.
LEMMA DeclaredTextOK ==
  ASSUME IInv, pointer # NoPath
  PROVE  /\ pointer \in HostPaths /\ pointer \in Paths
         /\ DeclaredText \in Texts
         /\ DeclaredText.recs \in RecordMaps /\ DeclaredText.bare \in BOOLEAN
<1>1. EmptyText \in Texts
  BY DEF EmptyText, Texts, NoRecords, RecordMaps
<1> QED
  BY <1>1, HostPathsArePaths DEF IInv, DeclaredText, Texts

\* Opening a workspace yields a sound store.
LEMMA OpenStoresOK ==
  ASSUME IInv \/ (/\ disk \in [HostPaths -> Texts \cup {NoFile}]
                  /\ pointer \in HostPaths \cup {NoPath}),
         NEW s \in OpenStores
  PROVE  StoreOK(s)
<1>1. CASE pointer = NoPath
  BY <1>1, EmptyStoreOK DEF OpenStores
<1>2. CASE pointer # NoPath
  <2>1. DeclaredText \in Texts /\ pointer \in Paths
    <3>1. EmptyText \in Texts
      BY DEF EmptyText, Texts, NoRecords, RecordMaps
    <3> QED
      BY <1>2, <3>1, HostPathsArePaths DEF IInv, DeclaredText
  <2>2. DeclaredText.recs \in RecordMaps /\ DeclaredText.bare \in BOOLEAN
    BY <2>1 DEF Texts
  <2>3. s \in Parse(pointer, DeclaredText.recs, DeclaredText.bare)
    BY <1>2 DEF OpenStores
  <2> QED
    BY <2>1, <2>2, <2>3, ParseOK
<1> QED
  BY <1>1, <1>2

\* The store a commit renders is sound.
LEMMA StagedOK ==
  ASSUME IInv, NEW dest \in HostPaths, NEW rewrites \in BOOLEAN, pointer # NoPath
  PROVE  /\ StoreOK(Rebased(dest, rewrites))
         /\ StoreOK(Staged(dest, rewrites))
         /\ Staged(dest, rewrites).host = Rebased(dest, rewrites).host
<1>1. StoreOK(ix) /\ dest \in Paths
  BY HostPathsArePaths DEF IInv
<1>2. HostAfter(dest) \in Paths \cup {NoPath}
  BY <1>1 DEF HostAfter, StoreOK, Stores
<1>3. StoreOK(RebaseStaged(ix, dest, DeclaredText.recs, DeclaredText.bare))
  BY <1>1, DeclaredTextOK, SetHostOK DEF RebaseStaged
<1>4. StoreOK(RebaseMoved(ix, HostAfter(dest)))
  <2>1. /\ RebaseMoved(ix, HostAfter(dest)) \in Stores
        /\ RebaseMoved(ix, HostAfter(dest)).live = ix.live
        /\ RebaseMoved(ix, HostAfter(dest)).tomb = ix.tomb
        /\ RebaseMoved(ix, HostAfter(dest)).saved = ix.saved
    BY <1>1, <1>2 DEF RebaseMoved, StoreOK, Stores
  <2> QED
    BY <1>1, <2>1, SameRecordsOK
<1>5. StoreOK(Rebased(dest, rewrites))
  BY <1>3, <1>4 DEF Rebased
<1> QED
  BY <1>5, PendingWriteOK DEF Staged

-----------------------------------------------------------------------------
\* A workspace starts sound: open_for_writing hands out a parsed or empty store.
LEMMA InitOK == Init => IInv
<1> SUFFICES ASSUME Init
             PROVE  IInv
  OBVIOUS
<1>1. disk \in [HostPaths -> Texts \cup {NoFile}] /\ pointer \in HostPaths \cup {NoPath}
  BY DEF Init
<1>2. StoreOK(ix)
  BY <1>1, OpenStoresOK DEF Init
<1> QED
  BY <1>1, <1>2 DEF IInv

\* Each operation keeps it so: a call on the store, a commit that lands or is
\* rolled back, a save, a restart.
LEMMA NextOK == IInv /\ [Next]_vars => IInv'
<1> SUFFICES ASSUME IInv, [Next]_vars
             PROVE  IInv'
  OBVIOUS
<1> USE DEF IInv
<1>1. CASE Change
  BY <1>1, RollbackOK, CheckpointOK DEF Change
<1>2. ASSUME NEW id \in Ids, NEW p \in Paths, Mint(id, p) \/ Carry(id, p)
      PROVE  IInv'
  BY <1>2, RegisterOK DEF Mint, Carry, SetPath
<1>3. ASSUME NEW id \in Ids, Retire(id)
      PROVE  IInv'
  BY <1>3, UnregisterOK DEF Retire
<1>4. ASSUME NEW dest \in HostPaths, NEW rewrites \in BOOLEAN, CommitLands(dest, rewrites)
      PROVE  IInv'
  <2> DEFINE based == Rebased(dest, rewrites)
             store == Staged(dest, rewrites)
  <2>1. pointer # NoPath
    BY <1>4 DEF CommitLands, SetMay
  <2>2. StoreOK(based) /\ StoreOK(store) /\ store.host = based.host
    BY <2>1, StagedOK
  <2>3. HasPendingWrite(based) \in BOOLEAN
    BY <2>2 DEF HasPendingWrite, StoreOK, Stores
  <2>4. StoreOK(ix')
    BY <1>4, <2>2, <2>3, CommittedOK DEF CommitLands
  <2>5. MovedFiles(dest) \in [HostPaths -> Texts \cup {NoFile}]
    BY <2>1 DEF MovedFiles
  <2>6. [recs |-> store.text, bare |-> store.requote] \in Texts
    BY <2>2 DEF Texts, StoreOK, Stores
  <2>7. disk' \in [HostPaths -> Texts \cup {NoFile}]
    BY <1>4, <2>5, <2>6 DEF CommitLands, FilesAfter
  <2> QED
    BY <1>4, <2>4, <2>7 DEF CommitLands
<1>5. ASSUME NEW dest \in HostPaths, NEW rewrites \in BOOLEAN, CommitFails(dest, rewrites)
      PROVE  IInv'
  <2>1. StoreOK(Staged(dest, rewrites))
    BY <1>5, StagedOK DEF CommitFails, SetMay
  <2> QED
    BY <1>5, <2>1, RollbackOK DEF CommitFails
<1>6. CASE CommitLandsUnhosted
  <2>1. HasPendingWrite(ix) \in BOOLEAN
    BY DEF HasPendingWrite, StoreOK, Stores
  <2> QED
    BY <1>6, <2>1, CommittedOK DEF CommitLandsUnhosted
<1>7. CASE CommitFailsUnhosted
  BY <1>7, RollbackOK DEF CommitFailsUnhosted
<1>8. ASSUME NEW h \in HostPaths, EnsureRegistry(h)
      PROVE  IInv'
  <2>1. EmptyText \in Texts
    BY DEF EmptyText, Texts, NoRecords, RecordMaps
  <2> QED
    BY <1>8, <2>1 DEF EnsureRegistry
<1>9. CASE SaveIndex \/ SaveIndexFails
  <2> DEFINE store == PendingWrite(Adopted)
  <2>1. pointer # NoPath
    BY <1>9 DEF SaveIndex, SaveIndexFails
  <2>2. StoreOK(store)
    BY <2>1, DeclaredTextOK, SetHostOK, PendingWriteOK DEF Adopted
  <2>3. StoreOK(Committed(store, TRUE))
    BY <2>2, CommittedOK
  <2>4. [recs |-> store.text, bare |-> store.requote] \in Texts
    BY <2>2 DEF Texts, StoreOK, Stores
  <2> QED
    BY <1>9, <2>1, <2>2, <2>3, <2>4 DEF SaveIndex, SaveIndexFails
<1>10. CASE Reopen
  BY <1>10, OpenStoresOK DEF Reopen
<1>11. CASE UNCHANGED vars
  BY <1>11 DEF vars
<1> QED
  BY <1>1, <1>2, <1>3, <1>4, <1>5, <1>6, <1>7, <1>8, <1>9, <1>10, <1>11 DEF Next

-----------------------------------------------------------------------------
\* Every value the registry, its checkpoint and its document ever hold has the
\* shape the code gives it.
THEOREM TypeCorrect == Spec => []TypeOK
<1>1. IInv => TypeOK
  BY IInvMeaning
<1> QED
  BY <1>1, InitOK, NextOK, PTL DEF Spec

\* No sequence of registrations, moves, retirements, failed, abandoned or
\* landed operations, and restarts leaves one id at two paths or one path with
\* two ids.
THEOREM BijectionHolds == Spec => []Bijection
<1>1. IInv => Bijection
  BY IInvMeaning
<1> QED
  BY <1>1, InitOK, NextOK, PTL DEF Spec

\* Nor does it leave an id live and retired at once.
THEOREM LiveOrRetiredHolds == Spec => []LiveOrRetired
<1>1. IInv => LiveOrRetired
  BY IInvMeaning
<1> QED
  BY <1>1, InitOK, NextOK, PTL DEF Spec

-----------------------------------------------------------------------------
\* What the next session reads.
Durable == IF pointer = NoPath THEN NoRecords ELSE DeclaredText.recs

(* The inductive invariant.                                                *)

\* What holds whether or not a set that moves the registry document may fail.
KInv ==
  /\ IInv
  /\ AllKept(ix, Durable)
  /\ Uncontested(Durable)
  /\ pointer = NoPath => ix.host = NoPath

\* What holds if it may not: the store writes where the root looks, and so
\* knows when it has nothing to write.
CInv ==
  /\ ix.host \in {NoPath, pointer}
  /\ AllClean(ix, Durable)

\* The durable records are records.
LEMMA DurableOK == ASSUME IInv PROVE Durable \in RecordMaps
<1>1. NoRecords \in RecordMaps
  BY DEF NoRecords, RecordMaps
<1> QED
  BY <1>1, DeclaredTextOK DEF Durable

\* A workspace just opened believes what is durable.
LEMMA OpenStoresKept ==
  ASSUME disk \in [HostPaths -> Texts \cup {NoFile}], pointer \in HostPaths \cup {NoPath},
         Uncontested(Durable), NEW s \in OpenStores
  PROVE  /\ AllKept(s, Durable) /\ AllClean(s, Durable)
         /\ Status(s) = Durable /\ s.saved = NoCheckpoint
         /\ s.host = pointer
<1>1. StoreOK(s)
  BY OpenStoresOK
<1>2. CASE pointer = NoPath
  <2>1. s = EmptyStore /\ Durable = NoRecords
    BY <1>2 DEF OpenStores, Durable
  <2>2. /\ s.text = s.persisted /\ s.persisted = NoRecords
        /\ s.saved = NoCheckpoint /\ s.host = NoPath
    BY <2>1 DEF EmptyStore
  <2>3. Status(s) = NoRecords
    BY <2>1 DEF EmptyStore, Status, StatusOf, NoLive, NoRecords
  <2> QED
    BY <1>1, <1>2, <2>1, <2>2, <2>3 DEF AllKept, Kept, Covers, AllClean, Clean
<1>3. CASE pointer # NoPath
  <2>1. EmptyText \in Texts
    BY DEF EmptyText, Texts, NoRecords, RecordMaps
  <2>2. DeclaredText \in Texts /\ pointer \in Paths
    BY <1>3, <2>1, HostPathsArePaths DEF DeclaredText
  <2>3. /\ Durable = DeclaredText.recs /\ Durable \in RecordMaps
        /\ DeclaredText.bare \in BOOLEAN
    BY <1>3, <2>2 DEF Texts, Durable
  <2>4. s \in Parse(pointer, Durable, DeclaredText.bare)
    BY <1>3, <2>3 DEF OpenStores
  <2>5. /\ Status(s) = Durable /\ s.saved = NoCheckpoint /\ s.host = pointer
        /\ s.text = Durable /\ s.persisted = Durable
    BY <2>2, <2>3, <2>4, ParseStatus
  <2> QED
    BY <1>1, <2>5 DEF AllKept, Kept, Covers, AllClean, Clean
<1> QED
  BY <1>2, <1>3

\* rebase keeps what is kept, and follows the host where the set takes it.
LEMMA RebasedKept ==
  ASSUME KInv, pointer # NoPath, NEW dest \in HostPaths, NEW rewrites \in BOOLEAN
  PROVE  /\ AllKept(Rebased(dest, rewrites), Durable)
         /\ AllClean(ix, Durable) => AllClean(Rebased(dest, rewrites), Durable)
         /\ Status(Rebased(dest, rewrites)) = Status(ix)
         /\ Rebased(dest, rewrites).saved = ix.saved
         /\ Rebased(dest, rewrites).dirty = ix.dirty
         /\ Rebased(dest, rewrites).host =
              IF ix.host = NoPath THEN NoPath ELSE HostAfter(dest)
<1>1. /\ AllKept(ix, Durable) /\ IInv /\ Durable = DeclaredText.recs /\ Durable \in RecordMaps
      /\ DeclaredText.bare \in BOOLEAN /\ dest \in Paths
  BY DeclaredTextOK, DurableOK, HostPathsArePaths DEF KInv, Durable
<1>2. HostAfter(dest) \in Paths \cup {NoPath}
  BY <1>1 DEF HostAfter, IInv, StoreOK, Stores
<1>3. CASE rewrites /\ HostAfter(dest) = dest
  <2>1. Rebased(dest, rewrites) = IF ix.host = NoPath THEN ix
                                  ELSE SetHost(ix, dest, Durable, DeclaredText.bare)
    BY <1>1, <1>3 DEF Rebased, RebaseStaged
  <2>2. CASE ix.host = NoPath
    BY <1>1, <2>1, <2>2
  <2>3. CASE ix.host # NoPath
    <3> DEFINE t == SetHost(ix, dest, Durable, DeclaredText.bare)
    <3>1. /\ AllKept(t, Durable) /\ (AllClean(ix, Durable) => AllClean(t, Durable))
          /\ Status(t) = Status(ix) /\ t.saved = ix.saved /\ t.host = dest
          /\ t.dirty = ix.dirty
      BY <1>1, SetHostKept
    <3> QED
      BY <1>3, <2>1, <2>3, <3>1
  <2> QED
    BY <2>2, <2>3
<1>4. CASE ~(rewrites /\ HostAfter(dest) = dest)
  <2>1. Rebased(dest, rewrites) = RebaseMoved(ix, HostAfter(dest))
    BY <1>4 DEF Rebased
  <2> QED
    BY <1>1, <1>2, <2>1, RebaseMovedKept
<1> QED
  BY <1>3, <1>4

\* And so does the store a commit renders.
LEMMA StagedKept ==
  ASSUME KInv, pointer # NoPath, NEW dest \in HostPaths, NEW rewrites \in BOOLEAN
  PROVE  /\ AllKept(Staged(dest, rewrites), Durable)
         /\ AllClean(ix, Durable) => AllClean(Staged(dest, rewrites), Durable)
         /\ Status(Staged(dest, rewrites)) = Status(ix)
         /\ Staged(dest, rewrites).saved = ix.saved
         /\ Staged(dest, rewrites).dirty = ix.dirty
         /\ Staged(dest, rewrites).host = Rebased(dest, rewrites).host
         /\ HasPendingWrite(Rebased(dest, rewrites)) =>
              Staged(dest, rewrites).text = Status(ix)
<1> DEFINE based == Rebased(dest, rewrites)
<1>1. /\ AllKept(based, Durable) /\ Status(based) = Status(ix)
      /\ AllClean(ix, Durable) => AllClean(based, Durable)
      /\ based.saved = ix.saved /\ based.dirty = ix.dirty
  BY RebasedKept
<1>2. StoreOK(based) /\ based.text = based.persisted /\ Covers(based, based.persisted)
  BY <1>1 DEF AllKept, Kept
<1>3. Staged(dest, rewrites) = PendingWrite(based)
  BY DEF Staged
<1> HIDE DEF based
<1>4. /\ AllKept(PendingWrite(based), Durable)
      /\ AllClean(based, Durable) => AllClean(PendingWrite(based), Durable)
      /\ PendingWrite(based).host = based.host
  BY <1>1, <1>2, PendingWriteKept, PendingWriteOK
<1>5. /\ Status(PendingWrite(based)) = Status(based)
      /\ PendingWrite(based).saved = based.saved
      /\ PendingWrite(based).dirty = based.dirty
      /\ HasPendingWrite(based) => PendingWrite(based).text = Status(based)
  BY <1>2, PendingWriteStatus
<1> QED
  BY <1>1, <1>3, <1>4, <1>5 DEF based

-----------------------------------------------------------------------------
(* What each action does to the records, the checkpoint and the document.  *)

\* The declared document after a set that leaves it at dest: the registry's own
\* write, if there is one and it goes there, or what was declared before.
LEMMA FilesAfterEffect ==
  ASSUME KInv, pointer # NoPath, NEW dest \in HostPaths, NEW rewrites \in BOOLEAN,
         disk' = FilesAfter(dest, rewrites), pointer' = dest
  PROVE  Durable' = IF /\ HasPendingWrite(Rebased(dest, rewrites))
                       /\ Rebased(dest, rewrites).host = dest
                    THEN Status(ix) ELSE Durable
<1> DEFINE based == Rebased(dest, rewrites)
           store == Staged(dest, rewrites)
           text == [recs |-> store.text, bare |-> store.requote]
<1>1. /\ dest \in Paths /\ dest # NoPath /\ pointer \in HostPaths
      /\ disk \in [HostPaths -> Texts \cup {NoFile}]
  BY HostPathsArePaths, SentinelsAreApart DEF KInv, IInv
<1>2. /\ store.host = based.host /\ (HasPendingWrite(based) => store.text = Status(ix))
      /\ StoreOK(store)
  BY StagedKept DEF AllKept
<1>3. MovedFiles(dest) \in [HostPaths -> Texts \cup {NoFile}] /\ MovedFiles(dest)[dest] = disk[pointer]
  BY <1>1 DEF MovedFiles
<1>4. disk' = IF HasPendingWrite(based) THEN [MovedFiles(dest) EXCEPT ![store.host] = text]
                                        ELSE MovedFiles(dest)
  BY DEF FilesAfter
<1>5. text # NoFile /\ text.recs = store.text
  BY <1>2, NoFileIsNoText DEF StoreOK, Stores
<1> HIDE DEF based, store, text
<1>6. disk'[dest] = IF HasPendingWrite(based) /\ based.host = dest THEN text ELSE disk[pointer]
  BY <1>1, <1>2, <1>3, <1>4
<1>7. /\ Durable' = (IF disk'[dest] = NoFile THEN EmptyText ELSE disk'[dest]).recs
      /\ Durable = (IF disk[pointer] = NoFile THEN EmptyText ELSE disk[pointer]).recs
  BY <1>1 DEF Durable, DeclaredText
<1> QED
  BY <1>2, <1>5, <1>6, <1>7 DEF based

\* A commit that lands: the records stay, and are durable if they were written
\* where the root looks.
LEMMA CommitLandsEffect ==
  ASSUME KInv, NEW dest \in HostPaths, NEW rewrites \in BOOLEAN, CommitLands(dest, rewrites)
  PROVE  /\ AllKept(ix', Durable') /\ Uncontested(Durable')
         /\ pointer' = dest /\ pointer' # NoPath
         /\ Status(ix') = Status(ix) /\ ix.saved # NoCheckpoint /\ ix'.saved = NoCheckpoint
         /\ ix'.host = IF ix.host = NoPath THEN NoPath ELSE HostAfter(dest)
         /\ ix'.dirty <=> ix.dirty /\ ix.host = NoPath
         /\ Durable' = IF ix.dirty /\ ix.host # NoPath /\ HostAfter(dest) = dest
                       THEN Status(ix) ELSE Durable
<1> DEFINE based == Rebased(dest, rewrites)
           store == Staged(dest, rewrites)
<1>1. pointer # NoPath /\ dest # NoPath
  BY HostPathsArePaths, SentinelsAreApart DEF CommitLands, SetMay
<1>2. /\ AllKept(store, Durable) /\ Status(store) = Status(ix) /\ store.host = based.host
      /\ store.dirty = ix.dirty
  BY <1>1, StagedKept
<1>3. based.host = (IF ix.host = NoPath THEN NoPath ELSE HostAfter(dest)) /\ based.dirty = ix.dirty
  BY <1>1, RebasedKept
<1>4. HasPendingWrite(based) \in BOOLEAN /\ (HasPendingWrite(based) <=> ix.dirty /\ ix.host # NoPath)
  BY <1>1, <1>3 DEF HasPendingWrite, HostAfter, KInv, IInv, StoreOK, Stores
<1>5. Durable' = IF HasPendingWrite(based) /\ based.host = dest THEN Status(ix) ELSE Durable
  BY <1>1, FilesAfterEffect DEF CommitLands
<1>6. ix' = Committed(store, HasPendingWrite(based)) /\ pointer' = dest /\ ix.saved # NoCheckpoint
  BY DEF CommitLands
<1> HIDE DEF based, store
<1>7. Durable' \in {Durable, Status(store)}
  BY <1>2, <1>5
<1>8. /\ AllKept(ix', Durable') /\ Status(ix') = Status(store) /\ ix'.saved = NoCheckpoint
      /\ ix'.host = store.host /\ (ix'.dirty <=> store.dirty /\ ~HasPendingWrite(based))
  BY <1>2, <1>4, <1>6, <1>7, CommittedKept
<1>9. Uncontested(Durable')
  BY <1>2, <1>7, StatusOfStore DEF KInv, AllKept
<1>10. Durable' = IF ix.dirty /\ ix.host # NoPath /\ HostAfter(dest) = dest
                  THEN Status(ix) ELSE Durable
  BY <1>3, <1>4, <1>5
<1> QED
  BY <1>1, <1>2, <1>3, <1>4, <1>6, <1>8, <1>9, <1>10

\* Without a document behind the registry a commit writes nothing.
LEMMA CommitLandsUnhostedEffect ==
  ASSUME KInv, CommitLandsUnhosted
  PROVE  /\ AllKept(ix', Durable') /\ Uncontested(Durable')
         /\ Durable' = Durable /\ pointer' = NoPath /\ pointer = NoPath
         /\ Status(ix') = Status(ix) /\ ix.saved # NoCheckpoint /\ ix'.saved = NoCheckpoint
         /\ ix.host = NoPath /\ ix'.host = NoPath
         /\ ix'.dirty <=> ix.dirty
<1>1. pointer = NoPath /\ pointer' = NoPath /\ ix.host = NoPath /\ ix.saved # NoCheckpoint
  BY DEF CommitLandsUnhosted, KInv
<1>2. Durable' = Durable
  BY <1>1 DEF Durable
<1>3. HasPendingWrite(ix) \in BOOLEAN /\ ~HasPendingWrite(ix)
  BY <1>1 DEF HasPendingWrite
<1>4. ix' = Committed(ix, HasPendingWrite(ix))
  BY DEF CommitLandsUnhosted
<1>5. /\ AllKept(ix', Durable) /\ Status(ix') = Status(ix) /\ ix'.saved = NoCheckpoint
      /\ ix'.host = ix.host /\ (ix'.dirty <=> ix.dirty /\ ~HasPendingWrite(ix))
  BY <1>3, <1>4, CommittedKept DEF KInv
<1> QED
  BY <1>1, <1>2, <1>3, <1>5 DEF KInv

\* A commit that fails, at a host that may have moved: the checkpoint's records.
LEMMA CommitFailsEffect ==
  ASSUME KInv, NEW dest \in HostPaths, NEW rewrites \in BOOLEAN, CommitFails(dest, rewrites)
  PROVE  /\ AllKept(ix', Durable')
         /\ AllClean(ix, Durable) => AllClean(ix', Durable')
         /\ Durable' = Durable /\ pointer' = pointer /\ pointer # NoPath
         /\ ix.saved # NoCheckpoint /\ Status(ix') = Status(ix.saved) /\ ix'.saved = NoCheckpoint
         /\ ix'.host = IF ix.host = NoPath THEN NoPath ELSE HostAfter(dest)
<1> DEFINE store == Staged(dest, rewrites)
<1>1. /\ pointer # NoPath /\ ix.saved # NoCheckpoint /\ ix' = Rollback(store)
      /\ pointer' = pointer /\ disk' = disk
  BY DEF CommitFails, SetMay
<1>2. Durable' = Durable
  BY <1>1 DEF Durable, DeclaredText
<1>3. /\ AllKept(store, Durable) /\ (AllClean(ix, Durable) => AllClean(store, Durable))
      /\ store.saved = ix.saved
      /\ store.host = IF ix.host = NoPath THEN NoPath ELSE HostAfter(dest)
  BY <1>1, StagedKept, RebasedKept
<1> HIDE DEF store
<1>4. /\ AllKept(ix', Durable) /\ (AllClean(store, Durable) => AllClean(ix', Durable))
      /\ Status(ix') = Status(ix.saved) /\ ix'.saved = NoCheckpoint /\ ix'.host = store.host
  BY <1>1, <1>3, RollbackKept
<1> QED
  BY <1>1, <1>2, <1>3, <1>4

LEMMA CommitFailsUnhostedEffect ==
  ASSUME KInv, CommitFailsUnhosted
  PROVE  /\ AllKept(ix', Durable')
         /\ AllClean(ix, Durable) => AllClean(ix', Durable')
         /\ Durable' = Durable /\ pointer' = pointer /\ pointer = NoPath
         /\ ix.saved # NoCheckpoint /\ Status(ix') = Status(ix.saved) /\ ix'.saved = NoCheckpoint
         /\ ix'.host = ix.host
<1>1. /\ pointer = NoPath /\ ix.saved # NoCheckpoint /\ ix' = Rollback(ix)
      /\ pointer' = pointer /\ disk' = disk
  BY DEF CommitFailsUnhosted
<1>2. Durable' = Durable
  BY <1>1 DEF Durable, DeclaredText
<1> QED
  BY <1>1, <1>2, RollbackKept DEF KInv

\* ensure_registry declares a document that spells nothing, where none was.
LEMMA EnsureRegistryEffect ==
  ASSUME KInv, NEW h \in HostPaths, EnsureRegistry(h)
  PROVE  /\ Durable' = Durable /\ ix' = ix /\ pointer' # NoPath /\ ix.host = NoPath
<1>1. pointer = NoPath /\ pointer' = h /\ h # NoPath /\ ix' = ix /\ disk' = [disk EXCEPT ![h] = EmptyText]
  BY HostPathsArePaths, SentinelsAreApart DEF EnsureRegistry
<1>2. disk'[h] = EmptyText
  BY <1>1 DEF KInv, IInv
<1>3. EmptyText.recs = NoRecords
  BY DEF EmptyText
<1>4. Durable' = NoRecords /\ Durable = NoRecords
  BY <1>1, <1>2, <1>3 DEF Durable, DeclaredText
<1> QED
  BY <1>1, <1>4 DEF KInv

\* What save_index renders spells the records.
LEMMA AdoptedEffect ==
  ASSUME KInv, pointer # NoPath, ix.dirty
  PROVE  /\ AllKept(PendingWrite(Adopted), Durable)
         /\ AllClean(ix, Durable) => AllClean(PendingWrite(Adopted), Durable)
         /\ Status(PendingWrite(Adopted)) = Status(ix)
         /\ PendingWrite(Adopted).saved = ix.saved
         /\ PendingWrite(Adopted).host = pointer
         /\ PendingWrite(Adopted).dirty
         /\ PendingWrite(Adopted).text = Status(ix)
<1> DEFINE bare == DeclaredText.bare
           t == SetHost(ix, pointer, Durable, bare)
<1>1. /\ AllKept(ix, Durable) /\ Durable = DeclaredText.recs /\ Durable \in RecordMaps
      /\ bare \in BOOLEAN /\ pointer \in Paths
  BY DeclaredTextOK, DurableOK DEF KInv, Durable
<1>2. Adopted = t
  BY <1>1 DEF Adopted
<1> HIDE DEF bare
<1>3. /\ AllKept(t, Durable) /\ (AllClean(ix, Durable) => AllClean(t, Durable))
      /\ Status(t) = Status(ix) /\ t.saved = ix.saved /\ t.host = pointer
  BY <1>1, SetHostKept
<1>3a. t.dirty
  BY DEF SetHost, KInv, IInv, StoreOK, Stores
<1> HIDE DEF t
<1>4. StoreOK(t) /\ t.text = t.persisted /\ Covers(t, t.persisted) /\ HasPendingWrite(t)
  BY <1>1, <1>3, <1>3a, SentinelsAreApart DEF AllKept, Kept, HasPendingWrite
<1>5. /\ AllKept(PendingWrite(t), Durable)
      /\ AllClean(t, Durable) => AllClean(PendingWrite(t), Durable)
      /\ PendingWrite(t).host = t.host
  BY <1>3, <1>4, PendingWriteKept, PendingWriteOK
<1>6. /\ Status(PendingWrite(t)) = Status(t) /\ PendingWrite(t).saved = t.saved
      /\ PendingWrite(t).dirty /\ PendingWrite(t).text = Status(t)
  BY <1>4, <1>3a, PendingWriteStatus
<1> QED
  BY <1>2, <1>3, <1>5, <1>6 DEF t

\* save_index.
LEMMA SaveIndexEffect ==
  ASSUME KInv, SaveIndex
  PROVE  /\ AllKept(ix', Durable') /\ Uncontested(Durable')
         /\ Durable' = Status(ix) /\ pointer' = pointer /\ pointer # NoPath
         /\ Status(ix') = Status(ix) /\ ix'.saved = NoCheckpoint
         /\ ix'.host = pointer /\ ~ix'.dirty
<1> DEFINE store == PendingWrite(Adopted)
           text == [recs |-> store.text, bare |-> store.requote]
<1>1. /\ pointer # NoPath /\ ix.dirty /\ pointer' = pointer /\ ix' = Committed(store, TRUE)
      /\ disk' = [disk EXCEPT ![pointer] = text]
  BY DEF SaveIndex
<1>2. /\ AllKept(store, Durable) /\ Status(store) = Status(ix) /\ store.host = pointer
      /\ store.text = Status(ix)
  BY <1>1, AdoptedEffect
<1>3. text # NoFile /\ text.recs = store.text
  BY <1>2, NoFileIsNoText DEF AllKept, StoreOK, Stores
<1> HIDE DEF store, text
<1>4. disk'[pointer] = text
  BY <1>1 DEF KInv, IInv
<1>5. Durable' = Status(ix)
  BY <1>1, <1>2, <1>3, <1>4 DEF Durable, DeclaredText
<1>6. /\ AllKept(ix', Durable') /\ Status(ix') = Status(store) /\ ix'.saved = NoCheckpoint
      /\ ix'.host = store.host
  <2>1. Durable' \in {Durable, Status(store)}
    BY <1>2, <1>5
  <2>2. PICK persisted \in BOOLEAN : ix' = Committed(store, persisted)
    BY <1>1
  <2> QED
    BY <1>2, <2>1, <2>2, CommittedKept
<1>6a. ~ix'.dirty
  BY <1>1, <1>2 DEF Committed, AllKept, StoreOK, Stores
<1>7. Uncontested(Durable')
  BY <1>5, StatusOfStore DEF KInv, AllKept
<1> QED
  BY <1>1, <1>2, <1>5, <1>6, <1>7, <1>6a

\* save_index whose write fails: the host is adopted all the same.
LEMMA SaveIndexFailsEffect ==
  ASSUME KInv, SaveIndexFails
  PROVE  /\ AllKept(ix', Durable')
         /\ AllClean(ix, Durable) => AllClean(ix', Durable')
         /\ Durable' = Durable /\ pointer' = pointer /\ pointer # NoPath
         /\ Status(ix') = Status(ix) /\ ix'.saved = ix.saved
         /\ ix'.host = pointer
<1>1. /\ pointer # NoPath /\ ix.dirty /\ ix' = PendingWrite(Adopted)
      /\ pointer' = pointer /\ disk' = disk
  BY DEF SaveIndexFails
<1>2. Durable' = Durable
  BY <1>1 DEF Durable, DeclaredText
<1> QED
  BY <1>1, <1>2, AdoptedEffect

\* change: what an abandoned operation left is unwound, and saved again.
LEMMA ChangeEffect ==
  ASSUME KInv, Change
  PROVE  /\ AllKept(ix', Durable')
         /\ AllClean(ix, Durable) => AllClean(ix', Durable')
         /\ Durable' = Durable /\ pointer' = pointer
         /\ Status(ix') = IF ix.saved = NoCheckpoint THEN Status(ix) ELSE Status(ix.saved)
         /\ ix'.saved # NoCheckpoint /\ Status(ix'.saved) = Status(ix')
         /\ ix'.host = ix.host
<1> DEFINE back == Rollback(ix)
<1>1. ix' = Checkpoint(back) /\ pointer' = pointer /\ disk' = disk
  BY DEF Change
<1>2. Durable' = Durable
  BY <1>1 DEF Durable, DeclaredText
<1>3. /\ AllKept(back, Durable) /\ (AllClean(ix, Durable) => AllClean(back, Durable))
      /\ Status(back) = IF ix.saved = NoCheckpoint THEN Status(ix) ELSE Status(ix.saved)
      /\ back.host = ix.host
  BY RollbackKept DEF KInv
<1> HIDE DEF back
<1>4. /\ AllKept(ix', Durable) /\ (AllClean(back, Durable) => AllClean(ix', Durable))
      /\ Status(ix') = Status(back) /\ ix'.host = back.host
      /\ ix'.saved # NoCheckpoint /\ Status(ix'.saved) = Status(back)
  BY <1>1, <1>3, CheckpointKept
<1> QED
  BY <1>1, <1>2, <1>3, <1>4

\* Opening the workspace again.
LEMMA ReopenEffect ==
  ASSUME KInv, Reopen
  PROVE  /\ AllKept(ix', Durable') /\ AllClean(ix', Durable')
         /\ Durable' = Durable /\ pointer' = pointer
         /\ Status(ix') = Durable /\ ix'.saved = NoCheckpoint
         /\ ix'.host = pointer
<1>1. ix' \in OpenStores /\ pointer' = pointer /\ disk' = disk
  BY DEF Reopen
<1>2. Durable' = Durable
  BY <1>1 DEF Durable, DeclaredText
<1> QED
  BY <1>1, <1>2, OpenStoresKept DEF KInv, IInv

-----------------------------------------------------------------------------
(* The invariant holds.                                                    *)

LEMMA KInitOK == Init => KInv /\ CInv
<1> SUFFICES ASSUME Init
             PROVE  KInv /\ CInv
  OBVIOUS
<1>1. IInv
  BY InitOK
<1>2. Uncontested(Durable)
  <2>1. CASE pointer = NoPath
    BY <2>1, SentinelsAreApart DEF Durable, NoRecords, Uncontested
  <2>2. CASE pointer # NoPath
    <3>1. PICK text \in Texts : /\ Uncontested(text.recs)
                                /\ disk = [h \in HostPaths |-> IF h = pointer THEN text ELSE NoFile]
      BY <2>2 DEF Init
    <3>2. disk[pointer] = text /\ text # NoFile
      BY <1>1, <2>2, <3>1, NoFileIsNoText DEF IInv, Texts
    <3> QED
      BY <2>2, <3>1, <3>2 DEF Durable, DeclaredText
  <2> QED
    BY <2>1, <2>2
<1>3. ix \in OpenStores
  BY DEF Init
<1>4. AllKept(ix, Durable) /\ AllClean(ix, Durable) /\ ix.host = pointer
  BY <1>1, <1>2, <1>3, OpenStoresKept DEF IInv
<1> QED
  BY <1>1, <1>2, <1>4 DEF KInv, CInv

\* No step of the registry loses an id of the declared document, and none
\* leaves a store that would.
LEMMA KNextOK == ASSUME KInv, [Next]_vars PROVE KInv'
<1>1. IInv'
  BY NextOK DEF KInv
<1>2. ASSUME AllKept(ix', Durable'), Durable' = Durable, ix'.host = ix.host, pointer' = pointer
      PROVE  KInv'
  BY <1>1, <1>2 DEF KInv
<1>3. CASE Change
  BY <1>2, <1>3, ChangeEffect
<1>4. ASSUME NEW id \in Ids, NEW p \in Paths, Mint(id, p) \/ Carry(id, p)
      PROVE  KInv'
  <2>1. ix' = Register(ix, id, p) /\ pointer' = pointer /\ disk' = disk
    BY <1>4 DEF Mint, Carry, SetPath
  <2>2. Durable' = Durable
    BY <2>1 DEF Durable, DeclaredText
  <2>3. AllKept(ix', Durable) /\ ix'.host = ix.host
    BY <2>1, RegisterKept, RegisterStatus DEF KInv, AllKept
  <2> QED
    BY <1>2, <2>1, <2>2, <2>3
<1>5. ASSUME NEW id \in Ids, Retire(id)
      PROVE  KInv'
  <2>1. ix' = Unregister(ix, id) /\ pointer' = pointer /\ disk' = disk
    BY <1>5 DEF Retire
  <2>2. Durable' = Durable
    BY <2>1 DEF Durable, DeclaredText
  <2>3. AllKept(ix', Durable) /\ ix'.host = ix.host
    BY <2>1, UnregisterKept, UnregisterStatus DEF KInv, AllKept
  <2> QED
    BY <1>2, <2>1, <2>2, <2>3
<1>6. ASSUME NEW dest \in HostPaths, NEW rewrites \in BOOLEAN, CommitLands(dest, rewrites)
      PROVE  KInv'
  BY <1>1, <1>6, CommitLandsEffect DEF KInv
<1>7. ASSUME NEW dest \in HostPaths, NEW rewrites \in BOOLEAN, CommitFails(dest, rewrites)
      PROVE  KInv'
  BY <1>1, <1>7, CommitFailsEffect DEF KInv
<1>8. CASE CommitLandsUnhosted
  BY <1>1, <1>8, CommitLandsUnhostedEffect DEF KInv
<1>9. CASE CommitFailsUnhosted
  BY <1>2, <1>9, CommitFailsUnhostedEffect
<1>10. ASSUME NEW h \in HostPaths, EnsureRegistry(h)
       PROVE  KInv'
  BY <1>1, <1>10, EnsureRegistryEffect DEF KInv
<1>11. CASE SaveIndex
  BY <1>1, <1>11, SaveIndexEffect DEF KInv
<1>12. CASE SaveIndexFails
  BY <1>1, <1>12, SaveIndexFailsEffect DEF KInv
<1>13. CASE Reopen
  BY <1>1, <1>13, ReopenEffect DEF KInv
<1>14. CASE UNCHANGED vars
  BY <1>2, <1>14 DEF vars, KInv, Durable, DeclaredText
<1> QED
  BY <1>3, <1>4, <1>5, <1>6, <1>7, <1>8, <1>9, <1>10, <1>11, <1>12, <1>13, <1>14 DEF Next

\* If no set that moves the registry document fails, none makes the store lose
\* track of what it has still to write.
LEMMA CNextOK == ASSUME ~MovesCanFail, KInv, CInv, [Next]_vars PROVE CInv'
<1>1. ASSUME AllClean(ix', Durable'), ix'.host = ix.host, pointer' = pointer
      PROVE  CInv'
  BY <1>1 DEF CInv
<1>2. CASE Change
  BY <1>1, <1>2, ChangeEffect DEF CInv
<1>3. ASSUME NEW id \in Ids, NEW p \in Paths, Mint(id, p) \/ Carry(id, p)
      PROVE  CInv'
  <2>1. ix' = Register(ix, id, p) /\ pointer' = pointer /\ disk' = disk
    BY <1>3 DEF Mint, Carry, SetPath
  <2>2. Durable' = Durable
    BY <2>1 DEF Durable, DeclaredText
  <2>3. AllClean(ix', Durable) /\ ix'.host = ix.host
    BY <2>1, RegisterKept, RegisterStatus DEF KInv, AllKept, CInv
  <2> QED
    BY <1>1, <2>1, <2>2, <2>3
<1>4. ASSUME NEW id \in Ids, Retire(id)
      PROVE  CInv'
  <2>1. ix' = Unregister(ix, id) /\ pointer' = pointer /\ disk' = disk
    BY <1>4 DEF Retire
  <2>2. Durable' = Durable
    BY <2>1 DEF Durable, DeclaredText
  <2>3. AllClean(ix', Durable) /\ ix'.host = ix.host
    BY <2>1, UnregisterKept, UnregisterStatus DEF KInv, AllKept, CInv
  <2> QED
    BY <1>1, <2>1, <2>2, <2>3
<1>5. ASSUME NEW dest \in HostPaths, NEW rewrites \in BOOLEAN, CommitLands(dest, rewrites)
      PROVE  CInv'
  <2>1. /\ pointer' = dest /\ Status(ix') = Status(ix) /\ ix'.saved = NoCheckpoint
        /\ ix'.host = IF ix.host = NoPath THEN NoPath ELSE HostAfter(dest)
        /\ ix'.dirty <=> ix.dirty /\ ix.host = NoPath
        /\ Durable' = IF ix.dirty /\ ix.host # NoPath /\ HostAfter(dest) = dest
                      THEN Status(ix) ELSE Durable
    BY <1>5, CommitLandsEffect
  <2>2. ix.host # NoPath => HostAfter(dest) = dest
    BY DEF CInv, HostAfter
  <2>3. ix'.host \in {NoPath, pointer'}
    BY <2>1, <2>2
  <2>4. AllClean(ix', Durable')
    BY <2>1, <2>2 DEF CInv, AllClean, Clean
  <2> QED
    BY <2>3, <2>4 DEF CInv
<1>6. ASSUME NEW dest \in HostPaths, NEW rewrites \in BOOLEAN, CommitFails(dest, rewrites)
      PROVE  CInv'
  <2>1. dest = pointer
    BY <1>6 DEF CommitFails
  <2>2. ix'.host = ix.host
    BY <1>6, <2>1, CommitFailsEffect DEF HostAfter, CInv
  <2> QED
    BY <1>1, <1>6, <2>2, CommitFailsEffect DEF CInv
<1>7. CASE CommitLandsUnhosted
  BY <1>7, CommitLandsUnhostedEffect DEF CInv, AllClean, Clean
<1>8. CASE CommitFailsUnhosted
  BY <1>1, <1>8, CommitFailsUnhostedEffect DEF CInv
<1>9. ASSUME NEW h \in HostPaths, EnsureRegistry(h)
      PROVE  CInv'
  BY <1>9, EnsureRegistryEffect DEF CInv
<1>10. CASE SaveIndex
  BY <1>10, SaveIndexEffect DEF CInv, AllClean, Clean
<1>11. CASE SaveIndexFails
  BY <1>11, SaveIndexFailsEffect DEF CInv
<1>12. CASE Reopen
  BY <1>12, ReopenEffect DEF CInv
<1>13. CASE UNCHANGED vars
  BY <1>13 DEF vars, CInv, Durable, DeclaredText
<1> QED
  BY <1>2, <1>3, <1>4, <1>5, <1>6, <1>7, <1>8, <1>9, <1>10, <1>11, <1>12, <1>13 DEF Next

\* What is durable is what was, or what the store holds.
LEMMA DurableStep ==
  ASSUME KInv, [Next]_vars
  PROVE  Durable' \in {Durable, Status(ix)}
<1>1. ASSUME disk' = disk, pointer' = pointer
      PROVE  Durable' = Durable
  BY <1>1 DEF Durable, DeclaredText
<1>2. ASSUME NEW dest \in HostPaths, NEW rewrites \in BOOLEAN, CommitLands(dest, rewrites)
      PROVE  Durable' \in {Durable, Status(ix)}
  BY <1>2, CommitLandsEffect
<1>3. ASSUME NEW h \in HostPaths, EnsureRegistry(h)
      PROVE  Durable' = Durable
  BY <1>3, EnsureRegistryEffect
<1>4. CASE SaveIndex
  BY <1>4, SaveIndexEffect
<1> QED
  BY <1>1, <1>2, <1>3, <1>4
  DEF Next, Change, Mint, Carry, Retire, CommitFails, CommitLandsUnhosted, CommitFailsUnhosted,
      SaveIndexFails, Reopen, vars

-----------------------------------------------------------------------------
(* The ledger.                                                             *)

\* What an operation under way goes back to, if it fails.
Undo == IF ix.saved = NoCheckpoint THEN NoCheckpoint ELSE Status(ix.saved)

\* Each action of the registry is an action of the ledger: a call on the store
\* is what it does to the status, a commit lands or fails, a save writes or only
\* finds its document, a restart reads.
LEMMA LedgerStep ==
  ASSUME ~MovesCanFail, KInv, CInv, [Next]_vars
  PROVE  [Ledger!Next]_(Ledger!vars)
<1> USE DEF Undo, Status, Durable
<1>1. StoreOK(ix) /\ AllKept(ix, Durable)
  BY DEF KInv, AllKept
<1>2. ix.saved # NoCheckpoint => Undo # NoCheckpoint
  BY <1>1, StatusOfStore, CheckpointsAreApart
<1>3. CASE Change
  <2>1. Ledger!Open
    BY <1>2, <1>3, ChangeEffect DEF Ledger!Open
  <2> QED
    BY <2>1 DEF Ledger!Next
<1>4. ASSUME NEW id \in Ids, NEW p \in Paths, Mint(id, p) \/ Carry(id, p)
      PROVE  Ledger!Bind(id, p)
  <2>1. ix' = Register(ix, id, p) /\ pointer' = pointer /\ disk' = disk
    BY <1>4 DEF Mint, Carry, SetPath
  <2>2. Durable' = Durable
    BY <2>1 DEF DeclaredText
  <2>3. /\ Status(ix') = [i \in Ids |-> IF i = id THEN p
                                        ELSE IF Status(ix)[i] = p THEN Null ELSE Status(ix)[i]]
        /\ ix'.saved = ix.saved /\ ix'.host = ix.host
    BY <1>1, <2>1, RegisterStatus
  <2> QED
    BY <2>2, <2>3 DEF Ledger!Bind
<1>5. ASSUME NEW id \in Ids, Retire(id)
      PROVE  Ledger!Retire(id)
  <2>1. ix' = Unregister(ix, id) /\ pointer' = pointer /\ disk' = disk
    BY <1>5 DEF Retire
  <2>2. Durable' = Durable
    BY <2>1 DEF DeclaredText
  <2>3. /\ Status(ix') = [Status(ix) EXCEPT ![id] = Null]
        /\ ix'.saved = ix.saved /\ ix'.host = ix.host
    BY <1>1, <2>1, UnregisterStatus
  <2> QED
    BY <2>2, <2>3 DEF Ledger!Retire
<1>6. ASSUME NEW dest \in HostPaths, NEW rewrites \in BOOLEAN, CommitLands(dest, rewrites)
      PROVE  Ledger!Land
  <2>1. /\ Status(ix') = Status(ix) /\ ix.saved # NoCheckpoint /\ ix'.saved = NoCheckpoint
        /\ ix'.host = IF ix.host = NoPath THEN NoPath ELSE HostAfter(dest)
        /\ Durable' = IF ix.dirty /\ ix.host # NoPath /\ HostAfter(dest) = dest
                      THEN Status(ix) ELSE Durable
        /\ dest # NoPath
    BY <1>6, CommitLandsEffect
  <2>2. ix.host # NoPath => HostAfter(dest) = dest
    BY DEF CInv, HostAfter
  <2>3. ~ix.dirty => Status(ix) = Durable
    BY DEF CInv, AllClean, Clean
  <2>4. Durable' = IF ix.host # NoPath THEN Status(ix) ELSE Durable
    BY <2>1, <2>2, <2>3
  <2>5. ix'.host # NoPath <=> ix.host # NoPath
    BY <2>1, <2>2
  <2> QED
    BY <1>2, <2>1, <2>4, <2>5 DEF Ledger!Land
<1>7. ASSUME NEW dest \in HostPaths, NEW rewrites \in BOOLEAN, CommitFails(dest, rewrites)
      PROVE  Ledger!Fail
  <2>1. dest = pointer
    BY <1>7 DEF CommitFails
  <2>2. ix'.host = ix.host
    BY <1>7, <2>1, CommitFailsEffect DEF HostAfter, CInv
  <2> QED
    BY <1>2, <1>7, <2>2, CommitFailsEffect DEF Ledger!Fail
<1>8. CASE CommitLandsUnhosted
  <2>1. Ledger!Land
    BY <1>2, <1>8, CommitLandsUnhostedEffect DEF Ledger!Land
  <2> QED
    BY <2>1 DEF Ledger!Next
<1>9. CASE CommitFailsUnhosted
  <2>1. Ledger!Fail
    BY <1>2, <1>9, CommitFailsUnhostedEffect DEF Ledger!Fail
  <2> QED
    BY <2>1 DEF Ledger!Next
<1>10. ASSUME NEW h \in HostPaths, EnsureRegistry(h)
       PROVE  UNCHANGED Ledger!vars
  BY <1>10, EnsureRegistryEffect DEF Ledger!vars
<1>11. CASE SaveIndex
  <2>1. Ledger!Save
    BY <1>11, SaveIndexEffect DEF Ledger!Save
  <2> QED
    BY <2>1 DEF Ledger!Next
<1>12. CASE SaveIndexFails
  <2>1. Ledger!FindHome
    BY <1>12, SaveIndexFailsEffect DEF Ledger!FindHome
  <2> QED
    BY <2>1 DEF Ledger!Next
<1>13. CASE Reopen
  <2>1. Ledger!Restart
    BY <1>13, ReopenEffect DEF Ledger!Restart
  <2> QED
    BY <2>1 DEF Ledger!Next
<1>14. CASE UNCHANGED vars
  BY <1>14 DEF vars, Ledger!vars, DeclaredText
<1> QED
  BY <1>3, <1>4, <1>5, <1>6, <1>7, <1>8, <1>9, <1>10, <1>11, <1>12, <1>13, <1>14
  DEF Next, Ledger!Next

\* And a workspace opens as a ledger does.
LEMMA LedgerInit == Init => Ledger!Init
<1> SUFFICES ASSUME Init
             PROVE  Ledger!Init
  OBVIOUS
<1>1. KInv
  BY KInitOK
<1>2. Durable \in [Ids -> Paths \cup {NoRecord, Null}]
  BY <1>1, DurableOK DEF KInv, RecordMaps
<1>3. ix \in OpenStores
  BY DEF Init
<1>4. Status(ix) = Durable /\ ix.saved = NoCheckpoint
  BY <1>1, <1>3, OpenStoresKept DEF KInv, IInv
<1> QED
  BY <1>1, <1>2, <1>4 DEF Ledger!Init, Ledger!States, KInv, Durable, Status, Uncontested

-----------------------------------------------------------------------------
\* A registry that is rendered and parsed again is the one that was in memory,
\* retired ids included, after whatever calls, failures and restarts: upserts
\* over a text another operation may have rewritten lose nothing and leave
\* nothing over.
THEOREM ReadsBackHolds == Spec => []ReadsBack
<1>1. KInv => ReadsBack
  <2> SUFFICES ASSUME KInv, ix.host # NoPath,
                      NEW s \in Parse(ix.host, Render(ix).text, Render(ix).requote)
               PROVE  s.live = ix.live /\ s.tomb = ix.tomb
    BY DEF ReadsBack
  <2>1. StoreOK(ix) /\ Render(ix).text = Status(ix)
    BY RenderWrites DEF KInv, AllKept, Kept
  <2> QED
    BY <2>1, StatusReadsBack
<1> QED
  BY <1>1, KInitOK, KNextOK, PTL DEF Spec

\* What the declared document records is recorded for ever: no operation, landed
\* or failed, no save and no restart drops an id's line.
THEOREM RecordsAreForever ==
  Spec => [][\A i \in Ids : Durable[i] # NoRecord => Durable'[i] # NoRecord]_vars
<1>1. KInv /\ [Next]_vars =>
        [\A i \in Ids : Durable[i] # NoRecord => Durable'[i] # NoRecord]_vars
  BY DurableStep DEF KInv, AllKept, Kept, Covers
<1> QED
  BY <1>1, KInitOK, KNextOK, PTL DEF Spec

\* An id is never reissued: what a mint hands out is recorded nowhere on disk,
\* as a live id or as a retired one.
THEOREM NeverReissued ==
  Spec => [][\A id \in Ids, p \in Paths : Mint(id, p) => Durable[id] = NoRecord]_vars
<1>1. KInv => [\A id \in Ids, p \in Paths : Mint(id, p) => Durable[id] = NoRecord]_vars
  BY SentinelsAreApart
  DEF Mint, IsKnown, Resolve, KInv, AllKept, Kept, Covers, Status, StatusOf
<1> QED
  BY <1>1, KInitOK, KNextOK, PTL DEF Spec

\* A clean store is on disk where the root looks, as long as no set that moves
\* the registry document fails: commit may skip the write.
THEOREM CleanIsDurableHolds == ASSUME ~MovesCanFail PROVE Spec => []CleanIsDurable
<1>1. KInv /\ CInv => CleanIsDurable
  BY CurrentIsStatus DEF CleanIsDurable, CInv, AllClean, Clean, Durable
<1> QED
  BY <1>1, KInitOK, KNextOK, CNextOK, PTL DEF Spec

\* The registry implements the ledger, under the same condition.
THEOREM RegistryImplementsLedger == ASSUME ~MovesCanFail PROVE Spec => ImplementsLedger
<1> QED
  BY LedgerInit, LedgerStep, KInitOK, KNextOK, CNextOK, PTL DEF Spec, ImplementsLedger, Ledger!Spec

\* One id per path, through every undo and restart: an `id:` link means one
\* document.
THEOREM LedgerOneIdPerPath == Spec => []Ledger!OneIdPerPath
<1>1. KInv => Ledger!OneIdPerPath
  <2> SUFFICES ASSUME KInv
               PROVE  Ledger!OneIdPerPath
    OBVIOUS
  <2>1. /\ Uncontested(StatusOf(ix.live, ix.tomb))
        /\ ix.saved # NoCheckpoint => Uncontested(StatusOf(ix.saved.live, ix.saved.tomb))
    BY StatusOfStore DEF KInv, AllKept, Status
  <2>2. Uncontested(IF pointer = NoPath THEN NoRecords ELSE DeclaredText.recs)
    BY DEF KInv, Durable
  <2>3. \A recs : Ledger!Injective(recs) <=> Uncontested(recs)
    BY DEF Ledger!Injective, Uncontested
  <2> HIDE DEF KInv
  <2> QED
    BY <2>1, <2>2, <2>3 DEF Ledger!OneIdPerPath
<1> QED
  BY <1>1, KInitOK, KNextOK, PTL DEF Spec

\* What is durable is known to the running program, now and after the operation
\* under way is taken back, so mint_unique passes it over.
THEOREM LedgerDurableIsKnown == Spec => []Ledger!DurableIsKnown
<1>1. KInv => Ledger!DurableIsKnown
  BY DEF KInv, AllKept, Kept, Covers, Ledger!DurableIsKnown, Status, Durable
<1> QED
  BY <1>1, KInitOK, KNextOK, PTL DEF Spec

\* And the ledger's last promise: nothing durable is ever forgotten, a retired
\* id's line included.
THEOREM LedgerIdsAreForever == Spec => Ledger!IdsAreForever
<1>1. KInv /\ [Next]_vars =>
        [\A i \in Ids : Durable[i] # NoRecord => Durable'[i] # NoRecord]_(Ledger!vars)
  BY DurableStep DEF KInv, AllKept, Kept, Covers
<1> QED
  BY <1>1, KInitOK, KNextOK, PTL DEF Spec, Ledger!IdsAreForever, Durable
=============================================================================
