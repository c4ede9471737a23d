-------------------------- MODULE FileIndexProofs ---------------------------
(***************************************************************************)
(* What each method of a FileIndex keeps, for every set of ids and paths:  *)
(* the lemmas that the proofs of the modules that hold a registry          *)
(* (Registry, Workspace) rest on.                                          *)
(*                                                                         *)
(* StoreOK says of the checkpoint what it says of the live records (a      *)
(* rollback would otherwise be a way round it).  The rest is said of the   *)
(* status of an id: its path, Null or NoRecord.                            *)
(***************************************************************************)
EXTENDS FileIndex, TLAPS

\* The records of a store, or of a checkpoint: live and retired are apart.
RecordsOK(live, tomb) ==
  /\ IsBijection(live)
  /\ \A i \in tomb : live.fwd[i] = NoPath

StoreOK(s) ==
  /\ s \in Stores
  /\ RecordsOK(s.live, s.tomb)
  /\ s.saved # NoCheckpoint => RecordsOK(s.saved.live, s.saved.tomb)

-----------------------------------------------------------------------------
\* Registering an id in the two maps of InMemoryIndex leaves them inverse.
LEMMA LiveRegisterOK ==
  ASSUME NEW live \in LiveMaps, IsBijection(live), NEW id \in Ids, NEW p \in Paths
  PROVE  /\ LiveRegister(live, id, p) \in LiveMaps
         /\ IsBijection(LiveRegister(live, id, p))
         /\ LiveRegister(live, id, p).fwd[id] = p
         /\ \A i \in Ids : i # id =>
              LiveRegister(live, id, p).fwd[i] =
                IF i = live.rev[p] THEN NoPath ELSE live.fwd[i]
<1> DEFINE new == LiveRegister(live, id, p)
<1>1. new \in LiveMaps
  BY DEF LiveRegister, LiveMaps
<1>2. /\ live.fwd \in [Ids -> Paths \cup {NoPath}]
      /\ live.rev \in [Paths -> Ids \cup {NoId}]
  BY DEF LiveMaps
<1>3. \A i \in Ids : new.fwd[i] =
        IF i = id THEN p
        ELSE IF i = (IF live.fwd[id] = p THEN NoId ELSE live.rev[p])
             THEN NoPath ELSE live.fwd[i]
  BY DEF LiveRegister
<1>4. \A q \in Paths : new.rev[q] =
        IF q = p THEN id ELSE IF q = live.fwd[id] THEN NoId ELSE live.rev[q]
  BY DEF LiveRegister
<1>5. IsBijection(new)
  BY <1>2, <1>3, <1>4, SentinelsAreApart DEF IsBijection
<1>6. \A i \in Ids : i # id =>
        new.fwd[i] = IF i = live.rev[p] THEN NoPath ELSE live.fwd[i]
  BY <1>2, <1>3, SentinelsAreApart DEF IsBijection
<1> QED
  BY <1>1, <1>3, <1>5, <1>6

\* register and set_path keep the store sound, whatever they displace.
LEMMA RegisterOK ==
  ASSUME NEW s, StoreOK(s), NEW id \in Ids, NEW p \in Paths
  PROVE  StoreOK(Register(s, id, p))
<1> DEFINE new == Register(s, id, p)
           live == LiveRegister(s.live, id, p)
           tomb == (s.tomb \cup ({IdForPath(s, p)} \ {NoId, id})) \ {id}
<1>1. s.live \in LiveMaps /\ s.tomb \in SUBSET Ids /\ IsBijection(s.live)
  BY DEF StoreOK, Stores, RecordsOK
<1>2. live \in LiveMaps /\ IsBijection(live)
  BY <1>1, LiveRegisterOK
<1>3. tomb \in SUBSET Ids
  BY <1>1 DEF IdForPath, LiveMaps
<1>4. new = [s EXCEPT !.live = live, !.tomb = tomb, !.dirty = TRUE]
  BY DEF Register
<1>5. new \in Stores
  BY <1>2, <1>3, <1>4 DEF StoreOK, Stores
<1>6. \A i \in tomb : live.fwd[i] = NoPath
  <2> SUFFICES ASSUME NEW i \in tomb
               PROVE  live.fwd[i] = NoPath
    OBVIOUS
  <2>1. i \in Ids /\ i # id /\ (i \in s.tomb \/ i = s.live.rev[p])
    BY <1>3 DEF IdForPath
  <2>2. live.fwd[i] = IF i = s.live.rev[p] THEN NoPath ELSE s.live.fwd[i]
    BY <1>1, <2>1, LiveRegisterOK
  <2> QED
    BY <2>1, <2>2 DEF StoreOK, RecordsOK
<1>7. new.live = live /\ new.tomb = tomb /\ new.saved = s.saved
  BY <1>4 DEF StoreOK, Stores
<1> HIDE DEF new, live, tomb
<1> QED
  BY <1>2, <1>5, <1>6, <1>7 DEF StoreOK, RecordsOK, new

\* unregister keeps the store sound.
LEMMA UnregisterOK ==
  ASSUME NEW s, StoreOK(s), NEW id \in Ids
  PROVE  StoreOK(Unregister(s, id))
<1> DEFINE new == Unregister(s, id)
           live == LiveUnregister(s.live, id)
<1>1. /\ s.live \in LiveMaps
      /\ s.live.fwd \in [Ids -> Paths \cup {NoPath}]
      /\ s.live.rev \in [Paths -> Ids \cup {NoId}]
  BY DEF StoreOK, Stores, LiveMaps
<1>2. live \in LiveMaps
  BY <1>1 DEF LiveUnregister, LiveMaps
<1>3. /\ \A i \in Ids : live.fwd[i] = IF i = id THEN NoPath ELSE s.live.fwd[i]
      /\ \A q \in Paths : live.rev[q] = IF q = s.live.fwd[id] THEN NoId ELSE s.live.rev[q]
  BY <1>1 DEF LiveUnregister
<1>4. IsBijection(live)
  BY <1>1, <1>3, SentinelsAreApart DEF IsBijection, StoreOK, RecordsOK
<1>5. new \in Stores
  BY <1>2 DEF Unregister, StoreOK, Stores
<1>6. new.live = live /\ new.tomb = s.tomb \cup {id} /\ new.saved = s.saved
  BY DEF Unregister, StoreOK, Stores
<1>7. \A i \in new.tomb : live.fwd[i] = NoPath
  BY <1>3, <1>6 DEF StoreOK, Stores, RecordsOK
<1> HIDE DEF new, live
<1> QED
  BY <1>4, <1>5, <1>6, <1>7 DEF StoreOK, RecordsOK, new

-----------------------------------------------------------------------------
\* Methods that change where or what is written, and not the records.
LEMMA SameRecordsOK ==
  ASSUME NEW s, StoreOK(s), NEW t \in Stores,
         t.live = s.live, t.tomb = s.tomb, t.saved \in {s.saved, NoCheckpoint}
  PROVE  StoreOK(t)
  BY DEF StoreOK

\* render and pending_write leave the records alone.
LEMMA PendingWriteOK ==
  ASSUME NEW s, StoreOK(s)
  PROVE  StoreOK(PendingWrite(s)) /\ PendingWrite(s).host = s.host
<1> DEFINE current == CurrentRecords(s)
           upserted == [i \in Ids |-> IF current[i] \in {NoRecord, s.persisted[i]}
                                      THEN s.text[i] ELSE current[i]]
           written == IF s.requote THEN current ELSE upserted
           new == [s EXCEPT !.text = written, !.persisted = current, !.requote = FALSE]
<1>1. current \in RecordMaps
  BY DEF CurrentRecords, RecordMaps, StoreOK, Stores, LiveMaps
<1>2. upserted \in RecordMaps
  BY <1>1 DEF RecordMaps, StoreOK, Stores
<1>3. Render(s) = IF current = s.persisted THEN s ELSE new
  BY DEF Render
<1> HIDE DEF current, upserted
<1>4. written \in RecordMaps
  BY <1>1, <1>2
<1> HIDE DEF written
<1>5. new \in Stores /\ new.live = s.live /\ new.tomb = s.tomb
      /\ new.saved = s.saved /\ new.host = s.host
  BY <1>1, <1>4 DEF StoreOK, Stores
<1>6. StoreOK(new)
  BY <1>5, SameRecordsOK
<1> QED
  BY <1>3, <1>5, <1>6 DEF PendingWrite

\* set_host adopts a target and keeps the records.
LEMMA SetHostOK ==
  ASSUME NEW s, StoreOK(s), NEW p \in Paths, NEW recs \in RecordMaps, NEW bare \in BOOLEAN
  PROVE  StoreOK(SetHost(s, p, recs, bare))
<1>1. /\ SetHost(s, p, recs, bare) \in Stores
      /\ SetHost(s, p, recs, bare).live = s.live
      /\ SetHost(s, p, recs, bare).tomb = s.tomb
      /\ SetHost(s, p, recs, bare).saved = s.saved
  BY DEF SetHost, StoreOK, Stores
<1> QED
  BY <1>1, SameRecordsOK

\* committed drops the checkpoint and keeps the records.
LEMMA CommittedOK ==
  ASSUME NEW s, StoreOK(s), NEW persisted \in BOOLEAN
  PROVE  StoreOK(Committed(s, persisted))
<1>1. /\ Committed(s, persisted) \in Stores
      /\ Committed(s, persisted).live = s.live
      /\ Committed(s, persisted).tomb = s.tomb
      /\ Committed(s, persisted).saved = NoCheckpoint
  BY DEF Committed, StoreOK, Stores
<1> QED
  BY <1>1, SameRecordsOK

\* checkpoint saves records as sound as the ones it copies.
LEMMA CheckpointOK ==
  ASSUME NEW s, StoreOK(s)
  PROVE  StoreOK(Checkpoint(s))
<1> DEFINE snap == [live |-> s.live, tomb |-> s.tomb, text |-> s.text,
                    persisted |-> s.persisted, requote |-> s.requote, dirty |-> s.dirty]
<1>1. snap \in Snapshots /\ snap.live = s.live /\ snap.tomb = s.tomb
  BY DEF StoreOK, Stores, Snapshots
<1>2. Checkpoint(s) = [s EXCEPT !.saved = snap]
  BY DEF Checkpoint
<1> HIDE DEF snap
<1>3. /\ Checkpoint(s) \in Stores
      /\ Checkpoint(s).live = s.live
      /\ Checkpoint(s).tomb = s.tomb
      /\ Checkpoint(s).saved = snap
  BY <1>1, <1>2 DEF StoreOK, Stores
<1> QED
  BY <1>1, <1>3 DEF StoreOK

\* rollback puts back records the checkpoint kept sound.
LEMMA RollbackOK ==
  ASSUME NEW s, StoreOK(s)
  PROVE  StoreOK(Rollback(s)) /\ Rollback(s).saved = NoCheckpoint
<1>1. CASE s.saved = NoCheckpoint
  BY <1>1 DEF Rollback
<1>2. CASE s.saved # NoCheckpoint
  <2>1. s.saved \in Snapshots
    BY <1>2 DEF StoreOK, Stores
  <2>2. /\ Rollback(s) \in Stores
        /\ Rollback(s).live = s.saved.live
        /\ Rollback(s).tomb = s.saved.tomb
        /\ Rollback(s).saved = NoCheckpoint
    BY <1>2, <2>1 DEF Rollback, StoreOK, Stores, Snapshots
  <2> QED
    BY <1>2, <2>2 DEF StoreOK
<1> QED
  BY <1>1, <1>2

\* Whatever a registry document spells, two ids for one path included, and in
\* whatever order its lines are read, the store it parses to is sound.
LEMMA ParseOK ==
  ASSUME NEW p \in Paths, NEW recs \in RecordMaps, NEW bare \in BOOLEAN,
         NEW s \in Parse(p, recs, bare)
  PROVE  StoreOK(s)
<1>1. PICK owner \in PathOwners(recs) :
        s = [live |-> LiveOf(recs, owner), tomb |-> {i \in Ids : recs[i] = Null},
             host |-> p, text |-> recs, persisted |-> recs, requote |-> bare,
             dirty |-> FALSE, saved |-> NoCheckpoint]
  BY DEF Parse
<1> DEFINE live == LiveOf(recs, owner)
<1>2. /\ owner \in [Paths -> Ids \cup {NoId}]
      /\ \A q \in Paths : owner[q] \in Ids => recs[owner[q]] = q
  BY SentinelsAreApart DEF PathOwners, Claimants
<1>3. /\ live.rev = owner
      /\ \A i \in Ids : live.fwd[i] = IF recs[i] \in Paths /\ owner[recs[i]] = i
                                      THEN recs[i] ELSE NoPath
  BY DEF LiveOf
<1>4. live \in LiveMaps
  BY <1>2 DEF LiveOf, LiveMaps
<1>5. IsBijection(live)
  BY <1>2, <1>3, SentinelsAreApart DEF IsBijection
<1>6. \A i \in {j \in Ids : recs[j] = Null} : live.fwd[i] = NoPath
  BY <1>3, SentinelsAreApart
<1> HIDE DEF live
<1>7. s \in Stores
  BY <1>1, <1>4 DEF Stores, live
<1> QED
  BY <1>1, <1>5, <1>6, <1>7 DEF StoreOK, RecordsOK, live

\* FileIndex::new.
LEMMA EmptyStoreOK == StoreOK(EmptyStore)
  BY SentinelsAreApart
  DEF EmptyStore, StoreOK, Stores, RecordsOK, IsBijection, NoLive, NoRecords, LiveMaps, RecordMaps

\* A store's record of each id, or a checkpoint's: what `current` in render is.
Status(r) == StatusOf(r.live, r.tomb)

\* No id of recs is unknown to r.
Covers(r, recs) == \A i \in Ids : recs[i] # NoRecord => Status(r)[i] # NoRecord

\* What holds of a store, and of its checkpoint, over the durable records recs:
\* it believes of the text what the text spells, and it knows the ids of both.
Kept(r, recs) == r.text = r.persisted /\ Covers(r, r.persisted) /\ Covers(r, recs)

AllKept(s, recs) ==
  /\ StoreOK(s)
  /\ Kept(s, recs)
  /\ s.saved # NoCheckpoint => Kept(s.saved, recs)

\* With nothing to write, the records are the durable ones.
Clean(r, recs) == ~r.dirty => Status(r) = recs

AllClean(s, recs) ==
  /\ Clean(s, recs)
  /\ s.saved # NoCheckpoint => Clean(s.saved, recs)

-----------------------------------------------------------------------------
(* The status of an id.                                                    *)

\* A status is a record, and at most one id has a given path.
LEMMA StatusOK ==
  ASSUME NEW live \in LiveMaps, NEW tomb \in SUBSET Ids, RecordsOK(live, tomb)
  PROVE  /\ StatusOf(live, tomb) \in RecordMaps
         /\ Uncontested(StatusOf(live, tomb))
<1>1. live.fwd \in [Ids -> Paths \cup {NoPath}]
  BY DEF LiveMaps
<1>2. StatusOf(live, tomb) \in RecordMaps
  BY <1>1 DEF StatusOf, RecordMaps
<1>3. ASSUME NEW i \in Ids, NEW j \in Ids, StatusOf(live, tomb)[i] = StatusOf(live, tomb)[j],
             StatusOf(live, tomb)[i] \in Paths
      PROVE  i = j
  <2>1. live.fwd[i] = live.fwd[j] /\ live.fwd[i] \in Paths
    BY <1>1, <1>3, SentinelsAreApart DEF StatusOf
  <2> QED
    BY <2>1 DEF RecordsOK, IsBijection
<1> QED
  BY <1>2, <1>3 DEF Uncontested

\* Of a sound store and its checkpoint.
LEMMA StatusOfStore ==
  ASSUME NEW s, StoreOK(s)
  PROVE  /\ Status(s) \in RecordMaps /\ Uncontested(Status(s))
         /\ s.saved # NoCheckpoint =>
              Status(s.saved) \in RecordMaps /\ Uncontested(Status(s.saved))
<1>1. s.live \in LiveMaps /\ s.tomb \in SUBSET Ids
  BY DEF StoreOK, Stores
<1>2. ASSUME s.saved # NoCheckpoint
      PROVE  s.saved.live \in LiveMaps /\ s.saved.tomb \in SUBSET Ids
  <2>1. s.saved \in Snapshots
    BY <1>2 DEF StoreOK, Stores
  <2> QED
    BY <2>1 DEF Snapshots
<1> QED
  BY <1>1, <1>2, StatusOK DEF StoreOK, Status

\* render's `current` is the status.
LEMMA CurrentIsStatus == ASSUME NEW s PROVE CurrentRecords(s) = Status(s)
  BY DEF CurrentRecords, Status, StatusOf

\* register binds the id and retires the id that had the path, and touches
\* nothing else of the records.
LEMMA RegisterStatus ==
  ASSUME NEW s, StoreOK(s), NEW id \in Ids, NEW p \in Paths
  PROVE  /\ Status(Register(s, id, p)) =
              [i \in Ids |-> IF i = id THEN p
                             ELSE IF Status(s)[i] = p THEN Null ELSE Status(s)[i]]
         /\ Register(s, id, p).saved = s.saved
         /\ Register(s, id, p).host = s.host
         /\ Register(s, id, p).text = s.text
         /\ Register(s, id, p).persisted = s.persisted
         /\ Register(s, id, p).dirty
<1> DEFINE live == LiveRegister(s.live, id, p)
           tomb == (s.tomb \cup ({IdForPath(s, p)} \ {NoId, id})) \ {id}
<1>1. /\ s.live \in LiveMaps /\ s.tomb \in SUBSET Ids /\ IsBijection(s.live)
      /\ \A i \in s.tomb : s.live.fwd[i] = NoPath
      /\ s.live.fwd \in [Ids -> Paths \cup {NoPath}]
  BY DEF StoreOK, Stores, RecordsOK, LiveMaps
<1>2. Register(s, id, p) = [s EXCEPT !.live = live, !.tomb = tomb, !.dirty = TRUE]
  BY DEF Register
<1>3. /\ live.fwd[id] = p
      /\ \A i \in Ids : i # id =>
           live.fwd[i] = IF i = s.live.rev[p] THEN NoPath ELSE s.live.fwd[i]
  BY <1>1, LiveRegisterOK
<1>4. \A i \in Ids : i # id => (i \in tomb <=> i \in s.tomb \/ i = s.live.rev[p])
  BY SentinelsAreApart DEF IdForPath
<1>5. \A i \in Ids : s.live.rev[p] = i <=> s.live.fwd[i] = p
  BY <1>1 DEF IsBijection
<1> HIDE DEF live, tomb
<1>6. ASSUME NEW i \in Ids
      PROVE  StatusOf(live, tomb)[i] =
               IF i = id THEN p ELSE IF Status(s)[i] = p THEN Null ELSE Status(s)[i]
  BY <1>1, <1>3, <1>4, <1>5, SentinelsAreApart DEF StatusOf, Status
<1>7. StatusOf(live, tomb) = [i \in Ids |-> IF i = id THEN p
                              ELSE IF Status(s)[i] = p THEN Null ELSE Status(s)[i]]
  BY <1>6 DEF StatusOf
<1>8. /\ Register(s, id, p).live = live /\ Register(s, id, p).tomb = tomb
      /\ Register(s, id, p).saved = s.saved /\ Register(s, id, p).host = s.host
      /\ Register(s, id, p).text = s.text /\ Register(s, id, p).persisted = s.persisted
      /\ Register(s, id, p).dirty
  BY <1>2 DEF StoreOK, Stores
<1> QED
  BY <1>7, <1>8 DEF Status

\* unregister retires the id.
LEMMA UnregisterStatus ==
  ASSUME NEW s, StoreOK(s), NEW id \in Ids
  PROVE  /\ Status(Unregister(s, id)) = [Status(s) EXCEPT ![id] = Null]
         /\ Unregister(s, id).saved = s.saved
         /\ Unregister(s, id).host = s.host
         /\ Unregister(s, id).text = s.text
         /\ Unregister(s, id).persisted = s.persisted
         /\ Unregister(s, id).dirty
<1> DEFINE live == LiveUnregister(s.live, id)
<1>1. s.live.fwd \in [Ids -> Paths \cup {NoPath}]
  BY DEF StoreOK, Stores, LiveMaps
<1>2. /\ Unregister(s, id).live = live /\ Unregister(s, id).tomb = s.tomb \cup {id}
      /\ Unregister(s, id).saved = s.saved /\ Unregister(s, id).host = s.host
      /\ Unregister(s, id).text = s.text /\ Unregister(s, id).persisted = s.persisted
      /\ Unregister(s, id).dirty
  BY DEF Unregister, StoreOK, Stores
<1>3. \A i \in Ids : live.fwd[i] = IF i = id THEN NoPath ELSE s.live.fwd[i]
  BY <1>1 DEF LiveUnregister
<1> HIDE DEF live
<1>4. \A i \in Ids : StatusOf(live, s.tomb \cup {id})[i] =
                       IF i = id THEN Null ELSE StatusOf(s.live, s.tomb)[i]
  BY <1>3 DEF StatusOf
<1>5. StatusOf(live, s.tomb \cup {id}) = [StatusOf(s.live, s.tomb) EXCEPT ![id] = Null]
  BY <1>4 DEF StatusOf
<1> QED
  BY <1>2, <1>5 DEF Status

-----------------------------------------------------------------------------
(* The text.                                                               *)

\* A store that believes of its text what the text spells, and has forgotten
\* nothing it wrote, renders a text that spells its records: the upserts and
\* the lines they leave, together, are the status.
LEMMA RenderWrites ==
  ASSUME NEW s, StoreOK(s), s.text = s.persisted, Covers(s, s.persisted)
  PROVE  Render(s).text = Status(s) /\ Render(s).persisted = Status(s)
<1> DEFINE current == CurrentRecords(s)
           upserted == [i \in Ids |-> IF current[i] \in {NoRecord, s.persisted[i]}
                                      THEN s.text[i] ELSE current[i]]
<1>1. current = Status(s) /\ Status(s) \in RecordMaps /\ s.text \in RecordMaps
  BY CurrentIsStatus, StatusOfStore DEF StoreOK, Stores
<1>2. Render(s) = IF current = s.persisted THEN s
                  ELSE [s EXCEPT !.text = IF s.requote THEN current ELSE upserted,
                                 !.persisted = current,
                                 !.requote = FALSE]
  BY DEF Render
<1> HIDE DEF current
<1>3. \A i \in Ids : upserted[i] = current[i]
  BY <1>1 DEF Covers
<1>4. upserted = current
  BY <1>1, <1>3 DEF RecordMaps
<1> HIDE DEF upserted
<1> QED
  BY <1>1, <1>2, <1>4 DEF StoreOK, Stores

\* pending_write does so if there is something to write and somewhere, and
\* leaves everything else of the store alone.
LEMMA PendingWriteStatus ==
  ASSUME NEW s, StoreOK(s), s.text = s.persisted, Covers(s, s.persisted)
  PROVE  /\ Status(PendingWrite(s)) = Status(s)
         /\ PendingWrite(s).saved = s.saved
         /\ PendingWrite(s).dirty = s.dirty
         /\ PendingWrite(s).text = PendingWrite(s).persisted
         /\ Covers(PendingWrite(s), PendingWrite(s).persisted)
         /\ HasPendingWrite(s) => PendingWrite(s).text = Status(s)
<1>1. /\ Render(s).live = s.live /\ Render(s).tomb = s.tomb
      /\ Render(s).saved = s.saved /\ Render(s).dirty = s.dirty
  BY DEF Render, StoreOK, Stores
<1>2. Status(Render(s)) = Status(s)
  BY <1>1 DEF Status
<1>3. CASE HasPendingWrite(s)
  BY <1>1, <1>2, <1>3, RenderWrites DEF PendingWrite, Covers
<1>4. CASE ~HasPendingWrite(s)
  BY <1>4 DEF PendingWrite
<1> QED
  BY <1>3, <1>4

\* A text no two lines of which claim one path reads back as what it spells.
LEMMA ParseStatus ==
  ASSUME NEW p \in Paths, NEW recs \in RecordMaps, NEW bare \in BOOLEAN, Uncontested(recs),
         NEW s \in Parse(p, recs, bare)
  PROVE  /\ Status(s) = recs
         /\ s.saved = NoCheckpoint /\ s.host = p /\ ~s.dirty
         /\ s.text = recs /\ s.persisted = recs
<1>1. PICK owner \in PathOwners(recs) :
        s = [live |-> LiveOf(recs, owner), tomb |-> {i \in Ids : recs[i] = Null},
             host |-> p, text |-> recs, persisted |-> recs, requote |-> bare,
             dirty |-> FALSE, saved |-> NoCheckpoint]
  BY DEF Parse
<1>2. \A i \in Ids : recs[i] \in Paths => owner[recs[i]] = i
  BY DEF PathOwners, Claimants, Uncontested
<1>3. \A i \in Ids : StatusOf(s.live, s.tomb)[i] = recs[i]
  BY <1>1, <1>2, SentinelsAreApart DEF StatusOf, LiveOf, RecordMaps
<1>4. StatusOf(s.live, s.tomb) = recs
  BY <1>3 DEF StatusOf, RecordMaps
<1> QED
  BY <1>1, <1>4 DEF Status

\* And the records of a sound store, laid down as a text, read back as the maps
\* and tombstones they came from.
LEMMA StatusReadsBack ==
  ASSUME NEW s, StoreOK(s), NEW p, NEW bare, NEW t \in Parse(p, Status(s), bare)
  PROVE  t.live = s.live /\ t.tomb = s.tomb
<1> DEFINE recs == Status(s)
<1>1. PICK owner \in PathOwners(recs) :
        t = [live |-> LiveOf(recs, owner), tomb |-> {i \in Ids : recs[i] = Null},
             host |-> p, text |-> recs, persisted |-> recs, requote |-> bare,
             dirty |-> FALSE, saved |-> NoCheckpoint]
  BY DEF Parse
<1>2. /\ s.live \in LiveMaps /\ s.tomb \in SUBSET Ids /\ IsBijection(s.live)
      /\ \A i \in s.tomb : s.live.fwd[i] = NoPath
      /\ s.live.fwd \in [Ids -> Paths \cup {NoPath}]
      /\ s.live.rev \in [Paths -> Ids \cup {NoId}]
      /\ s.live = [fwd |-> s.live.fwd, rev |-> s.live.rev]
  BY DEF StoreOK, Stores, RecordsOK, LiveMaps
<1>3. \A i \in Ids : recs[i] = IF s.live.fwd[i] # NoPath THEN s.live.fwd[i]
                               ELSE IF i \in s.tomb THEN Null ELSE NoRecord
  BY DEF Status, StatusOf
<1> HIDE DEF recs
<1>4. \A i \in Ids, q \in Paths : recs[i] = q <=> s.live.rev[q] = i
  BY <1>2, <1>3, SentinelsAreApart DEF IsBijection
<1>5. owner \in [Paths -> Ids \cup {NoId}]
  BY DEF PathOwners
<1>6. ASSUME NEW q \in Paths
      PROVE  owner[q] = s.live.rev[q]
  <2>1. CASE Claimants(recs, q) = {}
    BY <1>2, <1>4, <2>1 DEF PathOwners, Claimants
  <2>2. CASE Claimants(recs, q) # {}
    BY <1>4, <2>2 DEF PathOwners, Claimants
  <2> QED
    BY <2>1, <2>2
<1>7. owner = s.live.rev
  BY <1>2, <1>5, <1>6
<1>8. ASSUME NEW i \in Ids
      PROVE  LiveOf(recs, owner).fwd[i] = s.live.fwd[i]
  <2>1. LiveOf(recs, owner).fwd[i] =
          IF recs[i] \in Paths /\ owner[recs[i]] = i THEN recs[i] ELSE NoPath
    BY DEF LiveOf
  <2>2. recs[i] \in Paths <=> s.live.fwd[i] # NoPath
    BY <1>2, <1>3, SentinelsAreApart
  <2>3. s.live.fwd[i] # NoPath => recs[i] = s.live.fwd[i] /\ owner[recs[i]] = i
    BY <1>2, <1>3, <1>4, <1>7, <2>2
  <2> QED
    BY <2>1, <2>2, <2>3
<1>9. LiveOf(recs, owner) = s.live
  <2>1. LiveOf(recs, owner).fwd = s.live.fwd
    BY <1>2, <1>8 DEF LiveOf
  <2> QED
    BY <1>2, <1>7, <2>1 DEF LiveOf
<1>10. {i \in Ids : recs[i] = Null} = s.tomb
  BY <1>2, <1>3, SentinelsAreApart
<1> QED
  BY <1>1, <1>9, <1>10

-----------------------------------------------------------------------------
(* Each method keeps what is kept, and what is clean.                      *)

\* register and set_path.
LEMMA RegisterKept ==
  ASSUME NEW s, NEW recs, AllKept(s, recs), NEW id \in Ids, NEW p \in Paths
  PROVE  /\ AllKept(Register(s, id, p), recs)
         /\ AllClean(s, recs) => AllClean(Register(s, id, p), recs)
<1> DEFINE t == Register(s, id, p)
<1>1. StoreOK(s) /\ StoreOK(t)
  BY RegisterOK DEF AllKept
<1>2. /\ Status(t) = [i \in Ids |-> IF i = id THEN p
                                   ELSE IF Status(s)[i] = p THEN Null ELSE Status(s)[i]]
      /\ t.saved = s.saved /\ t.text = s.text /\ t.persisted = s.persisted /\ t.dirty
  BY <1>1, RegisterStatus
<1> HIDE DEF t
<1>3. \A i \in Ids : Status(s)[i] # NoRecord => Status(t)[i] # NoRecord
  BY <1>2, SentinelsAreApart
<1>4. Kept(t, recs)
  BY <1>2, <1>3 DEF AllKept, Kept, Covers
<1> QED
  BY <1>1, <1>2, <1>4 DEF AllKept, AllClean, Clean, t

\* unregister.
LEMMA UnregisterKept ==
  ASSUME NEW s, NEW recs, AllKept(s, recs), NEW id \in Ids
  PROVE  /\ AllKept(Unregister(s, id), recs)
         /\ AllClean(s, recs) => AllClean(Unregister(s, id), recs)
<1> DEFINE t == Unregister(s, id)
<1>1. StoreOK(s) /\ StoreOK(t) /\ Status(s) \in RecordMaps
  BY UnregisterOK, StatusOfStore DEF AllKept
<1>2. /\ Status(t) = [Status(s) EXCEPT ![id] = Null]
      /\ t.saved = s.saved /\ t.text = s.text /\ t.persisted = s.persisted /\ t.dirty
  BY <1>1, UnregisterStatus
<1> HIDE DEF t
<1>3. \A i \in Ids : Status(s)[i] # NoRecord => Status(t)[i] # NoRecord
  BY <1>1, <1>2, SentinelsAreApart DEF RecordMaps
<1>4. Kept(t, recs)
  BY <1>2, <1>3 DEF AllKept, Kept, Covers
<1> QED
  BY <1>1, <1>2, <1>4 DEF AllKept, AllClean, Clean, t

\* checkpoint: what it saves is the status as it stands.
LEMMA CheckpointKept ==
  ASSUME NEW s, NEW recs, AllKept(s, recs)
  PROVE  /\ AllKept(Checkpoint(s), recs)
         /\ AllClean(s, recs) => AllClean(Checkpoint(s), recs)
         /\ Status(Checkpoint(s)) = Status(s)
         /\ Checkpoint(s).saved # NoCheckpoint /\ Status(Checkpoint(s).saved) = Status(s)
         /\ Checkpoint(s).host = s.host
<1> DEFINE snap == [live |-> s.live, tomb |-> s.tomb, text |-> s.text,
                    persisted |-> s.persisted, requote |-> s.requote, dirty |-> s.dirty]
           t == Checkpoint(s)
<1>1. StoreOK(s) /\ StoreOK(t)
  BY CheckpointOK DEF AllKept
<1>2. snap \in Snapshots
  BY <1>1 DEF StoreOK, Stores, Snapshots
<1>3. snap # NoCheckpoint
  BY <1>2, CheckpointsAreApart
<1>4. /\ t.live = s.live /\ t.tomb = s.tomb /\ t.text = s.text /\ t.persisted = s.persisted
      /\ t.dirty = s.dirty /\ t.host = s.host /\ t.saved = snap
  BY <1>1 DEF Checkpoint, StoreOK, Stores
<1>5. /\ snap.live = s.live /\ snap.tomb = s.tomb /\ snap.text = s.text
      /\ snap.persisted = s.persisted /\ snap.dirty = s.dirty
  OBVIOUS
<1> HIDE DEF snap, t
<1>6. Status(t) = Status(s) /\ Status(snap) = Status(s)
  BY <1>4, <1>5 DEF Status
<1>7. Kept(t, recs) /\ Kept(snap, recs)
  BY <1>4, <1>5, <1>6 DEF AllKept, Kept, Covers
<1>8. AllClean(s, recs) => Clean(t, recs) /\ Clean(snap, recs)
  BY <1>4, <1>5, <1>6 DEF AllClean, Clean
<1> QED
  BY <1>1, <1>3, <1>4, <1>6, <1>7, <1>8 DEF AllKept, AllClean, t

\* rollback: the status is the one the checkpoint saved.
LEMMA RollbackKept ==
  ASSUME NEW s, NEW recs, AllKept(s, recs)
  PROVE  /\ AllKept(Rollback(s), recs)
         /\ AllClean(s, recs) => AllClean(Rollback(s), recs)
         /\ Status(Rollback(s)) = IF s.saved = NoCheckpoint THEN Status(s) ELSE Status(s.saved)
         /\ Rollback(s).saved = NoCheckpoint
         /\ Rollback(s).host = s.host
<1> DEFINE t == Rollback(s)
<1>1. StoreOK(s) /\ StoreOK(t) /\ t.saved = NoCheckpoint
  BY RollbackOK DEF AllKept
<1>2. CASE s.saved = NoCheckpoint
  BY <1>2 DEF Rollback
<1>3. CASE s.saved # NoCheckpoint
  <2>1. /\ t.live = s.saved.live /\ t.tomb = s.saved.tomb /\ t.text = s.saved.text
        /\ t.persisted = s.saved.persisted /\ t.dirty = s.saved.dirty /\ t.host = s.host
    BY <1>1, <1>3 DEF Rollback, StoreOK, Stores
  <2> HIDE DEF t
  <2>2. Status(t) = Status(s.saved)
    BY <2>1 DEF Status
  <2>3. Kept(t, recs) /\ (AllClean(s, recs) => Clean(t, recs))
    BY <1>3, <2>1, <2>2 DEF AllKept, Kept, Covers, AllClean, Clean
  <2> QED
    BY <1>1, <1>3, <2>1, <2>2, <2>3 DEF AllKept, AllClean, t
<1> QED
  BY <1>2, <1>3

\* set_host, adopting a text that spells the durable records.
LEMMA SetHostKept ==
  ASSUME NEW s, NEW recs \in RecordMaps, AllKept(s, recs), NEW p \in Paths, NEW bare \in BOOLEAN
  PROVE  /\ AllKept(SetHost(s, p, recs, bare), recs)
         /\ AllClean(s, recs) => AllClean(SetHost(s, p, recs, bare), recs)
         /\ Status(SetHost(s, p, recs, bare)) = Status(s)
         /\ SetHost(s, p, recs, bare).saved = s.saved
         /\ SetHost(s, p, recs, bare).host = p
         /\ SetHost(s, p, recs, bare).dirty = s.dirty
<1> DEFINE t == SetHost(s, p, recs, bare)
<1>1. StoreOK(t)
  BY SetHostOK DEF AllKept
<1>2. /\ t.live = s.live /\ t.tomb = s.tomb /\ t.saved = s.saved /\ t.dirty = s.dirty
      /\ t.host = p /\ t.text = recs /\ t.persisted = recs
  BY DEF SetHost, AllKept, StoreOK, Stores
<1> HIDE DEF t
<1>3. Status(t) = Status(s)
  BY <1>2 DEF Status
<1> QED
  BY <1>1, <1>2, <1>3 DEF AllKept, Kept, Covers, AllClean, Clean, t

\* A changed host changes nothing else.
LEMMA RebaseMovedKept ==
  ASSUME NEW s, NEW recs, AllKept(s, recs), NEW p \in Paths \cup {NoPath}
  PROVE  /\ AllKept(RebaseMoved(s, p), recs)
         /\ AllClean(s, recs) => AllClean(RebaseMoved(s, p), recs)
         /\ Status(RebaseMoved(s, p)) = Status(s)
         /\ RebaseMoved(s, p).saved = s.saved
         /\ RebaseMoved(s, p).host = IF s.host = NoPath THEN NoPath ELSE p
         /\ RebaseMoved(s, p).dirty = s.dirty
<1> DEFINE t == RebaseMoved(s, p)
<1>1. /\ t.live = s.live /\ t.tomb = s.tomb /\ t.saved = s.saved /\ t.dirty = s.dirty
      /\ t.text = s.text /\ t.persisted = s.persisted
      /\ t.host = IF s.host = NoPath THEN NoPath ELSE p
      /\ t \in Stores
  BY DEF RebaseMoved, AllKept, StoreOK, Stores
<1> HIDE DEF t
<1>2. Status(t) = Status(s)
  BY <1>1 DEF Status
<1>3. StoreOK(t)
  BY <1>1, SameRecordsOK DEF AllKept
<1> QED
  BY <1>1, <1>2, <1>3 DEF AllKept, Kept, Covers, AllClean, Clean, t

\* pending_write.
LEMMA PendingWriteKept ==
  ASSUME NEW s, NEW recs, AllKept(s, recs)
  PROVE  /\ AllKept(PendingWrite(s), recs)
         /\ AllClean(s, recs) => AllClean(PendingWrite(s), recs)
<1> DEFINE t == PendingWrite(s)
<1>1. StoreOK(t)
  BY PendingWriteOK DEF AllKept
<1>2. /\ Status(t) = Status(s) /\ t.saved = s.saved /\ t.dirty = s.dirty
      /\ t.text = t.persisted /\ Covers(t, t.persisted)
  BY PendingWriteStatus DEF AllKept, Kept
<1> HIDE DEF t
<1> QED
  BY <1>1, <1>2 DEF AllKept, Kept, Covers, AllClean, Clean, t

\* committed ends the operation: what is durable now is what was, or the status.
LEMMA CommittedKept ==
  ASSUME NEW s, NEW recs, AllKept(s, recs), NEW new \in {recs, Status(s)},
         NEW persisted \in BOOLEAN
  PROVE  /\ AllKept(Committed(s, persisted), new)
         /\ Status(Committed(s, persisted)) = Status(s)
         /\ Committed(s, persisted).saved = NoCheckpoint
         /\ Committed(s, persisted).host = s.host
         /\ Committed(s, persisted).dirty <=> s.dirty /\ ~persisted
<1> DEFINE t == Committed(s, persisted)
<1>1. StoreOK(t)
  BY CommittedOK DEF AllKept
<1>2. /\ t.live = s.live /\ t.tomb = s.tomb /\ t.saved = NoCheckpoint
      /\ t.dirty <=> s.dirty /\ ~persisted
      /\ t.text = s.text /\ t.persisted = s.persisted /\ t.host = s.host
  BY DEF Committed, AllKept, StoreOK, Stores
<1> HIDE DEF t
<1>3. Status(t) = Status(s)
  BY <1>2 DEF Status
<1> QED
  BY <1>1, <1>2, <1>3 DEF AllKept, Kept, Covers, t
=============================================================================
