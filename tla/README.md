# Formal models of prov

TLA+ specifications, TLC model checks and TLAPS proofs of the parts of
[prov](../src/README.md) that change a workspace: the registry of document ids and
the change sets that carry it to disk, the containment tree and the verbs that edit
it, deletion and restore, moves, `check` and its repairs, filing, attachments and
what a document vouches for, and the two caches a workspace keeps (inbound links and
reads).

## The system

prov keeps a *workspace*: a directory tree of plain-text documents. A document's
metadata block links it **up** (`part_of`) and **down** (`contents`), and may give it
an **id** that other documents can name (`id:...`) instead of a path. One
document, the **registry**, lists every id ever issued with the path it lives at;
a retired id stays listed with no path (a tombstone). A process opens the
workspace, runs verbs (create, adopt, reparent, rename, delete, ...), and each
verb ends in one **change set** that is applied through a write-ahead journal.

| part | state it keeps | operations | hard behaviour | what makes it correct |
|---|---|---|---|---|
| `prov-store` `index.rs` | two maps of live ids, tombstones, text of the registry, checkpoint, host path, dirty flag | `register`, `unregister`, `set_path`, `parse`, `render`, `checkpoint`, `rollback`, `committed`, `rebase` | displacement; rendering before the set has landed; the set moving the registry itself | one id per path and one path per id; an issued id is never forgotten; clean means durable |
| `prov` `workspace.rs`, `writable.rs` | the id store, `pending_stamps`, the inbound index | `register`, `change`, `commit`, `apply_set`, `recover_journal`, `open_for_writing` | failure before, at and inside an apply; crash; recovery; other writers | the id in a document and the one in the registry agree |
| `mutate/` containment verbs | none of their own | create, adopt, reparent, reorder, duplicate, rename, delete | three documents in one verb; cycles | every entry is answered by a link up and every link up by an entry |
| `mutate/tombstone.rs` | the deletion log, a document of the workspace | delete, restore, forget | two sessions over one log; the place and the id have been taken since | no record, no bytes and no live id is lost |
| `mutate/rename.rs`, `move_tree.rs`, `link.rs` | none | rename a document, a payload pair, a directory | every link spelled anew, from both ends, in one set | a link leads where it led |
| `validate.rs`, `remedy.rs`, `prov-cli` `check.rs` | a list of findings, while it is worked off | check, remedies, apply_fix, `check --fix` | repairs change what later findings are about; others edit | clean means whole; a repair settles its finding; the repairs end |
| `workspace/inbound.rs` | the inverse of the link graph, a stat of each document it rests on | ask, census, sweep, plan, settle | other writers between a read and a stat | an index found fresh gives the answer of a census |
| `prov-graph` `memo.rs` | the documents and listings of the open scopes | remember, forget | readers at once, a verb under an open scope | nothing older than one's own write; the budget is honest |
| `mutate/separate.rs`, `convert.rs`, `confirm.rs`, `provenance.rs`, `stamp.rs` | digest, stamps and confirmations in a document | separate, combine, convert, confirm, stamp | a plan that lands on other text | what is vouched for is what was seen |
| `mutate/gather.rs`, `manifest.rs`, `attach.rs`, `inline.rs` | sidecars, manifests, pins, rows of owners | attach, record, update, gather, scatter, demote, promote | three shapes of one record | nothing said of a file is lost on the way |
| `mutate/file.rs`, `route.rs`, `prov-grain` | none; a plan, until it is carried out | plan and apply a filing or a route | a plan that has aged; a crash between two indexes | one index per period, found again |
| `prov-graph` `graph/` | none | parse, resolve, walk | cyclic, dangling trees | a walk ends, visits once |
| `prov-config`, `prov-views`, `prov-exports` | none | parse, lint, query, plan | - | functions of one text or one read |
| discovery, peers, crossing, nesting | none | navigation between workspaces | cycles of workspaces | a descent ends |
| `prov-cli` | none | grammar, printing; one command is one session | the loop of `check --fix` | - |
| `fs-transaction` (external) | a journal file | apply, recover | crash at every operation | a set lands whole or not at all |

How they interact: a verb calls `Workspace::change` (unwinding whatever an
abandoned verb left in the store), reads and checks the documents, asks the
inbound index who links to what, mutates the id store in memory, builds a
`ChangeSet` with expectations of what it read, and calls `commit`. `commit` stages
the queued stamps (ids to be written into documents), rebases the store on the
set, stages the rendered registry last, makes the memo forget what the set writes,
and calls `apply_set`; that plans the fate of the inbound index, applies the set
through the journal, and settles the index. There are no threads inside the library:
what interleaves is *other writers of the same files*, *other processes*, *reads in
flight at once*, *plans that are carried out later*, and *crashes*.

## Modules

    FileIndex ----------- Registry ....implements.... IdLedger   (abstract)
        |  (FileIndexProofs)    (RegistryProofs, the refinement included)
        |
        '---- Workspace       (WorkspaceProofs)
              Containment ............implements.... Forest     (abstract)
                 ContainmentProofs  (the refinement)
              Deletions       (containment, registry and log of two sessions; DeletionsProofs)
    Paths --- Moves           (links by path, payload pairs, directories)
              Check           (walk, findings, remedies, the fix loop)
              Inbound   Memo  (the two caches; InboundProofs, MemoProofs)
              Fixity          (FixityProofs)
              Albums   Filing

Each `MC` module gives the constants of the module it extends their values.

**FileIndex** - the store of `index.rs` as a value and one operator per method. A store
is a record: `live` (the maps `fwd` and `rev` of `InMemoryIndex`), `tomb`, `text` (the
records of the text it was parsed from or last rendered: what an upsert edits),
`persisted`, `bare` (keys an older registry wrote as bare numbers), `host`, `dirty`,
`saved` (the checkpoint). Layout, comments and the other keys are abstracted.

**Registry** - one store in use, with the files (`disk`) and the root's declaration of
where the registry is (`pointer`). `Mint`, `Carry` and `Retire` are what `register`,
`rename` and `delete` ask of the store; `CommitLands` and `CommitFails` are `commit`,
for sets that leave the registry document alone, rewrite it, or move it;
`EnsureRegistry`, `SaveIndex` and `SaveIndexFails` are `writable.rs`; `Reopen` is a
restart. `commit` is one step here because it holds `&mut self`.

**IdLedger** - what the registry promises, with no maps or texts: an id is unknown,
bound to a path, or retired, in memory, on disk and in the undo of each; bindings are
one to one, and a durable id is never forgotten. `Registry` implements it
(`Ledger == INSTANCE IdLedger WITH ...`).

**Workspace** - the store together with the documents. State: `ix`, `stamps`
(`pending_stamps`), `phase`, `ops` and `expects` (the change set), `tree` (files),
`journal`. A verb reads and builds (`Create`, `Adopt`, `RenameDoc`, `Delete`,
`Retitle`, `RegisterDoc`), `Stage` or `StageFails` is the first half of `commit`,
and `ApplyLands`, `ApplyRefused`, `ApplyFails`, `ApplyTorn(k)` and `CrashInApply(k)`
are the second; other writers (`ExternalEdit`) come between any two of them. `Crash`,
`Recover`, `Open` are the life of a process. `StampIds` and `SaveIndex` are
`persist_identity`, in two sets; `storage` is `id_storage`, and under `frontmatter` the index
is what `scan_ids` reads. `Migrate` is an owner who has ids written into the documents as
well, `OtherSession` another session of the library. A document is the id it carries and
the set of foreign edits in it.

**Containment** - the tree. A document is its one link up and the sequence of its links
down. Each verb is one step, with the checks and early returns the code makes.
`Rungs`, `ClimbEnd` and `SpanningRoot` are the climb of `maintain.rs` and `Visited` the walk of
the census, each as the least set that is closed the way the loop closes it, and
`Rename` retargets exactly the documents that census reaches. **Forest** is its abstract
specification: a map from a document to its parent, changed by plant, graft, relabel
and prune, always acyclic.

**Deletions** - documents, ids and the deletion log. A delete writes a record (where the
document was, in whom, with which id) in the set that removes it; restore cuts the record,
lists the document again and binds its id; records of the recycle bin the log replaced
keep bytes, which restore moves home. A verb plans in one step and lands in another, and
`log`, the removed and the restored paths are expectations of the set (`Drifted`).

**Paths, Moves** - a path is a sequence of segments; `Normalize`, `Resolve`, `Relative` and
`PathText` are the functions of `link.rs`. Moves has files with links of both kinds
(metadata entry, body link) in every form (relative, from the root, by id, by name), and
plans a rename of a document, of a payload or its sidecar (the pair goes together, and so do
the files a document owns below its own directory), or of a directory: which links of the movers and of the others are respelled, and what the set
expects. A writer edits, creates (with an entry for them or without) and removes files between plan
and landing. The census asks the documents that are listed (`Reached`), each by an index document of its
own that stays where it is. Three laws of the
path functions (a written text leads back to its target; normalizing keeps the place; what is carried
together needs no respelling) are assumptions of `MCMoves` that TLC evaluates over all short paths.

**Check** - `Walk` is the census walk in its order with the facts it reports; `Findings`
adds the islands (documents whose claims lead to what is reached and no entry does), the orphans
and the disagreements with the registry. A document in `bare` has no metadata block, and is not asked to
point back; what a link leads to, up or down, counts as reached. `Remedies` gives each finding what `remedies`
offers, with its warrant, reading the files as they are when asked; `ApplyFix` is what
`apply_fix` does, with what was offered before an edit as well as after it (`run.offer`). The fix loop holds one list (`run`), takes a finding at a time and
applies the first mechanical remedy, or, interactively, any remedy, "all of this kind",
or none; anybody may edit entries, claims and ids in between.

**Inbound** - the index of `workspace/inbound.rs` with the census that fills it (`Ask`,
`Read`, `Stamp`, `Answer`: a read and its stat are two steps, as they are two awaits),
the sets that update or drop it (`Save`, `Enter`, `Reparent`, `Delete`, `Rename`,
`RegisterId`, then `Settle`) and other writers (`External`), who may come between any two of these.
`vouched` is the set of paths whose file still has the stamp that was taken of it. `unseen` is a history
variable: the documents whose links have changed where no stamp will show it, since they were
written between being read and being stat-ed, or cite an id that was bound where there is no registry document to write.

**Memo** - `ReadMemo`: depth of scopes, remembered documents and listing, bytes. A reader
looks, awaits storage, remembers; a verb loads, and commits or is refused for drift and
given up, forgetting what its set would have written either way. Another process writes
at any time.

**Fixity** - one document, whole or as a pair; its digest, its stamp, its confirmations.
`separate`, `combine` and `convert` land only on what they read; `stamp`, `restamp` and `confirm`
write back the file they read, whatever has become of it (`WrittenOver`: the body of a pair, a file
left beside the document). Between a reading and its landing others do the same, and edit.

**Albums** - payloads with a sidecar each, or rows of a manifest that a node pins by its
digest, or rows of a document that owns them. Attach (to an index, or inline), record a manifest,
update it, gather, scatter (under the node, or into an index, which nobody keeps from being the node itself), demote a sidecar to a row and
promote it again, restamp a row, hand edits of any of them, and a manifest whose files are held
elsewhere.

**Filing** - indexes and records below an anchor. A plan is drawn up (`PlanFile`,
`PlanRoute`: `Walk` with `PeriodIndex` or `ChildTitled`) and carried out index by index
(`ApplyFile`, `ApplyRoute`), the record being the caller's own write after that; between
them another session files, indexes are renamed, retitled, emptied and removed, and records
are dated and listed elsewhere.

## Properties

- **Registry** `TypeOK`. `Bijection`: in the store, and in what a rollback would restore,
  ids and paths name each other. `LiveOrRetired`: no id is both. `ReadsBack`: rendering
  the store and parsing the result gives the store back. `CleanIsDurable`: a store that
  thinks itself saved has its records on disk where the next session looks.
  `ImplementsLedger`: the refinement; no step loses a durable id.
- **Workspace** `TwoHomesAgree`: an id a document carries is recorded at that path, or the
  set that will make it so is still in a journal. `RecordsNameDocuments`.
  `NothingRecordedIsDropped`. `GuardedReadsKeepEdits`: a set with an expectation of a
  document never overwrites an edit made after it was read.
- **Containment** `AnswersAreKept`: where the two directions agree they go on to, unless a verb
  leaves children behind. `LoopsAreAdopted`: only adopt makes a loop. `VerbsTendForest`: the
  refinement, of documents in order.
- **Deletions** `EntriesAreAnswered`: a racing delete does not bring an entry back.
  `RecordsAreKept`: a record leaves the log only by a verb that read it. `BytesAreKept`: a
  restore never lands on another document. `LiveIdsStay`.
- **Moves** `LinksFollow`: a link leads to the file its author meant, however often either
  end moves, if a census could come upon it. `PairsStayTogether`: a payload is beside its sidecar, and a file a document owns
  stays where it was seen from the document. `EditsAreKept`: what a writer put in a document since the
  plan is in it afterwards.
- **Check** `CleanMeansWhole`: no finding means the tree read upwards is the tree read
  downwards and the registry agrees. `IslandsComeHome`: one undisturbed mechanical run
  reaches everything whose claims lead to a document of the tree. `RepairsResolve`: the finding a repair
  was for stands one time less. `ClaimsAreKept`, `LiveIdsStay`: mechanical repairs replace no
  claim written before they were offered and take no id from the document that has it. `Settles` (liveness):
  checking and repairing again and again ends.
- **Inbound** `FreshIndexIsTheCensus`: an index whose sweep finds it fresh has the links of
  every file, but of documents in `unseen`; with none there it gives, for every target and both forms
  of link, the sources a census taken now would give.
- **Memo** `BudgetIsHonest`: bytes never below what is held nor over budget, and nothing
  held outside a scope. `OwnWritesAreSeen`: nothing remembered is older than the session's
  own last write. `RetryLands` (liveness): a refused verb that is tried again lands.
- **Fixity** `DigestsBind`, `StampsBind`: a confirmation that stands was made of what the
  document says. `RestatedIsTheSame`: separating, combining and converting change nothing
  the document says. The last two except what lands on a document restated since it was read.
- **Albums** `PinsHold`: no verb leaves a pin that check takes for corruption.
  `EntriesAreAnswered`. `NothingIsLost`: gather, scatter, demote and promote carry every
  field and recorded digest over, or say what they drop. `LinksHold`: what is linked to stays where it is linked to.
- **Filing** `NoTwins`: no two indexes for one period under one document, but for one made `again`.
  `FiledAgainIsFound`: the container once given is given again. `FiledWhereItSays`: a record
  lands under one index per level of its value, and no other's, where no record poses as one.

## Runs and bounds

| run | instance | distinct states |
|---|---|---|
| Registry | 2 ids, 2 paths, either may host the registry | 47,992 |
| Workspace | 3 document paths and the registry, 2 ids, 1 foreign edit, 2 policies, the 3 storages, at most 2 queued stamps | 1,210,437 |
| Containment | root and 3 paths, 2 stray links (`FewStray`) | 39,277 |
| Inbound | root and 2 paths, 1 id, 1 other link in all, 1 document changed and not read again | 683,768 |
| Deletions | root and 3 paths, 3 documents, 2 ids, 2 records | 567,942 |
| Moves | 3 documents, 1 payload with a sidecar, 1 file a document can own, 4 directories, 2 names, 2 settings of style, 2 moves, 2 edits | 1,359,811 |
| Check | root and 3 documents (one outside the tree's directories), 2 ids, 3 edits, interactive runs after at most 2 | 1,694,365 |
| Memo | 2 documents, 2 readers, budget 2, 2 writes | 239,617 |
| Fixity | 1 document, 2 grammars, 2 bindings, 1 edit, 1 confirmation, clock 0..1, 2 verbs of others during one, 1 overtaken landing (`OneLate`) | 3,995,118 |
| Albums | 2 photographs, 2 directories, an index and a page that can own them, 2 fields of which one links, 2 edits (by hand, or of what owns a photograph), none after a node is scattered into itself and the edits are spent (`FewScattered`) | 1,018,966 |
| Filing | 1 year, 2 months and a day in each, 2 names, 4 documents, 3 edits, 2 with four documents (`FewAtOnce`) | 922,245 |
| MovesNames | as Moves, with links by name | stops at the violation |

Why these are enough. Two ids and two paths are what displacement takes (an id moved
onto another's path, and back). Three document paths let a rename have a source, a
destination and a third document that links to it; two ids let a set carry one while a
stamp is queued for another. Four paths in Containment are the shortest with a
parent, a child, a grandchild and a free path, or with another tree of two; its verbs go on from
documents that are in a loop or left behind, and are followed as far as two links that nothing answers. In Inbound documents link by
entries and by one other link, by path or by id; one document that has changed since it was read is the
interesting case, more only make the sweep's answer "stale" again. In Deletions three paths
are two that are deleted at once and one to be a parent; two records are one to be cut and
one to be kept. In Moves the directories hold a directory inside another and one beside it,
so relative links go up, down and across; two moves are a move and a move of what it left; in two settings
each of the two kinds of links has each style.
Four documents in Check are a root, a parent, a child and a rival, and three edits suffice
to break claim, entry and id of one another; the rival has no metadata block to begin with, and the
document elsewhere a name that a broken link may have meant. A budget of two in Memo is one less than
what there is to remember. In Fixity one edit and one confirmation in either order, on
either side of a plan, are all the orders there are of two things; two verbs of others restate
a document there and back, and after a landing that was overtaken only the others go on. Two photographs in Albums are what makes a field shared or not, a manifest whole
or half, a list with a place to keep; a page beside the index is a second document to own one;
what a node scattered into itself leaves is followed up to the last change by hand.
Two months of one year
in Filing share the upper index and not the lower one, and a record that says the year alone says it as the
index does; three edits take an index away and rename two. Symmetry is used where no
definition tells the values apart, and never in a run with a liveness property.

`MaxStamps`, `MaxLog`, `MaxMoves`, `MaxEdits`, `MaxLinks`, `MaxStale`, `MaxWrites`,
`MaxEntries`, `MaxTick`, `MaxVerbs`, `MaxNodes` and `MaxAttended` bound what the code leaves unbounded;
each stands in the guards of its module. In the six runs with `CHECK_DEADLOCK FALSE` the bounds
leave behaviours with nothing more to do; in the other runs deadlock is checked.

## Departures

What a passing run shows is conditional on circumstances in which the code departs
from the property. Each is a step of the module that a value of the constant `Freedoms`
(or `MovesCanFail`) turns on; with it, TLC finds the named property violated.

| freedom | property it breaks | what happens |
|---|---|---|
| Registry `MovesCanFail` | CleanIsDurable | a set that moves the registry document fails; `rollback` does not restore `host`, which `rebase` has moved |
| Workspace `abandon` | TwoHomesAgree, RecordsNameDocuments | a verb that fails before commit has its registration unwound and its stamp left in the queue; the next commit writes an id the registry has not got |
| Workspace `recoverLate` | NothingRecordedIsDropped, TwoHomesAgree, RecordsNameDocuments | `recover_journal` in mid-session leaves the store in memory as it was, and the next commit renders it over what was recovered |
| Workspace `deleteEarned` | TwoHomesAgree | a stamp queued for a document the same set removes writes the document back |
| Workspace `persistTorn` | TwoHomesAgree | `persist_identity` of an index no commit has written stops between its sets: documents carry ids the registry has not got |
| Workspace `twoSessions` | NothingRecordedIsDropped, TwoHomesAgree, RecordsNameDocuments | two sessions mint at once; the registry of the second has not got the record of the first |
| Deletions `again` | EntriesAreAnswered | a path the log names is used or deleted at again: two records for one path; restore takes the first |
| Moves `self` | LinksFollow | a rename within a directory respells no link of the mover, one to its own old path included |
| Moves `names` | LinksFollow | a link by name is respelled as though it were a relative path (the run MovesNames) |
| Moves `second` | LinksFollow | a directory move expects only the movers it rewrites: a link written into another since is moved as it stands |
| Check `twins` | LiveIdsStay | two documents carry one id the registry has not got: each is offered for registration, and the second takes it from the first |
| Memo `direct` | OwnWritesAreSeen | `link_sidecar` applies its set without the forgetting of `commit` |
| Albums `relative` | NothingIsLost | gather, scatter, demote and promote copy a field as it is written; a relative link says another thing in the other document's directory |

Elsewhere the steps are the code's, and the property says of which it speaks. In Containment three
steps are named in the properties: `LeavesChildren` (a delete that is forced, by design),
`RenamesAsTop` (a document with children whose climb ends where it starts is renamed: the census is
then of the root's tree, and the children's links up stay behind) and `AdoptsItsOwner` (`adopt` does
not ask whether the parent is beneath the child, as `reparent` does). Two comments promise more than
that: that one target for `part_of` is "what makes the spine a tree" (about.md:95), which a root adopted by
its own child is not, and that a rename retargets "each child's inverse" (rename.rs:30), which that of
a top does not. In Inbound the documents that are
stamped as they no longer are, since they were edited between the census's read and its stat or cite an id
bound with no registry document, are kept in `unseen`, and the property speaks of the others. In Moves
the links that reached what has moved and are in a document nothing lists, where the census does not
look, are kept in `behind`, and `LinksFollow` speaks of the others. In Check a root that claims a parent, what
claims its way to a document that only a `part_of` leads to, and a claim written between the offer of
a repair and the repair (`since`) are left out of what CleanMeansWhole, IslandsComeHome and ClaimsAreKept say. In Fixity a stamp or a
confirmation expects nothing, and may land on a document that was separated, combined or converted since
it was read (`Overtaken`): such a landing is excepted from `RestatedIsTheSame`, for it points a pair back
at a body file that has gone, and what follows it (`late`) from `StampsBind`, for the node it writes
back has the older stamp, and what was saved in between is in the body. In Albums nobody asks whether the
index a node is scattered into is the node itself, which is then written back with the pin of a manifest
that is gone, and cut from its parent's list: `PinsHold` and `EntriesAreAnswered` except it
(`ScatteredIntoItself`). In Filing a plan that is older than the renaming of an index from its place, or to the one
its walk had come to, makes one `again`, which `NoTwins` excepts and in whose presence `FiledAgainIsFound` says
nothing; a record whose value makes it the index for a period (`Posing`) is taken for it, and the last two
properties speak of the filings in which none is.

One run checks what a comment of the code says and a step of it belies. **MovesNames**:
`rerelativize` promises to recompute "every relative link `doc` declares so it
still resolves", takes `[[My File]]` for one, and writes back a path to no file.
`PROJECT.json` quotes the lines.

## Fairness

The library has no scheduler or background task: a verb happens when a caller calls it,
recovery when somebody opens the workspace again. So nothing is promised of most modules but
safety. Fairness is stated in two, where a loop of the code earns it.

- **Check**: `WF` of `FixMechanically` and `Choose` - the loop of `check --fix` takes the next
  finding of its list as long as there is one - and of `CheckTree`, for the caller who checks
  again. `Settles` is under the further condition, in its statement, that nobody goes on
  choosing interactively for ever; edits are bounded by `MaxEdits`.
- **Memo**: `WF` of `Remembered`, `Commit` and `GiveUp` (storage answers; a verb that has begun
  ends) and `SF` of `Load`: a verb wants the workspace alone (`&mut self`), which readers that
  come and go take away again and again. `RetryLands` promises only those who leave the workspace
  quiet infinitely often (`LeavesTurns`).

## Proofs

`RegistryProofs` proves for **every** set of ids and paths
`TypeCorrect`, `BijectionHolds` and `LiveOrRetiredHolds`, from the assumptions of
`FileIndex` and `Registry` alone: the sentinels are not ids, paths or records, the host
paths are paths, the flag is a Boolean. TLC evaluates these in every run.

The argument: `Bijection` is not inductive. A step may roll back, so the checkpoint
has to be sound too; `parse` and `render` go through texts, so those have to be typed.
`StoreOK` is that strengthening: a store is well typed, its live maps are inverse and
disjoint from its tombstones, and so are the ones in its checkpoint. A lemma for each
method (`LiveRegisterOK`, `RegisterOK`, `UnregisterOK`, ...; they stand in `FileIndexProofs`, where both
modules that hold a store find them) shows that the method maps sound stores to sound stores; the step theorem walks the actions of `Next` through those
lemmas; the three theorems follow by PTL. Nothing is assumed of the files beyond their
type, so these proofs hold with `MovesCanFail` too.


`FixityProofs` proves the three properties of Fixity (`StampsBindHolds`, `DigestsBindHolds`,
`RestatedHolds`) for any number of edits, confirmations and grammars and any clock, from one
invariant. The properties speak of the document as it is, and a verb lands what it made of the
document as it was; so the invariant says of what a plan has read what it says of the document
(what prov wrote is not younger than the stamp: `InTime`; a confirmation saw what it names:
`Entries`), and what may have become of the document since (`Since`: a verb that expects nothing
may land on another document than it read; unless it was restated, its form is the same and the body file
of a pair is as read or was written past prov). A landing that was overtaken ends what is said of stamps,
and nothing else. `OutcomesOK` says once what every verb makes of a
document, `WritingOK` what a save or an edit makes of it; `NextOK` has one step per action.
`WrittenOverOK` says what becomes of a document that is written over as it was.

The rest of `RegistryProofs` is what the registry keeps across its document. Everything is said of the *status* of an id (its path, retired, unknown), which is the
ledger's own vocabulary: one lemma per method of the store says what it does to the status, one per
action what it does to the status, the checkpoint and the declared text. `KInv` says that the store
believes of its text what the text spells and knows every id of that text and of the durable one,
in the store and in its checkpoint; it is inductive whatever fails, and gives `ReadsBackHolds`,
`RecordsAreForever` and `NeverReissued`. `CInv` adds that a clean store is the durable one; it is
inductive where a move of the registry document cannot fail (`MovesCanFail` FALSE), and gives
`CleanIsDurableHolds` and, with it, `RegistryImplementsLedger`: every action of Registry is a step
of IdLedger or a stutter. The ledger's own promises (`LedgerOneIdPerPath`, `LedgerDurableIsKnown`,
`LedgerIdsAreForever`) follow from `KInv`, so they hold of the code's registry with `MovesCanFail` too.

`WorkspaceProofs` proves the four properties of Workspace for any ids, documents, edits and queue of
stamps, every policy and every `id_storage`, each under as few assumptions as hold it up.
`GuardedReadsKeepEdits` needs none: `Held` (types, a set shaped as a verb shapes it, and `EditsLand`)
is inductive whatever else may happen. `NothingRecordedIsDropped` needs one session at a time and a
journal recovered before it opens (`OneSession`; TLC shows that either breaks it): `Recorded` adds to
`Held` that the store knows every record of the registry, there and in a registry it has staged.
`TwoHomesAgree` and `RecordsNameDocuments` are proved with other writers of documents and none of the
other `Freedoms` (`OnlyOthersWrite`): TLC shows that a late recovery, a second session and an
abandoned verb break both of them, a delete of an earned id and a half done `persist_identity` the
first; with these two on TLC finds the
second to hold, which is not proved.
Neither is inductive: they speak of files a set has not reached yet. `IInv` says of the set under way
what it is bound to leave (`Landed`): that agrees with the store of the session (`Sound`), and
the files as they are agree with the store's checkpoint (`Fits`), so the two part neither when the set
lands nor when it fails. What is missing between is spelled out phase by phase: `Built` (a move comes
first and is written over, `Shaped`; a queued stamp is due to the document that has its id, `StampsDue`;
what a set has read is in what it leaves, `EditsLand`), `Staged` (the registry in the set is the
store's), `Stamping` and `Saving` (the two sets of `persist_identity`). While a journal waits
every set is refused and nothing the session believes matters, which is why `SessionOK` is asked only
without one. A set is a sequence and applying it a fold: `SeqSetInduction` (a set of sequences that
holds the empty one and is closed under appending holds them all) carries typing, monotony, and
replaying in two parts (`ApplyConcat`, which makes recovery after `k` operations the same as none) over
all lengths. Each verb has a lemma that lands its set operation by operation.

`MemoProofs` proves `BudgetIsHonestHolds` with no assumption but the module's own: `BInv` says of
the memo that it counts no less than it holds and no more than its budget (one lemma per method of
`ReadMemo`), and of the readers that as many scopes are open as the depth counts. `OwnWritesAreSeenHolds` is for sessions
whose sets all land through `commit` (`direct` not in `Freedoms`). What it has to carry is an answer
on its way: storage has answered, and the text is remembered only a step later; `AnswersAreRecent`
says that no set of this session lands in between, because a verb wants the workspace alone.

`InboundProofs` proves `FreshIndexIsTheCensusHolds` unconditionally. The property compares an
index with a walk of the files, and the walk is a least set; so the invariant says that the index is
itself such a walk (`Grown`: whatever holds the root and what its members list holds them all), of
the edges that the vouched files have, unless they changed unseen (`IndexOK`), and says the same of the census that is under way
(`AskOK`) and of the set that has landed and is not settled (`LandedOK`). `FreshHasTheCensus` is
then a lemma: two walks of the same edges from one root are one.

`DeletionsProofs` proves `RecordsAreKeptHolds` unconditionally, from an invariant of the log and the
plan alone, and `EntriesAreAnsweredHolds`, `LiveIdsStayHolds` and `BytesAreKeptHolds` for `Freedoms`
empty (nobody uses a path again while the log names it). `Core` is what holds of the files: both
directions agree, an id has one document, a record is the only one of its path, and what is deleted,
parked or could come back is a leaf. `PlanHolds` says of a plan, which may have aged, that the log
has only grown since (and then the plan is refused), or that the plan is still what a delete, a
restore or a clearing would draw up now (`Detaches`, `Reattaches`, `Forgets`); a lemma for each lands it.

`ContainmentProofs` proves `AnswersAreKeptHolds`, `LoopsAreAdoptedHolds` and
`ContainmentTendsForest`, for any finite set of paths and every sequence of the verbs. They are action
properties: of every step from documents in order, by whatever steps those came to be so. `Answered` (types
and answered links) is what a step needs, since a rename retargets what a walk from the end of a climb
reaches, and the walk reaches every document that links to the moved one because links are answered
(`BelowIsVisited`). Both walks are least sets. That a climb ends, at a top or in a loop, is the one place
where paths must be finitely many (`SomeEnd`): of the sets of rungs of the documents on a climb one is
least. No induction is used for "is beneath": `Apart` says that a set closed under parents
has the one and not the other, and each of the four changes of a forest (`Planted`, `Grafted`,
`Relabelled`, `Pruned`) carries such sets along.

Model-checked only: the properties of Moves (a path is a sequence, and
its functions are recursions on it), Check (a RECURSIVE walk), Albums and Filing, and `RetryLands` of Memo. Out of
the prover's reach: liveness and ENABLED, what a fold or a recursive operator computes on every
input (of sequences, `WorkspaceProofs` gets by with `SeqSetInduction`, which takes a set of sequences
and no operator), and modules with a RECURSIVE operator (Check's walk).

## What the modules abstract from

- Text: a body, a title or a field is a token; a digest is what it is the digest of, so
  two digests agree exactly when the bytes do. Layout-preserving edits are the entries they set.
- Check: only entries of the spanning relation and its inverse; links are authored by
  path; the workspace stamps ids; every document can be read; a retired id is one the registry has nowhere. Findings about labels,
  dates, vocabularies, configuration, payloads and views are of one document each and are left out.
- Filing: the nested layout and calendar periods (a value is its parts, a period a beginning of it).
  Initials, whose values can be shorter than their period, combined grammars, the mirror layout and
  intake are left out.
- Albums: a record's title and children, and manifest rows that are copied verbatim, are left out. The
  documents that own payloads are the index and pages beside it, not nodes or sidecars; attaching inline,
  demoting and promoting count against `MaxEdits`.
- Fixity: one document; retargeting of links that name its old half is module Moves' subject.
- Moves: links are one of each kind per document; the trees in which documents list one another are module
  Containment's. The respelling of a manifest's root by a directory move (`plan_manifest_root`) is left out. Workspaces nested below a moved directory are refused
  before planning and left out.
- Workspace has other writers of documents but one session of the library at a time; Deletions and Filing
  have two.

## Not modelled

Parsing and text editing of metadata (data the models abstract from); configuration, views and
exports (functions of one text or one read, with no state to go wrong between steps);
navigation between workspaces and the ignore list (read-only); presets, the about page and intake
(a plan over one read, landed as one set or as a loop of creates and adopts); a delete that takes along
what its document owns, and the remedies for payloads; the rest of the command line (one verb per command, and printing);
duplicating a subtree; the landing hook, which
is told of a set once, after it has landed (a crash between the two, or a recovered set, is never
told), and which nothing in the source consumes. Writes that leave modification time and length as they were are the
documented limit of the inbound index.

## Plan

1. **More proofs**: `EditsAreKept` of Moves, `EntriesAreAnswered` and `PinsHold` of Albums.
2. **Check further**: forced deletes as a starting point, retired ids, the findings about manifests
   and payloads with their remedies.
3. **Pure algorithms**: narrowing in `prov-exports`; the descent between workspaces and its cycle guard.
