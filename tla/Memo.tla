-------------------------------- MODULE Memo --------------------------------
(***************************************************************************)
(* The read memo of one operation (prov-graph/src/memo.rs) between the     *)
(* readers that fill it, the verbs that write under it and another process *)
(* that writes behind it.                                                  *)
(*                                                                         *)
(* Readers borrow the workspace shared, so they run at once and what one   *)
(* of them reads from storage is remembered after an await; a verb borrows *)
(* it alone, so it runs with no reader in flight, but any number of open   *)
(* scopes keep the memo alive under it.                                    *)
(***************************************************************************)
EXTENDS Integers, FiniteSets

CONSTANTS
    Docs,       \* the documents of one directory
    Readers,    \* the read operations that may run at once
    Absent,     \* no document
    Nothing,    \* no answer, and nothing remembered
    First,      \* the documents on disk at the start
    Budget,     \* documents and listings the memo may hold: each weighs 1
    MaxWrites,  \* bound: texts written in a behaviour
    Freedoms    \* "direct": sets are applied without commit under an open scope

\* A text, told by the writes that made it and its body; what the memo keeps of a
\* document; what storage answers.
Texts == [text : Nat, body : Nat]
Copies == [read : Texts, links : Nat \cup {Nothing}, prepared : Nat \cup {Nothing}]
Answers == [text : Texts \cup {Absent, Nothing}, names : (SUBSET Docs) \cup {Nothing}]

ASSUME MemoAssumption ==
    /\ IsFiniteSet(Docs) /\ IsFiniteSet(Readers)
    /\ Nothing \notin Docs \cup Texts \cup {Absent}
    /\ \A names \in SUBSET Docs : Nothing # names
    /\ Nothing \notin Copies /\ Nothing \notin Answers
    /\ Absent \notin Texts
    /\ First \in SUBSET Docs
    /\ Budget \in Nat \ {0}
    /\ MaxWrites \in Nat
    /\ Freedoms \subseteq {"direct"}

VARIABLES
    disk,       \* the text at each path: which write wrote it, and its body
    memo,       \* ReadMemo: depth, docs, dir (the one listing) and bytes
    reader,     \* each reader: whether it holds a scope, what storage found, what it was told
    verb,       \* the verb that runs: its step, its document and what it read
    wish,       \* the document somebody wants written, and retries until it is
    writes,     \* texts written
    since       \* per path, and for the listing, all it has been since prov last wrote it

vars == <<disk, memo, reader, verb, wish, writes, since>>

Listing(d) == {p \in Docs : d[p] # Absent}
Unread == [path |-> Nothing, read |-> Nothing, links |-> Nothing, prepared |-> Nothing]
NoVerb == [at |-> "idle", path |-> Nothing, read |-> Nothing]
Empty == [depth |-> 0, docs |-> [p \in Docs |-> Nothing], dir |-> Nothing, bytes |-> 0]

Init ==
    /\ disk = [p \in Docs |-> IF p \in First THEN [text |-> 0, body |-> 0] ELSE Absent]
    /\ memo = Empty
    /\ reader = [r \in Readers |-> [scope |-> FALSE, fetched |-> Nothing, told |-> Unread]]
    /\ verb = NoVerb
    /\ wish = {}
    /\ writes = 0
    /\ since = [docs |-> [p \in Docs |-> {disk[p]}], dir |-> {Listing(disk)}]

-----------------------------------------------------------------------------
(* The memo's operations. *)

Enter(m) == [m EXCEPT !.depth = @ + 1]
\* Only the outermost exit clears.
Leave(m) == IF m.depth = 1 THEN Empty ELSE [m EXCEPT !.depth = @ - 1]

\* What is remembered of a path, while a scope is open.
Held(m, p) == IF m.depth > 0 THEN m.docs[p] ELSE Nothing
HeldDir(m) == IF m.depth > 0 THEN m.dir ELSE Nothing

Fits(m) == m.depth > 0 /\ m.bytes + 1 <= Budget

\* A replaced document's weight is given back.
Remember(m, p, read) ==
    IF ~Fits(m) THEN m
    ELSE [m EXCEPT !.docs[p] = [read |-> read, links |-> Nothing, prepared |-> Nothing],
                   !.bytes = @ + (IF m.docs[p] = Nothing THEN 1 ELSE 0)]

\* A replaced listing's weight is not.
RememberDir(m, names) == IF ~Fits(m) THEN m ELSE [m EXCEPT !.dir = names, !.bytes = @ + 1]

\* Forget, and ways to get it wrong: a listing above the write is
\* kept; the weight is given back whether or not anything was held; links are
\* told of whatever body is held.
ForgetDocument(m, p) ==
    [m EXCEPT !.docs[p] = Nothing, !.bytes = @ - (IF m.docs[p] = Nothing THEN 0 ELSE 1)]
ForgetUnheld(m, p) == [m EXCEPT !.docs[p] = Nothing, !.dir = Nothing, !.bytes = @ - 1]
Forget(m, p) ==
    [m EXCEPT !.docs[p] = Nothing,
              !.dir = Nothing,
              !.bytes = @ - (IF m.docs[p] = Nothing THEN 0 ELSE 1)
                          - (IF m.dir = Nothing THEN 0 ELSE 1)]

OfBody(m, p, body) == Held(m, p) # Nothing /\ Held(m, p).read.body = body
OfRead(m, p, read) == Held(m, p) # Nothing /\ Held(m, p).read = read

-----------------------------------------------------------------------------
(* The readers: any that run, run while no verb does. *)

Shared == verb.at = "idle"
Quiet == \A r \in Readers : reader[r].fetched = Nothing

Open(r) ==
    /\ Shared /\ ~reader[r].scope
    /\ memo' = Enter(memo)
    /\ reader' = [reader EXCEPT ![r].scope = TRUE]
    /\ UNCHANGED <<disk, verb, wish, writes, since>>

\* The guard is owned, not borrowed: it may be dropped with a verb half done.
Close(r) ==
    /\ reader[r].scope /\ reader[r].fetched = Nothing
    /\ memo' = Leave(memo)
    /\ reader' = [reader EXCEPT ![r] = [@ EXCEPT !.scope = FALSE, !.told = Unread]]
    /\ UNCHANGED <<disk, verb, wish, writes, since>>

Told(p, read) == [Unread EXCEPT !.path = p, !.read = read]

\* Graph::read: the memo's own copy, or the storage is asked, and answers after
\* an await: what it found may be old by then.
Read(r, p) ==
    /\ Shared /\ reader[r].fetched = Nothing
    /\ reader' =
        IF Held(memo, p) # Nothing
        THEN [reader EXCEPT ![r].told = Told(p, Held(memo, p).read)]
        ELSE [reader EXCEPT ![r] = [@ EXCEPT !.fetched = [text |-> disk[p], names |-> Nothing],
                                             !.told = Told(p, Nothing)]]
    /\ UNCHANGED <<disk, memo, verb, wish, writes, since>>

\* Graph::listing_shared, likewise.
List(r) ==
    /\ Shared /\ reader[r].fetched = Nothing /\ HeldDir(memo) = Nothing
    /\ reader' = [reader EXCEPT ![r] = [@ EXCEPT !.fetched = [text |-> Nothing, names |-> Listing(disk)],
                                                 !.told = Unread]]
    /\ UNCHANGED <<disk, memo, verb, wish, writes, since>>

\* Back from the storage. A failure is told and not remembered.
Remembered(r) ==
    LET back == reader[r].fetched
        p == reader[r].told.path
    IN  /\ back # Nothing
        /\ memo' = IF p = Nothing THEN RememberDir(memo, back.names)
                   ELSE IF back.text = Absent THEN memo ELSE Remember(memo, p, back.text)
        /\ reader' = [reader EXCEPT ![r] =
                         [@ EXCEPT !.fetched = Nothing,
                                   !.told = IF p = Nothing \/ back.text = Absent THEN Unread
                                            ELSE Told(p, back.text)]]
        /\ UNCHANGED <<disk, verb, wish, writes, since>>

\* Graph::prepared of the document in hand, and the body_links it asks for. Each
\* is the memo's, or is worked out now and remembered: the links if the body
\* held is this one, what the walk makes of the whole text if the read is.
Prepare(r) ==
    LET told == reader[r].told
        p == told.path
        body == told.read.body
        LinksOf(m) == IF OfBody(m, p, body) /\ m.docs[p].links # Nothing
                      THEN m.docs[p].links ELSE body
        PreparedOf(m) == IF OfRead(m, p, told.read) /\ m.docs[p].prepared # Nothing
                         THEN m.docs[p].prepared ELSE told.read.text
        scanned == IF OfBody(memo, p, body) /\ memo.docs[p].links = Nothing
                   THEN [memo EXCEPT !.docs[p].links = LinksOf(memo)] ELSE memo
    IN  /\ reader[r].fetched = Nothing /\ told.read # Nothing /\ told.links = Nothing
        /\ reader' = [reader EXCEPT ![r].told = [@ EXCEPT !.links = LinksOf(memo),
                                                          !.prepared = PreparedOf(memo)]]
        /\ memo' = IF OfRead(scanned, p, told.read) /\ scanned.docs[p].prepared = Nothing
                   THEN [scanned EXCEPT !.docs[p].prepared = PreparedOf(memo)] ELSE scanned
        /\ UNCHANGED <<disk, verb, wish, writes, since>>

-----------------------------------------------------------------------------
(* The verbs, and the other process. *)

Wish(p) ==
    /\ writes < MaxWrites /\ wish = {} /\ disk[p] # Absent
    /\ wish' = {p}
    /\ UNCHANGED <<disk, memo, reader, verb, writes, since>>

\* A verb begins when no reader is in flight, and reads through the memo. One
\* that finds no document has failed for good.
Load(p) ==
    LET read == IF Held(memo, p) # Nothing THEN Held(memo, p).read ELSE disk[p]
    IN  /\ verb.at = "idle" /\ p \in wish
        /\ Quiet
        /\ IF read = Absent
           THEN wish' = wish \ {p} /\ UNCHANGED <<memo, verb>>
           ELSE /\ verb' = [at |-> "commit", path |-> p, read |-> read]
                /\ memo' = IF Held(memo, p) # Nothing THEN memo ELSE Remember(memo, p, read)
                /\ UNCHANGED wish
        /\ UNCHANGED <<disk, reader, writes, since>>

\* forget_written, before the set is applied, whether or not it will land.
ForgetLanded(m, p, to, landed) == IF landed THEN Forget(Forget(m, p), to) ELSE m
ForgetWritten(m, p, to, landed) == Forget(Forget(m, p), to)

\* What the paths of a set that prov landed have been since, and the listing.
Landed(d, ops) ==
    [docs |-> [p \in Docs |-> IF p \in ops THEN {d[p]} ELSE since.docs[p]],
     dir |-> {Listing(d)}]
Seen(d) ==
    [docs |-> [p \in Docs |-> since.docs[p] \cup {d[p]}], dir |-> since.dir \cup {Listing(d)}]

\* commit: the set expects the text the verb read, and is refused, to be tried
\* again, when the disk has another. A rewrite, or a move to a free name: a name
\* taken is not tried again.
Commit(to, body) ==
    LET p == verb.path
        ops == {p, to}
        landed == disk[p] = verb.read /\ (to # p => disk[to] = Absent)
        text == [text |-> writes + 1, body |-> IF body THEN writes + 1 ELSE verb.read.body]
        after == [disk EXCEPT ![p] = Absent, ![to] = text]
    IN  /\ verb.at = "commit" /\ writes < MaxWrites
        /\ memo' = ForgetWritten(memo, p, to, landed)
        /\ verb' = NoVerb
        /\ IF landed
           THEN /\ disk' = after
                /\ writes' = writes + 1
                /\ wish' = wish \ {p}
                /\ since' = Landed(after, ops)
           ELSE /\ wish' = IF disk[p] = verb.read THEN wish \ {p} ELSE wish
                /\ UNCHANGED <<disk, writes, since>>
        /\ UNCHANGED reader

\* The bound's own: with no text left to write, the wish is given up.
GiveUp ==
    /\ writes = MaxWrites /\ wish # {}
    /\ wish' = {}
    /\ verb' = NoVerb
    /\ UNCHANGED <<disk, memo, reader, writes, since>>

\* Workspace::link_sidecar, write_about, remove_about, stamp_ids: the set is
\* applied by apply_set alone, which forgets nothing of the memo. prov's own
\* callers have no scope open and no reader in flight; a caller of the library
\* may.
Direct(p) ==
    /\ (memo.depth = 0 /\ Quiet) \/ "direct" \in Freedoms
    /\ Shared /\ writes < MaxWrites /\ disk[p] # Absent
    /\ disk' = [disk EXCEPT ![p].text = writes + 1]
    /\ writes' = writes + 1
    /\ since' = Landed(disk', {p})
    /\ UNCHANGED <<memo, reader, verb, wish>>

\* Another process rewrites or removes a document, at any moment.
Elsewhere(p, text) ==
    /\ writes < MaxWrites
    /\ disk' = [disk EXCEPT ![p] = text]
    /\ writes' = writes + 1
    /\ since' = Seen(disk')
    /\ UNCHANGED <<memo, reader, verb, wish>>

Next ==
    \/ \E r \in Readers : \/ Open(r) \/ Close(r) \/ Remembered(r) \/ List(r) \/ Prepare(r)
                          \/ \E p \in Docs : Read(r, p)
    \/ \E p \in Docs : Wish(p) \/ Load(p) \/ Direct(p)
    \/ \E to \in Docs, body \in BOOLEAN : Commit(to, body)
    \/ GiveUp
    \/ \E p \in Listing(disk) :
          \E text \in {Absent} \cup [text : {writes + 1}, body : {writes + 1, disk[p].body}] :
             Elsewhere(p, text)

\* Storage answers; a verb that has begun ends, and one that is wanted gets its
\* turn at the workspace if there is one.
Fairness ==
    /\ \A r \in Readers : WF_vars(Remembered(r))
    /\ \A p \in Docs : SF_vars(Load(p))
    /\ WF_vars(\E body \in BOOLEAN : Commit(verb.path, body))
    /\ WF_vars(GiveUp)

Spec == Init /\ [][Next]_vars /\ Fairness

-----------------------------------------------------------------------------

Weight(m) == Cardinality({p \in Docs : m.docs[p] # Nothing}) + (IF m.dir = Nothing THEN 0 ELSE 1)

\* The memo's weight never falls below what it holds nor above the budget, and
\* with no scope open there is nothing: `bytes` is given back by three
\* operations in any order, and a subtraction too many would let the memo grow
\* past its budget, or panic.
BudgetIsHonest ==
    /\ Weight(memo) <= memo.bytes /\ memo.bytes <= Budget
    /\ memo.depth = Cardinality({r \in Readers : reader[r].scope})
    /\ memo.depth = 0 => memo = Empty

\* Nothing remembered is older than prov's own last write of it: documents and
\* listings are what the disk has held at that path since ("Anything prov writes
\* forgets itself", workspace.rs:530).
OwnWritesAreSeen ==
    /\ \A p \in Docs : Held(memo, p) # Nothing => Held(memo, p).read \in since.docs[p]
    /\ HeldDir(memo) # Nothing => HeldDir(memo) \in since.dir

LeavesTurns == []<>Quiet

\* A verb refused because another process had written its document is not
\* refused for ever: its retry, under a scope that stays open, does not meet the
\* remembered text that refused it (workspace.rs:555, forget_written runs
\* before the set lands). A verb borrows the workspace alone, so it is promised
\* to those who leave it a moment with no reader in flight, again and again.
RetryLands == LeavesTurns => \A p \in Docs : p \in wish ~> p \notin wish
=============================================================================
