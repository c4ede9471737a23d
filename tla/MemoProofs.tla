----------------------------- MODULE MemoProofs -----------------------------
(***************************************************************************)
(* The read memo stays within its budget, never counts less than it holds, *)
(* and holds nothing older than the workspace's own last write, for every  *)
(* set of documents and readers, every budget and every interleaving of    *)
(* readers, verbs and other processes.                                     *)
(***************************************************************************)
EXTENDS Memo, FiniteSetTheorems, TLAPS

Tellings ==
    [path : Docs \cup {Nothing}, read : Texts \cup {Nothing},
     links : Nat \cup {Nothing}, prepared : Nat \cup {Nothing}]

ReaderStates ==
    [scope : BOOLEAN, fetched : Answers \cup {Nothing}, told : Tellings]

Pasts == [docs : [Docs -> SUBSET (Texts \cup {Absent})], dir : SUBSET SUBSET Docs]

TypeOK ==
    /\ disk \in [Docs -> Texts \cup {Absent}]
    /\ memo \in [depth : Nat, docs : [Docs -> Copies \cup {Nothing}],
                 dir : (SUBSET Docs) \cup {Nothing}, bytes : Int]
    /\ reader \in [Readers -> ReaderStates]
    /\ verb \in [at : {"idle", "commit"}, path : Docs \cup {Nothing}, read : Texts \cup {Nothing}]
    /\ verb.at = "commit" => verb.path \in Docs /\ verb.read \in Texts
    /\ wish \in SUBSET Docs
    /\ writes \in Nat
    /\ since \in Pasts

\* What a reader knows of a document is of a document.
ReadersAgree ==
    \A r \in Readers : reader[r].told.read # Nothing => reader[r].told.path \in Docs

Scopes == {r \in Readers : reader[r].scope}
HeldDocs(m) == {p \in Docs : m.docs[p] # Nothing}

\* What is remembered, what a reader is on its way back with and what is on disk
\* have all been there since prov last wrote it; a verb about to commit runs
\* alone.  Without the readers and the disk the memo's part would not last: what
\* a reader brings back is remembered later, and what a verb reads, at once.
NothingIsStale ==
    /\ \A p \in Docs : memo.docs[p] # Nothing => memo.docs[p].read \in since.docs[p]
    /\ memo.dir # Nothing => memo.dir \in since.dir
    /\ \A p \in Docs : disk[p] \in since.docs[p]
    /\ Listing(disk) \in since.dir
    /\ verb.at = "commit" => Quiet

\* What a reader brings back from storage: a listing if it told of no document.
AnswersAreRecent ==
    \A r \in Readers : LET back == reader[r].fetched
                           p == reader[r].told.path
                       IN  back # Nothing =>
                             IF p = Nothing THEN back.names \in since.dir
                                            ELSE back.text \in since.docs[p]

-----------------------------------------------------------------------------
(* The budget: each method of ReadMemo keeps a memo honest.                *)

Memos == [depth : Nat, docs : [Docs -> Copies \cup {Nothing}],
          dir : (SUBSET Docs) \cup {Nothing}, bytes : Int]

Honest(m) ==
    /\ m \in Memos
    /\ Weight(m) <= m.bytes /\ m.bytes <= Budget
    /\ m.depth = 0 => m = Empty

\* A memo that holds nothing but what another holds, as it was read.
Keeps(m, t) ==
    /\ \A q \in Docs : t.docs[q] # Nothing =>
          m.docs[q] # Nothing /\ t.docs[q].read = m.docs[q].read
    /\ t.dir # Nothing => t.dir = m.dir

\* What a memo holds can be counted.
LEMMA HeldDocsOK ==
    ASSUME NEW m
    PROVE  /\ IsFiniteSet(HeldDocs(m)) /\ Cardinality(HeldDocs(m)) \in Nat
           /\ Weight(m) = Cardinality(HeldDocs(m)) + (IF m.dir = Nothing THEN 0 ELSE 1)
<1>1. IsFiniteSet(HeldDocs(m))
    BY MemoAssumption, FS_Subset DEF HeldDocs
<1> QED
    BY <1>1, FS_CardinalityType DEF HeldDocs, Weight

\* clear.
LEMMA EmptyHonest == Honest(Empty)
<1>1. Empty \in Memos /\ HeldDocs(Empty) = {} /\ Empty.dir = Nothing /\ Empty.bytes = 0
    BY DEF Empty, Memos, HeldDocs
<1>2. Weight(Empty) = 0
    BY <1>1, HeldDocsOK, FS_EmptySet
<1> QED
    BY <1>1, <1>2, MemoAssumption DEF Honest

\* enter.
LEMMA EnterHonest ==
    ASSUME NEW m, Honest(m)
    PROVE  Honest(Enter(m)) /\ Enter(m).depth = m.depth + 1 /\ Keeps(m, Enter(m))
<1>1. /\ Enter(m) \in Memos /\ Enter(m).docs = m.docs /\ Enter(m).dir = m.dir
      /\ Enter(m).bytes = m.bytes /\ Enter(m).depth = m.depth + 1 /\ m.depth \in Nat
    BY DEF Enter, Honest, Memos
<1>2. Weight(Enter(m)) = Weight(m)
    BY <1>1 DEF Weight
<1> QED
    BY <1>1, <1>2 DEF Honest, Keeps

\* leave, of a scope that is open.
LEMMA LeaveHonest ==
    ASSUME NEW m, Honest(m), m.depth # 0
    PROVE  Honest(Leave(m)) /\ Leave(m).depth = m.depth - 1 /\ Keeps(m, Leave(m))
<1>1. CASE m.depth = 1
    BY <1>1, EmptyHonest DEF Leave, Empty, Keeps
<1>2. CASE m.depth # 1
    <2>1. /\ Leave(m) \in Memos /\ Leave(m).docs = m.docs /\ Leave(m).dir = m.dir
          /\ Leave(m).bytes = m.bytes /\ Leave(m).depth = m.depth - 1 /\ Leave(m).depth # 0
        BY <1>2 DEF Leave, Honest, Memos
    <2>2. Weight(Leave(m)) = Weight(m)
        BY <2>1 DEF Weight
    <2> QED
        BY <2>1, <2>2 DEF Honest, Keeps
<1> QED
    BY <1>1, <1>2

\* remember: a document that fits is counted once, however often it is
\* remembered.
LEMMA RememberHonest ==
    ASSUME NEW m, Honest(m), NEW p \in Docs, NEW read \in Texts
    PROVE  /\ Honest(Remember(m, p, read)) /\ Remember(m, p, read).depth = m.depth
           /\ \A q \in Docs : \/ q = p /\ Remember(m, p, read).docs[q].read = read
                              \/ Remember(m, p, read).docs[q] = m.docs[q]
           /\ Remember(m, p, read).dir = m.dir
<1> DEFINE copy == [read |-> read, links |-> Nothing, prepared |-> Nothing]
           new == Remember(m, p, read)
<1>1. CASE ~Fits(m)
    BY <1>1 DEF Remember
<1>2. CASE Fits(m)
    <2>1. copy \in Copies /\ copy # Nothing
        BY MemoAssumption DEF Copies
    <2>2. m \in Memos /\ new = [m EXCEPT !.docs[p] = copy, !.bytes = @ + (IF m.docs[p] = Nothing THEN 1 ELSE 0)]
        BY <1>2 DEF Remember, Honest
    <2> HIDE DEF copy, new
    <2>3. /\ new \in Memos /\ new.docs = [m.docs EXCEPT ![p] = copy] /\ new.dir = m.dir
          /\ new.depth = m.depth /\ new.bytes = m.bytes + (IF m.docs[p] = Nothing THEN 1 ELSE 0)
        <3>1. [m.docs EXCEPT ![p] = copy] \in [Docs -> Copies \cup {Nothing}]
            BY <2>1, <2>2 DEF Memos
        <3>2. m.bytes + (IF m.docs[p] = Nothing THEN 1 ELSE 0) \in Int
            BY <2>2 DEF Memos
        <3> QED
            BY <2>2, <3>1, <3>2 DEF Memos
    <2>4. HeldDocs(new) = HeldDocs(m) \cup {p}
        BY <2>1, <2>2, <2>3 DEF HeldDocs, Memos
    <2>5. Weight(new) = Weight(m) + (IF m.docs[p] = Nothing THEN 1 ELSE 0)
        <3>1. p \in HeldDocs(m) <=> m.docs[p] # Nothing
            BY DEF HeldDocs
        <3>2. Cardinality(HeldDocs(new)) =
                Cardinality(HeldDocs(m)) + (IF m.docs[p] = Nothing THEN 1 ELSE 0)
            <4>1. IsFiniteSet(HeldDocs(m)) /\ Cardinality(HeldDocs(m)) \in Nat
                BY HeldDocsOK
            <4> QED
                BY <2>4, <3>1, <4>1, FS_AddElement
        <3> QED
            BY <2>3, <3>2, HeldDocsOK
    <2>6. new.bytes <= Budget /\ new.depth # 0
        BY <1>2, <2>3, MemoAssumption DEF Fits, Honest, Memos
    <2>7. Weight(new) <= new.bytes
        BY <2>3, <2>5, HeldDocsOK DEF Honest, Memos
    <2>8. \A q \in Docs : (q = p /\ new.docs[q].read = read) \/ new.docs[q] = m.docs[q]
        BY <2>2, <2>3 DEF Memos, copy
    <2> QED
        BY <2>3, <2>6, <2>7, <2>8 DEF Honest, new
<1> QED
    BY <1>1, <1>2

\* remember_dir.
LEMMA RememberDirHonest ==
    ASSUME NEW m, Honest(m), NEW names \in SUBSET Docs
    PROVE  /\ Honest(RememberDir(m, names)) /\ RememberDir(m, names).depth = m.depth
           /\ RememberDir(m, names).docs = m.docs
           /\ RememberDir(m, names).dir \in {m.dir, names}
<1> DEFINE new == RememberDir(m, names)
<1>1. CASE ~Fits(m)
    BY <1>1 DEF RememberDir
<1>2. CASE Fits(m)
    <2>1. /\ m \in Memos /\ new \in Memos /\ new.docs = m.docs /\ new.dir = names
          /\ new.depth = m.depth /\ new.bytes = m.bytes + 1
        <3>1. m \in Memos /\ new = [m EXCEPT !.dir = names, !.bytes = @ + 1]
            BY <1>2 DEF RememberDir, Honest
        <3> HIDE DEF new
        <3>2. names \in (SUBSET Docs) \cup {Nothing} /\ m.bytes + 1 \in Int
            BY <3>1 DEF Memos
        <3> QED
            BY <3>1, <3>2 DEF Memos
    <2> HIDE DEF new
    <2>2. HeldDocs(new) = HeldDocs(m)
        BY <2>1 DEF HeldDocs
    <2>3. Weight(new) <= new.bytes
        BY <2>1, <2>2, HeldDocsOK DEF Honest, Memos
    <2>4. new.bytes <= Budget /\ new.depth # 0
        BY <1>2, <2>1 DEF Fits, Memos
    <2> QED
        BY <2>1, <2>3, <2>4 DEF Honest, new
<1> QED
    BY <1>1, <1>2

\* forget: what is given back is what was held.
LEMMA ForgetHonest ==
    ASSUME NEW m, Honest(m), NEW p \in Docs
    PROVE  /\ Honest(Forget(m, p)) /\ Forget(m, p).depth = m.depth
           /\ Keeps(m, Forget(m, p))
           /\ Forget(m, p).docs[p] = Nothing /\ Forget(m, p).dir = Nothing
<1> DEFINE new == Forget(m, p)
           freed == (IF m.docs[p] = Nothing THEN 0 ELSE 1) + (IF m.dir = Nothing THEN 0 ELSE 1)
<1>1. /\ m \in Memos /\ new \in Memos /\ new.docs = [m.docs EXCEPT ![p] = Nothing]
      /\ new.dir = Nothing /\ new.depth = m.depth /\ new.bytes = m.bytes - freed
    <2>1. /\ m \in Memos
          /\ new = [m EXCEPT !.docs[p] = Nothing,
                             !.dir = Nothing,
                             !.bytes = @ - (IF m.docs[p] = Nothing THEN 0 ELSE 1)
                                         - (IF m.dir = Nothing THEN 0 ELSE 1)]
        BY DEF Forget, Honest
    <2> HIDE DEF new
    <2>2. [m.docs EXCEPT ![p] = Nothing] \in [Docs -> Copies \cup {Nothing}]
        BY <2>1 DEF Memos
    <2>3. m.bytes - freed \in Int /\ m.bytes - freed = m.bytes - (IF m.docs[p] = Nothing THEN 0 ELSE 1)
                                                            - (IF m.dir = Nothing THEN 0 ELSE 1)
        BY <2>1 DEF Memos
    <2> HIDE DEF freed
    <2> QED
        BY <2>1, <2>2, <2>3 DEF Memos
<1> HIDE DEF new
<1>2. HeldDocs(new) = HeldDocs(m) \ {p}
    BY <1>1 DEF HeldDocs, Memos
<1>3. Weight(new) = Weight(m) - freed
    <2>1. p \in HeldDocs(m) <=> m.docs[p] # Nothing
        BY DEF HeldDocs
    <2>2. Cardinality(HeldDocs(new)) =
            Cardinality(HeldDocs(m)) - (IF m.docs[p] = Nothing THEN 0 ELSE 1)
        <3>1. IsFiniteSet(HeldDocs(m)) /\ Cardinality(HeldDocs(m)) \in Nat
            BY HeldDocsOK
        <3>2. Cardinality(HeldDocs(m) \ {p}) = IF p \in HeldDocs(m) THEN Cardinality(HeldDocs(m)) - 1
                                               ELSE Cardinality(HeldDocs(m))
            BY <3>1, FS_RemoveElement
        <3> QED
            BY <1>2, <2>1, <3>1, <3>2
    <2> QED
        BY <1>1, <2>2, HeldDocsOK
<1>4. Weight(new) <= new.bytes /\ new.bytes <= Budget
    BY <1>1, <1>3, HeldDocsOK, MemoAssumption DEF Honest, Memos
<1>5. m.depth = 0 => new = Empty
    BY <1>1 DEF Honest, Empty, Memos
<1>6. Keeps(m, new) /\ new.docs[p] = Nothing
    BY <1>1 DEF Keeps, Memos
<1> QED
    BY <1>1, <1>4, <1>5, <1>6 DEF Honest, new

\* Nothing is weighed anew when links are kept beside a document.
LEMMA SameHeldHonest ==
    ASSUME NEW m, Honest(m), NEW t \in Memos, HeldDocs(t) = HeldDocs(m),
           t.dir = m.dir, t.bytes = m.bytes, t.depth = m.depth, m.depth # 0
    PROVE  Honest(t)
    BY HeldDocsOK DEF Honest

\* remember_links and remember_prepared put what was worked out beside a document
\* that stays as it was read.
Beside(m, p, n) == {[m EXCEPT !.docs[p].links = n], [m EXCEPT !.docs[p].prepared = n]}

LEMMA BesideOK ==
    ASSUME NEW m \in Memos, NEW p \in Docs, m.docs[p] # Nothing, NEW n \in Nat,
           NEW t \in Beside(m, p, n)
    PROVE  /\ t \in Memos /\ HeldDocs(t) = HeldDocs(m)
           /\ t.dir = m.dir /\ t.bytes = m.bytes /\ t.depth = m.depth
           /\ \A q \in Docs : m.docs[q] # Nothing => t.docs[q].read = m.docs[q].read
<1>1. m.docs \in [Docs -> Copies \cup {Nothing}] /\ m.docs[p] \in Copies
    BY DEF Memos
<1>2. PICK copy \in Copies : /\ copy.read = m.docs[p].read
                             /\ t = [m EXCEPT !.docs = [m.docs EXCEPT ![p] = copy]]
    <2>1. CASE t = [m EXCEPT !.docs[p].links = n]
        <3> DEFINE copy == [m.docs[p] EXCEPT !.links = n]
        <3>1. copy \in Copies /\ copy.read = m.docs[p].read
            BY <1>1 DEF Copies
        <3>2. t = [m EXCEPT !.docs = [m.docs EXCEPT ![p] = copy]]
            BY <1>1, <2>1 DEF Memos
        <3> QED
            BY <3>1, <3>2
    <2>2. CASE t = [m EXCEPT !.docs[p].prepared = n]
        <3> DEFINE copy == [m.docs[p] EXCEPT !.prepared = n]
        <3>1. copy \in Copies /\ copy.read = m.docs[p].read
            BY <1>1 DEF Copies
        <3>2. t = [m EXCEPT !.docs = [m.docs EXCEPT ![p] = copy]]
            BY <1>1, <2>2 DEF Memos
        <3> QED
            BY <3>1, <3>2
    <2> QED
        BY <2>1, <2>2 DEF Beside
<1>3. copy # Nothing
    BY MemoAssumption
<1>4. /\ t \in Memos /\ t.docs = [m.docs EXCEPT ![p] = copy]
      /\ t.dir = m.dir /\ t.bytes = m.bytes /\ t.depth = m.depth
    BY <1>1, <1>2 DEF Memos
<1>5. HeldDocs(t) = HeldDocs(m)
    BY <1>1, <1>3, <1>4 DEF HeldDocs
<1> QED
    BY <1>1, <1>2, <1>4, <1>5

-----------------------------------------------------------------------------
(* The types and the budget, with or without the sets that bypass commit.  *)

\* What a reader brings back is what it went for: a listing if it told of no
\* document, a text or the lack of one otherwise.
AnswersFit ==
    \A r \in Readers : reader[r].fetched # Nothing =>
        IF reader[r].told.path = Nothing THEN reader[r].fetched.names \in SUBSET Docs
                                         ELSE reader[r].fetched.text \in Texts \cup {Absent}

BInv ==
    /\ TypeOK
    /\ ReadersAgree /\ AnswersFit
    /\ Honest(memo)
    /\ memo.depth = Cardinality(Scopes)

\* A verb or a writer that touches neither readers nor memo.
LEMMA ReadersAloneOK ==
    ASSUME BInv, TypeOK', reader' = reader, Honest(memo'), memo'.depth = memo.depth
    PROVE  BInv'
    BY DEF BInv, ReadersAgree, AnswersFit, Scopes

\* The readers' scopes can be counted.
LEMMA ScopesOK == IsFiniteSet(Scopes) /\ Cardinality(Scopes) \in Nat
<1>1. IsFiniteSet(Scopes)
    BY MemoAssumption, FS_Subset DEF Scopes
<1> QED
    BY <1>1, FS_CardinalityType

\* A step of one reader that keeps its scope.
LEMMA OneReaderOK ==
    ASSUME BInv, NEW r \in Readers, NEW after \in ReaderStates,
           reader' = [reader EXCEPT ![r] = after], after.scope = reader[r].scope,
           after.told.read # Nothing => after.told.path \in Docs,
           after.fetched # Nothing =>
             IF after.told.path = Nothing THEN after.fetched.names \in SUBSET Docs
                                          ELSE after.fetched.text \in Texts \cup {Absent},
           Honest(memo'), memo'.depth = memo.depth,
           UNCHANGED <<disk, verb, wish, writes, since>>
    PROVE  BInv'
<1>1. reader \in [Readers -> ReaderStates]
    BY DEF BInv, TypeOK
<1>2. TypeOK'
    BY <1>1 DEF BInv, TypeOK, Honest, Memos
<1>3. ReadersAgree' /\ AnswersFit'
    BY <1>1 DEF BInv, ReadersAgree, AnswersFit
<1>4. Scopes' = Scopes
    BY <1>1 DEF Scopes
<1> QED
    BY <1>2, <1>3, <1>4 DEF BInv

\* Opening a scope.
LEMMA OpenOK == ASSUME BInv, NEW r \in Readers, Open(r) PROVE BInv'
<1>1. /\ ~reader[r].scope /\ memo' = Enter(memo) /\ reader' = [reader EXCEPT ![r].scope = TRUE]
      /\ UNCHANGED <<disk, verb, wish, writes, since>>
    BY DEF Open
<1>2. reader \in [Readers -> ReaderStates]
    BY DEF BInv, TypeOK
<1>3. /\ reader' \in [Readers -> ReaderStates] /\ reader'[r].scope
      /\ \A q \in Readers : reader'[q].told = reader[q].told /\ reader'[q].fetched = reader[q].fetched
      /\ \A q \in Readers : q # r => reader'[q].scope = reader[q].scope
    BY <1>1, <1>2 DEF ReaderStates
<1>4. Honest(memo') /\ memo'.depth = memo.depth + 1
    BY <1>1, EnterHonest DEF BInv
<1>5. Scopes' = Scopes \cup {r} /\ r \notin Scopes
    BY <1>1, <1>3 DEF Scopes
<1>6. memo'.depth = Cardinality(Scopes')
    BY <1>4, <1>5, ScopesOK, FS_AddElement DEF BInv
<1>7. TypeOK'
    BY <1>1, <1>3, <1>4 DEF BInv, TypeOK, Honest, Memos
<1> QED
    BY <1>3, <1>4, <1>6, <1>7 DEF BInv, ReadersAgree, AnswersFit

\* Closing one.
LEMMA CloseOK == ASSUME BInv, NEW r \in Readers, Close(r) PROVE BInv'
<1>1. /\ reader[r].scope /\ reader[r].fetched = Nothing /\ memo' = Leave(memo)
      /\ reader' = [reader EXCEPT ![r] = [@ EXCEPT !.scope = FALSE, !.told = Unread]]
      /\ UNCHANGED <<disk, verb, wish, writes, since>>
    BY DEF Close
<1>2. reader \in [Readers -> ReaderStates]
    BY DEF BInv, TypeOK
<1>3. /\ reader' \in [Readers -> ReaderStates] /\ ~reader'[r].scope
      /\ reader'[r].told = Unread /\ reader'[r].fetched = Nothing
      /\ \A q \in Readers : q # r => reader'[q] = reader[q]
    <2> DEFINE after == [reader[r] EXCEPT !.scope = FALSE, !.told = Unread]
    <2>1. Unread \in Tellings
        BY DEF Tellings, Unread
    <2>2. /\ after \in ReaderStates /\ ~after.scope
          /\ after.told = Unread /\ after.fetched = reader[r].fetched
        BY <1>2, <2>1 DEF ReaderStates
    <2>3. reader' = [reader EXCEPT ![r] = after]
        BY <1>1
    <2> HIDE DEF after
    <2> QED
        BY <1>1, <1>2, <2>2, <2>3
<1>4. Scopes' = Scopes \ {r} /\ r \in Scopes
    BY <1>1, <1>3 DEF Scopes
<1>5. Cardinality(Scopes') = Cardinality(Scopes) - 1 /\ Cardinality(Scopes') \in Nat
    BY <1>4, ScopesOK, FS_RemoveElement, FS_CardinalityType
<1>6. memo.depth # 0
    BY <1>5, ScopesOK DEF BInv
<1>7. Honest(memo') /\ memo'.depth = memo.depth - 1
    BY <1>1, <1>6, LeaveHonest DEF BInv
<1>8. TypeOK'
    BY <1>1, <1>3, <1>7 DEF BInv, TypeOK, Honest, Memos
<1>9. ReadersAgree' /\ AnswersFit'
    BY <1>3 DEF BInv, ReadersAgree, AnswersFit, Unread
<1> QED
    BY <1>5, <1>7, <1>8, <1>9 DEF BInv

\* A read or a listing that begins, or that the memo answers.
LEMMA ReadOK == ASSUME BInv, NEW r \in Readers, NEW p \in Docs, Read(r, p) PROVE BInv'
<1>1. /\ reader[r].fetched = Nothing /\ UNCHANGED <<disk, memo, verb, wish, writes, since>>
      /\ reader' = IF Held(memo, p) # Nothing
                   THEN [reader EXCEPT ![r].told = Told(p, Held(memo, p).read)]
                   ELSE [reader EXCEPT ![r] =
                           [@ EXCEPT !.fetched = [text |-> disk[p], names |-> Nothing],
                                     !.told = Told(p, Nothing)]]
    BY DEF Read
<1>2. /\ reader \in [Readers -> ReaderStates] /\ disk[p] \in Texts \cup {Absent}
      /\ memo.docs[p] \in Copies \cup {Nothing}
    BY DEF BInv, TypeOK
<1>3. reader[r] \in ReaderStates
    BY <1>2
<1>4. CASE Held(memo, p) # Nothing
    <2> DEFINE told == Told(p, Held(memo, p).read)
               after == [reader[r] EXCEPT !.told = told]
    <2>1. Held(memo, p) \in Copies /\ Held(memo, p).read \in Texts
        BY <1>2, <1>4 DEF Held, Copies
    <2>2. told \in Tellings /\ told.path = p
        BY <2>1 DEF Tellings, Told, Unread
    <2> HIDE DEF told
    <2>3. /\ after \in ReaderStates /\ after.told = told /\ after.scope = reader[r].scope
          /\ after.fetched = reader[r].fetched
        BY <1>3, <2>2 DEF ReaderStates
    <2>4. reader' = [reader EXCEPT ![r] = after]
        BY <1>1, <1>4 DEF told
    <2> HIDE DEF after
    <2> QED
        BY <1>1, <2>2, <2>3, <2>4, OneReaderOK DEF BInv
<1>5. CASE Held(memo, p) = Nothing
    <2> DEFINE back == [text |-> disk[p], names |-> Nothing]
               told == Told(p, Nothing)
               after == [reader[r] EXCEPT !.fetched = back, !.told = told]
    <2>1. back \in Answers /\ back.text = disk[p]
        BY <1>2 DEF Answers
    <2>2. told \in Tellings /\ told.path = p /\ p # Nothing /\ told.read = Nothing
        BY MemoAssumption DEF Tellings, Told, Unread
    <2>3. reader' = [reader EXCEPT ![r] = after]
        BY <1>1, <1>5
    <2> HIDE DEF told, back
    <2>4. /\ after \in ReaderStates /\ after.told = told /\ after.fetched = back
          /\ after.scope = reader[r].scope
        BY <1>3, <2>1, <2>2 DEF ReaderStates
    <2> HIDE DEF after
    <2> QED
        BY <1>1, <1>2, <2>1, <2>2, <2>3, <2>4, OneReaderOK DEF BInv
<1> QED
    BY <1>4, <1>5

LEMMA ListOK == ASSUME BInv, NEW r \in Readers, List(r) PROVE BInv'
<1> DEFINE back == [text |-> Nothing, names |-> Listing(disk)]
           after == [reader[r] EXCEPT !.fetched = back, !.told = Unread]
<1>1. /\ UNCHANGED <<disk, memo, verb, wish, writes, since>>
      /\ reader' = [reader EXCEPT ![r] = after]
    BY DEF List
<1>2. reader[r] \in ReaderStates
    BY DEF BInv, TypeOK
<1>3. Listing(disk) \in SUBSET Docs
    BY DEF Listing
<1>4. back \in Answers /\ back.names = Listing(disk)
    BY <1>3 DEF Answers
<1>5. Unread \in Tellings /\ Unread.path = Nothing /\ Unread.read = Nothing
    BY DEF Tellings, Unread
<1> HIDE DEF back
<1>6. /\ after \in ReaderStates /\ after.told = Unread /\ after.fetched = back
      /\ after.scope = reader[r].scope
    BY <1>2, <1>4, <1>5 DEF ReaderStates
<1> HIDE DEF after
<1> QED
    BY <1>1, <1>3, <1>4, <1>5, <1>6, OneReaderOK DEF BInv

\* What storage found is remembered, if it is anything and there is room.
LEMMA RememberedOK == ASSUME BInv, NEW r \in Readers, Remembered(r) PROVE BInv'
<1> DEFINE back == reader[r].fetched
           p == reader[r].told.path
           told == IF p = Nothing \/ back.text = Absent THEN Unread ELSE Told(p, back.text)
           after == [reader[r] EXCEPT !.fetched = Nothing, !.told = told]
<1>1. /\ back # Nothing /\ UNCHANGED <<disk, verb, wish, writes, since>>
      /\ memo' = IF p = Nothing THEN RememberDir(memo, back.names)
                 ELSE IF back.text = Absent THEN memo ELSE Remember(memo, p, back.text)
      /\ reader' = [reader EXCEPT ![r] = after]
    BY DEF Remembered
<1>2. reader[r] \in ReaderStates /\ Honest(memo)
    BY DEF BInv, TypeOK
<1>3. p \in Docs \cup {Nothing}
    BY <1>2 DEF ReaderStates, Tellings
<1>4. IF p = Nothing THEN back.names \in SUBSET Docs ELSE back.text \in Texts \cup {Absent}
    BY <1>1 DEF BInv, AnswersFit
<1> HIDE DEF back, p
<1>5. Honest(memo') /\ memo'.depth = memo.depth
    BY <1>1, <1>2, <1>3, <1>4, RememberHonest, RememberDirHonest
<1>6. told \in Tellings /\ (told.read # Nothing => told.path \in Docs)
    BY <1>3, <1>4 DEF Tellings, Told, Unread
<1> HIDE DEF told
<1>7. /\ after \in ReaderStates /\ after.told = told /\ after.fetched = Nothing
      /\ after.scope = reader[r].scope
    BY <1>2, <1>6 DEF ReaderStates
<1> HIDE DEF after
<1> QED
    BY <1>1, <1>5, <1>6, <1>7, OneReaderOK

\* Working out links and the prepared text changes only what is kept beside a
\* document: what is held, and as it was read, is the same.
LEMMA PrepareMemo ==
    ASSUME BInv, NEW r \in Readers, Prepare(r)
    PROVE  /\ Honest(memo') /\ memo'.depth = memo.depth /\ Keeps(memo, memo')
           /\ \E links \in Nat, prepared \in Nat :
                 reader' = [reader EXCEPT ![r].told = [@ EXCEPT !.links = links,
                                                                !.prepared = prepared]]
<1> DEFINE told == reader[r].told
           p == told.path
           body == told.read.body
           links == IF OfBody(memo, p, body) /\ memo.docs[p].links # Nothing
                    THEN memo.docs[p].links ELSE body
           prepared == IF OfRead(memo, p, told.read) /\ memo.docs[p].prepared # Nothing
                       THEN memo.docs[p].prepared ELSE told.read.text
           scanned == IF OfBody(memo, p, body) /\ memo.docs[p].links = Nothing
                      THEN [memo EXCEPT !.docs[p].links = links] ELSE memo
<1>1. /\ told.read # Nothing
      /\ reader' = [reader EXCEPT ![r].told = [@ EXCEPT !.links = links, !.prepared = prepared]]
      /\ memo' = IF OfRead(scanned, p, told.read) /\ scanned.docs[p].prepared = Nothing
                 THEN [scanned EXCEPT !.docs[p].prepared = prepared] ELSE scanned
    BY DEF Prepare
<1>2. /\ told \in Tellings /\ p \in Docs /\ Honest(memo) /\ memo \in Memos
      /\ memo.docs[p] \in Copies \cup {Nothing}
    BY <1>1 DEF BInv, TypeOK, ReadersAgree, ReaderStates, Honest, Memos
<1>3. told.read \in Texts /\ body \in Nat /\ told.read.text \in Nat
    BY <1>1, <1>2 DEF Tellings, Texts
<1> HIDE DEF told, p, body
<1>4. links \in Nat
    BY <1>2, <1>3 DEF OfBody, Held, Copies
<1>5. prepared \in Nat
    BY <1>2, <1>3 DEF OfRead, Held, Copies
<1> HIDE DEF links, prepared
<1>6. /\ scanned \in Memos /\ HeldDocs(scanned) = HeldDocs(memo)
      /\ scanned.dir = memo.dir /\ scanned.bytes = memo.bytes /\ scanned.depth = memo.depth
      /\ \A q \in Docs : memo.docs[q] # Nothing => scanned.docs[q].read = memo.docs[q].read
      /\ scanned # memo => memo.depth # 0
    <2>1. CASE OfBody(memo, p, body) /\ memo.docs[p].links = Nothing
        <3>1. memo.depth # 0 /\ memo.docs[p] # Nothing
            BY <1>2, <2>1 DEF OfBody, Held, Memos
        <3>2. scanned \in Beside(memo, p, links)
            BY <2>1 DEF Beside
        <3> HIDE DEF scanned
        <3> QED
            BY <1>2, <1>4, <3>1, <3>2, BesideOK
    <2>2. CASE ~(OfBody(memo, p, body) /\ memo.docs[p].links = Nothing)
        <3>1. scanned = memo
            BY <2>2
        <3> HIDE DEF scanned
        <3> QED
            BY <1>2, <3>1
    <2> QED
        BY <2>1, <2>2
<1> HIDE DEF scanned
<1>7. /\ memo' \in Memos /\ HeldDocs(memo') = HeldDocs(memo)
      /\ memo'.dir = memo.dir /\ memo'.bytes = memo.bytes /\ memo'.depth = memo.depth
      /\ \A q \in Docs : memo.docs[q] # Nothing => memo'.docs[q].read = memo.docs[q].read
      /\ memo' # memo => memo.depth # 0
    <2>1. CASE OfRead(scanned, p, told.read) /\ scanned.docs[p].prepared = Nothing
        <3>1. scanned.depth # 0 /\ scanned.docs[p] # Nothing
            BY <1>6, <2>1 DEF OfRead, Held, Memos
        <3>2. memo' \in Beside(scanned, p, prepared)
            BY <1>1, <2>1 DEF Beside
        <3>3. /\ memo' \in Memos /\ HeldDocs(memo') = HeldDocs(scanned)
              /\ memo'.dir = scanned.dir /\ memo'.bytes = scanned.bytes
              /\ memo'.depth = scanned.depth
              /\ \A q \in Docs : scanned.docs[q] # Nothing =>
                    memo'.docs[q].read = scanned.docs[q].read
            BY <1>2, <1>5, <1>6, <3>1, <3>2, BesideOK
        <3>4. \A q \in Docs : memo.docs[q] # Nothing => scanned.docs[q] # Nothing
            BY <1>6 DEF HeldDocs
        <3> QED
            BY <1>6, <3>1, <3>3, <3>4
    <2>2. CASE ~(OfRead(scanned, p, told.read) /\ scanned.docs[p].prepared = Nothing)
        BY <1>1, <1>6, <2>2
    <2> QED
        BY <2>1, <2>2
<1>8. Honest(memo')
    <2>1. CASE memo.depth # 0
        BY <1>2, <1>7, <2>1, SameHeldHonest
    <2>2. CASE memo.depth = 0
        BY <1>2, <1>7, <2>2
    <2> QED
        BY <2>1, <2>2
<1>9. Keeps(memo, memo')
    BY <1>7 DEF Keeps, HeldDocs
<1> QED
    BY <1>1, <1>4, <1>5, <1>7, <1>8, <1>9

LEMMA PrepareOK == ASSUME BInv, NEW r \in Readers, Prepare(r) PROVE BInv'
<1>1. PICK links \in Nat, prepared \in Nat :
         reader' = [reader EXCEPT ![r].told = [@ EXCEPT !.links = links, !.prepared = prepared]]
    BY PrepareMemo
<1> DEFINE told == [reader[r].told EXCEPT !.links = links, !.prepared = prepared]
           after == [reader[r] EXCEPT !.told = told]
<1>2. reader[r] \in ReaderStates /\ reader[r].told \in Tellings
    BY DEF BInv, TypeOK, ReaderStates
<1>3. told \in Tellings /\ told.path = reader[r].told.path /\ told.read = reader[r].told.read
    BY <1>2 DEF Tellings
<1>4. reader' = [reader EXCEPT ![r] = after]
    BY <1>1
<1> HIDE DEF told
<1>5. /\ after \in ReaderStates /\ after.told = told /\ after.fetched = reader[r].fetched
      /\ after.scope = reader[r].scope
    BY <1>2, <1>3 DEF ReaderStates
<1> HIDE DEF after
<1>6. /\ after.told.read # Nothing => after.told.path \in Docs
      /\ after.fetched # Nothing =>
             IF after.told.path = Nothing THEN after.fetched.names \in SUBSET Docs
                                          ELSE after.fetched.text \in Texts \cup {Absent}
    BY <1>3, <1>5 DEF BInv, ReadersAgree, AnswersFit
<1>7. UNCHANGED <<disk, verb, wish, writes, since>>
    BY DEF Prepare
<1> QED
    BY <1>4, <1>5, <1>6, <1>7, PrepareMemo, OneReaderOK

\* What the disk has been since a set landed, and since anybody wrote.
LEMMA SinceOK ==
    ASSUME TypeOK, NEW d \in [Docs -> Texts \cup {Absent}], NEW ops \in SUBSET Docs
    PROVE  /\ Landed(d, ops) \in Pasts
           /\ Seen(d) \in Pasts
<1>1. since.docs \in [Docs -> SUBSET (Texts \cup {Absent})] /\ since.dir \in SUBSET SUBSET Docs
    BY DEF TypeOK, Pasts
<1>2. Listing(d) \in SUBSET Docs
    BY DEF Listing
<1>3. [p \in Docs |-> IF p \in ops THEN {d[p]} ELSE since.docs[p]]
        \in [Docs -> SUBSET (Texts \cup {Absent})]
    BY <1>1
<1>4. [p \in Docs |-> since.docs[p] \cup {d[p]}] \in [Docs -> SUBSET (Texts \cup {Absent})]
    BY <1>1
<1> QED
    BY <1>1, <1>2, <1>3, <1>4 DEF Landed, Seen, Pasts

\* A verb begins: what it read is remembered, or was.
LEMMA LoadOK == ASSUME BInv, NEW p \in Docs, Load(p) PROVE BInv'
<1> DEFINE read == IF Held(memo, p) # Nothing THEN Held(memo, p).read ELSE disk[p]
<1>1. /\ UNCHANGED <<disk, reader, writes, since>>
      /\ \/ wish' = wish \ {p} /\ UNCHANGED <<memo, verb>>
         \/ /\ read # Absent
            /\ verb' = [at |-> "commit", path |-> p, read |-> read]
            /\ memo' = IF Held(memo, p) # Nothing THEN memo ELSE Remember(memo, p, read)
            /\ UNCHANGED wish
    BY DEF Load
<1>2. /\ TypeOK /\ Honest(memo) /\ disk[p] \in Texts \cup {Absent}
      /\ memo.docs[p] \in Copies \cup {Nothing}
    BY DEF BInv, TypeOK
<1>3. read \in Texts \cup {Absent}
    BY <1>2 DEF Held, Copies
<1> HIDE DEF read
<1>4. CASE wish' = wish \ {p} /\ UNCHANGED <<memo, verb>>
    <2>1. TypeOK'
        BY <1>1, <1>2, <1>4 DEF TypeOK
    <2> QED
        BY <1>1, <1>2, <1>4, <2>1, ReadersAloneOK
<1>5. CASE /\ read # Absent
           /\ verb' = [at |-> "commit", path |-> p, read |-> read]
           /\ memo' = IF Held(memo, p) # Nothing THEN memo ELSE Remember(memo, p, read)
           /\ UNCHANGED wish
    <2>1. Honest(memo') /\ memo'.depth = memo.depth
        BY <1>2, <1>3, <1>5, RememberHonest
    <2>2. TypeOK'
        BY <1>1, <1>2, <1>3, <1>5, <2>1 DEF TypeOK, Honest, Memos
    <2> QED
        BY <1>1, <2>1, <2>2, ReadersAloneOK
<1> QED
    BY <1>1, <1>4, <1>5

\* A set is committed, or refused: the memo has forgotten its paths either way.
LEMMA CommitMemo ==
    ASSUME BInv, NEW to \in Docs, NEW body \in BOOLEAN, Commit(to, body)
    PROVE  /\ Honest(memo') /\ memo'.depth = memo.depth /\ Keeps(memo, memo')
           /\ memo'.docs[verb.path] = Nothing /\ memo'.docs[to] = Nothing
           /\ memo'.dir = Nothing
<1> DEFINE once == Forget(memo, verb.path)
<1>1. /\ verb.path \in Docs /\ Honest(memo) /\ memo' = Forget(once, to)
    BY DEF Commit, ForgetWritten, BInv, TypeOK
<1>2. /\ Honest(once) /\ once.depth = memo.depth /\ Keeps(memo, once)
      /\ once.docs[verb.path] = Nothing
    BY <1>1, ForgetHonest
<1> HIDE DEF once
<1>3. /\ Honest(memo') /\ memo'.depth = once.depth /\ Keeps(once, memo')
      /\ memo'.docs[to] = Nothing /\ memo'.dir = Nothing
    BY <1>1, <1>2, ForgetHonest
<1>4. Keeps(memo, memo') /\ memo'.docs[verb.path] = Nothing
    BY <1>1, <1>2, <1>3 DEF Keeps
<1> QED
    BY <1>2, <1>3, <1>4

LEMMA CommitOK ==
    ASSUME BInv, NEW to \in Docs, NEW body \in BOOLEAN, Commit(to, body)
    PROVE  BInv'
<1> DEFINE p == verb.path
           text == [text |-> writes + 1, body |-> IF body THEN writes + 1 ELSE verb.read.body]
           after == [disk EXCEPT ![p] = Absent, ![to] = text]
<1>1. /\ verb.at = "commit" /\ verb' = NoVerb /\ UNCHANGED reader
      /\ \/ /\ disk' = after /\ writes' = writes + 1 /\ wish' = wish \ {p}
            /\ since' = Landed(after, {p, to})
         \/ wish' \in {wish \ {p}, wish} /\ UNCHANGED <<disk, writes, since>>
    BY DEF Commit
<1>2. TypeOK /\ p \in Docs /\ verb.read \in Texts /\ writes \in Nat
    BY <1>1 DEF BInv, TypeOK
<1>3. text \in Texts
    BY <1>2 DEF Texts
<1> HIDE DEF text
<1>4. after \in [Docs -> Texts \cup {Absent}]
    BY <1>2, <1>3 DEF TypeOK
<1>5. Landed(after, {p, to}) \in Pasts
    BY <1>2, <1>4, SinceOK
<1> HIDE DEF after, p
<1>6. Honest(memo') /\ memo'.depth = memo.depth
    BY CommitMemo
<1>7. TypeOK'
    BY <1>1, <1>2, <1>4, <1>5, <1>6 DEF TypeOK, NoVerb, Honest, Memos
<1> QED
    BY <1>1, <1>6, <1>7, ReadersAloneOK

\* A set that bypasses commit, and another process.
LEMMA DirectOK == ASSUME BInv, NEW p \in Docs, Direct(p) PROVE BInv'
<1>1. /\ disk[p] # Absent /\ disk' = [disk EXCEPT ![p].text = writes + 1] /\ writes' = writes + 1
      /\ since' = Landed(disk', {p}) /\ UNCHANGED <<memo, reader, verb, wish>>
    BY DEF Direct
<1>2. TypeOK /\ disk \in [Docs -> Texts \cup {Absent}] /\ writes \in Nat /\ Honest(memo)
    BY DEF BInv, TypeOK
<1>3. disk' \in [Docs -> Texts \cup {Absent}]
    <2> DEFINE text == [disk[p] EXCEPT !.text = writes + 1]
    <2>1. disk[p] \in Texts
        BY <1>1, <1>2
    <2>2. text \in Texts
        BY <1>2, <2>1 DEF Texts
    <2>3. disk' = [disk EXCEPT ![p] = text]
        BY <1>1, Zenon
    <2> HIDE DEF text
    <2> QED
        BY <1>2, <2>2, <2>3
<1>4. since' \in Pasts
    BY <1>1, <1>2, <1>3, SinceOK
<1>5. TypeOK'
    BY <1>1, <1>2, <1>3, <1>4 DEF TypeOK
<1> QED
    BY <1>1, <1>2, <1>5, ReadersAloneOK

LEMMA ElsewhereOK ==
    ASSUME BInv, NEW p \in Listing(disk),
           NEW text \in {Absent} \cup [text : {writes + 1}, body : {writes + 1, disk[p].body}],
           Elsewhere(p, text)
    PROVE  BInv'
<1>1. /\ disk' = [disk EXCEPT ![p] = text] /\ writes' = writes + 1
      /\ since' = Seen(disk') /\ UNCHANGED <<memo, reader, verb, wish>>
    BY DEF Elsewhere
<1>2. /\ TypeOK /\ disk \in [Docs -> Texts \cup {Absent}] /\ writes \in Nat /\ Honest(memo)
      /\ p \in Docs /\ disk[p] \in Texts
    BY DEF BInv, TypeOK, Listing
<1>3. text \in Texts \cup {Absent}
    BY <1>2 DEF Texts
<1>4. disk' \in [Docs -> Texts \cup {Absent}]
    BY <1>1, <1>2, <1>3
<1>5. since' \in Pasts
    BY <1>1, <1>2, <1>4, SinceOK
<1>6. TypeOK'
    BY <1>1, <1>2, <1>4, <1>5 DEF TypeOK
<1> QED
    BY <1>1, <1>2, <1>6, ReadersAloneOK

-----------------------------------------------------------------------------
(* The steps together.                                                     *)

LEMMA BInit == Init => BInv
<1> SUFFICES ASSUME Init PROVE BInv
    OBVIOUS
<1>1. /\ disk = [p \in Docs |-> IF p \in First THEN [text |-> 0, body |-> 0] ELSE Absent]
      /\ memo = Empty
      /\ reader = [r \in Readers |-> [scope |-> FALSE, fetched |-> Nothing, told |-> Unread]]
      /\ verb = NoVerb /\ wish = {} /\ writes = 0
      /\ since = [docs |-> [p \in Docs |-> {disk[p]}], dir |-> {Listing(disk)}]
    BY DEF Init
<1>2. disk \in [Docs -> Texts \cup {Absent}]
    BY <1>1 DEF Texts
<1>3. since \in Pasts
    BY <1>1, <1>2 DEF Listing, Pasts
<1>4. Unread \in Tellings /\ Unread.read = Nothing
    BY DEF Unread, Tellings
<1>5. /\ reader \in [Readers -> ReaderStates]
      /\ \A r \in Readers : /\ reader[r].told = Unread /\ reader[r].fetched = Nothing
                            /\ ~reader[r].scope
    BY <1>1, <1>4 DEF ReaderStates
<1>6. Honest(memo) /\ memo.depth = 0
    BY <1>1, EmptyHonest DEF Empty
<1>7. Scopes = {} /\ Cardinality(Scopes) = 0
    BY <1>5, FS_EmptySet DEF Scopes
<1>8. TypeOK
    BY <1>1, <1>2, <1>3, <1>5, <1>6 DEF TypeOK, NoVerb, Honest, Memos
<1> QED
    BY <1>4, <1>5, <1>6, <1>7, <1>8 DEF BInv, ReadersAgree, AnswersFit

LEMMA BNextOK == ASSUME BInv, [Next]_vars PROVE BInv'
<1>1. ASSUME NEW r \in Readers,
             Open(r) \/ Close(r) \/ Remembered(r) \/ List(r) \/ Prepare(r) \/ \E p \in Docs : Read(r, p)
      PROVE  BInv'
    BY <1>1, OpenOK, CloseOK, RememberedOK, ListOK, PrepareOK, ReadOK
<1>2. ASSUME NEW p \in Docs, Wish(p) PROVE BInv'
    <2>1. TypeOK' /\ Honest(memo') /\ memo' = memo /\ reader' = reader
        BY <1>2 DEF Wish, BInv, TypeOK
    <2> QED
        BY <2>1, ReadersAloneOK
<1>3. ASSUME NEW p \in Docs, Load(p) \/ Direct(p) PROVE BInv'
    BY <1>3, LoadOK, DirectOK
<1>4. ASSUME NEW to \in Docs, NEW body \in BOOLEAN, Commit(to, body) PROVE BInv'
    BY <1>4, CommitOK
<1>5. CASE GiveUp
    <2>1. TypeOK' /\ Honest(memo') /\ memo' = memo /\ reader' = reader
        BY <1>5 DEF GiveUp, BInv, TypeOK, NoVerb
    <2> QED
        BY <2>1, ReadersAloneOK
<1>6. ASSUME NEW p \in Listing(disk),
             NEW text \in {Absent} \cup [text : {writes + 1}, body : {writes + 1, disk[p].body}],
             Elsewhere(p, text)
      PROVE  BInv'
    BY <1>6, ElsewhereOK
<1>7. CASE UNCHANGED vars
    BY <1>7 DEF vars, BInv, TypeOK, ReadersAgree, AnswersFit, Scopes, Honest, Weight, HeldDocs
<1> QED
    BY <1>1, <1>2, <1>3, <1>4, <1>5, <1>6, <1>7 DEF Next

\* The memo's weight never falls below what it holds nor rises above its budget,
\* its depth is the number of open scopes, and with none open it is empty
\* (ReadMemo's enter, leave, remember, remember_dir and forget): in whatever
\* order readers and verbs call them, the subtractions neither run below zero nor
\* let the memo grow past the bound.
THEOREM BudgetIsHonestHolds == Spec => []BudgetIsHonest
<1>1. BInv => BudgetIsHonest
    BY DEF BInv, BudgetIsHonest, Honest, Scopes
<1> QED
    BY BInit, BNextOK, <1>1, PTL DEF Spec

-----------------------------------------------------------------------------
(* Nothing of prov's own is stale, where every set goes through commit.    *)

SInv == BInv /\ NothingIsStale /\ AnswersAreRecent

\* A step that adds nothing to what is remembered or on its way.
LEMMA NothingNewOK ==
    ASSUME SInv, TypeOK', Keeps(memo, memo'), UNCHANGED <<disk, since>>,
           verb'.at = "commit" => Quiet',
           \A r \in Readers : \/ reader'[r].fetched = Nothing
                              \/ /\ reader'[r].fetched = reader[r].fetched
                                 /\ reader'[r].told.path = reader[r].told.path
    PROVE  NothingIsStale' /\ AnswersAreRecent'
<1>1. Listing(disk)' = Listing(disk)
    BY DEF Listing
<1>2. NothingIsStale'
    BY <1>1 DEF SInv, NothingIsStale, Keeps
<1>3. AnswersAreRecent'
    BY DEF SInv, AnswersAreRecent
<1> QED
    BY <1>2, <1>3

LEMMA ReaderStaleOK ==
    ASSUME SInv, BInv', NEW r \in Readers,
           Open(r) \/ Close(r) \/ Prepare(r)
    PROVE  NothingIsStale' /\ AnswersAreRecent'
<1>1. reader \in [Readers -> ReaderStates] /\ Honest(memo) /\ TypeOK'
    BY DEF SInv, BInv, TypeOK
<1>2. CASE Open(r)
    <2>1. Keeps(memo, memo') /\ UNCHANGED <<disk, since, verb>>
        BY <1>1, <1>2, EnterHonest DEF Open
    <2>2. \A q \in Readers : /\ reader'[q].fetched = reader[q].fetched
                             /\ reader'[q].told = reader[q].told
        BY <1>1, <1>2 DEF Open, ReaderStates
    <2>3. verb'.at = "commit" => Quiet'
        BY <2>1, <2>2 DEF SInv, NothingIsStale, Quiet
    <2> QED
        BY <1>1, <2>1, <2>2, <2>3, NothingNewOK
<1>3. CASE Close(r)
    <2>1. r \in Scopes
        BY <1>3 DEF Close, Scopes
    <2>2. memo.depth # 0
        BY <2>1, ScopesOK, MemoAssumption, FS_EmptySet, FS_Subset, FS_CardinalityType
           DEF SInv, BInv, Scopes
    <2>3. Keeps(memo, memo') /\ UNCHANGED <<disk, since, verb>>
        BY <1>1, <1>3, <2>2, LeaveHonest DEF Close
    <2>4. \A q \in Readers : \/ reader'[q].fetched = Nothing
                             \/ reader'[q] = reader[q]
        <3> DEFINE after == [reader[r] EXCEPT !.scope = FALSE, !.told = Unread]
        <3>1. after.fetched = Nothing
            BY <1>1, <1>3 DEF Close, ReaderStates
        <3>2. reader' = [reader EXCEPT ![r] = after]
            BY <1>3 DEF Close
        <3> HIDE DEF after
        <3> QED
            BY <1>1, <3>1, <3>2
    <2>5. verb'.at = "commit" => Quiet'
        BY <2>3, <2>4 DEF SInv, NothingIsStale, Quiet
    <2> QED
        BY <1>1, <2>3, <2>4, <2>5, NothingNewOK
<1>4. CASE Prepare(r)
    <2>1. Keeps(memo, memo') /\ UNCHANGED <<disk, since, verb>>
        BY <1>4, PrepareMemo DEF Prepare, SInv
    <2>2. PICK links \in Nat, prepared \in Nat :
             reader' = [reader EXCEPT ![r].told = [@ EXCEPT !.links = links, !.prepared = prepared]]
        BY <1>4, PrepareMemo DEF SInv
    <2>3. \A q \in Readers : /\ reader'[q].fetched = reader[q].fetched
                             /\ reader'[q].told.path = reader[q].told.path
        <3> DEFINE told == [reader[r].told EXCEPT !.links = links, !.prepared = prepared]
        <3>1. told.path = reader[r].told.path
            BY <1>1 DEF ReaderStates, Tellings
        <3>2. reader' = [reader EXCEPT ![r].told = told]
            BY <2>2
        <3> HIDE DEF told
        <3> QED
            BY <1>1, <3>1, <3>2 DEF ReaderStates
    <2>4. verb'.at = "commit" => Quiet'
        BY <2>1, <2>3 DEF SInv, NothingIsStale, Quiet
    <2> QED
        BY <1>1, <2>1, <2>3, <2>4, NothingNewOK
<1> QED
    BY <1>2, <1>3, <1>4

\* What is fetched is what the disk has.
LEMMA FetchStaleOK ==
    ASSUME SInv, BInv', NEW r \in Readers, List(r) \/ \E p \in Docs : Read(r, p)
    PROVE  NothingIsStale' /\ AnswersAreRecent'
<1>1. /\ reader \in [Readers -> ReaderStates] /\ verb.at # "commit"
      /\ UNCHANGED <<disk, memo, verb, wish, writes, since>> /\ reader[r] \in ReaderStates
    BY DEF SInv, BInv, TypeOK, Shared, Read, List
<1>2. NothingIsStale'
    BY <1>1 DEF SInv, NothingIsStale, Listing
<1>3. PICK after : /\ reader' = [reader EXCEPT ![r] = after]
                   /\ \/ after.fetched = Nothing
                      \/ after.told.path = Nothing /\ after.fetched.names = Listing(disk)
                      \/ \E p \in Docs : after.told.path = p /\ after.fetched.text = disk[p]
    <2>1. CASE List(r)
        <3> DEFINE back == [text |-> Nothing, names |-> Listing(disk)]
                   after == [reader[r] EXCEPT !.fetched = back, !.told = Unread]
        <3>1. back.names = Listing(disk) /\ Unread.path = Nothing
            BY DEF Unread
        <3>2. reader' = [reader EXCEPT ![r] = after]
            BY <2>1 DEF List
        <3> HIDE DEF back
        <3>3. after.fetched = back /\ after.told = Unread
            BY <1>1 DEF ReaderStates
        <3> HIDE DEF after
        <3> QED
            BY <3>1, <3>2, <3>3
    <2>2. ASSUME NEW p \in Docs, Read(r, p), Held(memo, p) # Nothing
          PROVE  \E after : reader' = [reader EXCEPT ![r] = after] /\ after.fetched = Nothing
        <3> DEFINE told == Told(p, Held(memo, p).read)
                   after == [reader[r] EXCEPT !.told = told]
        <3>1. after.fetched = Nothing
            BY <1>1, <2>2 DEF Read, ReaderStates
        <3>2. reader' = [reader EXCEPT ![r] = after]
            BY <2>2 DEF Read
        <3> HIDE DEF after
        <3> QED
            BY <3>1, <3>2
    <2>3. ASSUME NEW p \in Docs, Read(r, p), Held(memo, p) = Nothing
          PROVE  \E after : /\ reader' = [reader EXCEPT ![r] = after]
                            /\ after.told.path = p /\ after.fetched.text = disk[p]
        <3> DEFINE back == [text |-> disk[p], names |-> Nothing]
                   told == Told(p, Nothing)
                   after == [reader[r] EXCEPT !.fetched = back, !.told = told]
        <3>1. back.text = disk[p] /\ told.path = p
            BY DEF Told, Unread
        <3>2. reader' = [reader EXCEPT ![r] = after]
            BY <2>3 DEF Read
        <3> HIDE DEF back, told
        <3>3. after.fetched = back /\ after.told = told
            BY <1>1 DEF ReaderStates
        <3> HIDE DEF after
        <3> QED
            BY <3>1, <3>2, <3>3
    <2> QED
        BY <2>1, <2>2, <2>3
<1>4. reader'[r] = after /\ \A q \in Readers : q # r => reader'[q] = reader[q]
    BY <1>1, <1>3
<1>5. AnswersAreRecent'
    <2>1. ASSUME NEW q \in Readers, reader'[q].fetched # Nothing
          PROVE  IF reader'[q].told.path = Nothing
                 THEN reader'[q].fetched.names \in since.dir
                 ELSE reader'[q].fetched.text \in since.docs[reader'[q].told.path]
        <3>1. CASE q # r
            BY <1>4, <2>1, <3>1 DEF SInv, AnswersAreRecent
        <3>2. CASE q = r
            BY <1>3, <1>4, <2>1, <3>2, MemoAssumption DEF SInv, NothingIsStale
        <3> QED
            BY <3>1, <3>2
    <2> QED
        BY <1>1, <2>1 DEF AnswersAreRecent
<1> QED
    BY <1>2, <1>5

\* What is brought back is remembered as it was found.
LEMMA RememberedStaleOK ==
    ASSUME SInv, BInv', NEW r \in Readers, Remembered(r)
    PROVE  NothingIsStale' /\ AnswersAreRecent'
<1> DEFINE back == reader[r].fetched
           p == reader[r].told.path
<1>1. /\ back # Nothing /\ UNCHANGED <<disk, verb, wish, writes, since>>
      /\ memo' = IF p = Nothing THEN RememberDir(memo, back.names)
                 ELSE IF back.text = Absent THEN memo ELSE Remember(memo, p, back.text)
    BY DEF Remembered
<1>2. /\ reader \in [Readers -> ReaderStates] /\ p \in Docs \cup {Nothing} /\ Honest(memo)
      /\ verb.at # "commit"
    BY <1>1 DEF SInv, BInv, TypeOK, ReaderStates, Tellings, NothingIsStale, Quiet
<1>3. IF p = Nothing THEN back.names \in since.dir /\ back.names \in SUBSET Docs
      ELSE back.text \in since.docs[p] /\ back.text \in Texts \cup {Absent}
    BY <1>1 DEF SInv, AnswersAreRecent, BInv, AnswersFit
<1>4. \A q \in Readers : \/ reader'[q].fetched = Nothing
                         \/ reader'[q] = reader[q]
    <2> DEFINE told == IF p = Nothing \/ back.text = Absent THEN Unread ELSE Told(p, back.text)
               after == [reader[r] EXCEPT !.fetched = Nothing, !.told = told]
    <2>1. reader' = [reader EXCEPT ![r] = after]
        BY DEF Remembered
    <2> HIDE DEF told
    <2>2. after.fetched = Nothing
        BY <1>2 DEF ReaderStates
    <2> HIDE DEF after
    <2> QED
        BY <1>2, <2>1, <2>2
<1> HIDE DEF back, p
<1>5. AnswersAreRecent'
    BY <1>1, <1>4 DEF SInv, AnswersAreRecent
<1>6. /\ \A q \in Docs : \/ memo'.docs[q] = memo.docs[q]
                         \/ memo'.docs[q].read \in since.docs[q]
      /\ memo'.dir = memo.dir \/ memo'.dir \in since.dir
    <2>1. CASE p = Nothing
        BY <1>1, <1>2, <1>3, <2>1, RememberDirHonest
    <2>2. CASE p # Nothing /\ back.text = Absent
        BY <1>1, <2>2
    <2>3. CASE p # Nothing /\ back.text # Absent
        BY <1>1, <1>2, <1>3, <2>3, RememberHonest
    <2> QED
        BY <2>1, <2>2, <2>3
<1>7. NothingIsStale'
    BY <1>1, <1>2, <1>6 DEF SInv, NothingIsStale, Listing
<1> QED
    BY <1>5, <1>7

\* A verb that begins runs alone, and remembers what the disk has.
LEMMA LoadStaleOK ==
    ASSUME SInv, NEW p \in Docs, Load(p)
    PROVE  NothingIsStale' /\ AnswersAreRecent'
<1>1. /\ UNCHANGED <<disk, reader, writes, since>> /\ Quiet
      /\ \/ memo' = memo
         \/ disk[p] # Absent /\ memo' = Remember(memo, p, disk[p])
    BY DEF Load
<1>2. Honest(memo) /\ disk[p] \in Texts \cup {Absent}
    BY DEF SInv, BInv, TypeOK
<1>3. /\ \A q \in Docs : \/ memo'.docs[q] = memo.docs[q]
                         \/ q = p /\ memo'.docs[q].read = disk[q]
      /\ memo'.dir = memo.dir
    <2>1. CASE memo' = memo
        BY <2>1
    <2>2. CASE disk[p] # Absent /\ memo' = Remember(memo, p, disk[p])
        <3>1. disk[p] \in Texts
            BY <1>2, <2>2
        <3> QED
            BY <1>2, <2>2, <3>1, RememberHonest
    <2> QED
        BY <1>1, <2>1, <2>2
<1>4. NothingIsStale'
    BY <1>1, <1>3 DEF SInv, NothingIsStale, Listing, Quiet
<1> QED
    BY <1>1, <1>4 DEF SInv, AnswersAreRecent

\* A commit forgets its paths and the listing, so that what the disk has been
\* since may be cut down to what it is; nobody is on the way back.
LEMMA CommitStaleOK ==
    ASSUME SInv, NEW to \in Docs, NEW body \in BOOLEAN, Commit(to, body)
    PROVE  NothingIsStale' /\ AnswersAreRecent'
<1> DEFINE p == verb.path
           text == [text |-> writes + 1, body |-> IF body THEN writes + 1 ELSE verb.read.body]
           after == [disk EXCEPT ![p] = Absent, ![to] = text]
<1>1. /\ verb.at = "commit" /\ verb' = NoVerb /\ UNCHANGED reader
      /\ \/ disk' = after /\ since' = Landed(after, {p, to})
         \/ UNCHANGED <<disk, since>>
    BY DEF Commit
<1>2. /\ Quiet /\ p \in Docs /\ disk \in [Docs -> Texts \cup {Absent}] /\ verb'.at = "idle"
    BY <1>1 DEF SInv, BInv, TypeOK, NothingIsStale, NoVerb
<1>3. /\ Keeps(memo, memo') /\ memo'.docs[p] = Nothing /\ memo'.docs[to] = Nothing
      /\ memo'.dir = Nothing
    BY CommitMemo DEF SInv
<1> HIDE DEF text
<1>4. AnswersAreRecent'
    BY <1>1, <1>2 DEF AnswersAreRecent, Quiet
<1>5. CASE disk' = after /\ since' = Landed(after, {p, to})
    <2>1. \A q \in Docs : q \notin {p, to} => disk'[q] = disk[q]
        BY <1>2, <1>5
    <2> HIDE DEF after, p
    <2>2. /\ \A q \in Docs : since'.docs[q] = IF q \in {p, to} THEN {disk'[q]} ELSE since.docs[q]
          /\ since'.dir = {Listing(disk')}
        BY <1>5 DEF Landed
    <2>3. \A q \in Docs : disk'[q] \in since'.docs[q]
        BY <2>1, <2>2 DEF SInv, NothingIsStale
    <2>4. \A q \in Docs : memo'.docs[q] # Nothing =>
             q \notin {p, to} /\ memo'.docs[q].read \in since.docs[q]
        BY <1>3 DEF Keeps, SInv, NothingIsStale
    <2>5. Listing(disk)' = Listing(disk')
        BY DEF Listing
    <2> QED
        BY <1>2, <1>3, <1>4, <2>2, <2>3, <2>4, <2>5 DEF NothingIsStale
<1>6. CASE UNCHANGED <<disk, since>>
    BY <1>1, <1>2, <1>3, <1>4, <1>6 DEF SInv, NothingIsStale, Keeps, Listing
<1> QED
    BY <1>1, <1>5, <1>6

\* A set that bypasses commit finds no scope open and nobody on the way back.
LEMMA DirectStaleOK ==
    ASSUME "direct" \notin Freedoms, SInv, NEW p \in Docs, Direct(p)
    PROVE  NothingIsStale' /\ AnswersAreRecent'
<1>1. /\ memo.depth = 0 /\ Quiet /\ disk' = [disk EXCEPT ![p].text = writes + 1]
      /\ since' = Landed(disk', {p}) /\ UNCHANGED <<memo, reader, verb, wish>>
    BY DEF Direct
<1>2. /\ \A q \in Docs : memo.docs[q] = Nothing
      /\ memo.dir = Nothing
    BY <1>1 DEF SInv, BInv, Honest, Empty
<1>3. \A q \in Docs : q # p => disk'[q] = disk[q]
    BY <1>1 DEF SInv, BInv, TypeOK
<1>4. /\ \A q \in Docs : since'.docs[q] = IF q = p THEN {disk'[q]} ELSE since.docs[q]
      /\ since'.dir = {Listing(disk')} /\ Listing(disk)' = Listing(disk')
    BY <1>1 DEF Landed, Listing
<1>5. Quiet'
    BY <1>1 DEF Quiet
<1>6. \A q \in Docs : disk'[q] \in since'.docs[q]
    BY <1>3, <1>4 DEF SInv, NothingIsStale
<1> QED
    BY <1>1, <1>2, <1>4, <1>5, <1>6 DEF NothingIsStale, AnswersAreRecent, Quiet

\* Another process adds to what the disk has been, and takes nothing from it.
LEMMA ElsewhereStaleOK ==
    ASSUME SInv, NEW p, NEW text, Elsewhere(p, text)
    PROVE  NothingIsStale' /\ AnswersAreRecent'
<1>1. since' = Seen(disk') /\ UNCHANGED <<memo, reader, verb, wish>>
    BY DEF Elsewhere
<1>2. /\ \A q \in Docs : since'.docs[q] = since.docs[q] \cup {disk'[q]}
      /\ since'.dir = since.dir \cup {Listing(disk')} /\ Listing(disk)' = Listing(disk')
    BY <1>1 DEF Seen, Listing
<1>3. NothingIsStale'
    BY <1>1, <1>2 DEF SInv, NothingIsStale, Quiet
<1>4. AnswersAreRecent'
    <2>1. ASSUME NEW r \in Readers, reader[r].fetched # Nothing
          PROVE  IF reader[r].told.path = Nothing
                 THEN reader[r].fetched.names \in since'.dir
                 ELSE reader[r].fetched.text \in since'.docs[reader[r].told.path]
        <3>1. reader[r].told.path \in Docs \cup {Nothing}
            BY DEF SInv, BInv, TypeOK, ReaderStates, Tellings
        <3> QED
            BY <1>2, <2>1, <3>1 DEF SInv, AnswersAreRecent
    <2> QED
        BY <1>1, <2>1 DEF AnswersAreRecent
<1> QED
    BY <1>3, <1>4

LEMMA SInit == Init => SInv
<1> SUFFICES ASSUME Init PROVE SInv
    OBVIOUS
<1>1. BInv
    BY BInit
<1>2. /\ memo = Empty /\ verb.at = "idle" /\ \A r \in Readers : reader[r].fetched = Nothing
      /\ since = [docs |-> [p \in Docs |-> {disk[p]}], dir |-> {Listing(disk)}]
    BY DEF Init, NoVerb
<1>3. NothingIsStale
    BY <1>2 DEF NothingIsStale, Empty
<1>4. AnswersAreRecent
    BY <1>2 DEF AnswersAreRecent
<1> QED
    BY <1>1, <1>3, <1>4 DEF SInv

LEMMA SNextOK == ASSUME "direct" \notin Freedoms, SInv, [Next]_vars PROVE SInv'
<1>1. BInv'
    BY BNextOK DEF SInv
<1>2. ASSUME NEW r \in Readers,
             Open(r) \/ Close(r) \/ Remembered(r) \/ List(r) \/ Prepare(r) \/ \E p \in Docs : Read(r, p)
      PROVE  NothingIsStale' /\ AnswersAreRecent'
    BY <1>1, <1>2, ReaderStaleOK, FetchStaleOK, RememberedStaleOK
<1>3. ASSUME NEW p \in Docs, Load(p) \/ Direct(p)
      PROVE  NothingIsStale' /\ AnswersAreRecent'
    BY <1>3, LoadStaleOK, DirectStaleOK
<1>4. ASSUME NEW to \in Docs, NEW body \in BOOLEAN, Commit(to, body)
      PROVE  NothingIsStale' /\ AnswersAreRecent'
    BY <1>4, CommitStaleOK
<1>5. ASSUME NEW p, NEW text, Elsewhere(p, text)
      PROVE  NothingIsStale' /\ AnswersAreRecent'
    BY <1>5, ElsewhereStaleOK
<1>6. CASE (\E p \in Docs : Wish(p)) \/ GiveUp \/ UNCHANGED vars
    <2>1. /\ UNCHANGED <<disk, memo, reader, since>>
          /\ verb'.at = "commit" => verb.at = "commit"
        BY <1>6 DEF Wish, GiveUp, vars, NoVerb
    <2> QED
        BY <1>1, <2>1 DEF SInv, NothingIsStale, AnswersAreRecent, Listing, Quiet
<1> QED
    BY <1>1, <1>2, <1>3, <1>4, <1>5, <1>6 DEF Next, SInv

\* "Anything prov writes forgets itself" (workspace.rs:530): what the memo holds
\* of a document or of the listing is something the disk has held there since the
\* workspace's own last write, however readers, verbs and other processes
\* interleave, where no set is applied under an open scope without commit.
THEOREM OwnWritesAreSeenHolds ==
    ASSUME "direct" \notin Freedoms
    PROVE  Spec => []OwnWritesAreSeen
<1>1. SInv => OwnWritesAreSeen
    BY DEF SInv, NothingIsStale, OwnWritesAreSeen, Held, HeldDir
<1>2. SInv /\ [Next]_vars => SInv'
    BY SNextOK
<1> QED
    BY SInit, <1>1, <1>2, PTL DEF Spec
=============================================================================
