---------------------------- MODULE InboundProofs ----------------------------
(***************************************************************************)
(* An inbound index that a sweep of stats finds fresh gives the answer a   *)
(* census would give, for every set of paths, links and ids, but for the   *)
(* documents that changed where no stamp shows it, which are named.        *)
(***************************************************************************)
EXTENDS Inbound, TLAPS

Anything == [down : SUBSET Paths, links : SUBSET Linkable, refs : SUBSET Ids]

\* Edges of documents that are listed beneath the root by one another: whatever
\* holds the root and what its members list holds them all.
Grown(edges) ==
  /\ DOMAIN edges \subseteq Paths
  /\ \A held \in SUBSET Paths :
       /\ RootPath \in held
       /\ \A c \in held \cap DOMAIN edges : edges[c].spanning \cap DOMAIN edges \subseteq held
       => DOMAIN edges \subseteq held

\* Edges of a document that are those of the file, unless that changed unseen.
Shown(p) == EdgesOf(files[p])
Truly(edges, p) == p \in unseen \/ edges[p] = Shown(p)

\* The index is the walk of a tree whose every branch ends at a document or at
\* an absent path; of the documents vouched for it has the edges of the files.
IndexOK ==
  index # NoIndex =>
    /\ index = [docs |-> index.docs, absent |-> index.absent]
    /\ Grown(index.docs) /\ RootPath \in DOMAIN index.docs
    /\ \A p \in DOMAIN index.docs :
         index.docs[p].spanning \subseteq DOMAIN index.docs \cup index.absent
    /\ \A p \in DOMAIN index.docs \cap vouched : Truly(index.docs, p)

\* What has landed and is not settled: documents of the index, with the entries
\* they had, as they are on disk.
LandedOK ==
  landed # Nothing =>
    /\ index # NoIndex /\ ask = NoAsk
    /\ DOMAIN landed \subseteq DOMAIN index.docs
    /\ \A p \in DOMAIN landed : /\ Truly(landed, p)
                                /\ landed[p].spanning = index.docs[p].spanning

\* The census under way: what it has read is of the file until it is stamped, and
\* while it is vouched for after that.
AskOK ==
  ask # NoAsk =>
    /\ index = NoIndex
    /\ ask = [read |-> ask.read, missing |-> ask.missing, todo |-> ask.todo, keep |-> ask.keep]
    /\ Grown(ask.read) /\ RootPath \notin ask.missing
    /\ ask.todo \subseteq Known
    /\ \A p \in Known \cap (ask.todo \cup vouched) : Truly(ask.read, p)

\* The files, and a root among them.
FilesOK == files \in [Paths -> Anything \cup {NoDoc}] /\ RootPath \in Present

IInv ==
  /\ FilesOK /\ vouched \subseteq Present
  /\ IndexOK /\ LandedOK /\ AskOK

-----------------------------------------------------------------------------
(* What the walk and the index owe one another.                            *)

\* What ids resolve to is part of the edges: where it stays, the edges are those
\* of the text.
LEMMA ShownOK ==
    ASSUME where' = where, NEW p, NEW doc, files'[p] = doc
    PROVE  Shown(p)' = EdgesOf(doc)
    BY DEF Shown, EdgesOf

LEMMA ListsOK == ASSUME NEW doc PROVE EdgesOf(doc).spanning = doc.down
    BY DEF EdgesOf

\* A document is read because it is the root or one that is read lists it.
LEMMA GrownByOne ==
    ASSUME NEW edges, Grown(edges), NEW p \in Paths, NEW new,
           p = RootPath \/ \E c \in DOMAIN edges : p \in edges[c].spanning,
           DOMAIN new = DOMAIN edges \cup {p},
           \A c \in DOMAIN edges : new[c] = edges[c],
           p \notin DOMAIN edges
    PROVE  Grown(new)
<1>1. ASSUME NEW held \in SUBSET Paths, RootPath \in held,
             \A c \in held \cap DOMAIN new : new[c].spanning \cap DOMAIN new \subseteq held
      PROVE  DOMAIN new \subseteq held
    <2>1. \A c \in held \cap DOMAIN edges : edges[c].spanning \cap DOMAIN edges \subseteq held
        BY <1>1
    <2>2. DOMAIN edges \subseteq held
        BY <1>1, <2>1 DEF Grown
    <2>3. p \in held
        BY <1>1, <2>2
    <2> QED
        BY <2>2, <2>3
<1> QED
    BY <1>1 DEF Grown

\* A document that lists what it listed leaves the walk as it was.
LEMMA GrownTheSame ==
    ASSUME NEW edges, Grown(edges), NEW new, DOMAIN new = DOMAIN edges,
           \A c \in DOMAIN edges : new[c].spanning = edges[c].spanning
    PROVE  Grown(new)
    BY DEF Grown

\* An index that is fresh has the documents a census visits, and their edges.
LEMMA FreshHasTheCensus ==
    ASSUME IInv, index # NoIndex, StillFresh, unseen = {}
    PROVE  DOMAIN index.docs = Visited /\ \A p \in Visited : index.docs[p] = EdgesOf(files[p])
<1> DEFINE known == DOMAIN index.docs
<1>1. /\ Grown(index.docs) /\ RootPath \in known
      /\ \A p \in known : index.docs[p].spanning \subseteq known \cup index.absent
      /\ \A p \in known : p \in Present /\ index.docs[p] = EdgesOf(files[p])
      /\ index.absent \cap Present = {}
    BY DEF IInv, IndexOK, StillFresh, Truly, Shown
<1>2. \A p \in known : index.docs[p].spanning = files[p].down
    BY <1>1, ListsOK
<1>3. known \subseteq Paths /\ Present \subseteq Paths
    BY <1>1 DEF Grown, Present
<1> HIDE DEF known
<1>4. ASSUME NEW p \in known PROVE p \in Visited
    <2>1. ASSUME NEW reached \in SUBSET Present, Closed(reached) PROVE p \in reached
        <3>1. \A c \in reached \cap known : index.docs[c].spanning \cap known \subseteq reached
            BY <1>1, <1>2, <2>1 DEF Closed
        <3>2. known \subseteq reached
            BY <1>1, <1>3, <2>1, <3>1 DEF Grown, Closed, known
        <3> QED
            BY <1>4, <3>2
    <2> QED
        BY <1>3, <1>4, <2>1 DEF Visited
<1>5. Closed(known) /\ known \in SUBSET Present
    BY <1>1, <1>2 DEF Closed
<1>6. Visited \subseteq known
    BY <1>5 DEF Visited
<1> QED
    BY <1>1, <1>4, <1>6 DEF known

-----------------------------------------------------------------------------
(* The steps.                                                              *)

\* What drops the index owes nothing more than files.
LEMMA DroppedOK ==
    ASSUME FilesOK', vouched' = {}, index' = NoIndex, ask' = NoAsk, landed' = Nothing
    PROVE  IInv'
    BY DEF IInv, IndexOK, LandedOK, AskOK

LEMMA AskStepOK == ASSUME IInv, Ask PROVE IInv'
<1>1. /\ index' = NoIndex /\ vouched' = {} /\ UNCHANGED <<files, where, landed>> /\ landed = Nothing
      /\ ask' = [read |-> Nothing, missing |-> {}, todo |-> {}, keep |-> TRUE]
    BY DEF Ask, Idle
<1>2. Known' = {} /\ Grown(ask'.read)
    BY <1>1 DEF Known, Nothing, Grown
<1>3. AskOK'
    BY <1>1, <1>2 DEF AskOK
<1> QED
    BY <1>1, <1>3 DEF IInv, FilesOK, Present, IndexOK, LandedOK

\* The walk goes on: a document read is as it is on disk, and still to be stamped.
LEMMA ReadOK == ASSUME IInv, NEW p \in Paths, Read(p) PROVE IInv'
<1> DEFINE read == [q \in Known \cup {p} |-> IF q = p THEN EdgesOf(files[p]) ELSE ask.read[q]]
<1>1. /\ ask # NoAsk /\ p \in Frontier /\ UNCHANGED <<files, where, index, vouched, landed, unseen>>
      /\ ask' = IF p \in Present THEN [ask EXCEPT !.read = read, !.todo = @ \cup {p}]
                ELSE [ask EXCEPT !.missing = @ \cup {p}]
    BY DEF Read
<1>2. /\ index = NoIndex /\ landed = Nothing /\ RootPath \in Present
      /\ ask = [read |-> ask.read, missing |-> ask.missing, todo |-> ask.todo, keep |-> ask.keep]
      /\ Grown(ask.read) /\ RootPath \notin ask.missing /\ ask.todo \subseteq Known
      /\ \A q \in Known \cap (ask.todo \cup vouched) : Truly(ask.read, q)
    BY <1>1 DEF IInv, FilesOK, AskOK, LandedOK
<1>3. /\ p \notin Known
      /\ p = RootPath \/ \E c \in DOMAIN ask.read : p \in ask.read[c].spanning
    BY <1>1 DEF Frontier, Known
<1>4. CASE p \in Present
    <2>1. /\ ask' = [read |-> read, missing |-> ask.missing, todo |-> ask.todo \cup {p},
                     keep |-> ask.keep]
        BY <1>1, <1>2, <1>4
    <2>2. /\ DOMAIN read = Known \cup {p} /\ read[p] = Shown(p)
          /\ \A q \in Known : read[q] = ask.read[q]
        BY <1>3 DEF Shown
    <2> HIDE DEF read
    <2>3. /\ ask'.read = read /\ ask'.missing = ask.missing /\ ask'.todo = ask.todo \cup {p}
          /\ ask' = [read |-> ask'.read, missing |-> ask'.missing, todo |-> ask'.todo,
                     keep |-> ask'.keep]
          /\ Known' = Known \cup {p}
        BY <2>1, <2>2 DEF Known
    <2>4. Grown(read)
        BY <1>2, <1>3, <2>2, GrownByOne DEF Known
    <2>5. ASSUME NEW q \in Known \cup {p}, q \in ask.todo \cup {p} \cup vouched
          PROVE  Truly(read, q)
        BY <1>2, <1>4, <2>2, <2>5 DEF Truly
    <2>7. \A q \in Paths : Shown(q)' = Shown(q)
        BY <1>1, ShownOK DEF Shown
    <2>8. \A q \in Known' \cap (ask'.todo \cup vouched') : Truly(ask.read, q)'
        BY <1>1, <1>2, <2>3, <2>5, <2>7 DEF Truly, Present, Grown, Known
    <2>9. AskOK'
        BY <1>1, <1>2, <2>3, <2>4, <2>8 DEF AskOK
    <2> QED
        BY <1>1, <1>2, <2>9 DEF IInv, FilesOK, Present, IndexOK, LandedOK
<1>5. CASE p \notin Present
    <2>1. /\ ask' = [read |-> ask.read, missing |-> ask.missing \cup {p}, todo |-> ask.todo,
                     keep |-> ask.keep]
        BY <1>1, <1>2, <1>5
    <2>2. \A q \in Paths : Shown(q)' = Shown(q)
        BY <1>1, ShownOK DEF Shown
    <2>3. /\ ask'.read = ask.read /\ ask'.todo = ask.todo /\ RootPath \notin ask'.missing
          /\ ask' = [read |-> ask'.read, missing |-> ask'.missing, todo |-> ask'.todo,
                     keep |-> ask'.keep]
        BY <1>2, <1>5, <2>1
    <2>4. Known' = Known /\ Known \subseteq Paths
        BY <1>2, <2>3 DEF Known, Grown
    <2>5. \A q \in Known' \cap (ask'.todo \cup vouched') : Truly(ask.read, q)'
        BY <1>1, <1>2, <2>2, <2>3, <2>4 DEF Truly, Present
    <2>6. AskOK'
        BY <1>1, <1>2, <2>3, <2>4, <2>5 DEF AskOK
    <2> QED
        BY <1>1, <1>2, <2>6 DEF IInv, FilesOK, Present, IndexOK, LandedOK
<1> QED
    BY <1>4, <1>5

\* A stamp vouches for a document that was still to be stamped, and so is as read.
LEMMA StampOK == ASSUME IInv, NEW p \in Paths, Stamp(p) PROVE IInv'
<1>1. /\ ask # NoAsk /\ p \in ask.todo /\ UNCHANGED <<files, where, index, landed, unseen>>
      /\ ask' = [ask EXCEPT !.todo = @ \ {p}, !.keep = @ /\ p \in Present]
      /\ vouched' \subseteq vouched \cup ({p} \cap Present)
    BY DEF Stamp
<1>2. /\ index = NoIndex /\ landed = Nothing
      /\ ask = [read |-> ask.read, missing |-> ask.missing, todo |-> ask.todo, keep |-> ask.keep]
      /\ Grown(ask.read) /\ RootPath \notin ask.missing /\ ask.todo \subseteq Known
      /\ \A q \in Known \cap (ask.todo \cup vouched) : Truly(ask.read, q)
    BY <1>1 DEF IInv, AskOK, LandedOK
<1>3. /\ ask'.read = ask.read /\ ask'.missing = ask.missing /\ ask'.todo = ask.todo \ {p}
      /\ ask' = [read |-> ask'.read, missing |-> ask'.missing, todo |-> ask'.todo,
                 keep |-> ask'.keep]
    BY <1>1, <1>2
<1>4. Known' = Known /\ Known \subseteq Paths
    BY <1>2, <1>3 DEF Known, Grown
<1>5. \A q \in Paths : Shown(q)' = Shown(q)
    BY <1>1, ShownOK DEF Shown
<1>6. \A q \in Known' \cap (ask'.todo \cup vouched') : Truly(ask.read, q)'
    BY <1>1, <1>2, <1>3, <1>4, <1>5 DEF Truly, Present
<1>7. AskOK'
    BY <1>1, <1>2, <1>3, <1>4, <1>6 DEF AskOK
<1> QED
    BY <1>1, <1>2, <1>7 DEF IInv, FilesOK, Present, IndexOK, LandedOK

\* The walk is over: what it read lists nothing but what it read or found absent.
LEMMA AnswerOK == ASSUME IInv, Answer PROVE IInv'
<1>1. /\ ask # NoAsk /\ Frontier = {} /\ ask.todo = {} /\ ask' = NoAsk
      /\ UNCHANGED <<files, where, landed>>
      /\ \/ /\ index' = [docs |-> ask.read, absent |-> ask.missing]
            /\ vouched' = vouched /\ unseen' = unseen
         \/ index' = NoIndex /\ vouched' = {}
    BY DEF Answer
<1>2. /\ landed = Nothing /\ Grown(ask.read) /\ RootPath \notin ask.missing
      /\ \A q \in Known \cap vouched : Truly(ask.read, q)
    BY <1>1 DEF IInv, AskOK, LandedOK
<1>3. /\ RootPath \in Known
      /\ \A q \in Known : ask.read[q].spanning \subseteq Known \cup ask.missing
    BY <1>1, <1>2 DEF Frontier
<1>4. CASE index' = NoIndex /\ vouched' = {}
    BY <1>1, <1>2, <1>4, DroppedOK DEF IInv, FilesOK, Present
<1>5. CASE /\ index' = [docs |-> ask.read, absent |-> ask.missing]
           /\ vouched' = vouched /\ unseen' = unseen
    <2>1. index'.docs = ask.read /\ index'.absent = ask.missing
        BY <1>5
    <2>2. \A q \in Paths : Shown(q)' = Shown(q)
        BY <1>1, ShownOK DEF Shown
    <2>3. Known \subseteq Paths
        BY <1>2 DEF Known, Grown
    <2>4. \A q \in DOMAIN index'.docs \cap vouched' : Truly(index.docs, q)'
        BY <1>1, <1>2, <1>5, <2>1, <2>2, <2>3 DEF Truly, Present, Known
    <2>5. IndexOK'
        BY <1>2, <1>3, <1>5, <2>1, <2>4 DEF IndexOK, Known
    <2> QED
        BY <1>1, <1>2, <2>5 DEF IInv, FilesOK, Present, AskOK, LandedOK
<1> QED
    BY <1>1, <1>4, <1>5

\* A set of writes: the index keeps the documents it lists, and vouches for none
\* of those written; or it is dropped.
LEMMA LandOK ==
    ASSUME IInv, NEW writes, DOMAIN writes \subseteq Paths,
           \A p \in DOMAIN writes : writes[p] \in Anything, Land(writes)
    PROVE  IInv'
<1>1. /\ ask = NoAsk /\ landed = Nothing /\ where' = where /\ ask' = NoAsk
      /\ files' = [p \in Paths |-> IF p \in DOMAIN writes THEN writes[p] ELSE files[p]]
      /\ \/ /\ index # NoIndex /\ KeepsIndex(writes) /\ index' = index
            /\ landed' = [p \in DOMAIN writes |-> EdgesOf(writes[p])]
            /\ vouched' = vouched \ DOMAIN writes /\ unseen' = unseen \ DOMAIN writes
         \/ index' = NoIndex /\ landed' = Nothing /\ vouched' = {}
    BY DEF Land, Idle, Drop
<1>2. FilesOK'
    BY <1>1, InboundPaths, InboundSentinel DEF IInv, FilesOK, Present, Anything
<1>3. CASE index' = NoIndex /\ landed' = Nothing /\ vouched' = {}
    BY <1>1, <1>2, <1>3, DroppedOK
<1>4. CASE /\ index # NoIndex /\ KeepsIndex(writes) /\ index' = index
           /\ landed' = [p \in DOMAIN writes |-> EdgesOf(writes[p])]
           /\ vouched' = vouched \ DOMAIN writes /\ unseen' = unseen \ DOMAIN writes
    <2>1. /\ index = [docs |-> index.docs, absent |-> index.absent]
          /\ Grown(index.docs) /\ RootPath \in DOMAIN index.docs
          /\ \A p \in DOMAIN index.docs :
               index.docs[p].spanning \subseteq DOMAIN index.docs \cup index.absent
          /\ \A p \in DOMAIN index.docs \cap vouched : Truly(index.docs, p)
          /\ DOMAIN index.docs \subseteq Paths
        BY <1>4 DEF IInv, IndexOK, Grown
    <2>2. \A p \in Paths \ DOMAIN writes : files'[p] = files[p]
        BY <1>1
    <2>3. \A p \in Paths \ DOMAIN writes : Shown(p)' = Shown(p)
        BY <1>1, <2>2, ShownOK DEF Shown
    <2>4. \A p \in DOMAIN writes : Shown(p)' = EdgesOf(writes[p])
        BY <1>1, ShownOK
    <2>5. \A p \in DOMAIN index'.docs \cap vouched' : Truly(index.docs, p)'
        BY <1>4, <2>1, <2>2, <2>3 DEF Truly, Present
    <2>6. IndexOK'
        BY <1>4, <2>1, <2>5 DEF IndexOK
    <2>7. LandedOK'
        BY <1>1, <1>4, <2>4 DEF LandedOK, KeepsIndex, Truly
    <2>8. vouched' \subseteq Present'
        BY <1>1, <1>4, <2>2 DEF IInv, Present
    <2> QED
        BY <1>1, <1>2, <2>6, <2>7, <2>8 DEF IInv, AskOK
<1> QED
    BY <1>1, <1>3, <1>4

\* The verbs that land one.
LEMMA SaveOK ==
    ASSUME IInv, NEW p \in Paths, NEW links \in SUBSET Linkable, NEW refs \in SUBSET Ids,
           Save(p, links, refs)
    PROVE  IInv'
<1> DEFINE writes == [q \in {p} |-> [files[p] EXCEPT !.links = links, !.refs = refs]]
<1>1. Land(writes) /\ files[p] \in Anything
    BY DEF Save, Present, IInv, FilesOK
<1>2. DOMAIN writes \subseteq Paths /\ \A q \in DOMAIN writes : writes[q] \in Anything
    BY <1>1 DEF Anything
<1> HIDE DEF writes
<1> QED
    BY <1>1, <1>2, LandOK

LEMMA EnterOK ==
    ASSUME IInv, NEW p \in Paths, NEW parent \in Paths, Enter(p, parent)
    PROVE  IInv'
<1> DEFINE writes == [q \in {p, parent} |->
             IF q = parent THEN [files[parent] EXCEPT !.down = @ \cup {p}]
             ELSE IF p \in Present THEN files[p]
             ELSE [down |-> {}, links |-> {}, refs |-> {}]]
<1>1. /\ Land(writes) /\ files[parent] \in Anything
      /\ p \in Present => files[p] \in Anything
    BY DEF Enter, Present, IInv, FilesOK
<1>2. DOMAIN writes \subseteq Paths /\ \A q \in DOMAIN writes : writes[q] \in Anything
    BY <1>1 DEF Anything
<1> HIDE DEF writes
<1> QED
    BY <1>1, <1>2, LandOK

LEMMA ReparentOK ==
    ASSUME IInv, NEW p \in Paths, NEW old \in Paths, NEW parent \in Paths,
           Reparent(p, old, parent)
    PROVE  IInv'
<1> DEFINE writes == [q \in {p, old, parent} |->
             IF q = parent THEN [files[parent] EXCEPT !.down = @ \cup {p}]
             ELSE [files[q] EXCEPT !.down = @ \ {p}]]
<1>1. Land(writes) /\ \A q \in {p, old, parent} : files[q] \in Anything
    BY DEF Reparent, Present, IInv, FilesOK
<1>2. DOMAIN writes \subseteq Paths /\ \A q \in DOMAIN writes : writes[q] \in Anything
    BY <1>1 DEF Anything
<1> HIDE DEF writes
<1> QED
    BY <1>1, <1>2, LandOK

\* The verbs that drop it.
LEMMA DeleteOK ==
    ASSUME IInv, NEW p \in Paths, NEW parent \in Paths, Delete(p, parent)
    PROVE  IInv'
<1>1. /\ p \in Present \ {RootPath, parent} /\ parent \in Present
      /\ files' = [files EXCEPT ![p] = NoDoc, ![parent].down = @ \ {p}]
      /\ index' = NoIndex /\ vouched' = {} /\ ask' = NoAsk /\ landed' = Nothing
    BY DEF Delete, Drop, Idle
<1>2. FilesOK'
    <2> DEFINE doc == [files[parent] EXCEPT !.down = @ \ {p}]
    <2>1. files[parent] \in Anything /\ files \in [Paths -> Anything \cup {NoDoc}]
        BY <1>1 DEF IInv, FilesOK, Present
    <2>2. doc \in Anything
        BY <2>1 DEF Anything
    <2>3. files' = [files EXCEPT ![p] = NoDoc, ![parent] = doc]
        BY <1>1, <2>1
    <2> HIDE DEF doc
    <2> QED
        BY <1>1, <2>1, <2>2, <2>3, InboundPaths, InboundSentinel DEF IInv, FilesOK, Present, Anything
<1> QED
    BY <1>1, <1>2, DroppedOK

LEMMA RenameOK ==
    ASSUME IInv, NEW from \in Paths, NEW to \in Paths, Rename(from, to)
    PROVE  IInv'
<1>1. /\ from # RootPath /\ to \in Linkable
      /\ files' = [p \in Paths |->
                 IF p = to THEN files[from]
                 ELSE IF p = from THEN NoDoc
                 ELSE IF p \in Sources(index.docs, from, {"path"})
                 THEN Retargeted(files[p], from, to) ELSE files[p]]
      /\ index' = NoIndex /\ vouched' = {} /\ ask' = NoAsk /\ landed' = Nothing
    BY DEF Rename, Drop, Idle
<1>2. /\ Sources(index.docs, from, {"path"}) \subseteq Present
      /\ files \in [Paths -> Anything \cup {NoDoc}] /\ RootPath \in Present /\ to # RootPath
      /\ from \in Present
    BY DEF Rename, Sources, StillFresh, IInv, FilesOK, IndexOK, Truly
<1>3. ASSUME NEW p \in Present PROVE Retargeted(files[p], from, to) \in Anything
    BY <1>1, <1>2, InboundPaths DEF Retargeted, Anything, Present
<1>4. files' \in [Paths -> Anything \cup {NoDoc}]
    BY <1>1, <1>2, <1>3
<1>5. files'[RootPath] # NoDoc
    BY <1>1, <1>2, <1>3, InboundPaths, InboundSentinel DEF Present, Anything
<1>6. FilesOK'
    BY <1>4, <1>5, InboundPaths DEF FilesOK, Present
<1> QED
    BY <1>1, <1>6, DroppedOK

LEMMA ForgetOK == ASSUME IInv, Forget PROVE IInv'
<1>1. index' = NoIndex /\ vouched' = {} /\ ask' = NoAsk /\ landed' = Nothing /\ files' = files
    BY DEF Forget, Drop, Idle
<1> QED
    BY <1>1, DroppedOK DEF IInv, FilesOK, Present

\* A binding: dropped, or every document whose links it changes is unseen.
LEMMA RegisterIdOK ==
    ASSUME IInv, NEW i \in Ids, NEW p \in Paths, NEW hosted \in BOOLEAN, RegisterId(i, p, hosted)
    PROVE  IInv'
<1>1. /\ ask = NoAsk /\ landed = Nothing /\ UNCHANGED <<files, ask, landed>>
      /\ \/ index' = NoIndex /\ vouched' = {}
         \/ /\ unseen' = unseen \cup {q \in Present : \E j \in files[q].refs : where'[j] # where[j]}
            /\ UNCHANGED <<index, vouched>>
    BY DEF RegisterId, Drop, Idle
<1>2. FilesOK' /\ Present' = Present
    BY <1>1 DEF IInv, FilesOK, Present
<1>3. CASE index' = NoIndex /\ vouched' = {}
    BY <1>1, <1>2, <1>3, DroppedOK
<1>4. CASE /\ unseen' = unseen \cup {q \in Present : \E j \in files[q].refs : where'[j] # where[j]}
           /\ UNCHANGED <<index, vouched>>
    <2>1. ASSUME NEW q \in Present, q \notin unseen' PROVE Shown(q)' = Shown(q)
        <3>1. \A j \in files[q].refs : where'[j] = where[j]
            BY <1>4, <2>1
        <3>2. {<<where'[j], "id">> : j \in {k \in files[q].refs : where'[k] # NoPath}}
                = {<<where[j], "id">> : j \in {k \in files[q].refs : where[k] # NoPath}}
            BY <3>1
        <3> QED
            BY <1>1, <3>2 DEF Shown, EdgesOf
    <2>2. IndexOK'
        <3>1. SUFFICES ASSUME index # NoIndex PROVE IndexOK'
            BY <1>4 DEF IndexOK
        <3>2. \A q \in DOMAIN index'.docs \cap vouched' : Truly(index.docs, q)'
            BY <1>4, <2>1, <3>1 DEF Truly, IInv, IndexOK
        <3> QED
            BY <1>4, <3>1, <3>2 DEF IInv, IndexOK
    <2> QED
        BY <1>1, <1>2, <1>4, <2>2 DEF IInv, AskOK, LandedOK
<1> QED
    BY <1>1, <1>3, <1>4

\* The stamps of what landed: the index learns the links of documents that list
\* what they listed, and vouches for them again.
LEMMA SettleOK == ASSUME IInv, Settle PROVE IInv'
<1> DEFINE docs == [p \in DOMAIN index.docs \cup DOMAIN landed |->
                      IF p \in DOMAIN landed THEN landed[p] ELSE index.docs[p]]
<1>1. /\ landed # Nothing /\ landed' = Nothing /\ UNCHANGED <<files, where, ask>>
      /\ \/ /\ DOMAIN landed \subseteq Present
            /\ index' = [index EXCEPT !.docs = docs]
            /\ vouched' = vouched \cup DOMAIN landed /\ unseen' = unseen
         \/ index' = NoIndex /\ vouched' = {}
    BY DEF Settle, Drop
<1>2. /\ index # NoIndex /\ ask = NoAsk /\ DOMAIN landed \subseteq DOMAIN index.docs
      /\ \A p \in DOMAIN landed : /\ Truly(landed, p)
                                  /\ landed[p].spanning = index.docs[p].spanning
    BY <1>1 DEF IInv, LandedOK
<1>3. CASE index' = NoIndex /\ vouched' = {}
    BY <1>1, <1>2, <1>3, DroppedOK DEF IInv, FilesOK, Present
<1>4. CASE /\ DOMAIN landed \subseteq Present
           /\ index' = [index EXCEPT !.docs = docs]
           /\ vouched' = vouched \cup DOMAIN landed /\ unseen' = unseen
    <2>1. /\ index = [docs |-> index.docs, absent |-> index.absent]
          /\ Grown(index.docs) /\ RootPath \in DOMAIN index.docs
          /\ \A p \in DOMAIN index.docs :
               index.docs[p].spanning \subseteq DOMAIN index.docs \cup index.absent
          /\ \A p \in DOMAIN index.docs \cap vouched : Truly(index.docs, p)
          /\ DOMAIN index.docs \subseteq Paths
        BY <1>2 DEF IInv, IndexOK, Grown
    <2>2. /\ DOMAIN docs = DOMAIN index.docs
          /\ \A p \in DOMAIN index.docs : docs[p].spanning = index.docs[p].spanning
          /\ \A p \in DOMAIN index.docs \cap (vouched \cup DOMAIN landed) : Truly(docs, p)
        BY <1>2, <1>4, <2>1 DEF Truly
    <2> HIDE DEF docs
    <2>3. index'.docs = docs /\ index'.absent = index.absent
          /\ index' = [docs |-> index'.docs, absent |-> index'.absent]
        BY <1>4, <2>1
    <2>4. Grown(docs)
        BY <2>1, <2>2, GrownTheSame
    <2>5. \A p \in Paths : Shown(p)' = Shown(p)
        BY <1>1, ShownOK DEF Shown
    <2>6. \A p \in DOMAIN index'.docs \cap vouched' : Truly(index.docs, p)'
        BY <1>1, <1>4, <2>1, <2>2, <2>3, <2>5 DEF Truly, Present
    <2>7. IndexOK'
        BY <2>1, <2>2, <2>3, <2>4, <2>6 DEF IndexOK
    <2> QED
        BY <1>1, <1>2, <2>7 DEF IInv, FilesOK, Present, AskOK, LandedOK
<1> QED
    BY <1>1, <1>3, <1>4

\* Another writer: what it writes is vouched for no more, or changes unseen where
\* it waits for its stamp.
LEMMA ExternalOK ==
    ASSUME IInv, NEW p \in Paths, NEW doc \in Docs \cup {NoDoc}, External(p, doc)
    PROVE  IInv'
<1>1. /\ files' = [files EXCEPT ![p] = doc] /\ vouched' = vouched \ {p}
      /\ doc = NoDoc => p # RootPath
      /\ unseen \subseteq unseen'
      /\ p \in DOMAIN landed => p \in unseen'
      /\ ask # NoAsk /\ p \in ask.todo => p \in unseen'
      /\ UNCHANGED <<where, index, ask, landed>>
    BY DEF External, Exposed
<1>2. files \in [Paths -> Anything \cup {NoDoc}] /\ RootPath \in Present
    BY DEF IInv, FilesOK
<1>3. FilesOK'
    <2>1. doc \in Anything \cup {NoDoc}
        BY DEF Docs, Anything
    <2>2. doc # NoDoc => doc \in Anything
        BY <2>1
    <2> QED
        BY <1>1, <1>2, <2>1, InboundPaths, InboundSentinel DEF FilesOK, Present
<1>4. \A q \in Paths \ {p} : files'[q] = files[q] /\ Shown(q)' = Shown(q)
    <2>1. \A q \in Paths \ {p} : files'[q] = files[q]
        BY <1>1, <1>2
    <2> QED
        BY <1>1, <2>1, ShownOK DEF Shown
<1>5. IndexOK'
    <2>1. SUFFICES ASSUME index # NoIndex PROVE IndexOK'
        BY <1>1 DEF IndexOK
    <2>2. /\ index = [docs |-> index.docs, absent |-> index.absent]
          /\ Grown(index.docs) /\ RootPath \in DOMAIN index.docs
          /\ \A q \in DOMAIN index.docs :
               index.docs[q].spanning \subseteq DOMAIN index.docs \cup index.absent
          /\ \A q \in DOMAIN index.docs \cap vouched : Truly(index.docs, q)
          /\ DOMAIN index.docs \subseteq Paths
        BY <2>1 DEF IInv, IndexOK, Grown
    <2>3. \A q \in DOMAIN index'.docs \cap vouched' : Truly(index.docs, q)'
        BY <1>1, <1>4, <2>2 DEF Truly, Present
    <2> QED
        BY <1>1, <2>2, <2>3 DEF IndexOK
<1>6. LandedOK'
    BY <1>1, <1>4 DEF IInv, LandedOK, IndexOK, Grown, Truly
<1>7. AskOK'
    <2>1. SUFFICES ASSUME ask # NoAsk PROVE AskOK'
        BY <1>1 DEF AskOK
    <2>2. /\ Known' = Known /\ Known \subseteq Paths
          /\ \A q \in Known \cap (ask.todo \cup vouched) : Truly(ask.read, q)
        BY <1>1, <2>1 DEF IInv, AskOK, Known, Grown
    <2>3. \A q \in Known' \cap (ask'.todo \cup vouched') : Truly(ask.read, q)'
        BY <1>1, <1>4, <2>1, <2>2 DEF Truly, Present
    <2> QED
        BY <1>1, <2>1, <2>2, <2>3 DEF IInv, AskOK
<1>8. vouched' \subseteq Present'
    BY <1>1, <1>4 DEF IInv, Present
<1> QED
    BY <1>3, <1>5, <1>6, <1>7, <1>8 DEF IInv

-----------------------------------------------------------------------------
(* The steps together.                                                     *)

LEMMA InitOK == Init => IInv
<1> SUFFICES ASSUME Init PROVE IInv
    OBVIOUS
<1>1. PICK down \in SUBSET (Paths \ {RootPath}) :
        files = [p \in Paths |->
                  IF p = RootPath THEN [down |-> down, links |-> {}, refs |-> {}]
                  ELSE IF p \in down THEN [down |-> {}, links |-> {}, refs |-> {}]
                  ELSE NoDoc]
    BY DEF Init
<1>2. [down |-> down, links |-> {}, refs |-> {}] \in Anything
    BY DEF Anything
<1>3. [down |-> {}, links |-> {}, refs |-> {}] \in Anything
    BY DEF Anything
<1>4. FilesOK
    BY <1>1, <1>2, <1>3, InboundPaths, InboundSentinel DEF FilesOK, Present, Anything
<1> QED
    BY <1>4 DEF Init, IInv, IndexOK, LandedOK, AskOK

LEMMA NextOK == ASSUME IInv, [Next]_vars PROVE IInv'
<1>1. CASE Ask \/ Answer \/ Forget \/ Settle
    BY <1>1, AskStepOK, AnswerOK, ForgetOK, SettleOK
<1>2. ASSUME NEW p \in Paths, Read(p) \/ Stamp(p) PROVE IInv'
    BY <1>2, ReadOK, StampOK
<1>3. ASSUME NEW p \in Paths, NEW doc \in Docs \cup {NoDoc}, External(p, doc) PROVE IInv'
    BY <1>3, ExternalOK
<1>4. ASSUME NEW p \in Paths, NEW links \in SUBSET Linkable, NEW refs \in SUBSET Ids,
             Save(p, links, refs)
      PROVE  IInv'
    BY <1>4, SaveOK
<1>5. ASSUME NEW p \in Paths, NEW q \in Paths, Enter(p, q) \/ Delete(p, q) \/ Rename(p, q)
      PROVE  IInv'
    BY <1>5, EnterOK, DeleteOK, RenameOK
<1>6. ASSUME NEW p \in Paths, NEW old \in Paths, NEW q \in Paths, Reparent(p, old, q)
      PROVE  IInv'
    BY <1>6, ReparentOK
<1>7. ASSUME NEW p \in Paths, NEW i \in Ids, NEW hosted \in BOOLEAN, RegisterId(i, p, hosted)
      PROVE  IInv'
    BY <1>7, RegisterIdOK
<1>8. CASE UNCHANGED vars
    <2>1. \A p : Shown(p)' = Shown(p)
        BY <1>8, ShownOK DEF vars, Shown
    <2>2. Present' = Present /\ Known' = Known
        BY <1>8 DEF vars, Present, Known
    <2> QED
        BY <1>8, <2>1, <2>2 DEF vars, IInv, FilesOK, IndexOK, LandedOK, AskOK, Truly
<1> QED
    BY <1>1, <1>2, <1>3, <1>4, <1>5, <1>6, <1>7, <1>8 DEF Next

\* Whatever verbs and other writers do between any two of its reads and stamps, an
\* index that a sweep of stats finds fresh has the links of the files, but of the
\* documents in `unseen`; where there are none it names, of any path and in either form
\* of link, the sources a census would (inbound_sources_of answers from it and walks
\* nothing).
THEOREM FreshIndexIsTheCensusHolds == Spec => []FreshIndexIsTheCensus
<1>1. ASSUME IInv PROVE FreshIndexIsTheCensus
    <2>1. SUFFICES ASSUME index # NoIndex, StillFresh
                   PROVE  /\ \A p \in DOMAIN index.docs :
                               p \in Present /\ (p \in unseen \/ index.docs[p] = EdgesOf(files[p]))
                          /\ unseen = {} =>
                               \A target \in Paths, form \in Forms :
                                 Sources(index.docs, target, form) = Sources(CensusEdges, target, form)
        BY DEF FreshIndexIsTheCensus
    <2>2. \A p \in DOMAIN index.docs :
            p \in Present /\ (p \in unseen \/ index.docs[p] = EdgesOf(files[p]))
        BY <1>1, <2>1 DEF IInv, IndexOK, StillFresh, Truly, Shown
    <2>3. ASSUME unseen = {}, NEW target \in Paths, NEW form \in Forms
          PROVE  Sources(index.docs, target, form) = Sources(CensusEdges, target, form)
        <3>1. DOMAIN index.docs = Visited /\ \A p \in Visited : index.docs[p] = EdgesOf(files[p])
            BY <1>1, <2>1, <2>3, FreshHasTheCensus
        <3>2. DOMAIN CensusEdges = Visited /\ \A p \in Visited : CensusEdges[p] = EdgesOf(files[p])
            BY DEF CensusEdges
        <3> QED
            BY <3>1, <3>2 DEF Sources
    <2> QED
        BY <2>2, <2>3
<1>2. IInv /\ [Next]_vars => IInv'
    BY NextOK
<1> QED
    BY InitOK, <1>1, <1>2, PTL DEF Spec
=============================================================================
