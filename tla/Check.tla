-------------------------------- MODULE Check --------------------------------
(***************************************************************************)
(* check and check --fix: the walk that finds what is wrong with the tree  *)
(* and the registry, the remedies each finding is offered, and the loop    *)
(* that applies them one finding at a time from one list while the files   *)
(* are still anybody's to edit, between two findings and between what a    *)
(* finding is offered and what is then applied.  Links are relation        *)
(* entries; a link leads to a document, or by id to wherever the registry  *)
(* has the id.                                                             *)
(***************************************************************************)
EXTENDS Naturals, FiniteSets, Sequences, SequencesExt

CONSTANTS
    Docs, Root,  \* documents and the one the walk starts from
    InPathOrder, \* the documents, as sorting their paths lists them
    Near,        \* documents in the root's directory; each other has one of its own
    Bare,        \* documents with no metadata block to begin with
    Alike,       \* documents with names close to that of what is not there
    Ids, NoId, Nowhere, NoLink,
    First, FirstId, \* the document that is linked to begin with, and its id
    MaxLinks,    \* bound: entries of one document
    MaxEdits,    \* bound: edits by anybody but the loop
    MaxAttended, \* bound: edits after which no interactive run is started
    Modes,       \* how the loop is run: "mechanical", "interactive"
    Freedoms     \* "twins": ids are edited at any time, two documents may carry one

ASSUME CheckAssumption ==
    /\ Root \in Near /\ Near \subseteq Docs
    /\ IsInjective(InPathOrder) /\ ToSet(InPathOrder) = Docs
    /\ First \in Near \ {Root} /\ FirstId \in Ids
    /\ Bare \subseteq Docs \ {Root, First} /\ Alike \subseteq Docs
    /\ Nowhere \notin Docs /\ NoId \notin Ids

VARIABLES
    entries, \* document -> the links of its contents
    claim,   \* document -> its part_of, or NoLink
    stamp,   \* document -> the id it carries, or NoId
    reg,     \* id -> the document the registry has it at, or Nowhere
    bare,    \* the documents with no metadata block
    run,     \* the fix loop: what is left of its list
    edits

files == <<entries, claim, stamp, reg, bare>>
vars == <<entries, claim, stamp, reg, bare, run, edits>>

ByPath(to) == [form |-> "path", to |-> to]
ById(id) == [form |-> "id", to |-> id]
Links == {ByPath(d) : d \in Docs \cup {Nowhere}} \cup {ById(i) : i \in Ids}

Leads(link) == IF link.form = "id" THEN reg[link.to] ELSE link.to
Parent(d) == IF claim[d] = NoLink THEN Nowhere ELSE Leads(claim[d])
Lists(p, c) == \E k \in DOMAIN entries[p] : Leads(entries[p][k]) = c
IdAt(d) == IF \E i \in Ids : reg[i] = d THEN CHOOSE i \in Ids : reg[i] = d ELSE NoId

----------------------------------------------------------------------------
(* What check finds. *)

Finding(kind, doc, other) == [kind |-> kind, doc |-> doc, other |-> other]

Facts == [kind : {"IdMismatch", "IdTaken", "UnregisteredId", "UnstampedId", "MissingInverse",
                  "DuplicateContainment", "BrokenLink", "BrokenClaim", "MissingContainment",
                  "Orphan"},
          doc : Docs, other : Docs \cup Ids \cup Links]

Walks == [stack : Seq(Docs), facts : Seq(Facts), broken : Seq(Facts), visited : SUBSET Docs]

UnheardHere(i) == i \in Ids
Unheard(i) == reg[i] = Nowhere

IdFact(d) ==
    CASE stamp[d] # NoId /\ IdAt(d) \notin {NoId, stamp[d]} -> <<Finding("IdMismatch", d, stamp[d])>>
      [] stamp[d] # NoId /\ IdAt(d) = NoId ->
            IF Unheard(stamp[d])
            THEN <<Finding("UnregisteredId", d, stamp[d])>>
            ELSE <<Finding("IdTaken", d, stamp[d])>>
      [] stamp[d] = NoId /\ IdAt(d) # NoId -> <<Finding("UnstampedId", d, IdAt(d))>>
      [] OTHER -> <<>>

\* A link up is a link of the census too.
ClaimFact(d) ==
    IF claim[d] # NoLink /\ Parent(d) = Nowhere THEN <<Finding("BrokenClaim", d, claim[d])>> ELSE <<>>

VisitedOnly(visited, walk) == visited
Known(visited, walk) == visited \cup ToSet(walk.stack)

\* One entry of doc: a second way to a document is a duplicate, a first one is
\* descended, with the child, if it has metadata, asked whether it points back.
Meet(doc, visited, walk, link) ==
    LET child == Leads(link) IN
    CASE child = Nowhere ->
            [walk EXCEPT !.broken = Append(@, Finding("BrokenLink", doc, link))]
      [] child \in Known(visited, walk) ->
            [walk EXCEPT !.facts = Append(@, Finding("DuplicateContainment", doc, link))]
      [] OTHER ->
            [walk EXCEPT
               !.stack = Append(@, child),
               !.facts = IF child \in bare \/ Parent(child) = doc THEN @
                         ELSE Append(@, Finding("MissingInverse", doc, child))]

\* The spanning walk: the last entry found is the first descended.
Along[doc \in Docs, visited \in SUBSET Docs, walk \in Walks, links \in Seq(Links)] ==
    IF links = <<>> THEN walk
    ELSE Along[doc, visited, Meet(doc, visited, walk, Head(links)), Tail(links)]

Descend[visited \in SUBSET Docs, walk \in Walks] ==
    IF walk.stack = <<>> THEN [walk EXCEPT !.visited = visited]
    ELSE LET doc == Last(walk.stack)
             seen == visited \cup {doc}
             left == [walk EXCEPT !.stack = Front(@), !.facts = @ \o IdFact(doc),
                                  !.broken = @ \o ClaimFact(doc)]
         IN Descend[seen, Along[doc, seen, left, entries[doc]]]

Walk == Descend[{}, [stack |-> <<Root>>, facts |-> <<>>, broken |-> <<>>, visited |-> {}]]

\* reachable_set: where any link of a visited document leads, up or down.
Reached(visited) == visited \cup ({Parent(d) : d \in visited} \ {Nowhere})

\* The documents outside whose chain of claims, through others outside, lands
\* where it should.
Grown[outside \in SUBSET Docs, landing \in SUBSET Docs, members \in SUBSET Docs] ==
    LET joined == {d \in outside : Parent(d) \in landing \cup members}
    IN IF joined = members THEN members ELSE Grown[outside, landing, joined]
Island(reached) == Grown[Docs \ reached, reached, {}]

EdgeMissingContainment(island) ==
    LET named == SelectSeq(InPathOrder, LAMBDA d :
                     d \in island /\ Parent(d) \notin island /\ ~Lists(Parent(d), d))
    IN [k \in DOMAIN named |-> Finding("MissingContainment", named[k], Parent(named[k]))]

MissingContainment(island) ==
    LET named == SelectSeq(InPathOrder, LAMBDA d : d \in island /\ ~Lists(Parent(d), d))
    IN [k \in DOMAIN named |-> Finding("MissingContainment", named[k], Parent(named[k]))]

Orphans(reached, island) ==
    LET lost == SelectSeq(InPathOrder, LAMBDA d : d \in Near \ (reached \cup island))
    IN [k \in DOMAIN lost |-> Finding("Orphan", lost[k], Root)]

FindingsOf(walk) ==
    LET reached == Reached(walk.visited)
        island == Island(reached)
    IN walk.facts \o walk.broken \o MissingContainment(island) \o Orphans(reached, island)

Findings == FindingsOf(Walk)

----------------------------------------------------------------------------
(* What a finding is offered, read from the files when its turn comes. *)

Remedy(fix, warrant, doc, other) == [fix |-> fix, warrant |-> warrant, doc |-> doc, other |-> other]

\* The first entry of the parent that leads to the child.
Written(parent, child) ==
    {entries[parent][k] : k \in {n \in DOMAIN entries[parent] :
        /\ Leads(entries[parent][n]) = child
        /\ \A m \in 1..(n - 1) : Leads(entries[parent][m]) # child}}

Contested(parent, child) ==
    {Remedy("Reparent", "judgment", child, parent)} \cup
    {Remedy("RemoveEntry", "destructive", parent, link) : link \in Written(parent, child)}

MissingInverseUnread(f) == {Remedy("AddInverse", "derived", f.other, f.doc)}
MissingInverseRemedies(f) ==
    IF claim[f.other] # NoLink THEN Contested(f.doc, f.other)
    ELSE {Remedy("AddInverse", "derived", f.other, f.doc)}

Above(d) == IF d \in Near THEN Near ELSE Docs
AdoptiveParents(d) == {p \in Above(d) \ {d} : entries[p] # <<>>} \cup ({Root} \ {d})

IdMismatchSwapped(f) == {Remedy("SetId", "judgment", f.doc, f.other),
                         Remedy("RegisterId", "judgment", f.doc, IdAt(f.doc))}
IdMismatchRemedies(f) == {Remedy("SetId", "judgment", f.doc, IdAt(f.doc)),
                          Remedy("RegisterId", "judgment", f.doc, f.other)}

\* What is not there, by path, may have been meant for what has a name like it.
BrokenRemedies(f, removal) ==
    {Remedy(removal, "destructive", f.doc, f.other)} \cup
    {Remedy("Retarget", "judgment", f.doc, [from |-> f.other, to |-> ByPath(d)]) :
        d \in IF f.other.form = "path" THEN Alike ELSE {}}

IdTakenGuessed(f) == {Remedy("RegisterId", "derived", f.doc, f.other)}
IdTakenRemedies(f) == {}

Remedies(f) ==
    CASE f.kind = "MissingInverse" -> MissingInverseRemedies(f)
      [] f.kind = "IdMismatch" -> IdMismatchRemedies(f)
      [] f.kind = "IdTaken" -> IdTakenRemedies(f)
      [] f.kind = "UnregisteredId" -> {Remedy("RegisterId", "derived", f.doc, f.other)}
      [] f.kind = "UnstampedId" -> {Remedy("SetId", "derived", f.doc, f.other)}
      [] f.kind = "BrokenLink" -> BrokenRemedies(f, "RemoveEntry")
      [] f.kind = "BrokenClaim" -> BrokenRemedies(f, "RemoveClaim")
      [] f.kind = "DuplicateContainment" ->
            IF Leads(f.other) = Nowhere THEN {} ELSE Contested(f.doc, Leads(f.other))
      [] f.kind = "MissingContainment" -> {Remedy("Adopt", "derived", f.doc, f.other)}
      [] f.kind = "Orphan" -> {Remedy("Adopt", "judgment", f.doc, p) : p \in AdoptiveParents(f.doc)}

----------------------------------------------------------------------------
(* Applying one. *)

At(list, link) == SelectInSeq(list, LAMBDA written : written = link)
Without(list, link) == IF At(list, link) = 0 THEN list ELSE RemoveAt(list, At(list, link))
Instead(list, from, to) ==
    IF At(list, from) = 0 THEN list ELSE [list EXCEPT ![At(list, from)] = to]

FirstTo(parent, child) ==
    LET found == Written(parent, child)
    IN IF found = {} THEN entries[parent] ELSE Without(entries[parent], CHOOSE l \in found : TRUE)

Listed(parent, child) ==
    IF Lists(parent, child) THEN entries[parent] ELSE Append(entries[parent], ByPath(child))

SetInverse(child, parent) ==
    /\ claim' = [claim EXCEPT ![child] = IF Parent(child) = parent THEN @ ELSE ByPath(parent)]
    /\ UNCHANGED <<stamp, reg>>

RECURSIVE Climb(_, _)
Climb(d, seen) == IF d = Nowhere \/ d \in seen THEN seen ELSE Climb(Parent(d), seen \cup {d})

Refused(r) ==
    \/ r.fix = "Adopt" /\ (r.doc = r.other \/ (claim[r.doc] # NoLink /\ Parent(r.doc) # r.other))
    \/ r.fix = "Reparent" /\ r.doc \in Climb(r.other, {})

AddInverse(r) ==
    /\ r.fix = "AddInverse"
    /\ claim' = [claim EXCEPT ![r.doc] = ByPath(r.other)]
    /\ UNCHANGED <<entries, stamp, reg>>

Adopt(r) ==
    /\ r.fix = "Adopt"
    /\ entries' = [entries EXCEPT ![r.other] = Listed(r.other, r.doc)]
    /\ SetInverse(r.doc, r.other)

Reparent(r) ==
    /\ r.fix = "Reparent"
    /\ LET old == Parent(r.doc) IN
       entries' = [p \in Docs |->
           CASE p = r.other -> Listed(p, r.doc)
             [] p = old /\ p # r.other -> FirstTo(p, r.doc)
             [] OTHER -> entries[p]]
    /\ SetInverse(r.doc, r.other)

SetId(r) ==
    /\ r.fix = "SetId"
    /\ stamp' = [stamp EXCEPT ![r.doc] = r.other]
    /\ UNCHANGED <<entries, claim, reg>>

RegisterId(r) ==
    /\ r.fix = "RegisterId"
    /\ reg' = [i \in Ids |-> IF i = r.other THEN r.doc ELSE IF reg[i] = r.doc THEN Nowhere ELSE reg[i]]
    /\ UNCHANGED <<entries, claim, stamp>>

RemoveEntry(r) ==
    /\ r.fix = "RemoveEntry"
    /\ entries' = [entries EXCEPT ![r.doc] = Without(@, r.other)]
    /\ UNCHANGED <<claim, stamp, reg>>

\* The part_of, if it is still written as it was.
RemoveClaim(r) ==
    /\ r.fix = "RemoveClaim"
    /\ claim' = [claim EXCEPT ![r.doc] = IF @ = r.other THEN NoLink ELSE @]
    /\ UNCHANGED <<entries, stamp, reg>>

\* The relation is the finding's, and a document has a broken link in one or both.
Retarget(r, up) ==
    /\ r.fix = "Retarget"
    /\ IF up THEN /\ claim' = [claim EXCEPT ![r.doc] = IF @ = r.other.from THEN r.other.to ELSE @]
                   /\ UNCHANGED entries
       ELSE /\ entries' = [entries EXCEPT ![r.doc] = Instead(@, r.other.from, r.other.to)]
            /\ UNCHANGED claim
    /\ UNCHANGED <<stamp, reg>>

\* Whoever writes a link or an id into a document gives it a metadata block.
Blocked ==
    bare' = {d \in bare : /\ entries'[d] = entries[d]
                          /\ claim'[d] = claim[d] /\ stamp'[d] = stamp[d]}

ApplyFix(r) ==
    /\ ~Refused(r)
    /\ \/ AddInverse(r) \/ Adopt(r) \/ Reparent(r) \/ SetId(r) \/ RegisterId(r)
       \/ RemoveEntry(r) \/ RemoveClaim(r) \/ Retarget(r, Head(run.todo).kind = "BrokenClaim")
    /\ Blocked

----------------------------------------------------------------------------
(* The loop, and everybody else. *)

\* Two entries of one document for one child are the same quarrel twice.
ChildOf(f) == IF f.kind = "DuplicateContainment" THEN Leads(f.other) ELSE f.other
Quarrel(f) == IF f.kind \notin {"MissingInverse", "DuplicateContainment"} THEN f
              ELSE [f EXCEPT !.kind = "DuplicateContainment", !.other = ByPath(ChildOf(f))]
Times(f, list) == Cardinality({k \in DOMAIN list : Quarrel(list[k]) = Quarrel(f)})
Standing(f, list) == IF f \in ToSet(list) THEN Times(f, list) ELSE 0
IsDerived(f) == \E r \in Remedies(f) : r.warrant = "derived"

\* Nobody has asked yet what the head of the list is offered.
Unread == {NoLink}

NoRepair == [finding |-> NoLink, fix |-> "none", before |-> 0]
NoRun == [todo |-> <<>>, mode |-> "none", home |-> {}, quiet |-> TRUE,
          mendable |-> FALSE, repair |-> NoRepair, offer |-> Unread, since |-> {}]

\* History of a run: what nothing reaches and claims its way to a visited document.
Homeward(visited) == Grown[Docs \ Reached(visited), visited, {}]

CheckTree ==
    /\ run.todo = <<>>
    /\ \E walk \in {Walk} : \E found \in {FindingsOf(walk)} : \E mode \in Modes :
       /\ mode = "interactive" => edits <= MaxAttended
       /\ run' = [NoRun EXCEPT !.todo = found, !.mode = mode, !.home = Homeward(walk.visited),
                               !.mendable = \E f \in ToSet(found) : IsDerived(f)]
    /\ UNCHANGED <<files, edits>>

\* On to the next finding, or out of the loop.
GoOn(left, repair) ==
    run' = [run EXCEPT !.todo = left, !.repair = repair, !.offer = Unread, !.since = {}]

Leave == UNCHANGED files /\ GoOn(Tail(run.todo), NoRepair)

\* remedies is asked for what is at the head: now, or before somebody's edit.
Offered == IF run.offer = Unread THEN Remedies(Head(run.todo)) ELSE run.offer

\* A repair is applied, or refused by the verb it is, which ends the loop.
Noted(r) ==
    IF run.mode = "interactive"
    THEN [finding |-> Head(run.todo), fix |-> r.fix, before |-> Standing(Head(run.todo), Findings)]
    ELSE NoRepair
Take(r) ==
    \/ ApplyFix(r) /\ GoOn(Tail(run.todo), Noted(r))
    \/ Refused(r) /\ UNCHANGED files /\ GoOn(<<>>, NoRepair)

\* The mechanical loop takes what restates an authority and leaves the others.
FixMechanically ==
    /\ run.todo # <<>> /\ run.mode = "mechanical" /\ UNCHANGED edits
    /\ \/ (\A r \in Offered : r.warrant # "derived") /\ Leave
       \/ \E r \in Offered : r.warrant = "derived" /\ Take(r)

Choose ==
    /\ run.todo # <<>> /\ run.mode = "interactive" /\ UNCHANGED edits
    /\ Leave \/ \E r \in Offered : Take(r)

\* An edit, of the claims of some documents or of none: before the loop asks what
\* its next finding is offered, or between that and the repair.
Edit(claims) ==
    /\ edits < (IF run.mode = "interactive" THEN MaxAttended ELSE MaxEdits) /\ edits' = edits + 1
    /\ \E offer \in (IF run.todo = <<>> THEN {Unread} ELSE {run.offer, Offered}) :
         run' = [run EXCEPT !.quiet = FALSE, !.repair = NoRepair, !.offer = offer,
                            !.since = IF offer = Unread THEN {} ELSE @ \cup claims]

ListDown == Edit({}) /\ UNCHANGED <<claim, stamp, reg>> /\ \E d \in Docs, link \in Links :
    /\ Len(entries[d]) < MaxLinks
    /\ entries' = [entries EXCEPT ![d] = Append(@, link)]
    /\ Blocked

ClaimUp == UNCHANGED <<entries, stamp, reg>> /\ \E d \in Docs \ {Root}, link \in Links \cup {NoLink} :
    Edit({d}) /\ claim' = [claim EXCEPT ![d] = link] /\ Blocked

Carriers(i) == {d \in Docs : stamp[d] = i}

\* Ids are edited between runs, and no two documents carry one the registry
\* does not have.
IdsAreSafeWith(i, d) ==
    /\ run.todo = <<>>
    /\ i # NoId => reg[i] # Nowhere \/ Carriers(i) \subseteq {d}
EditIds(i, d) == Edit({}) /\ UNCHANGED <<entries, claim>> /\ (IdsAreSafeWith(i, d) \/ "twins" \in Freedoms)

Stamp == \E d \in Docs, i \in Ids \cup {NoId} :
    EditIds(i, d) /\ UNCHANGED reg /\ stamp' = [stamp EXCEPT ![d] = i] /\ Blocked

LoseRegistration == \E i \in Ids : reg[i] # Nowhere /\
    /\ Cardinality(Carriers(i)) <= 1 \/ "twins" \in Freedoms
    /\ EditIds(i, reg[i]) /\ UNCHANGED <<stamp, bare>>
    /\ reg' = [reg EXCEPT ![i] = Nowhere]

Init ==
    /\ entries = [d \in Docs |-> IF d = Root THEN <<ByPath(First)>> ELSE <<>>]
    /\ claim = [d \in Docs |-> IF d = First THEN ByPath(Root) ELSE NoLink]
    /\ stamp = [d \in Docs |-> IF d = First THEN FirstId ELSE NoId]
    /\ reg = [i \in Ids |-> IF i = FirstId THEN First ELSE Nowhere]
    /\ bare = Bare
    /\ run = NoRun
    /\ edits = 0

Next ==
    \/ CheckTree
    \/ FixMechanically
    \/ Choose
    \/ ListDown \/ ClaimUp \/ Stamp \/ LoseRegistration

\* A run that is started goes down its list, and somebody checks again.
Spec == /\ Init /\ [][Next]_vars
        /\ WF_vars(FixMechanically) /\ WF_vars(Choose)
        /\ WF_vars(CheckTree)

----------------------------------------------------------------------------

Claiming == {d \in Docs : Root \in Climb(d, {})}
PlacesOf(c) == {<<p, k>> \in Claiming \X (1..(MaxLinks + Cardinality(Docs))) :
                  k \in DOMAIN entries[p] /\ Leads(entries[p][k]) = c}

\* A check that finds nothing means the tree is whole: read upwards, from what
\* documents claim, it is the tree the walk read downwards - every document
\* whose claims lead to the root is listed once, by the parent it claims, every
\* entry is answered, nothing of the tree's directories is left out, and the
\* registry and the documents tell one story (validate.rs check, census.rs walk).
\* A document with no metadata claims nothing and is not asked to: it is listed
\* once, or is further in.  Not asked where the root itself claims a parent, which
\* counts as reached by that alone.
CleanMeansWhole ==
    Findings = <<>> /\ claim[Root] = NoLink =>
        /\ PlacesOf(Root) = {} /\ PlacesOf(Nowhere) = {}
        /\ \A d \in Claiming \ {Root} :
             Cardinality(PlacesOf(d)) = 1 /\ \A place \in PlacesOf(d) : place[1] = Parent(d)
        /\ \A d \in Near \ Claiming : d \in bare /\ Cardinality(PlacesOf(d)) = 1
        /\ \A d \in Docs \ (Claiming \cup bare) : PlacesOf(d) = {}
        /\ \A d \in bare : Cardinality(PlacesOf(d)) <= 1
        /\ \A d \in Docs : d \in Claiming \/ PlacesOf(d) # {} => stamp[d] = IdAt(d)

\* One mechanical run brings a whole island home: when its list is done and
\* nobody wrote a file meanwhile, all that claimed its way to a document of the tree
\* when the list was made is in it (validate.rs missing_containment).  Not asked of
\* what claims its way to a document that counts as reached because one of the tree
\* claims it, and that no entry leads to.
IslandsComeHome ==
    (run.mode = "mechanical" /\ run.todo = <<>> /\ run.quiet) => run.home \subseteq Walk.visited

\* The loop's repairs are computed from files that change under its list, and
\* still none of the mechanical ones replaces a parent somebody had written when
\* the repair was offered (remedy.rs remedies, MissingInverse).  One written since
\* then it does replace: apply_fix does not ask again.
ClaimsAreKept ==
    [][run.mode = "mechanical" /\ edits' = edits =>
         \A d \in Docs \ run.since : claim[d] # NoLink => claim'[d] = claim[d]]_vars

\* No mechanical repair takes an id from the document that has it: a link by
\* id leads where it led.
LiveIdsStay ==
    [][run.mode = "mechanical" /\ run.quiet /\ edits' = edits =>
         \A i \in Ids : reg[i] # Nowhere => reg'[i] = reg[i]]_vars

\* Checked and mechanically fixed again and again, the tree comes to where a
\* check finds nothing that can be mended mechanically, and stays there: the
\* repairs do not undo each other. Unless somebody goes on choosing forever.
Settles == []<><<Choose>>_vars \/ <>[](~run.mendable)

\* A repair that is chosen for a finding that stands leaves it standing one
\* time less.  Not asked where it makes another document the parent: reparent
\* leaves alone what lists the child without its claim, and writes nothing where
\* the child already claims this parent; and an orphan may be adopted by an orphan.
RepairsResolve ==
    (run.repair.before > 0 /\ run.repair.fix # "Reparent" /\ run.repair.finding.kind # "Orphan")
        => Times(run.repair.finding, Findings) < run.repair.before

=============================================================================
