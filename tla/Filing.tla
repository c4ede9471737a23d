------------------------------- MODULE Filing -------------------------------
(***************************************************************************)
(* Where a record goes: the index for each period of its value is found    *)
(* among the children of the one above, by the value it carries before the *)
(* title it shows, or made.  A plan is drawn up first and carried out      *)
(* later: filing makes its indexes in one set, a route makes its nodes one *)
(* by one.  The record itself is the caller's second write.                *)
(*                                                                         *)
(* A value is a sequence of parts, coarsest first, and a period is a       *)
(* beginning of one: <<"2026", "07">> is a month.                          *)
(***************************************************************************)
EXTENDS Naturals, FiniteSets, Sequences, SequencesExt, TLC

CONSTANTS
    Values,    \* what a record's field may say; <<>> is nothing
    Depth,     \* levels of the entry's grain
    Leaves,    \* what the records of one directory are called
    MaxNodes,  \* bound: documents below the anchor
    MaxEdits   \* bound: edits by anybody but the verbs

ASSUME FilingAssumption ==
    /\ Depth \in Nat \ {0}
    /\ \A v \in Values : v \in Seq(STRING)

VARIABLES
    nodes, \* place -> the document there
    plan,  \* what has been planned and not carried out; foot: the last index the
           \* walk found; moved: the places an index
           \* was renamed from or to since; posing: the records that posed as an
           \* index when it was drawn up, or have since
    filed, \* value -> the container its last filing was given, when indexes alone
           \* lead to it and none was since taken away or stopped saying its period
    edits
vars == <<nodes, plan, filed, edits>>

\* A place is a directory, a sequence of names, and a leaf in it.
Place(dir, leaf) == [dir |-> dir, leaf |-> leaf]
Anchor == Place(<<>>, "index")
Away == Place(<<<<"away">>>>, "index")
Nowhere == Place(<<>>, "nowhere")
Other == <<"other">>

\* again: since the plan that made it had looked, an index was renamed from its
\* place, or to the one its walk had come to.
Node(role, up, title, value) ==
    [role |-> role, up |-> up, listed |-> TRUE, holds |-> FALSE, title |-> title,
     value |-> value, again |-> FALSE]

There == DOMAIN nodes
Children(p) == {q \in There : nodes[q].up = p /\ nodes[q].listed}
Indexes == {q \in There \ {Anchor} : nodes[q].role = "index"}
Records == {q \in There : nodes[q].role = "record"}

\* From the topmost document that is listed above q, down to q.
Chain[q \in There] ==
    IF q = Anchor \/ ~nodes[q].listed \/ nodes[q].up \notin There THEN <<q>> ELSE Append(Chain[nodes[q].up], q)

NoPlan == [verb |-> "none", value |-> <<>>, create |-> <<>>, parent |-> Anchor,
           foot |-> Anchor, moved |-> {}, posing |-> {}]

Init ==
    /\ nodes = (Anchor :> Node("index", Nowhere, Other, <<>>))
    /\ plan = NoPlan
    /\ filed = [v \in Values |-> Nowhere]
    /\ edits = 0

----------------------------------------------------------------------------
(* Finding the index. *)

Cut(value, level) == IF Len(value) < level THEN <<>> ELSE SubSeq(value, 1, level)
Route(value) == [k \in 1 .. (IF Len(value) < Depth THEN Len(value) ELSE Depth) |-> Cut(value, k)]

ByValue(p, period) == {q \in Children(p) : Cut(nodes[q].value, Len(period)) = period}
ByTitle(p, period) == {q \in Children(p) : nodes[q].value = <<>> /\ nodes[q].title = period}

\* More than one is a refusal.
PeriodIndexByTitle(p, period) == {q \in Children(p) : nodes[q].title = period}
PeriodIndexCoarse(p, period) ==
    {q \in Children(p) : nodes[q].value # <<>> /\ Cut(nodes[q].value, Len(period) - 1) = Front(period)}
PeriodIndex(p, period) ==
    LET found == ByValue(p, period)
        exact == {q \in found : nodes[q].value = period}
        holding == {q \in found : nodes[q].holds}
    IN  CASE found = {} -> ByTitle(p, period)
          [] Cardinality(found) = 1 -> found
          [] Cardinality(exact) = 1 -> exact
          [] Cardinality(holding) = 1 -> holding
          [] OTHER -> found

ChildTitled(p, segment) == {q \in Children(p) : nodes[q].title = segment}

\* A directory of its own, named for the last part of the period, or for all
\* that the route says.
PeriodPlace(p, period) == Place(Append(p.dir, <<Last(period)>>), "index")
RoutePlace(p, segment) == Place(Append(p.dir, segment), "index")

Vacant(place) == \A q \in There : q.dir # place.dir

\* The walk: past the first index that is missing nothing is looked for.
Walk(verb, value, Found(_, _), PlaceOf(_, _), carried(_)) ==
    LET Step(walk, period) ==
            LET found == IF walk.create = <<>> THEN Found(walk.parent, period) ELSE {}
                place == PlaceOf(walk.parent, period)
            IN  CASE walk.verb = "refused" \/ Cardinality(found) > 1 \/ (found = {} /\ ~Vacant(place)) ->
                        [walk EXCEPT !.verb = "refused"]
                  [] found # {} -> 
                        LET index == CHOOSE q \in found : TRUE IN
                        [walk EXCEPT !.parent = index, !.foot = index]
                  [] OTHER ->
                        [walk EXCEPT
                           !.parent = place,
                           !.create = Append(@, [place |-> place, up |-> walk.parent,
                                                 title |-> period, value |-> carried(period)])]
    IN  FoldLeft(Step, [NoPlan EXCEPT !.verb = verb, !.value = value], Route(value))

\* An index is stamped with its period, so the next look finds it.
Unstamped(period) == <<>>
Stamped(period) == period

\* A record whose value makes it the index for a period, when no index beside it
\* says that period exactly, as the record does not.
Posing ==
    {q \in Records :
        LET level == Len(Chain[nodes[q].up])
            period == Cut(nodes[q].value, level)
        IN  /\ nodes[q].listed /\ level <= Depth /\ period # <<>>
            /\ nodes[q].value # period =>
                 ~\E i \in Indexes : i \in Children(nodes[q].up) /\ nodes[i].value = period}

FilePlan(value) == Walk("file", value, PeriodIndex, PeriodPlace, Stamped)
RoutePlan(value) == Walk("route", value, ChildTitled, RoutePlace, Unstamped)

----------------------------------------------------------------------------
(* Carrying a plan out. *)

\* The document is put there and into its parent's list.
With(tree, place, node) ==
    (place :> node) @@ [tree EXCEPT ![node.up].holds = TRUE]

Create(tree, made, p) ==
    IF tree # <<>> /\ made.up \in DOMAIN tree /\ made.place \notin DOMAIN tree
    THEN With(tree, made.place, [Node("index", made.up, made.title, made.value) EXCEPT
                                   !.again = {p.foot, made.place} \cap p.moved # {}])
    ELSE <<>>

\* Nothing of the set, when one of its documents cannot be made.
Made(p) == FoldLeft(LAMBDA tree, made : Create(tree, made, p), nodes, p.create)
Fits(tree) == Cardinality(DOMAIN tree) <= MaxNodes + 1

\* No record stands in for an index on the way to where the plan leads.
ByIndexes(p) ==
    Records \cap Range(Chain[p.foot]) = {}
Given(p) == [filed EXCEPT ![p.value] = IF ByIndexes(p) THEN p.parent ELSE Nowhere]

PlanVerb(p) ==
    /\ plan = NoPlan
    /\ p.verb # "refused"
    /\ plan' = [p EXCEPT !.posing = Posing]
    /\ filed' = IF p.create = <<>> /\ p.verb = "file" THEN Given(p) ELSE filed
    /\ UNCHANGED <<nodes, edits>>
PlanFile(value) == PlanVerb(FilePlan(value))
PlanRoute(value) == PlanVerb(RoutePlan(value))

Refuse == plan' = NoPlan /\ UNCHANGED <<nodes, filed, edits>>

ApplyFile ==
    /\ plan.verb = "file" /\ plan.create # <<>>
    /\ LET tree == Made(plan) IN
       \/ tree = <<>> /\ Refuse
       \/ /\ tree # <<>> /\ Fits(tree)
          /\ nodes' = tree
          /\ plan' = [plan EXCEPT !.create = <<>>]
          /\ filed' = IF FilePlan(plan.value).create = plan.create THEN Given(plan)
                      ELSE [filed EXCEPT ![plan.value] = Nowhere]
          /\ UNCHANGED edits

ApplyRoute ==
    /\ plan.verb = "route" /\ plan.create # <<>>
    /\ LET next == Create(nodes, Head(plan.create), plan) IN
       \/ next = <<>> /\ Refuse
       \/ /\ next # <<>> /\ Fits(next)
          /\ nodes' = next
          /\ plan' = [plan EXCEPT !.create = Tail(@)]
          /\ UNCHANGED <<filed, edits>>

\* The caller puts the record into the container it was given, in its directory.
CreateRecord ==
    /\ plan # NoPlan /\ plan.create = <<>>
    /\ \/ plan.parent \notin There /\ Refuse
       \/ /\ plan.parent \in There
          /\ \E leaf \in Leaves :
                LET place == Place(plan.parent.dir, leaf) IN
                /\ place \notin There
                /\ nodes' = With(nodes, place, Node("record", plan.parent, Other, plan.value))
                /\ Fits(nodes')
          /\ plan' = NoPlan
          /\ UNCHANGED <<filed, edits>>

Crash == plan # NoPlan /\ Refuse

\* Another session files in the meantime, all at once.
OtherFile(value) ==
    LET theirs == FilePlan(value)
        tree == Made(theirs)
    IN
    /\ plan # NoPlan
    /\ theirs.verb # "refused" /\ tree # <<>> /\ tree # nodes /\ Fits(tree)
    /\ nodes' = tree
    /\ filed' = Given(theirs)
    /\ UNCHANGED <<plan, edits>>

----------------------------------------------------------------------------
(* Everybody else. *)

Edit(moved) ==
    /\ edits < MaxEdits /\ edits' = edits + 1
    /\ plan' = IF plan = NoPlan THEN plan
               ELSE [plan EXCEPT !.moved = @ \cup moved, !.posing = @ \cup Posing']

Forgotten == filed' = [v \in Values |-> Nowhere]

\* An index that carries its period is found under any title.
Retitle == \E q \in Indexes :
    /\ nodes[q].title # Other
    /\ nodes' = [nodes EXCEPT ![q].title = Other]
    /\ IF nodes[q].value = <<>> THEN Forgotten ELSE UNCHANGED filed
    /\ Edit({})

ClearValue == \E q \in Indexes :
    /\ nodes[q].value # <<>>
    /\ nodes' = [nodes EXCEPT ![q].value = <<>>]
    /\ Forgotten
    /\ Edit({})

\* The file alone, with every link to it; what it contains stays where it is.
RenameIndex == \E q \in Indexes :
    LET To(p) == IF p = q THEN Away ELSE p IN
    /\ Away \notin There
    /\ nodes' = [p \in {To(p) : p \in There} |->
                    LET node == nodes[IF p = Away THEN q ELSE p]
                    IN  [node EXCEPT !.up = To(@)]]
    /\ filed' = [v \in Values |-> To(filed[v])]
    /\ Edit({q, Away})

TakeAway == \E q \in There \ {Anchor} :
    /\ nodes' = [p \in There \ {q} |-> IF nodes[p].up = q THEN [nodes[p] EXCEPT !.listed = FALSE]
                                       ELSE nodes[p]]
    /\ IF q \in Indexes THEN Forgotten ELSE UNCHANGED filed
    /\ Edit({})

Redate == \E q \in Records, value \in Values :
    /\ nodes' = [nodes EXCEPT ![q].value = value]
    /\ UNCHANGED filed
    /\ Edit({})

\* A record is put under the index above its own.
Reparent == \E q \in Records :
    /\ nodes[q].listed /\ nodes[q].up \in There \ {Anchor} /\ nodes[nodes[q].up].up \in There
    /\ nodes' = [nodes EXCEPT ![q].up = nodes[nodes[q].up].up]
    /\ UNCHANGED filed
    /\ Edit({})

Next ==
    \/ \E value \in Values : PlanFile(value) \/ PlanRoute(value) \/ OtherFile(value)
    \/ ApplyFile \/ ApplyRoute \/ CreateRecord \/ Crash
    \/ Retitle \/ ClearValue \/ RenameIndex \/ TakeAway \/ Redate \/ Reparent

Spec == Init /\ [][Next]_vars

----------------------------------------------------------------------------

\* Whatever was renamed, retitled, raced or left half made, no two indexes under
\* one document carry one period, after which a filing of it may be refused: but
\* for one made by a plan drawn up before another session made the index at its
\* place and it was renamed, or another was renamed to the one the walk had come to
\* (file.rs, plan_file, period_index and apply_file).
NoTwins ==
    \A p, q \in Indexes :
        p # q /\ nodes[p].listed /\ nodes[q].listed /\ nodes[p].up = nodes[q].up
            => nodes[p].value # nodes[q].value \/ nodes[p].value = <<>> \/ nodes[p].again \/ nodes[q].again

\* The container a filing gave is the one the next filing of that value is given,
\* with nothing left to make, though the record was never written, other records
\* were filed beside it, or the index was renamed or retitled since: as long as no
\* record of one of its periods poses as the index for it, and none was made twice.
FiledAgainIsFound ==
    \A v \in Values :
        /\ filed[v] \in There
        /\ \A q \in Posing : LET level == Len(Chain[nodes[q].up]) IN Cut(nodes[q].value, level) # Cut(v, level)
        /\ \A q \in Indexes : ~nodes[q].again
        => FilePlan(v) = [NoPlan EXCEPT !.verb = "file", !.value = v, !.parent = filed[v], !.foot = filed[v]]

\* A record lands under one index per level its value reaches, none of them
\* another record and none of them another period's, however the plan aged: unless
\* a record that has posed as an index meanwhile is among them, or another index
\* was renamed to where the walk had come to.
FiledWhereItSays ==
    [][\A q \in (DOMAIN nodes') \ There :
         /\ plan.verb = "file" /\ CreateRecord /\ plan.foot \notin plan.moved
         /\ Chain[plan.parent][1] = Anchor /\ plan.posing \cap Range(Chain[plan.parent]) = {}
         => LET chain == Tail(Chain[plan.parent]) IN
            /\ Len(chain) = Len(Route(plan.value))
            /\ \A k \in DOMAIN chain :
                  /\ nodes[chain[k]].role = "index"
                  /\ nodes[chain[k]].value \in {<<>>, Cut(plan.value, k)}]_vars
=============================================================================
