-------------------------------- MODULE Moves --------------------------------
(***************************************************************************)
(* rename and move_tree: one document, or a directory of them, goes        *)
(* somewhere else and every link by path is respelled in the same set.     *)
(* The plan is computed from one reading of the tree and lands later;      *)
(* between the two, somebody else edits, creates and removes files.        *)
(*                                                                         *)
(* A document is reached by a census from the workspace's root if an index *)
(* document lists it.  Each is listed by one of its own, which stays where *)
(* it is (module Containment has trees that move).                         *)
(***************************************************************************)
EXTENDS Paths, FiniteSets, TLC

CONSTANTS
    Docs,        \* documents
    Payloads,    \* opaque files, each beside a sidecar that describes it
    Loose,       \* opaque files with no sidecar: a document can own one
    Sidecar,     \* payload -> the document that travels with it
    Dirs,        \* directories there can be
    Leaves,      \* names a document can have
    PayloadLeaf, \* leaf of a sidecar -> leaf its payload gets beside it
    Start,       \* where each file is to begin with, or None
    Registered,  \* documents with an id to begin with
    Styles,      \* settings of the workspace: slot -> the style prov writes there
    Gone, None,
    MaxMoves,    \* bound: moves planned
    MaxEdits,    \* bound: links written, files created and removed
    Freedoms     \* what else may happen: "self", "names", "second"

Files == Docs \cup Payloads \cup Loose

ASSUME StartAssumption ==
    /\ Docs \cap Payloads = {} /\ Loose \cap (Docs \cup Payloads) = {}
    /\ DOMAIN Start = Files
    /\ Sidecar \in [Payloads -> Docs]
    /\ Registered \subseteq Docs

DocPaths == {Append(d, l) : d \in Dirs, l \in Leaves}

\* Frontmatter entries and body links, each with the style of its own.
Slots == {"fore", "body"}

ASSUME StylesAssumption == Styles \subseteq [Slots -> {"root", "rel"}]

VARIABLES
    at,     \* file -> its path, None before it is there, Gone afterwards
    links,  \* document -> slot -> the link there
    reg,    \* document -> the path its id is registered at
    style,  \* slot -> the style prov writes there
    entries, \* the paths that index documents list
    behind, \* history: the links, by document and slot, that reached something
            \* that has moved and that no census has come upon
    plan,   \* the move that is computed and has not landed
    moves, edits

vars == <<at, links, reg, style, entries, behind, plan, moves, edits>>

NoLink == [form |-> "none"]
LinkTo(form, text, aim) == [form |-> form, text |-> text, aim |-> aim, late |-> plan # None]

Live(f) == at[f] \notin {None, Gone}
Occupied(p) == \E f \in Files : at[f] = p

IsPathTarget(link) == link.form \in {"root", "rel", "name"}

\* Where a link written in a document at p leads.  A name is looked up among
\* the titles by who resolves it, and is text like any other to who respells it.
Leads(p, link) ==
    CASE link.form = "id" -> reg[link.aim]
      [] link.form = "name" -> at[link.aim]
      [] OTHER -> Resolve(link.form, p, link.text)

ReadAsPath(p, link) == Resolve(IF link.form = "root" THEN "root" ELSE "rel", p, link.text)

\* A frontmatter link to a loose file is the row of a document that owns it.
Owns(d, f) ==
    LET row == links[d]["fore"]
    IN  f \in Loose /\ IsPathTarget(row) /\ ReadAsPath(at[d], row) = at[f]

Init ==
    /\ at = Start
    /\ links = [d \in Docs |-> [s \in Slots |-> NoLink]]
    /\ reg = [d \in Docs |-> IF d \in Registered THEN Start[d] ELSE None]
    /\ style \in Styles
    /\ entries = {Start[d] : d \in Docs} \ {None}
    /\ behind = {}
    /\ plan = None
    /\ moves = 0
    /\ edits = 0

----------------------------------------------------------------------------
(* What other people do to the files. *)

MayEdit == edits < MaxEdits /\ edits' = edits + 1

\* A link as its author writes it: by path in either form, by id, or by name.
AuthoredNames(d, f) ==
    IF "names" \in Freedoms /\ f \in Docs THEN {LinkTo("name", <<"title">>, f)} ELSE {}

Authored(d, f) ==
    {LinkTo(form, PathText(form, at[d], at[f]), f) : form \in {"root", "rel"}}
    \cup (IF f \in Docs /\ reg[f] = at[f] THEN {LinkTo("id", <<>>, f)} ELSE {})
    \cup AuthoredNames(d, f)

OwnFile(d, f) == f = d \/ (f \in Payloads /\ Sidecar[f] = d)

WriteLink(d, s, f) ==
    /\ MayEdit
    /\ Live(d) /\ Live(f)
    /\ OwnFile(d, f) => "self" \in Freedoms
    /\ \E link \in Authored(d, f) : links' = [links EXCEPT ![d][s] = link]
    /\ behind' = behind \ {<<d, s>>}
    /\ UNCHANGED <<at, reg, style, entries, plan, moves>>

\* A document by somebody who lists it, or does not.
Appear(d, p, listed) ==
    /\ MayEdit
    /\ at[d] = None /\ ~Occupied(p)
    /\ at' = [at EXCEPT ![d] = p]
    /\ entries' = IF listed THEN entries \cup {p} ELSE entries
    /\ UNCHANGED <<links, reg, style, behind, plan, moves>>

TakeAway(f) ==
    /\ MayEdit
    /\ Live(f)
    /\ \A g \in Payloads : f # g /\ Sidecar[g] # f
    /\ at' = [at EXCEPT ![f] = Gone]
    /\ UNCHANGED <<links, reg, style, entries, behind, plan, moves>>

----------------------------------------------------------------------------
(* Where paths land. *)

FileMoves(map) == [kind |-> "files", map |-> map]
TreeMoves(from, to) == [kind |-> "tree", from |-> from, to |-> to]

Moved(mv, p) == IF mv.kind = "tree" THEN IsUnder(mv.from, p) ELSE p \in DOMAIN mv.map
Landed(mv, p) ==
    IF ~Moved(mv, p) THEN p
    ELSE IF mv.kind = "tree" THEN Carried(mv.from, mv.to, p) ELSE mv.map[p]

Movers(mv) == {f \in Files : Live(f) /\ Moved(mv, at[f])}

\* A plausible mistake: the link is spelled for where its target was.
RespelledToWhereItWas(mv, d, s, link) ==
    IF ~IsPathTarget(link) THEN link
    ELSE [link EXCEPT !.form = style[s],
                      !.text = PathText(style[s], Landed(mv, at[d]), ReadAsPath(at[d], link))]

\* A mover's own link, spelled for where the document and its target land.
Respelled(mv, d, s, link) ==
    IF ~IsPathTarget(link) THEN link
    ELSE [link EXCEPT !.form = style[s],
                      !.text = PathText(style[s], Landed(mv, at[d]),
                                        Landed(mv, ReadAsPath(at[d], link)))]

OwnLinks(mv, d) == [s \in Slots |-> Respelled(mv, d, s, links[d][s])]

\* A link elsewhere that reaches something that moves.
Retargeted(mv, d, s, link) ==
    IF IsPathTarget(link) /\ Moved(mv, ReadAsPath(at[d], link))
    THEN [link EXCEPT !.form = style[s],
                      !.text = PathText(style[s], at[d], Landed(mv, ReadAsPath(at[d], link)))]
    ELSE link

Inbound(mv, d) == [s \in Slots |-> Retargeted(mv, d, s, links[d][s])]
\* The census is from the workspace's root: a document nothing lists is not asked.
Reached(d) == Live(d) /\ at[d] \in entries
InboundSources(mv) ==
    {d \in Docs : Reached(d) /\ d \notin Movers(mv) /\ Inbound(mv, d) # links[d]}

LeftBehind(mv) ==
    {slot \in (Docs \ Movers(mv)) \X Slots :
        /\ Live(slot[1]) /\ ~Reached(slot[1])
        /\ Retargeted(mv, slot[1], slot[2], links[slot[1]][slot[2]]) # links[slot[1]][slot[2]]}

\* The entries of what moves, and where they lead once it has.
EntriesOf(mv) == {p \in entries : Moved(mv, p)}
Relisted(mv, listed) == (entries \ listed) \cup {Landed(mv, p) : p \in listed}

\* The registry binds where an id is to go to some other id.
MoveConflict(d, to) ==
    reg[d] # None /\ reg[d] = at[d] /\ \E e \in Docs \ {d} : reg[e] = to

\* The id that id_for_path answers for a mover goes where it lands, and takes
\* that path from whatever held it.
Followed(mv) ==
    LET lands(e) == reg[e] # None /\ \E d \in Movers(mv) \cap Docs : at[d] = reg[e]
        goal(e) == Landed(mv, reg[e])
    IN  [e \in Docs |-> IF lands(e) THEN goal(e)
                        ELSE IF \E o \in Docs : lands(o) /\ goal(o) = reg[e] THEN None
                        ELSE reg[e]]

\* A set: what is renamed where, what is written, what must still be so.
Set(mv, texts, reads, absent) ==
    [mv |-> mv, files |-> Movers(mv), from |-> [f \in Movers(mv) |-> at[f]],
     texts |-> texts, reads |-> reads, absent |-> absent, reg |-> Followed(mv),
     listed |-> EntriesOf(mv), behind |-> LeftBehind(mv)]

MayPlan == plan = None /\ moves < MaxMoves /\ moves' = moves + 1

\* rename: the payload beside a sidecar goes with it.
BodyFrom(d) == {f \in Payloads : Sidecar[f] = d /\ Live(f)}

BodyTo(to) == Append(Dir(to), PayloadLeaf[Last(to)])

\* A plausible mistake: the payload stays where it is.
RenameMovesAlone(d, to) == FileMoves([p \in {at[d]} |-> to])

\* What the document owns under its own directory keeps its place beside it.
PayloadsFrom(d, to) ==
    {f \in Loose : /\ Dir(at[d]) # Dir(to)
                   /\ Live(f) /\ Owns(d, f) /\ IsUnder(Dir(at[d]), at[f])}
PayloadTo(d, to, p) == Carried(Dir(at[d]), Dir(to), p)

RenameMoves(d, to) ==
    FileMoves([p \in {at[d]} \cup {at[f] : f \in BodyFrom(d) \cup PayloadsFrom(d, to)} |->
                 CASE p = at[d] -> to
                   [] \E f \in BodyFrom(d) : p = at[f] -> BodyTo(to)
                   [] OTHER -> PayloadTo(d, to, p)])

Rename(d, to) ==
    LET mv == RenameMoves(d, to)
        inbound == InboundSources(mv)
        own == IF Dir(at[d]) # Dir(to) THEN OwnLinks(mv, d) ELSE links[d]
    IN  /\ MayPlan
        /\ Live(d)
        /\ ~Occupied(to)
        /\ ~MoveConflict(d, to)
        /\ BodyFrom(d) # {} => BodyTo(to) # to /\ ~Occupied(BodyTo(to))
        /\ \A f \in PayloadsFrom(d, to) : ~Occupied(PayloadTo(d, to, at[f]))
        /\ plan' = Set(mv,
                       [e \in inbound \cup {d} |-> IF e = d THEN own ELSE Inbound(mv, e)],
                       [e \in inbound \cup {d} |-> links[e]],
                       {to} \cup {BodyTo(to) : f \in BodyFrom(d)}
                            \cup {PayloadTo(d, to, at[f]) : f \in PayloadsFrom(d, to)})
        /\ UNCHANGED <<at, links, reg, style, entries, behind, edits>>

\* move_tree: every file under the directory goes; only a document whose own
\* links come out different is written, and only what is written is expected.
MoveTree(from, to) ==
    LET mv == TreeMoves(from, to)
        inbound == InboundSources(mv)
        own == {d \in Movers(mv) \cap Docs : OwnLinks(mv, d) # links[d]}
    IN  /\ MayPlan
        /\ from # <<>> /\ to # <<>>
        /\ \E f \in Files : Live(f) /\ IsUnder(from, at[f])
        /\ ~IsUnder(from, to)
        /\ \A f \in Files : Live(f) => ~IsUnder(to, at[f])
        /\ \A d \in Movers(mv) \cap Docs : ~MoveConflict(d, Landed(mv, at[d]))
        /\ plan' = Set(mv,
                       [e \in inbound \cup own |-> IF e \in own THEN OwnLinks(mv, e)
                                                   ELSE Inbound(mv, e)],
                       [e \in inbound \cup own |-> links[e]],
                       {Landed(mv, at[f]) : f \in Movers(mv)})
        /\ UNCHANGED <<at, links, reg, style, entries, behind, edits>>

\* Every file a set names is where it was, as it was, and no destination is taken.
InPlace(p) == \A f \in p.files : at[f] = p.from[f]

\* A plausible mistake: only where the document goes is asked about.
AsReadInbound(p) == \A d \in DOMAIN p.reads \ p.files : Live(d) /\ links[d] = p.reads[d]
AsRead(p) == \A d \in DOMAIN p.reads : Live(d) /\ links[d] = p.reads[d]

Absent(p) == \A q \in p.absent : ~Occupied(q)
Holds(p) == InPlace(p) /\ AsRead(p) /\ p.listed \subseteq entries /\ Absent(p)

Land ==
    /\ plan # None
    /\ Holds(plan)
    /\ at' = [f \in Files |-> IF Live(f) /\ at[f] \in {plan.from[g] : g \in plan.files}
                              THEN Landed(plan.mv, at[f])
                              ELSE IF at[f] \in plan.absent THEN Gone ELSE at[f]]
    /\ links' = plan.texts @@ links
    /\ reg' = plan.reg
    /\ entries' = Relisted(plan.mv, plan.listed)
    /\ behind' = behind \cup plan.behind
    /\ plan' = None
    /\ UNCHANGED <<style, moves, edits>>

\* Error::Drifted, or a rename of what is not there: nothing has changed.
Refuse ==
    /\ plan # None
    /\ ~Holds(plan)
    /\ plan' = None
    /\ UNCHANGED <<at, links, reg, style, entries, behind, moves, edits>>

\* A document the set carries and does not expect, with a link by path to d:
\* only move_tree has one, and with "second" it may be what changes.
Unguarded(d) ==
    \E e \in (plan.files \cap Docs) \ DOMAIN plan.reads, s \in Slots :
        Live(e) /\ IsPathTarget(links[e][s]) /\ ReadAsPath(at[e], links[e][s]) = at[d]

\* Another session's rename lands whole while this one is planned.
OtherRename(d, to) ==
    LET mv == RenameMoves(d, to)
        own == IF Dir(at[d]) # Dir(to) THEN OwnLinks(mv, d) ELSE links[d]
    IN  /\ plan # None
        /\ Unguarded(d) => "second" \in Freedoms
        /\ MayEdit
        /\ Live(d) /\ ~Occupied(to) /\ BodyFrom(d) = {} /\ reg[d] = None
        /\ \A f \in PayloadsFrom(d, to) : ~Occupied(PayloadTo(d, to, at[f]))
        /\ at' = [f \in Files |-> IF f \in Movers(mv) THEN Landed(mv, at[f]) ELSE at[f]]
        /\ links' = [e \in Docs |-> IF e = d THEN own
                                    ELSE IF e \in InboundSources(mv) THEN Inbound(mv, e)
                                    ELSE links[e]]
        /\ entries' = Relisted(mv, EntriesOf(mv))
        /\ behind' = behind \cup LeftBehind(mv)
        /\ UNCHANGED <<reg, style, plan, moves>>

Next ==
    \/ \E d \in Docs, s \in Slots, f \in Files : WriteLink(d, s, f)
    \/ \E d \in Docs, p \in DocPaths, listed \in BOOLEAN : Appear(d, p, listed)
    \/ \E f \in Files : TakeAway(f)
    \/ \E d \in Docs, to \in DocPaths : Rename(d, to)
    \/ \E from, to \in Dirs : MoveTree(from, to)
    \/ Land
    \/ Refuse
    \/ \E d \in Docs, to \in DocPaths : OtherRename(d, to)

Spec == Init /\ [][Next]_vars

----------------------------------------------------------------------------
(* Properties. *)

\* Whatever moves, and however often, a link leads to the file its author meant:
\* into a moved directory, out of one, between two of its documents, by path in
\* either form or by id.  Not asked of a link written while a move was under
\* way, which no reading of the tree had seen, nor of one that was left behind: a
\* link to what has moved, in a document that no index listed by then.
LinksFollow ==
    \A d \in Docs, s \in Slots :
        LET link == links[d][s]
        IN  Live(d) /\ link # NoLink /\ <<d, s>> \notin behind =>
              (~link.late /\ Live(link.aim) => Leads(at[d], link) = at[link.aim])

\* A payload is beside its sidecar, under the name the sidecar's name gives it,
\* and a file that a document owns under its own directory is where it was seen
\* from the document, whichever of the moves takes the document away.
BesideItsSidecar(f) ==
    LET sidecar == at[Sidecar[f]]
    IN  Dir(at[f]) = Dir(sidecar) /\ Last(at[f]) = PayloadLeaf[Last(sidecar)]
Place(d, f) == Relative(Dir(at[d]), at[f])

PairsStayTogether ==
    [][/\ \A f \in Payloads : (Live(f) /\ Live(Sidecar[f]) => BesideItsSidecar(f))'
       /\ \A d \in Docs, f \in Loose :
              /\ Live(d) /\ Live(f) /\ Owns(d, f) /\ IsUnder(Dir(at[d]), at[f])
              /\ Live(d)' /\ at'[d] # at[d]
              => Place(d, f)' = Place(d, f)]_vars

\* What somebody else wrote in a document between the plan and its landing is
\* still there afterwards.
EditsAreKept ==
    [][\A d \in Docs, s \in Slots : edits' = edits =>
          /\ links'[d][s].form = "none" <=> links[d][s].form = "none"
          /\ links[d][s].form # "none" => links'[d][s].aim = links[d][s].aim]_vars

=============================================================================
