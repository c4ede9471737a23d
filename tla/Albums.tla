------------------------------- MODULE Albums -------------------------------
(***************************************************************************)
(* Attachments and manifests: a payload has a sidecar of its own, a row in *)
(* the manifest of the directory it lies in, or a row of the document that *)
(* owns it; gather and scatter, demote and promote turn one into another   *)
(* (prov/src/mutate/gather.rs, manifest.rs, attach.rs and inline.rs).      *)
(*                                                                         *)
(* A manifest node stands beside its directory, pins the manifest by its   *)
(* digest and lists records of its own as any index does. A verb is one    *)
(* step: it lands as one change set.                                       *)
(***************************************************************************)
EXTENDS Integers, FiniteSets, SequencesExt

CONSTANTS
    Files,      \* payloads, in the order of their paths in FileOrder
    FileOrder,
    Dirs,       \* directories that can be covered; a node bears the same name
    Top,        \* the index above them, and the directory it lies in
    Fields,     \* fields a record can say, beside prov's own
    LinkFields, \* those that hold a link
    Values, None,
    Pages,      \* documents beside the index that can own payloads as it can
    Keeper,     \* who keeps the files of a held manifest
    Freedoms,   \* circumstances in which a record is not kept whole
    Astray,     \* what a link reads as that was copied to where it leads elsewhere
    MaxEdits    \* bound: changes by hand, and of what owns a payload

ASSUME AlbumsAssumption ==
    /\ LinkFields \subseteq Fields /\ ToSet(FileOrder) = Files /\ None \notin Values
    /\ Files \cap Dirs = {} /\ Top \notin Dirs \cup Pages /\ MaxEdits \in Nat
    /\ Freedoms \subseteq {"relative"} /\ Astray \notin Values \cup {None}

VARIABLES
    loc,        \* the directory a payload lies in
    bytes,      \* what it holds; None: it is not there
    here,       \* the directories this device carries
    made,       \* the directories there are
    card,       \* sidecar of a payload: hash, fields, the index it is under
    manifest,   \* manifest of a directory: rows and who holds the files
    node,       \* node of a directory: whether it declares a manifest, its pin,
                \* fields, the index it is under
    entries,    \* the list of an index: payloads stand for their sidecars
    owned,      \* the rows of a document that owns payloads
    linked,     \* what other documents link to
    fixity,     \* whether the workspace records checksums
    touched,    \* manifests edited by hand since they were pinned
    edits       \* such changes so far

files == <<loc, bytes, here, made>>
records == <<card, manifest, node, entries, owned, touched>>
vars == <<files, records, linked, fixity, edits>>

Blank == [k \in Fields |-> None]
Owners == {Top} \cup Pages
Indexes == {Top} \cup {d \in Dirs : node[d] # None}
Present(f) == bytes[f] # None /\ loc[f] \in here
Covered(d) == d \in Dirs /\ manifest[d] # None
Lying(d) == {f \in Files : loc[f] = d /\ Present(f)}
InOrder(S) == SelectSeq(FileOrder, LAMBDA f : f \in S)
\* Fields are copied as they are written. Documents but sidecars lie in Top, and
\* a relative link says another thing in another directory.
Copied(fields, from, to) ==
    [k \in Fields |->
        IF "relative" \in Freedoms /\ k \in LinkFields /\ fields[k] # None /\ from # to
        THEN Astray ELSE fields[k]]
Over(own, under) == [k \in Fields |-> IF own[k] # None THEN own[k] ELSE under[k]]

Init ==
    /\ \E loose \in SUBSET Files, d \in Dirs :
        /\ loc = [f \in Files |-> IF f \in loose THEN Top ELSE d]
        /\ made = {Top} \cup {loc[f] : f \in Files}
        /\ fixity \in BOOLEAN
        /\ card = [f \in Files |-> IF f \in loose
              THEN [hash |-> IF fixity THEN 0 ELSE None, fields |-> Blank, up |-> Top]
              ELSE None]
        /\ entries = [i \in {Top} \cup Dirs |-> IF i = Top THEN InOrder(loose) ELSE <<>>]
    /\ bytes = [f \in Files |-> 0]
    /\ owned = [o \in Owners |-> [f \in Files |-> None]]
    /\ here = {Top} \cup Dirs
    /\ manifest = [d \in Dirs |-> None]
    /\ node = [d \in Dirs |-> None]
    /\ linked = {} /\ touched = {} /\ edits = 0

-----------------------------------------------------------------------------
(* attach: a sidecar, or a manifest over a directory.                      *)

Digest(f) == IF fixity THEN bytes[f] ELSE None

\* check_attach: what every attachment asks of its payload.
CheckAttach(f) == Present(f) /\ card[f] = None /\ ~Covered(loc[f])

Edit == edits < MaxEdits /\ edits' = edits + 1

Attach(f, up) ==
    /\ CheckAttach(f)
    /\ card' = [card EXCEPT ![f] = [hash |-> Digest(f), fields |-> Blank, up |-> up]]
    /\ entries' = [entries EXCEPT ![up] = Append(@, f)]
    /\ UNCHANGED <<files, manifest, node, owned, linked, fixity, touched, edits>>

AttachManifest(d, up) ==
    /\ d \in made \cap here /\ node[d] = None /\ manifest[d] = None
    /\ LET rows == [f \in Lying(d) |->
                      [hash |-> Digest(f), fields |-> Blank]]
           made_of == [rows |-> rows, held |-> None] IN
        /\ manifest' = [manifest EXCEPT ![d] = made_of]
        /\ node' = [node EXCEPT ![d] =
              [declares |-> TRUE, pin |-> IF fixity THEN made_of ELSE None,
               fields |-> Blank, up |-> up]]
    /\ entries' = [entries EXCEPT ![up] = Append(@, d)]
    /\ touched' = touched \ {d}
    /\ UNCHANGED <<files, card, owned, linked, fixity, edits>>

-----------------------------------------------------------------------------
(* gather.                                                                 *)

\* Fields every sidecar has with one value go onto the node.
Carried(C) == {k \in Fields : \E v \in Values : \A f \in C : card[f].fields[k] = v}
\* What a row cannot say: a field that holds a link.
FieldsLost(C) == {k \in LinkFields \ Carried(C) : \E f \in C : card[f].fields[k] # None}
LinkedToCards(C) == \E f \in C : <<"card", f>> \in linked
LinkedTo(C) ==
    \/ LinkedToCards(C)
    \/ \E f \in C : <<"payload", f>> \in linked \/ \E o \in Owners : owned[o][f] # None

GatheredHashFresh(f) == Digest(f)
GatheredHash(f) == IF card[f].hash # None THEN card[f].hash ELSE Digest(f)
\* An inventory or a baseline, never half of each.
GatheredRows(C, discard) ==
    LET half == \E f \in C : GatheredHash(f) = None IN
    [f \in C |->
        [hash |-> IF half THEN None ELSE GatheredHash(f),
         fields |-> [k \in Fields |->
             IF k \in Carried(C) \cup LinkFields \cup discard THEN None
             ELSE card[f].fields[k]]]]
\* The node in the first sidecar's place, the rest out.
Gathered(list, C, d) ==
    LET first == CHOOSE i \in DOMAIN list : list[i] \in C /\ \A j \in 1..(i - 1) : list[j] \notin C
    IN  SelectSeq([list EXCEPT ![first] = d], LAMBDA item : item \notin C)

Gather(C, d, discard) ==
    /\ C # {} /\ d \notin made /\ node[d] = None /\ manifest[d] = None
    /\ \A f \in C : card[f] # None /\ Present(f) /\ ~Covered(loc[f])
    /\ FieldsLost(C) \subseteq discard
    /\ ~LinkedTo(C)
    /\ \E up \in Indexes :
        /\ \A f \in C : card[f].up = up
        /\ LET made_of == [rows |-> GatheredRows(C, discard), held |-> None]
               said == [k \in Fields |->
                          IF k \in Carried(C)
                          THEN LET f == CHOOSE g \in C : TRUE IN Copied(card[f].fields, loc[f], Top)[k]
                          ELSE None] IN
            /\ manifest' = [manifest EXCEPT ![d] = made_of]
            /\ node' = [node EXCEPT ![d] =
                  [declares |-> TRUE, pin |-> IF fixity THEN made_of ELSE None,
                   fields |-> said, up |-> up]]
        /\ entries' = [entries EXCEPT ![up] = Gathered(@, C, d)]
    /\ loc' = [f \in Files |-> IF f \in C THEN d ELSE loc[f]]
    /\ card' = [f \in Files |-> IF f \in C THEN None ELSE card[f]]
    /\ made' = made \cup {d}
    /\ touched' = touched \ {d}
    /\ UNCHANGED <<bytes, here, owned, linked, fixity, edits>>

-----------------------------------------------------------------------------
(* scatter.                                                                *)

Rows(d) == DOMAIN manifest[d].rows
Elsewhere(d) == manifest[d].held # None /\ d \notin here
\* manifest_status: nothing is missing from what is held elsewhere.
Agrees(d) == Elsewhere(d) \/ Lying(d) = Rows(d)
ScatteredHash(d, f) ==
    IF manifest[d].rows[f].hash # None THEN manifest[d].rows[f].hash ELSE Digest(f)

MayScatter(d) ==
    /\ Covered(d) /\ Agrees(d)
    /\ \A f \in Rows(d) :
        /\ card[f] = None
        /\ fixity /\ manifest[d].rows[f].hash = None => Present(f)

\* What the node says, on the sidecars, unless the row says otherwise.
Scattered(d, up, carried) ==
    [f \in Files |-> IF f \in Rows(d)
        THEN [hash |-> ScatteredHash(d, f),
              fields |-> Over(manifest[d].rows[f].fields, Copied(carried, Top, loc[f])), up |-> up]
        ELSE card[f]]

\* The node is kept, and is the index of the sidecars.
ScatterUnder(d) ==
    /\ MayScatter(d)
    /\ card' = Scattered(d, d, Blank)
    /\ manifest' = [manifest EXCEPT ![d] = None]
    /\ node' = [node EXCEPT ![d].pin = None, ![d].declares = FALSE]
    /\ entries' = [entries EXCEPT ![d] = @ \o InOrder(Rows(d))]
    /\ touched' = touched \ {d}
    /\ UNCHANGED <<files, owned, linked, fixity, edits>>

ScatteredBeside(d, into) == [entries EXCEPT ![into] = @ \o InOrder(Rows(d))]
\* In the node's place, when it is the node's own parent; else after the rest.
ScatteredInto(d, into) ==
    LET up == node[d].up IN
    IF up = into
    THEN LET at == CHOOSE i \in DOMAIN entries[up] : entries[up][i] = d IN
         [entries EXCEPT ![up] = SubSeq(@, 1, at - 1) \o InOrder(Rows(d)) \o SubSeq(@, at + 1, Len(@))]
    ELSE [entries EXCEPT ![into] = @ \o InOrder(Rows(d)),
                         ![up] = SelectSeq(@, LAMBDA item : item # d)]

\* The node goes, and its title with it, which is accepted. Nobody asks whether
\* the index is the node itself: then it is written again, pin and all, after it
\* was removed, and is out of its parent's list.
ScatterInto(d, into) ==
    /\ MayScatter(d)
    /\ entries[d] = <<>> /\ <<"node", d>> \notin linked
    /\ card' = Scattered(d, into, node[d].fields)
    /\ manifest' = [manifest EXCEPT ![d] = None]
    /\ node' = [node EXCEPT ![d] = IF into = d THEN @ ELSE None]
    /\ entries' = ScatteredInto(d, into)
    /\ touched' = touched \ {d}
    /\ UNCHANGED <<files, owned, linked, fixity, edits>>

-----------------------------------------------------------------------------
(* The manifest verbs.                                                     *)

\* manifest_rewrite: the manifest, and the node pinned over it.
Rewritten(d, rows, held) ==
    LET new == [rows |-> rows, held |-> held] IN
    /\ manifest' = [manifest EXCEPT ![d] = new]
    /\ node' = [node EXCEPT ![d].pin = IF @ # None \/ fixity THEN new ELSE None]
    /\ touched' = touched \ {d}
    /\ UNCHANGED <<files, card, entries, owned, linked, fixity, edits>>
\* The mode is the manifest's; an empty one takes the workspace's.
Hashed(d) == IF Rows(d) = {} THEN fixity ELSE \A f \in Rows(d) : manifest[d].rows[f].hash # None

\* refuse_held_elsewhere.
MayRefresh(d) == Covered(d) /\ ~Elsewhere(d)

UpdateManifest(d) ==
    /\ MayRefresh(d)
    /\ LET rows == manifest[d].rows
           fresh == [f \in Lying(d) |->
                       [hash |-> IF Hashed(d) THEN bytes[f] ELSE None,
                        fields |-> IF f \in Rows(d) THEN rows[f].fields ELSE Blank]] IN
        \/ fresh # rows /\ Rewritten(d, fresh, manifest[d].held)
        \/ /\ fresh = rows /\ node[d].pin \notin {None, manifest[d]}
           /\ node' = [node EXCEPT ![d].pin = manifest[d]]
           /\ touched' = touched \ {d}
           /\ UNCHANGED <<files, card, manifest, entries, owned, linked, fixity, edits>>

ExtendManifest(d, f) ==
    /\ MayRefresh(d) /\ f \in Lying(d) \ Rows(d)
    /\ Rewritten(d, [g \in Rows(d) \cup {f} |->
           IF g = f THEN [hash |-> IF Hashed(d) THEN bytes[f] ELSE None, fields |-> Blank]
           ELSE manifest[d].rows[g]], manifest[d].held)

HeldUnpinned(d, held) ==
    /\ Covered(d) /\ manifest[d].held # held
    /\ manifest' = [manifest EXCEPT ![d].held = held]
    /\ UNCHANGED <<files, card, node, touched, entries, owned, linked, fixity, edits>>
SetManifestHeld(d, held) ==
    /\ Covered(d) /\ manifest[d].held # held
    /\ Rewritten(d, manifest[d].rows, held)

-----------------------------------------------------------------------------
(* Owned payloads.                                                         *)

AttachInline(f, o) ==
    /\ Edit /\ CheckAttach(f) /\ owned[o][f] = None
    /\ owned' = [owned EXCEPT ![o][f] = [hash |-> Digest(f), fields |-> Blank]]
    /\ UNCHANGED <<files, card, manifest, node, entries, linked, fixity, touched>>

\* The rows whose checksum is missing or no longer that of the file.
Owed(o) == {f \in Files : owned[o][f] # None /\ Present(f) /\ owned[o][f].hash # bytes[f]}
RestampPayloads(o) ==
    /\ fixity /\ Owed(o) # {}
    /\ owned' = [owned EXCEPT ![o] =
          [f \in Files |-> IF f \in Owed(o) THEN [@[f] EXCEPT !.hash = bytes[f]] ELSE @[f]]]
    /\ UNCHANGED <<files, card, manifest, node, entries, linked, fixity, touched, edits>>

\* A checksum is copied as written; only where there is none is one computed.
DemotedHash(f) == IF card[f].hash # None THEN card[f].hash ELSE Digest(f)
Unlisted(f) == [entries EXCEPT ![card[f].up] = SelectSeq(@, LAMBDA item : item # f)]

Demote(f, into) ==
    /\ Edit /\ card[f] # None /\ loc[f] \in here
    /\ ~LinkedToCards({f})
    /\ owned[into][f] = None
    /\ fixity /\ card[f].hash = None => Present(f)
    /\ owned' = [owned EXCEPT ![into][f] =
          [hash |-> DemotedHash(f), fields |-> Copied(card[f].fields, loc[f], Top)]]
    /\ entries' = Unlisted(f)
    /\ card' = [card EXCEPT ![f] = None]
    /\ UNCHANGED <<files, manifest, node, linked, fixity, touched>>

\* Of a payload that one document owns; of two it would have to be said which.
Promote(f, up) ==
    Edit /\ \E o \in Owners :
        /\ {p \in Owners : owned[p][f] # None} = {o}
        /\ CheckAttach(f)
        /\ card' = [card EXCEPT ![f] =
              [hash |-> IF owned[o][f].hash # None THEN owned[o][f].hash ELSE Digest(f),
               fields |-> Copied(owned[o][f].fields, Top, loc[f]), up |-> up]]
        /\ entries' = [entries EXCEPT ![up] = Append(@, f)]
        /\ owned' = [owned EXCEPT ![o][f] = None]
        /\ UNCHANGED <<files, manifest, node, linked, fixity, touched>>

-----------------------------------------------------------------------------
(* By hand, or by another device.                                          *)

EditBytes(f) == Edit /\ Present(f)
    /\ bytes' = [bytes EXCEPT ![f] = 1 - @]
    /\ UNCHANGED <<loc, here, made, records, linked, fixity>>
\* Nobody removes a payload that is linked to.
TakeOut(f) == Edit /\ Present(f) /\ <<"payload", f>> \notin linked
    /\ bytes' = [bytes EXCEPT ![f] = None]
    /\ UNCHANGED <<loc, here, made, records, linked, fixity>>
\* The workspace is opened where the directory is not, or where it is again.
Carry(d) == Edit /\ d \in made
    /\ (here' = IF d \in here THEN here \ {d} ELSE here \cup {d})
    /\ UNCHANGED <<loc, bytes, made, records, linked, fixity>>
Say(k, v) == Edit
    /\ \/ \E f \in Files : /\ card[f] # None /\ card[f].fields[k] # v
                           /\ card' = [card EXCEPT ![f].fields[k] = v]
                           /\ UNCHANGED <<node, manifest, touched>>
       \/ \E d \in Dirs : /\ node[d] # None /\ node[d].fields[k] # v
                          /\ node' = [node EXCEPT ![d].fields[k] = v]
                          /\ UNCHANGED <<card, manifest, touched>>
       \/ \E d \in Dirs : /\ Covered(d) /\ k \notin LinkFields
                          /\ \E f \in Rows(d) : /\ manifest[d].rows[f].fields[k] # v
                                                /\ manifest' = [manifest EXCEPT ![d].rows[f].fields[k] = v]
                          /\ touched' = touched \cup {d} /\ UNCHANGED <<card, node>>
    /\ UNCHANGED <<files, entries, owned, linked, fixity>>
SayOnRow(k, v) == Edit
    /\ \E o \in Owners, f \in Files :
        /\ owned[o][f] # None /\ owned[o][f].fields[k] # v
        /\ owned' = [owned EXCEPT ![o][f].fields[k] = v]
    /\ UNCHANGED <<files, card, manifest, node, entries, touched, linked, fixity>>
\* One link is enough: the verbs ask whether there is any.
LinkTo == Edit /\ linked = {}
    /\ linked' \in {{<<"card", f>>} : f \in {g \in Files : card[g] # None}}
           \cup {{<<"payload", f>>} : f \in {g \in Files : Present(g)}}
           \cup {{<<"node", d>>} : d \in {g \in Dirs : node[g] # None}}
    /\ UNCHANGED <<files, records, fixity>>
Configure == Edit /\ fixity' = ~fixity /\ UNCHANGED <<files, records, linked>>

GatherAny(discard) == \E d \in Dirs, C \in SUBSET Files : Gather(C, d, discard)
Scatter == \E d \in Dirs : ScatterUnder(d) \/ \E into \in Indexes : ScatterInto(d, into)
Reshape ==
    \/ \E f \in Files, into \in Owners : Demote(f, into)
    \/ \E f \in Files, up \in Indexes : Promote(f, up)

Next ==
    \/ \E up \in Indexes, f \in Files : Attach(f, up)
    \/ \E up \in Indexes, d \in Dirs : AttachManifest(d, up)
    \/ \E o \in Owners, f \in Files : AttachInline(f, o)
    \/ \E o \in Owners : RestampPayloads(o)
    \/ \E discard \in SUBSET Fields : GatherAny(discard)
    \/ Scatter \/ Reshape
    \/ \E d \in Dirs : UpdateManifest(d) \/ Carry(d)
    \/ \E d \in Dirs, f \in Files : ExtendManifest(d, f)
    \/ \E d \in Dirs, held \in {Keeper, None} : SetManifestHeld(d, held)
    \/ \E f \in Files : EditBytes(f) \/ TakeOut(f)
    \/ \E k \in Fields, v \in Values : Say(k, v) \/ SayOnRow(k, v)
    \/ LinkTo \/ Configure

Spec == Init /\ [][Next]_vars

-----------------------------------------------------------------------------
(* Properties.                                                             *)

Owning(f) == {o \in Owners : owned[o][f] # None}
Listing(f) == {d \in Dirs : Covered(d) /\ f \in Rows(d)}
\* What is said of a payload, and the digest recorded of it.
Told(f, k) ==
    {card[f].fields[k] : c \in {f} \cap {g \in Files : card[g] # None}}
      \cup {Over(manifest[d].rows[f].fields, node[d].fields)[k] : d \in Listing(f)}
      \cup {owned[o][f].fields[k] : o \in Owning(f)}
Recorded(f) ==
    {card[f].hash : c \in {f} \cap {g \in Files : card[g] # None}}
      \cup {manifest[d].rows[f].hash : d \in Listing(f)}
      \cup {owned[o][f].hash : o \in Owning(f)}
OnNodes(k) == {node[d].fields[k] : d \in {e \in Dirs : node[e] # None}}

\* A gather, a scatter, a demotion or a promotion loses nothing that is said of
\* a payload, unless the field is discarded: the other shape says it, or a node
\* that stays does.  And under fixity the digest is the one recorded, whatever
\* the bytes are now.
NothingIsLost ==
    [][\/ \A f \in Files :
            /\ \A k \in Fields : Told(f, k) \ {None} \subseteq Told(f, k)' \cup OnNodes(k)'
            /\ fixity => Recorded(f) \ {None} \subseteq Recorded(f)'
       \/ ~ (GatherAny({}) \/ Scatter \/ Reshape)]_vars

\* Only scattering a node into itself leaves one that declares a manifest there
\* is not.
ScatteredIntoItself(d) == node[d] # None /\ node[d].declares /\ manifest[d] = None

\* A node's pin is of the manifest as it is, or as somebody has edited it since:
\* no verb leaves behind a pin that check would take for corruption, but a
\* scatter of a node into itself.
PinsHold ==
    \A d \in Dirs : node[d] # None /\ node[d].pin # None =>
        node[d].pin = manifest[d] \/ d \in touched \/ ScatteredIntoItself(d)

\* An index lists once, and only, the records that say they are under it, but
\* for a node that was scattered into itself: the index that has it for parent
\* does not list it.
EntriesAreAnswered ==
    \A i \in {Top} \cup Dirs :
        /\ IsInjective(entries[i])
        /\ ToSet(entries[i]) =
              {f \in Files : card[f] # None /\ card[f].up = i}
              \cup {d \in Dirs : node[d] # None /\ node[d].up = i /\ ~ScatteredIntoItself(d)}

\* Whether the end of a link is there, and for a payload where.
LinkedPlace(link) ==
    CASE link[1] = "card" -> card[link[2]] # None
      [] link[1] = "payload" -> loc[link[2]]
      [] link[1] = "node" -> node[link[2]] # None

\* What other documents link to stays where they link to it: a sidecar, a
\* payload, or the node of a directory. A row links to the payload it owns.
LinksHold ==
    [][/\ \A link \in linked : LinkedPlace(link)' = LinkedPlace(link)
       /\ \A f \in Files : Owning(f) # {} => loc[f]' = loc[f]]_vars

=============================================================================
