------------------------------- MODULE Fixity -------------------------------
(***************************************************************************)
(* What a document says about its own bytes: the content_hash it records,  *)
(* the confirmations it collects and the stamp of its last edit, while     *)
(* separate, combine and convert restate it in other files and others edit *)
(* them (prov/src/mutate/{separate,convert,save,confirm}.rs and            *)
(* prov/src/provenance.rs).                                                *)
(*                                                                         *)
(* A document is combined (one file) or a pair (a metadata node pointing   *)
(* at a body file). A verb of one session plans on what it reads and lands *)
(* later; everybody else acts in between. The verbs that restate the       *)
(* document land only on what they read; those that write back the file    *)
(* they read (stamp, restamp, confirm) expect nothing, so it may by then   *)
(* be the body of a pair, or no file of the document at all. The document  *)
(* is the one its parent lists: the verbs that restate it retarget links.  *)
(***************************************************************************)
EXTENDS Integers, Sequences, FiniteSets

CONSTANTS
    None,       \* no value
    Bindings,   \* what confirmations may be bound to: "stamp", "content"
    Grammars,   \* the body's grammars
    MaxEdits,   \* bound: texts written after the first, of metadata and body
    MaxEntries, \* bound: the confirmations a document collects
    MaxTick,    \* bound: the clock
    MaxVerbs    \* bound: others' verbs while one is between reading and landing

ASSUME FixityAssumption ==
    /\ Bindings \subseteq {"stamp", "content"} /\ Bindings # {}
    /\ {MaxEdits, MaxEntries, MaxTick, MaxVerbs} \subseteq Nat
    /\ None \notin Nat

VARIABLES
    doc,        \* shape; meta, updated, hash and confirmed; the body's bytes;
                \* and the files of its name that are `left` beside it
    binding,    \* ConfirmationBinding of the workspace
    tick,       \* the clock, in the resolution of a stamp
    edits,      \* how each text came to be, in order: by prov or not, and when
    plan,       \* the verb between its reading and its landing, and what it read
    late        \* history: has a landing been Overtaken

vars == <<doc, binding, tick, edits, plan, late>>

\* A body's prose, and what stands before it: a stray "block" of metadata, or
\* one that has become "prose". A body file that is not there has no text.
Body(text, grammar) == [text |-> text, grammar |-> grammar, before |-> {}]
NoPlan == [verb |-> None]

Init ==
    /\ \E g \in Grammars, shape \in {"combined", "pair"} :
          doc = [shape |-> shape, meta |-> 0, updated |-> 0, hash |-> None,
                 confirmed |-> {}, body |-> Body(0, g), left |-> {}]
    /\ binding \in Bindings
    /\ tick = 0
    /\ edits = <<>>
    /\ plan = NoPlan
    /\ late = FALSE

-----------------------------------------------------------------------------
(* What is recorded, and what it says now. A digest is the bytes it is of. *)

\* Fixity::covers: a document that points at a file of its own.
Covers(d) == d.shape = "pair"
\* content_state: of the body file, or of a combined document's own body.
Drifted(d) == d.hash # None /\ d.hash # d.body
Unrecorded(d) == d.hash = None
Readable(d) == d.body.text # None

\* content_digest: of the text of the document's own file but for its confirmed
\* list. A pair's is its node's, which holds no prose but names the body file.
ContentDigest(d) ==
    [meta |-> d.meta, updated |-> d.updated,
     body |-> IF d.shape = "pair" THEN Body(None, d.body.grammar) ELSE d.body]

\* Confirmation::is_stale_against, negated, as `standing` asks it.
BoundToContent(d, e) == binding = "content" /\ Unrecorded(d) /\ e.of # None
Stands(d, e) ==
    IF BoundToContent(d, e) THEN e.of = ContentDigest(d)
    ELSE e.at >= d.updated /\ (e.of # None => e.of = d.hash)

-----------------------------------------------------------------------------
(* The verbs: when each goes ahead on what it reads, and what it makes.    *)

Restating == {"separate", "combine", "convert"}
Verbs == Restating \cup {"stamp", "restamp", "confirm"}

\* Confirm: a digest that no longer matches cannot be vouched past.
MayConfirmAnyway(d) == TRUE
MayConfirm(d) == ~Drifted(d)

\* The grammars whose path no file has.
Free(d) == Grammars \ ({d.body.grammar} \cup d.left)

May(verb, d) ==
    CASE verb = "separate" -> d.shape = "combined" /\ "node" \notin d.left
      [] verb = "combine"  -> d.shape = "pair" /\ Readable(d)
      [] verb = "convert"  -> Free(d) # {} /\ Readable(d)
      [] verb = "stamp"    -> Readable(d)           \* cmd_stamp of a named file
                              /\ (Drifted(d) \/ Unrecorded(d))
      [] verb = "restamp"  -> Readable(d)           \* Fix::RestampFixity, --all
                              /\ (Drifted(d) \/ (Unrecorded(d) /\ Covers(d)))
      [] verb = "confirm"  -> MayConfirm(d) /\ Cardinality(d.confirmed) < MaxEntries

\* The body file takes the node's front matter, content_hash with the rest.
Separated(d) == [d EXCEPT !.shape = "pair"]
\* A stray block before the prose is dropped with the node.
Combined(d) == [d EXCEPT !.shape = "combined", !.body.before = @ \ {"block"}]
\* plan_transcode: the prose is restated, and all of a body file is prose; the
\* checksum of a pair is not.
Converted(d, g) ==
    [d EXCEPT !.body.grammar = g,
              !.body.before = IF "block" \in @ THEN {"prose"} ELSE @]

\* `stamped`: the checksum where covered and drifted, the stamp where claimed.
StampedIfHashed(d, now) ==
    IF Covers(d) /\ d.hash # d.body
    THEN [d EXCEPT !.hash = d.body, !.updated = now] ELSE d
Stamped(d, now) ==
    [d EXCEPT !.hash = IF Covers(d) THEN d.body ELSE @, !.updated = now]

\* confirm_with: the digest on record, or the content digest, or neither.
Entry(d, now) ==
    [at |-> now,
     of |-> IF ~Unrecorded(d) THEN d.hash
            ELSE IF binding = "content" THEN ContentDigest(d) ELSE None,
     saw |-> [meta |-> d.meta, body |-> d.body]]
Confirmed(d, now) == [d EXCEPT !.confirmed = @ \cup {Entry(d, now)}]

Outcomes(verb, d, now) ==
    CASE verb = "separate" -> {Separated(d)}
      [] verb = "combine"  -> {Combined(d)}
      [] verb = "convert"  -> {Converted(d, g) : g \in Free(d)}
      [] verb = "stamp"    -> {Stamped(d, now)}
      [] verb = "restamp"  -> {[d EXCEPT !.hash = d.body]}
      [] verb = "confirm"  -> {Confirmed(d, now)}

\* ChangeSet::expect: both halves as read. Those that stamp expect nothing.
ExpectedNode(verb, read, now) ==
    verb \in Restating => [now EXCEPT !.body = read.body] = read
Expected(verb, read, now) == verb \in Restating => now = read

\* A verb that stamps writes back the file it read: the node of a pair, whose
\* body is another, or all of a combined document.
WrittenOver(made, now) ==
    LET same == made.body.grammar = now.body.grammar IN
    CASE made.shape = "pair" /\ now.shape = "pair" /\ same ->
            [made EXCEPT !.body = now.body]
      [] made.shape = "pair" /\ now.shape = "pair" /\ ~same ->   \* the old pointer
            [made EXCEPT !.body = Body(None, @.grammar),
                         !.left = @ \cup {now.body.grammar}]
      [] made.shape = "pair" /\ now.shape = "combined" ->         \* a node beside it
            [now EXCEPT !.left = @ \cup {"node"}]
      [] made.shape = "combined" /\ now.shape = "combined" /\ same -> made
      [] made.shape = "combined" /\ now.shape = "pair" /\ same -> \* over the body file
            [now EXCEPT !.body = [made.body EXCEPT !.before = @ \cup {"block"}]]
      [] made.shape = "combined" /\ ~same ->                      \* a file beside it
            [now EXCEPT !.left = @ \cup {made.body.grammar}]

-----------------------------------------------------------------------------
(* The session's verb, and everybody else.                                 *)

Plan(verb) ==
    /\ plan = NoPlan
    /\ May(verb, doc)
    /\ plan' = [verb |-> verb, read |-> doc, at |-> tick,
              meanwhile |-> 0, restated |-> FALSE]
    /\ UNCHANGED <<doc, binding, tick, edits, late>>

\* A verb that expects nothing, whose document was restated since it read it.
Overtaken == plan # NoPlan /\ plan.restated

Land ==
    /\ plan # NoPlan
    /\ Expected(plan.verb, plan.read, doc)
    /\ \E made \in Outcomes(plan.verb, plan.read, plan.at) :
          doc' = IF plan.verb \in Restating THEN made ELSE WrittenOver(made, doc)
    /\ plan' = NoPlan
    /\ late' = (late \/ Overtaken)
    /\ UNCHANGED <<binding, tick, edits>>

\* Error::Drifted: nothing is written.
Refuse ==
    /\ plan # NoPlan
    /\ ~Expected(plan.verb, plan.read, doc)
    /\ plan' = NoPlan
    /\ UNCHANGED <<doc, binding, tick, edits, late>>

\* Another session's verb, from its reading to its landing.
Elsewhere(verb) ==
    /\ May(verb, doc)
    /\ doc' \in Outcomes(verb, doc, tick)
    /\ plan # NoPlan => plan.meanwhile < MaxVerbs
    /\ plan' = IF plan = NoPlan THEN NoPlan
               ELSE [plan EXCEPT !.meanwhile = @ + 1, !.restated =
                        @ \/ (verb \in Restating /\ plan.verb \notin Restating)]
    /\ UNCHANGED <<binding, tick, edits, late>>

Wrote(v, how) ==
    LET written == [how |-> how, at |-> tick] IN
    edits' = IF v = Len(edits) + 1 THEN Append(edits, written)
             ELSE [i \in 1..Len(edits) |-> IF i = v THEN written ELSE edits[i]]

\* save_document_expecting: the text an editor read here, with its stamps.
SavedText(part, v) ==
    IF part = "meta" THEN [doc EXCEPT !.meta = v] ELSE [doc EXCEPT !.body.text = v]
Save(part) ==
    /\ Len(edits) < MaxEdits
    /\ IF part = "text" THEN doc.shape = "combined" ELSE Readable(doc)
    /\ LET v == Len(edits) + 1 IN
        /\ Wrote(v, "prov")
        /\ doc' = Stamped(SavedText(part, v), tick)
    /\ UNCHANGED <<binding, tick, plan, late>>

\* An edit prov did not host: of a text never seen, or of one seen before.
Edit(part) ==
    /\ \E v \in 0..(IF Len(edits) < MaxEdits THEN Len(edits) + 1 ELSE Len(edits)) :
        /\ SavedText(part, v) # doc
        /\ Wrote(v, "outside")
        /\ doc' = SavedText(part, v)
    /\ UNCHANGED <<binding, tick, plan, late>>

Tick ==
    /\ tick < MaxTick
    /\ tick' = tick + 1
    /\ UNCHANGED <<doc, binding, edits, plan, late>>

Next ==
    \/ \E verb \in Verbs : Plan(verb) \/ Elsewhere(verb)
    \/ Land \/ Refuse \/ Tick
    \/ \E part \in {"meta", "text"} : Save(part) \/ Edit(part)

Spec == Init /\ [][Next]_vars

-----------------------------------------------------------------------------
(* Properties.                                                             *)

\* Separating, combining and converting restate a document and change nothing
\* it says: its metadata, prose, stamps, checksum and confirmations are those
\* it had when the change landed, not when it was planned. Nothing else changes
\* its form, but for a stamp or a confirmation that lands though the document
\* was restated since it was read: that one points a pair back at a body file
\* that has gone.
RestatedIsTheSame ==
    [][(doc'.shape # doc.shape \/ doc'.body.grammar # doc.body.grammar)
       => \/ [doc' EXCEPT !.shape = doc.shape, !.body.grammar = doc.body.grammar,
                          !.body.before = doc.body.before] = doc
          \/ Land /\ Overtaken]_vars

\* A confirmation that names bytes and stands, on a document whose bytes are
\* those on record, was made by somebody who saw them, whatever has landed
\* late. (A pair without a checksum is bound to its node alone.)
DigestsBind ==
    \A e \in doc.confirmed :
        e.of # None /\ Stands(doc, e) /\ ~Drifted(doc)
        /\ ~(doc.shape = "pair" /\ Unrecorded(doc))
        => doc.body = e.saw.body

\* A confirmation bound to the stamp alone, and standing, is of what the
\* document says now, but for what was written past prov or within its tick:
\* until a stamp or a confirmation lands though the document was restated since
\* it was read, which may put an older stamp on what was saved in between.
StampsBind ==
    ~late => \A e \in doc.confirmed :
        e.of = None /\ Stands(doc, e) =>
            \A now \in {doc.meta, doc.body.text} \ {e.saw.meta, e.saw.body.text, None, 0} :
                edits[now].how = "outside" \/ edits[now].at <= e.at

=============================================================================
