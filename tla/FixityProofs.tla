---------------------------- MODULE FixityProofs ----------------------------
(***************************************************************************)
(* What a digest, a stamp and a confirmation vouch for, whatever the       *)
(* number of edits, of confirmations and of grammars, and however long the *)
(* clock runs.                                                             *)
(*                                                                         *)
(* The properties speak of the document as it is; a verb lands what it has *)
(* made of the document as it was. So the invariant says of what a plan    *)
(* has read what it says of the document (Known, InTime), and what may     *)
(* have become of the document since (Since).                              *)
(***************************************************************************)
EXTENDS Fixity, TLAPS

Bodies == [text : Nat \cup {None}, grammar : Grammars, before : SUBSET {"block", "prose"}]
Digests == [meta : Nat, updated : Nat, body : Bodies]

\* A digest names the bytes that were there to be seen, or a pair's node alone.
SawWhatItNames(e) ==
    \/ e.of = None
    \/ e.of \in Bodies /\ e.of = e.saw.body
    \/ e.of \in Digests /\ (e.of.body = e.saw.body \/ e.of.body.text = None)
Entries ==
    {e \in [at : Nat, of : {None} \cup Bodies \cup Digests, saw : [meta : Nat, body : Bodies]] :
        SawWhatItNames(e)}

Docs == [shape : {"combined", "pair"}, meta : Nat, updated : Nat, hash : Bodies \cup {None},
         confirmed : SUBSET Entries, body : Bodies, left : SUBSET (Grammars \cup {"node"})]
Edits == Seq([how : {"prov", "outside"}, at : Nat])
Plans == [verb : Verbs, read : Docs, at : Nat, meanwhile : Nat, restated : BOOLEAN]

TypeOK ==
    /\ doc \in Docs
    /\ binding \in Bindings
    /\ tick \in Nat
    /\ edits \in Edits
    /\ plan # NoPlan => plan \in Plans
    /\ late \in BOOLEAN

\* Only a pair can have lost its body.
Whole(d) == d.shape = "combined" => Readable(d)

\* A text prov wrote is not younger than the stamp of the document it is in.
Timely(v, by) == v \in DOMAIN edits /\ (edits[v].how = "outside" \/ edits[v].at <= by)
InTime(d) ==
    /\ d.meta # 0 => Timely(d.meta, d.updated)
    /\ d.body.text \notin {0, None} => Timely(d.body.text, d.updated)

\* While nobody has restated the document a verb has read, its form is the same,
\* and the body file of a pair is prov's to write in no verb that restates none.
Since ==
    /\ doc.shape = plan.read.shape
    /\ doc.body.grammar = plan.read.body.grammar
    /\ doc.shape = "pair" /\ doc.body.text \notin {0, None, plan.read.body.text} =>
          doc.body.text \in DOMAIN edits /\ edits[doc.body.text].how = "outside"

IInv ==
    /\ TypeOK
    /\ doc.updated <= tick /\ Whole(doc)
    /\ ~late => InTime(doc)
    /\ plan # NoPlan =>
          /\ May(plan.verb, plan.read) /\ Whole(plan.read)
          /\ plan.at <= tick /\ plan.read.updated <= plan.at
          /\ ~late => InTime(plan.read)
          /\ plan.verb \notin Restating /\ ~plan.restated => Since

-----------------------------------------------------------------------------
\* A confirmation is an entry that saw what it names.
LEMMA EntryOK ==
    ASSUME NEW d \in Docs, MayConfirm(d), NEW now \in Nat
    PROVE  Entry(d, now) \in Entries
<1> DEFINE e == Entry(d, now)
<1>1. /\ d.meta \in Nat /\ d.updated \in Nat /\ d.hash \in Bodies \cup {None}
      /\ d.body \in Bodies /\ d.body.text \in Nat \cup {None} /\ d.body.grammar \in Grammars
  BY DEF Docs, Bodies
<1>2. ContentDigest(d) \in Digests
  BY <1>1 DEF ContentDigest, Digests, Body, Bodies
<1>3. e.at \in Nat /\ e.saw = [meta |-> d.meta, body |-> d.body]
  BY DEF Entry
<1>4. e.of = IF ~Unrecorded(d) THEN d.hash
             ELSE IF binding = "content" THEN ContentDigest(d) ELSE None
  BY DEF Entry
<1>5. SawWhatItNames(e) /\ e.of \in {None} \cup Bodies \cup Digests
  <2>1. CASE ~Unrecorded(d)
    BY <2>1, <1>1, <1>3, <1>4 DEF Unrecorded, MayConfirm, Drifted, SawWhatItNames
  <2>2. CASE Unrecorded(d) /\ binding = "content"
    <3>1. e.of = ContentDigest(d)
      BY <2>2, <1>4
    <3>2. ContentDigest(d).body = d.body \/ ContentDigest(d).body.text = None
      BY DEF ContentDigest, Body
    <3> QED
      BY <3>1, <3>2, <1>2, <1>3 DEF SawWhatItNames
  <2>3. CASE Unrecorded(d) /\ binding # "content"
    BY <2>3, <1>4 DEF SawWhatItNames
  <2> QED
    BY <2>1, <2>2, <2>3
<1>6. e \in [at : Nat, of : {None} \cup Bodies \cup Digests, saw : [meta : Nat, body : Bodies]]
  BY <1>1, <1>5 DEF Entry
<1> QED
  BY <1>5, <1>6 DEF Entries

\* What a verb has made of a document: the restating ones change its shape or its
\* grammar, the others its checksum, stamp or confirmations.
Remade(verb, d, now, made) ==
    /\ made \in Docs
    /\ made.meta = d.meta /\ made.body.text = d.body.text
    /\ made.updated = IF verb = "stamp" THEN now ELSE d.updated
    /\ verb \notin Restating => made.shape = d.shape /\ made.body = d.body
    /\ verb \in Restating =>
          [made EXCEPT !.shape = d.shape, !.body.grammar = d.body.grammar,
                       !.body.before = d.body.before] = d
    /\ Whole(d) => Whole(made)

\* Whatever a verb makes of a document is a document, remade.
LEMMA OutcomesOK ==
    ASSUME NEW verb \in Verbs, NEW d \in Docs, May(verb, d), NEW now \in Nat,
           NEW made \in Outcomes(verb, d, now)
    PROVE  Remade(verb, d, now, made)
<1> USE DEF Remade, Whole, Readable
<1>1. CASE verb = "separate"
  <2>1. made = [d EXCEPT !.shape = "pair"]
    BY <1>1 DEF Outcomes, Separated
  <2>2. made \in Docs
    BY <2>1 DEF Docs
  <2>3. [made EXCEPT !.shape = d.shape, !.body.grammar = d.body.grammar,
                     !.body.before = d.body.before] = d
    BY <2>1 DEF Docs, Bodies
  <2> QED
    BY <1>1, <2>1, <2>2, <2>3 DEF Restating, Docs
<1>2. CASE verb = "combine"
  <2>1. made = [d EXCEPT !.shape = "combined", !.body.before = @ \ {"block"}]
    BY <1>2 DEF Outcomes, Combined
  <2>2. made \in Docs
    BY <2>1 DEF Docs, Bodies
  <2>3. [made EXCEPT !.shape = d.shape, !.body.grammar = d.body.grammar,
                     !.body.before = d.body.before] = d
    BY <2>1 DEF Docs, Bodies
  <2>4. d.body.text # None
    BY <1>2 DEF May
  <2>5. made.meta = d.meta /\ made.updated = d.updated /\ made.body.text = d.body.text
    BY <2>1 DEF Docs, Bodies
  <2> QED
    BY <1>2, <2>2, <2>3, <2>4, <2>5 DEF Restating
<1>3. CASE verb = "convert"
  <2>1. PICK g \in Grammars :
            made = [d EXCEPT !.body.grammar = g,
                             !.body.before = IF "block" \in @ THEN {"prose"} ELSE @]
    BY <1>3 DEF Outcomes, Converted, Free
  <2>2. made \in Docs
    BY <2>1 DEF Docs, Bodies
  <2>3. [made EXCEPT !.shape = d.shape, !.body.grammar = d.body.grammar,
                     !.body.before = d.body.before] = d
    BY <2>1 DEF Docs, Bodies
  <2> QED
    BY <1>3, <2>1, <2>2, <2>3 DEF Restating, Docs, Bodies
<1>4. CASE verb = "stamp"
  <2>1. made = [d EXCEPT !.hash = IF Covers(d) THEN d.body ELSE @, !.updated = now]
    BY <1>4 DEF Outcomes, Stamped
  <2> QED
    BY <1>4, <2>1 DEF Restating, Docs
<1>5. CASE verb = "restamp"
  <2>1. made = [d EXCEPT !.hash = d.body]
    BY <1>5 DEF Outcomes
  <2> QED
    BY <1>5, <2>1 DEF Restating, Docs
<1>6. CASE verb = "confirm"
  <2>1. made = [d EXCEPT !.confirmed = @ \cup {Entry(d, now)}]
    BY <1>6 DEF Outcomes, Confirmed
  <2>2. Entry(d, now) \in Entries
    BY <1>6, EntryOK DEF May
  <2> QED
    BY <1>6, <2>1, <2>2 DEF Restating, Docs
<1> QED
  BY <1>1, <1>2, <1>3, <1>4, <1>5, <1>6 DEF Verbs, Restating

-----------------------------------------------------------------------------
\* A fresh document is in time: neither text has been written over.
LEMMA InitOK == ASSUME FixityAssumption, Init PROVE IInv
<1>1. PICK g \in Grammars, shape \in {"combined", "pair"} :
        doc = [shape |-> shape, meta |-> 0, updated |-> 0, hash |-> None,
               confirmed |-> {}, body |-> Body(0, g), left |-> {}]
  BY DEF Init
<1>2. doc \in Docs /\ doc.updated = 0 /\ doc.meta = 0 /\ doc.body.text = 0
  BY <1>1 DEF Docs, Bodies, Body
<1>4. Whole(doc)
  BY <1>2, FixityAssumption DEF Whole, Readable, FixityAssumption
<1>3. edits \in Edits
  BY DEF Init, Edits
<1>5. /\ binding \in Bindings /\ tick = 0 /\ plan = NoPlan
      /\ late \in BOOLEAN /\ InTime(doc)
  BY <1>2 DEF Init, InTime
<1> QED
  BY <1>2, <1>3, <1>4, <1>5 DEF IInv, TypeOK

\* A verb reads the document as it is, in time.
LEMMA PlanOK == ASSUME IInv, NEW verb \in Verbs, Plan(verb) PROVE IInv'
<1>1. /\ plan' = [verb |-> verb, read |-> doc, at |-> tick, meanwhile |-> 0, restated |-> FALSE]
      /\ May(verb, doc) /\ UNCHANGED <<doc, binding, tick, edits, late>>
  BY DEF Plan
<1>2. plan' \in Plans /\ plan'.verb = verb /\ plan'.read = doc /\ plan'.at = tick
  BY <1>1 DEF IInv, TypeOK, Plans
<1>3. Since'
  BY <1>1, <1>2 DEF Since
<1>4. /\ May(plan.verb, plan.read)' /\ Whole(doc)' /\ Whole(plan.read)'
      /\ (~late => InTime(doc))' /\ (~late => InTime(plan.read))'
  BY <1>1, <1>2 DEF IInv, InTime, Timely, Whole, Readable
<1> QED
  BY <1>1, <1>2, <1>3, <1>4 DEF IInv, TypeOK

\* What is known of a text.
LEMMA EditsOK ==
    ASSUME edits \in Edits
    PROVE  /\ DOMAIN edits = 1..Len(edits) /\ Len(edits) \in Nat
           /\ \A i \in DOMAIN edits :
                 edits[i] \in [how : {"prov", "outside"}, at : Nat] /\ edits[i].at \in Nat
<1> DEFINE T == [how : {"prov", "outside"}, at : Nat]
<1>1. edits \in Seq(T)
  BY DEF Edits
<1> HIDE DEF T
<1>2. DOMAIN edits = 1..Len(edits) /\ Len(edits) \in Nat /\ \A i \in 1..Len(edits) : edits[i] \in T
  BY <1>1
<1> QED
  BY <1>2 DEF T

\* What is in time for one stamp is for a later one.
LEMMA LaterOK ==
    ASSUME edits \in Edits, NEW v, NEW a \in Nat, NEW b \in Nat, a <= b, Timely(v, a)
    PROVE  Timely(v, b)
<1>1. v \in DOMAIN edits
  BY DEF Timely
<1>2. edits[v] \in [how : {"prov", "outside"}, at : Nat] /\ edits[v].at \in Nat
  BY <1>1, EditsOK
<1> QED
  BY <1>2 DEF Timely

\* A stamp that is later than it was leaves a document in time.
LEMMA SameTextOK ==
    ASSUME edits \in Edits, NEW d \in Docs, InTime(d), NEW e \in Docs,
           e.meta = d.meta, e.body.text = d.body.text, d.updated <= e.updated
    PROVE  InTime(e)
<1>1. d.updated \in Nat /\ e.updated \in Nat
  BY DEF Docs
<1> QED
  BY <1>1, LaterOK DEF InTime

\* What a verb that expects nothing makes of the document it finds: a document,
\* with a stamp that was there or is the verb's.
LEMMA WrittenOverOK ==
    ASSUME NEW made \in Docs, NEW now \in Docs, Whole(made), Whole(now)
    PROVE  /\ WrittenOver(made, now) \in Docs /\ Whole(WrittenOver(made, now))
           /\ WrittenOver(made, now).updated \in {made.updated, now.updated}
           /\ made.shape = now.shape /\ made.body.grammar = now.body.grammar =>
                WrittenOver(made, now) =
                    IF made.shape = "pair" THEN [made EXCEPT !.body = now.body] ELSE made
<1> DEFINE same == made.body.grammar = now.body.grammar
           over == WrittenOver(made, now)
<1>1. /\ made.shape \in {"combined", "pair"} /\ now.shape \in {"combined", "pair"}
      /\ made.body \in Bodies /\ now.body \in Bodies
      /\ made.body.grammar \in Grammars /\ now.body.grammar \in Grammars
      /\ made.left \in SUBSET (Grammars \cup {"node"})
      /\ now.left \in SUBSET (Grammars \cup {"node"})
  BY DEF Docs, Bodies
<1>2. CASE made.shape = "pair" /\ now.shape = "pair" /\ same
  <2>1. over = [made EXCEPT !.body = now.body]
    BY <1>2 DEF WrittenOver
  <2> QED
    BY <1>1, <1>2, <2>1 DEF Docs, Whole
<1>3. CASE made.shape = "pair" /\ now.shape = "pair" /\ ~same
  <2>1. over = [made EXCEPT !.body = Body(None, @.grammar), !.left = @ \cup {now.body.grammar}]
    BY <1>3 DEF WrittenOver
  <2>2. Body(None, made.body.grammar) \in Bodies
    BY <1>1 DEF Body, Bodies
  <2>3. made.left \cup {now.body.grammar} \in SUBSET (Grammars \cup {"node"})
    BY <1>1
  <2>4. over = [made EXCEPT !.body = Body(None, made.body.grammar),
                            !.left = made.left \cup {now.body.grammar}]
    BY <2>1 DEF Docs
  <2>5. over \in Docs /\ over.shape = "pair" /\ over.updated = made.updated
    BY <1>3, <2>2, <2>3, <2>4 DEF Docs
  <2> QED
    BY <1>3, <2>5 DEF Whole
<1>4. CASE made.shape = "pair" /\ now.shape = "combined"
  <2>1. over = [now EXCEPT !.left = @ \cup {"node"}]
    BY <1>4 DEF WrittenOver
  <2>2. over \in Docs /\ over.body = now.body /\ over.updated = now.updated
    BY <1>1, <2>1 DEF Docs
  <2> QED
    BY <1>4, <2>2 DEF Whole, Readable
<1>5. CASE made.shape = "combined" /\ now.shape = "combined" /\ same
  <2>1. over = made
    BY <1>5 DEF WrittenOver
  <2> QED
    BY <1>5, <2>1
<1>6. CASE made.shape = "combined" /\ now.shape = "pair" /\ same
  <2>1. over = [now EXCEPT !.body = [made.body EXCEPT !.before = @ \cup {"block"}]]
    BY <1>6 DEF WrittenOver
  <2>2. [made.body EXCEPT !.before = @ \cup {"block"}] \in Bodies
    BY <1>1 DEF Bodies
  <2>3. over \in Docs /\ over.shape = "pair" /\ over.updated = now.updated
    BY <1>6, <2>1, <2>2 DEF Docs
  <2> QED
    BY <1>6, <2>3 DEF Whole
<1>7. CASE made.shape = "combined" /\ ~same
  <2>1. over = [now EXCEPT !.left = @ \cup {made.body.grammar}]
    BY <1>7 DEF WrittenOver
  <2>2. over \in Docs /\ over.shape = now.shape /\ over.body = now.body
        /\ over.updated = now.updated
    BY <1>1, <2>1 DEF Docs
  <2> QED
    BY <1>7, <2>2 DEF Whole, Readable
<1> QED
  BY <1>1, <1>2, <1>3, <1>4, <1>5, <1>6, <1>7

\* What lands is in time, unless it was overtaken: what it has of the document as
\* read was in time then, and what it has of a pair's body file is as read or was
\* written past prov.
LEMMA LandOK == ASSUME IInv, Land PROVE IInv'
<1> DEFINE read == plan.read
<1>1. PICK made \in Outcomes(plan.verb, read, plan.at) :
        doc' = IF plan.verb \in Restating THEN made ELSE WrittenOver(made, doc)
  BY DEF Land
<1>2. /\ plan \in Plans /\ doc \in Docs /\ edits \in Edits /\ tick \in Nat
      /\ read \in Docs /\ plan.verb \in Verbs /\ plan.at \in Nat
      /\ May(plan.verb, read) /\ plan.at <= tick /\ read.updated <= plan.at
      /\ doc.updated <= tick /\ Whole(doc) /\ Whole(read)
      /\ ~late => InTime(doc) /\ InTime(read)
      /\ plan.verb \notin Restating /\ ~plan.restated => Since
  BY DEF Land, IInv, TypeOK, Plans
<1>3. /\ made \in Docs /\ Whole(made)
      /\ made.meta = read.meta /\ made.body.text = read.body.text
      /\ made.updated = IF plan.verb = "stamp" THEN plan.at ELSE read.updated
      /\ plan.verb \notin Restating => made.shape = read.shape /\ made.body = read.body
  <2>1. Remade(plan.verb, read, plan.at, made)
    BY <1>2, OutcomesOK
  <2> QED
    BY <1>2, <2>1 DEF Remade
<1>4. /\ UNCHANGED <<binding, tick, edits>> /\ plan' = NoPlan
      /\ late' \in BOOLEAN /\ (~late' => ~late /\ ~plan.restated)
  BY DEF Land, Overtaken, IInv, TypeOK
<1>5. read.updated \in Nat /\ made.updated \in Nat /\ read.updated <= made.updated
      /\ made.updated <= tick
  BY <1>2, <1>3 DEF Docs
<1>6. doc' \in Docs /\ Whole(doc') /\ doc'.updated \in {made.updated, doc.updated}
  BY <1>1, <1>2, <1>3, WrittenOverOK
<1>7. ASSUME ~late' PROVE InTime(doc)'
  <2>1. InTime(made)
    BY <1>2, <1>3, <1>4, <1>5, <1>7, SameTextOK
  <2>2. CASE plan.verb \in Restating
    BY <1>1, <1>4, <2>1, <2>2 DEF InTime, Timely
  <2>3. CASE plan.verb \notin Restating
    <3>1. doc.shape = made.shape /\ doc.body.grammar = made.body.grammar /\ Since
      BY <1>2, <1>3, <1>4, <1>7, <2>3 DEF Since
    <3>2. doc' = IF made.shape = "pair" THEN [made EXCEPT !.body = doc.body] ELSE made
      BY <1>1, <1>2, <1>3, <2>3, <3>1, WrittenOverOK
    <3>3. CASE made.shape # "pair"
      BY <1>4, <2>1, <3>2, <3>3 DEF InTime, Timely
    <3>4. CASE made.shape = "pair"
      <4>1. doc'.meta = made.meta /\ doc'.updated = made.updated /\ doc'.body = doc.body
        BY <1>3, <3>2, <3>4 DEF Docs
      <4>2. \/ doc.body.text \in {0, None}
            \/ doc.body.text = made.body.text
            \/ doc.body.text \in DOMAIN edits /\ edits[doc.body.text].how = "outside"
        BY <1>3, <3>1, <3>4 DEF Since
      <4> QED
        BY <1>4, <2>1, <4>1, <4>2 DEF InTime, Timely
    <3> QED
      BY <3>3, <3>4
  <2> QED
    BY <2>2, <2>3
<1>8. doc'.updated <= tick'
  BY <1>2, <1>4, <1>5, <1>6
<1>9. Whole(doc)'
  BY <1>6 DEF Whole, Readable
<1> QED
  BY <1>2, <1>4, <1>6, <1>7, <1>8, <1>9 DEF IInv, TypeOK

\* Another session's verb does the same to the document it has just read.
LEMMA ElsewhereOK ==
    ASSUME IInv, NEW verb \in Verbs, Elsewhere(verb) PROVE IInv'
<1>1. /\ doc' \in Outcomes(verb, doc, tick) /\ May(verb, doc)
      /\ UNCHANGED <<binding, tick, edits, late>>
  BY DEF Elsewhere
<1>2. /\ doc' \in Docs /\ Whole(doc')
      /\ doc'.meta = doc.meta /\ doc'.body.text = doc.body.text
      /\ doc'.updated = IF verb = "stamp" THEN tick ELSE doc.updated
      /\ verb \notin Restating => doc'.shape = doc.shape /\ doc'.body = doc.body
  <2>1. doc \in Docs /\ tick \in Nat /\ Whole(doc)
    BY DEF IInv, TypeOK
  <2>2. Remade(verb, doc, tick, doc')
    BY <1>1, <2>1, OutcomesOK
  <2> QED
    BY <2>1, <2>2 DEF Remade
<1>3. doc.updated \in Nat /\ doc'.updated \in Nat
      /\ doc.updated <= doc'.updated /\ doc'.updated <= tick
  BY <1>2 DEF IInv, TypeOK, Docs
<1>4. ~late => InTime(doc')
  BY <1>2, <1>3, SameTextOK DEF IInv, TypeOK
<1>5. Whole(doc)' /\ (~late => InTime(doc))'
  BY <1>1, <1>2, <1>4 DEF InTime, Timely, Whole, Readable
<1>6. CASE plan = NoPlan
  BY <1>1, <1>2, <1>3, <1>5, <1>6 DEF Elsewhere, IInv, TypeOK
<1>7. CASE plan # NoPlan
  <2> DEFINE restated == plan.restated \/ (verb \in Restating /\ plan.verb \notin Restating)
  <2>1. plan \in Plans /\ plan' = [plan EXCEPT !.meanwhile = @ + 1, !.restated = restated]
    BY <1>7 DEF Elsewhere, IInv, TypeOK
  <2>2. restated \in BOOLEAN /\ plan.meanwhile + 1 \in Nat
    BY <2>1 DEF Plans
  <2> HIDE DEF restated
  <2>3. /\ plan' \in Plans /\ plan'.verb = plan.verb /\ plan'.read = plan.read
        /\ plan'.at = plan.at /\ plan'.restated = restated
    BY <2>1, <2>2 DEF Plans
  <2>4. /\ May(plan.verb, plan.read) /\ Whole(plan.read)
        /\ plan.at <= tick /\ plan.read.updated <= plan.at
        /\ ~late => InTime(plan.read)
        /\ plan.verb \notin Restating /\ ~plan.restated => Since
    BY <1>7 DEF IInv
  <2>5. ASSUME plan.verb \notin Restating, ~restated PROVE Since'
    <3>1. verb \notin Restating /\ Since
      BY <2>4, <2>5 DEF restated
    <3> QED
      BY <1>1, <1>2, <2>3, <3>1 DEF Since
  <2>6. (~late => InTime(plan.read))' /\ May(plan.verb, plan.read)' /\ Whole(plan.read)'
    BY <1>1, <2>3, <2>4 DEF InTime, Timely, Whole, Readable
  <2> QED
    BY <1>1, <1>2, <1>3, <1>5, <2>3, <2>4, <2>5, <2>6 DEF IInv, TypeOK
<1> QED
  BY <1>6, <1>7

\* A text is written down as it is written; what is in time stays in time.
LEMMA WroteOK ==
    ASSUME TypeOK, NEW v \in 0..(Len(edits) + 1), NEW how \in {"prov", "outside"}, Wrote(v, how),
           how = "outside" \/ v = Len(edits) + 1
    PROVE  /\ edits' \in Edits
           /\ v # 0 => v \in DOMAIN edits' /\ edits'[v] = [how |-> how, at |-> tick]
           /\ \A i \in DOMAIN edits :
                i \in DOMAIN edits' /\ (edits'[i] = edits[i] \/ edits'[i].how = "outside")
<1> DEFINE written == [how |-> how, at |-> tick]
<1>1. written \in [how : {"prov", "outside"}, at : Nat] /\ edits \in Edits /\ Len(edits) \in Nat
  BY DEF TypeOK, Edits
<1>2. CASE v = Len(edits) + 1
  <2>1. edits' = Append(edits, written)
    BY <1>2 DEF Wrote
  <2> HIDE DEF written
  <2>2. edits' \in Edits /\ Len(edits') = Len(edits) + 1 /\ edits'[Len(edits) + 1] = written
        /\ \A i \in 1..Len(edits) : edits'[i] = edits[i]
    BY <1>1, <2>1 DEF Edits
  <2>3. DOMAIN edits = 1..Len(edits) /\ DOMAIN edits' = 1..Len(edits')
    BY <1>1, <2>2 DEF Edits
  <2> QED
    BY <1>1, <1>2, <2>2, <2>3 DEF written
<1>3. CASE v # Len(edits) + 1
  <2>1. edits' = [i \in 1..Len(edits) |-> IF i = v THEN written ELSE edits[i]]
    BY <1>3 DEF Wrote
  <2>2. how = "outside" /\ v \in 0..Len(edits)
    BY <1>1, <1>3
  <2>3. DOMAIN edits = 1..Len(edits) /\ \A i \in 1..Len(edits) :
          edits[i] \in [how : {"prov", "outside"}, at : Nat]
    BY <1>1, EditsOK
  <2>4. edits' \in [1..Len(edits) -> [how : {"prov", "outside"}, at : Nat]]
    BY <1>1, <2>1, <2>3
  <2>5. edits' \in Edits
    BY <1>1, <2>4 DEF Edits
  <2> QED
    BY <1>1, <2>1, <2>2, <2>3, <2>5
<1> QED
  BY <1>2, <1>3

\* A text put into the document in time leaves all that is known of it, and of
\* what a plan has read of it: the prose of a pair is nobody's to save.
LEMMA WritingOK ==
    ASSUME IInv, NEW part \in {"meta", "text"}, NEW how \in {"prov", "outside"},
           NEW v \in 0..(Len(edits) + 1), Wrote(v, how),
           how = "outside" \/ v = Len(edits) + 1,
           part = "text" /\ how = "prov" => doc.shape = "combined",
           doc' \in Docs, Whole(doc'), doc'.shape = doc.shape, doc'.body.grammar = doc.body.grammar,
           doc'.meta = IF part = "meta" THEN v ELSE doc.meta,
           doc'.body.text = IF part = "meta" THEN doc.body.text ELSE v,
           doc.updated <= doc'.updated, doc'.updated <= tick,
           how = "prov" => doc'.updated = tick,
           UNCHANGED <<binding, tick, plan, late>>
    PROVE  IInv'
<1>1. /\ TypeOK /\ doc \in Docs /\ edits \in Edits /\ tick \in Nat /\ (~late => InTime(doc))
      /\ doc.updated \in Nat /\ doc'.updated \in Nat
  BY DEF IInv, TypeOK, Docs
<1>2. /\ edits' \in Edits
      /\ v # 0 => v \in DOMAIN edits' /\ edits'[v] = [how |-> how, at |-> tick]
      /\ \A i \in DOMAIN edits :
           i \in DOMAIN edits' /\ (edits'[i] = edits[i] \/ edits'[i].how = "outside")
  BY <1>1, WroteOK
<1> DEFINE TimelyNow(x, by) ==
             x \in DOMAIN edits' /\ (edits'[x].how = "outside" \/ edits'[x].at <= by)
<1>3. \A x, by : Timely(x, by) => TimelyNow(x, by)
  BY <1>2 DEF Timely
<1>4. v # 0 => TimelyNow(v, doc'.updated)
  BY <1>1, <1>2
<1>5. ASSUME ~late
      PROVE  /\ doc.meta # 0 => TimelyNow(doc.meta, doc'.updated)
             /\ doc.body.text \notin {0, None} => TimelyNow(doc.body.text, doc'.updated)
  <2>1. \A x : Timely(x, doc.updated) => Timely(x, doc'.updated)
    BY <1>1, LaterOK
  <2> QED
    BY <1>1, <1>3, <1>5, <2>1 DEF InTime
<1>6. (~late => InTime(doc))'
  <2>1. ASSUME ~late
        PROVE  /\ doc'.meta # 0 => TimelyNow(doc'.meta, doc'.updated)
               /\ doc'.body.text \notin {0, None} => TimelyNow(doc'.body.text, doc'.updated)
    BY <1>4, <1>5, <2>1
  <2> QED
    BY <2>1 DEF InTime, Timely
<1>7. plan # NoPlan => (~late => InTime(plan.read))'
  <2>1. ASSUME plan # NoPlan, ~late
        PROVE  /\ plan.read.meta # 0 => TimelyNow(plan.read.meta, plan.read.updated)
               /\ plan.read.body.text \notin {0, None} =>
                     TimelyNow(plan.read.body.text, plan.read.updated)
    BY <1>3, <2>1 DEF IInv, InTime
  <2> QED
    BY <2>1 DEF InTime, Timely
<1>8. plan # NoPlan /\ plan.verb \notin Restating /\ ~plan.restated => Since'
  <2> SUFFICES ASSUME plan # NoPlan, plan.verb \notin Restating, ~plan.restated, Since
               PROVE  Since'
    BY DEF IInv
  <2>1. ASSUME doc'.shape = "pair", doc'.body.text \notin {0, None, plan.read.body.text}
        PROVE  doc'.body.text \in DOMAIN edits' /\ edits'[doc'.body.text].how = "outside"
    <3>1. CASE part = "meta"
      BY <1>2, <2>1, <3>1 DEF Since
    <3>2. CASE part = "text"
      BY <1>2, <2>1, <3>2
    <3> QED
      BY <3>1, <3>2
  <2> QED
    BY <2>1 DEF Since
<1> QED
  BY <1>1, <1>2, <1>6, <1>7, <1>8 DEF IInv, TypeOK, Whole, Readable

\* A text put into a document makes a document of the same shape and grammar.
LEMMA SavedTextOK ==
    ASSUME FixityAssumption, doc \in Docs, Whole(doc), NEW part \in {"meta", "text"}, NEW v \in Nat
    PROVE  /\ SavedText(part, v) \in Docs /\ Whole(SavedText(part, v))
           /\ SavedText(part, v).shape = doc.shape
           /\ SavedText(part, v).updated = doc.updated
           /\ SavedText(part, v).body.grammar = doc.body.grammar
           /\ SavedText(part, v).meta = IF part = "meta" THEN v ELSE doc.meta
           /\ SavedText(part, v).body.text = IF part = "meta" THEN doc.body.text ELSE v
<1>1. CASE part = "meta"
  BY <1>1 DEF SavedText, Docs, Whole, Readable
<1>2. CASE part = "text"
  BY <1>2 DEF SavedText, Docs, Bodies, Whole, Readable, FixityAssumption
<1> QED
  BY <1>1, <1>2

\* What is saved is stamped as it is written.
LEMMA SaveOK ==
    ASSUME FixityAssumption, IInv, NEW part \in {"meta", "text"}, Save(part) PROVE IInv'
<1> DEFINE v == Len(edits) + 1
           d == SavedText(part, v)
<1>1. /\ part = "text" => doc.shape = "combined"
      /\ Wrote(v, "prov") /\ doc' = Stamped(d, tick)
      /\ UNCHANGED <<binding, tick, plan, late>>
  BY DEF Save
<1>2. v \in Nat /\ v \in 0..(Len(edits) + 1) /\ doc \in Docs /\ Whole(doc) /\ tick \in Nat /\ doc.updated <= tick
  BY EditsOK DEF IInv, TypeOK
<1>3. /\ d \in Docs /\ Whole(d) /\ d.shape = doc.shape /\ d.body.grammar = doc.body.grammar
      /\ d.meta = IF part = "meta" THEN v ELSE doc.meta
      /\ d.body.text = IF part = "meta" THEN doc.body.text ELSE v
  BY <1>2, SavedTextOK
<1> HIDE DEF v, d
<1>4. /\ doc' \in Docs /\ doc'.shape = d.shape /\ doc'.body = d.body /\ doc'.meta = d.meta
      /\ doc'.updated = tick /\ Whole(doc')
  BY <1>1, <1>2, <1>3 DEF Stamped, Docs, Whole, Readable
<1>5. v = Len(edits) + 1 /\ tick <= tick
  BY <1>2 DEF v
<1> QED
  BY <1>1, <1>2, <1>3, <1>4, <1>5, WritingOK

\* What is edited past prov is held against nobody.
LEMMA EditOK ==
    ASSUME FixityAssumption, IInv, NEW part \in {"meta", "text"}, Edit(part) PROVE IInv'
<1>1. PICK v \in 0..(IF Len(edits) < MaxEdits THEN Len(edits) + 1 ELSE Len(edits)) :
        Wrote(v, "outside") /\ doc' = SavedText(part, v)
  BY DEF Edit
<1>2. v \in Nat /\ v \in 0..(Len(edits) + 1) /\ doc \in Docs /\ Whole(doc) /\ tick \in Nat /\ doc.updated <= tick
  BY <1>1, EditsOK DEF IInv, TypeOK
<1>3. /\ doc' \in Docs /\ Whole(doc') /\ doc'.shape = doc.shape /\ doc'.body.grammar = doc.body.grammar
      /\ doc'.meta = IF part = "meta" THEN v ELSE doc.meta
      /\ doc'.body.text = IF part = "meta" THEN doc.body.text ELSE v
      /\ doc'.updated = doc.updated /\ doc.updated \in Nat
  BY <1>1, <1>2, SavedTextOK DEF Docs
<1>4. doc.updated <= doc'.updated /\ doc'.updated <= tick /\ UNCHANGED <<binding, tick, plan, late>>
  BY <1>2, <1>3 DEF Edit
<1> QED
  BY <1>1, <1>2, <1>3, <1>4, WritingOK

\* Every step keeps the invariant.
LEMMA NextOK == ASSUME FixityAssumption, IInv, [Next]_vars PROVE IInv'
<1>1. ASSUME NEW verb \in Verbs, Plan(verb) PROVE IInv'
  BY <1>1, PlanOK
<1>2. ASSUME NEW verb \in Verbs, Elsewhere(verb) PROVE IInv'
  BY <1>2, ElsewhereOK
<1>3. CASE Land
  BY <1>3, LandOK
<1>4. CASE Refuse
  BY <1>4 DEF Refuse, IInv, TypeOK, InTime, Timely, Whole, Readable
<1>5. CASE Tick
  <2>1. tick \in Nat /\ tick' = tick + 1 /\ doc.updated \in Nat /\ UNCHANGED <<doc, binding, edits, plan, late>>
    BY <1>5 DEF Tick, IInv, TypeOK, Docs
  <2>2. plan # NoPlan => plan.at \in Nat
    BY DEF IInv, TypeOK, Plans
  <2> QED
    BY <2>1, <2>2 DEF IInv, TypeOK, InTime, Timely, Since, Whole, Readable
<1>6. ASSUME NEW part \in {"meta", "text"}, Save(part) PROVE IInv'
  BY <1>6, SaveOK
<1>7. ASSUME NEW part \in {"meta", "text"}, Edit(part) PROVE IInv'
  BY <1>7, EditOK
<1>8. CASE UNCHANGED vars
  BY <1>8 DEF vars, IInv, TypeOK, InTime, Timely, Since, Whole, Readable
<1> QED
  BY <1>1, <1>2, <1>3, <1>4, <1>5, <1>6, <1>7, <1>8 DEF Next

\* The invariant holds.
LEMMA IInvHolds == Spec => []IInv
<1>1. Init => IInv
  BY FixityAssumption, InitOK
<1>2. IInv /\ [Next]_vars => IInv'
  BY FixityAssumption, NextOK
<1> QED
  BY <1>1, <1>2, PTL DEF Spec

-----------------------------------------------------------------------------
\* What a stamp vouches for: until a stamp or a confirmation lands on a document
\* that was restated since it was read, nothing prov has written is younger than
\* the stamp the document carries, so a confirmation that is not older than the
\* stamp is of what the document says, but for what was written past prov.
THEOREM StampsBindHolds == Spec => []StampsBind
<1>1. ASSUME IInv PROVE StampsBind
  <2>1. doc \in Docs /\ edits \in Edits /\ (~late => InTime(doc)) /\ doc.updated \in Nat
    BY <1>1 DEF IInv, TypeOK, Docs
  <2> SUFFICES ASSUME ~late, NEW e \in doc.confirmed, e.of = None, Stands(doc, e),
                      NEW now \in {doc.meta, doc.body.text} \ {None, 0}
               PROVE  edits[now].how = "outside" \/ edits[now].at <= e.at
    BY DEF StampsBind
  <2>2. e.at \in Nat /\ doc.updated <= e.at
    BY <2>1 DEF Stands, BoundToContent, Docs, Entries
  <2>3. Timely(now, doc.updated)
    BY <2>1 DEF InTime
  <2>4. Timely(now, e.at)
    BY <2>1, <2>2, <2>3, LaterOK
  <2> QED
    BY <2>4 DEF Timely
<1> QED
  BY <1>1, IInvHolds, PTL

\* What a digest vouches for: no confirmation that names bytes and stands names
\* any but those its maker saw, whatever has restated the document since and
\* whatever has landed on it late.
THEOREM DigestsBindHolds == Spec => []DigestsBind
<1>1. ASSUME IInv, FixityAssumption PROVE DigestsBind
  <2>1. doc \in Docs /\ doc.body \in Bodies /\ Whole(doc)
    BY <1>1 DEF IInv, TypeOK, Docs
  <2> SUFFICES ASSUME NEW e \in doc.confirmed, e.of # None, Stands(doc, e), ~Drifted(doc),
                      ~(doc.shape = "pair" /\ Unrecorded(doc))
               PROVE  doc.body = e.saw.body
    BY DEF DigestsBind
  <2>2. SawWhatItNames(e) /\ e.of # None
    BY <2>1 DEF Docs, Entries
  <2>3. CASE BoundToContent(doc, e)
    <3>1. e.of = ContentDigest(doc) /\ doc.shape = "combined" /\ doc.body.text # None
      BY <2>1, <2>3 DEF Stands, BoundToContent, Whole, Readable, Docs
    <3>2. e.of = [meta |-> doc.meta, updated |-> doc.updated, body |-> doc.body]
      BY <3>1 DEF ContentDigest
    <3>3. e.of \notin Bodies /\ e.of.body = doc.body
      BY <3>2 DEF Bodies
    <3> QED
      BY <2>1, <2>2, <3>1, <3>3 DEF SawWhatItNames
  <2>4. CASE ~BoundToContent(doc, e)
    <3>1. e.of = doc.body
      BY <2>2, <2>4 DEF Stands, Drifted
    <3>2. e.of \notin Digests
      BY <2>1, <3>1 DEF Bodies, Digests
    <3> QED
      BY <2>2, <3>1, <3>2 DEF SawWhatItNames
  <2> QED
    BY <2>3, <2>4
<1> QED
  BY <1>1, FixityAssumption, IInvHolds, PTL

Restated == doc'.shape # doc.shape \/ doc'.body.grammar # doc.body.grammar
SaysTheSame == [doc' EXCEPT !.shape = doc.shape, !.body.grammar = doc.body.grammar,
                            !.body.before = doc.body.before] = doc

\* What lands is made of the document as it is, leaves its form alone or was
\* overtaken.
LEMMA LandRestates == ASSUME IInv, Land, ~Overtaken PROVE Restated => SaysTheSame
<1> DEFINE read == plan.read
<1>1. PICK made \in Outcomes(plan.verb, read, plan.at) :
        doc' = IF plan.verb \in Restating THEN made ELSE WrittenOver(made, doc)
  BY DEF Land
<1>2. /\ read \in Docs /\ doc \in Docs /\ plan.verb \in Verbs /\ plan.at \in Nat
      /\ May(plan.verb, read) /\ Whole(read) /\ Whole(doc)
      /\ plan.verb \notin Restating => Since
  BY DEF Land, IInv, TypeOK, Plans, Overtaken
<1>3. Remade(plan.verb, read, plan.at, made)
  BY <1>2, OutcomesOK
<1>4. CASE plan.verb \in Restating
  <2>1. doc = read
    BY <1>4 DEF Land, Expected
  <2> QED
    BY <1>1, <1>3, <1>4, <2>1 DEF Remade, SaysTheSame
<1>5. CASE plan.verb \notin Restating
  <2>1. doc.shape = read.shape /\ doc.body.grammar = read.body.grammar
    BY <1>2, <1>5 DEF Since
  <2>2. made \in Docs /\ Whole(made) /\ made.shape = read.shape /\ made.body = read.body
    BY <1>2, <1>3, <1>5 DEF Remade
  <2>3. doc' = IF made.shape = "pair" THEN [made EXCEPT !.body = doc.body] ELSE made
    <3>1. doc' = WrittenOver(made, doc)
      BY <1>1, <1>5
    <3>2. made.shape = doc.shape /\ made.body.grammar = doc.body.grammar
      BY <2>1, <2>2
    <3> HIDE DEF read
    <3> QED
      BY <1>2, <2>2, <3>1, <3>2, WrittenOverOK
  <2>4. doc'.shape = doc.shape /\ (doc'.body = doc.body \/ doc'.body = made.body)
    BY <2>1, <2>2, <2>3 DEF Docs
  <2> QED
    BY <2>1, <2>2, <2>4 DEF Restated
<1> QED
  BY <1>4, <1>5

\* So does another session's verb.
LEMMA ElsewhereRestates ==
    ASSUME IInv, NEW verb \in Verbs, Elsewhere(verb) PROVE Restated => SaysTheSame
<1>1. doc \in Docs /\ tick \in Nat /\ doc' \in Outcomes(verb, doc, tick) /\ May(verb, doc)
  BY DEF Elsewhere, IInv, TypeOK
<1>2. Remade(verb, doc, tick, doc')
  BY <1>1, OutcomesOK
<1> QED
  BY <1>2 DEF Remade, Restated, SaysTheSame

\* A verb that restates a document lands only on what it read, and one that does
\* not leaves its form alone unless it was overtaken: so whatever is written
\* between a verb's reading and its landing, what restates a document changes
\* nothing it says.
THEOREM RestatedHolds == Spec => RestatedIsTheSame
<1>1. ASSUME IInv, [Next]_vars, Restated, ~(Land /\ Overtaken), FixityAssumption
      PROVE  SaysTheSame
  <2>1. ASSUME NEW verb \in Verbs, Elsewhere(verb) PROVE SaysTheSame
    BY <1>1, <2>1, ElsewhereRestates
  <2>2. CASE Land
    BY <1>1, <2>2, LandRestates
  <2>3. ASSUME NEW part \in {"meta", "text"}, Save(part) PROVE ~Restated
    <3> DEFINE v == Len(edits) + 1
    <3>1. doc \in Docs /\ Whole(doc) /\ v \in Nat /\ tick \in Nat
      BY <1>1, EditsOK DEF IInv, TypeOK
    <3>2. SavedText(part, v) \in Docs /\ SavedText(part, v).shape = doc.shape
          /\ SavedText(part, v).body.grammar = doc.body.grammar
      BY <1>1, <3>1, SavedTextOK
    <3>3. doc' = Stamped(SavedText(part, v), tick)
      BY <2>3 DEF Save
    <3> QED
      BY <3>2, <3>3 DEF Stamped, Docs, Restated
  <2>4. ASSUME NEW part \in {"meta", "text"}, Edit(part) PROVE ~Restated
    <3>1. PICK v \in 0..(IF Len(edits) < MaxEdits THEN Len(edits) + 1 ELSE Len(edits)) :
            doc' = SavedText(part, v)
      BY <2>4 DEF Edit
    <3>2. doc \in Docs /\ Whole(doc) /\ v \in Nat
      BY <1>1, EditsOK DEF IInv, TypeOK
    <3> QED
      BY <1>1, <3>1, <3>2, SavedTextOK DEF Restated
  <2>5. CASE UNCHANGED doc
    BY <1>1, <2>5 DEF Restated
  <2> QED
    BY <1>1, <2>1, <2>2, <2>3, <2>4, <2>5 DEF Next, vars, Plan, Refuse, Tick
<1>2. IInv /\ [Next]_vars =>
        [(doc'.shape # doc.shape \/ doc'.body.grammar # doc.body.grammar)
         => \/ [doc' EXCEPT !.shape = doc.shape, !.body.grammar = doc.body.grammar,
                            !.body.before = doc.body.before] = doc
            \/ Land /\ Overtaken]_vars
  BY <1>1, FixityAssumption DEF Restated, SaysTheSame
<1> QED
  BY <1>2, IInvHolds, PTL DEF Spec, RestatedIsTheSame
=============================================================================
