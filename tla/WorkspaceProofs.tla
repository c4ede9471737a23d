-------------------------- MODULE WorkspaceProofs ---------------------------
(***************************************************************************)
(* The four properties of a workspace at work, for every set of ids, of    *)
(* documents and of edits, every policy and every id_storage, through      *)
(* refused, failed, torn and crashed sets.                                 *)
(*                                                                         *)
(* That no edit a set has read is lost holds whatever else may happen      *)
(* (Held), and that no record is dropped wherever one session runs at a    *)
(* time and a journal is recovered before it opens (Recorded under         *)
(* OneSession).  What the documents carry and what the registry records    *)
(* agree where, besides, no verb is abandoned before its commit, no        *)
(* document deleted with its stamp still queued and persist_identity not   *)
(* left half done (IInv under OnlyOthersWrite): each of the three breaks   *)
(* that in the model.                                                      *)
(*                                                                         *)
(* IInv says of the change set under way what it is bound to leave         *)
(* (Landed): that agrees with the store of the session (Sound), and the    *)
(* files as they are agree with its checkpoint (Fits), so the session and  *)
(* the files part neither when the set lands nor when it fails.  While a   *)
(* journal waits, every set is refused, and nothing the session believes   *)
(* matters any more.                                                       *)
(***************************************************************************)
EXTENDS Workspace, FileIndexProofs, WellFoundedInduction, SequenceTheorems,
        FiniteSetTheorems

\* The freedoms under which the properties are checked.
OnlyOthersWrite == Freedoms \subseteq {"external"}

Trees == [docs : [DocPaths -> Docs \cup {NoDoc}], recs : RecordMaps]

\* Every variable has its type.
Typed ==
  /\ policy \in Policies
  /\ storage \in {"registry", "both", "frontmatter"}
  /\ StoreOK(ix)
  /\ stamps \in Seq(DocPaths \X Ids)
  /\ phase \in {"idle", "built", "staged", "stamping", "stamped", "saving", "down"}
  /\ ops \in Seq(Ops)
  /\ expects \in [DocPaths -> Docs \cup {NoDoc, Unread}]
  /\ tree \in Trees
  /\ journal \in Seq(Ops) \cup {NoJournal}

-----------------------------------------------------------------------------
(* What the files, a store and a set are to one another.                   *)

\* A document that carries an id is where recs has it.
Carries(docs, recs) == \A p \in Carried(docs) : recs[docs[p].id] = p

\* What recs names is there.
Names(docs, recs) ==
  \A i \in Ids : recs[i] \in Paths => recs[i] \in DocPaths /\ docs[recs[i]] # NoDoc

Sound(docs, recs) == Carries(docs, recs) /\ Names(docs, recs)

\* No two documents carry one id.
Single(docs) == \A p, q \in Carried(docs) : docs[p].id = docs[q].id => p = q

\* A store, or a checkpoint, that takes the registry for what it is and knows
\* all of it.
Spells(r, recs) == r.text = recs /\ r.persisted = recs
Believes(r, recs) == Spells(r, recs) /\ Covers(r, recs) /\ Clean(r, recs)

Fits(r, t) == Sound(t.docs, Status(r)) /\ (KeepsRegistry => Believes(r, t.recs))

\* What the set under way leaves, if it lands.
Landed == ApplyOps(tree, ops)

\* A set as a verb builds it: the registry is not in it, and if it moves a
\* document it does so first, and then writes it where it went.
Shaped(os) ==
  \A k \in DOMAIN os :
    /\ os[k].op # "registry"
    /\ os[k].op = "move" =>
         k = 1 /\ 2 \in DOMAIN os /\ os[2].op = "write" /\ os[2].path = os[1].to

\* A queued stamp is due to the document that has the id, or that the set renames.
StampsDue ==
  \A k \in DOMAIN stamps :
    Renames(ops, stamps[k][1]) \/ Status(ix)[stamps[k][2]] = stamps[k][1]

\* The edits of what the set has read are in what it leaves.
EditsLand ==
  \A p \in DocPaths : expects[p] \notin {NoDoc, Unread} =>
    \E q \in DocPaths : /\ Landed.docs[q] # NoDoc
                        /\ expects[p].edits \subseteq Landed.docs[q].edits

\* Every id queued is that of its path.
Due(s, queue) == \A k \in DOMAIN queue : Status(s)[queue[k][2]] = queue[k][1]

-----------------------------------------------------------------------------
(* The inductive invariant.                                                *)

\* The files, healed: what the two properties say, and what the next session
\* reads them as.
FilesOK ==
  /\ Single(Healed.docs)
  /\ KeepsRegistry => /\ Uncontested(Healed.recs)
                      /\ Names(Healed.docs, Healed.recs)
                      /\ Carries(Healed.docs, Records)

AtRest ==
  /\ ix.saved = NoCheckpoint
  /\ Fits(ix, tree)
  /\ Due(ix, stamps)

Building ==
  /\ ix.saved # NoCheckpoint
  /\ Fits(ix.saved, tree)
  /\ Sound(Landed.docs, Status(ix))
  /\ EditsLand

Built ==
  /\ Building
  /\ KeepsRegistry => Believes(ix, tree.recs)
  /\ Shaped(ops)
  /\ Landed.recs = tree.recs
  /\ StampsDue

Staged ==
  /\ Building
  /\ StagesRegistry <=> KeepsRegistry /\ ix.dirty
  /\ KeepsRegistry => /\ Covers(ix, tree.recs)
                      /\ Spells(ix, Status(ix))
                      /\ Landed.recs = Status(ix)
                      /\ Clean(ix, tree.recs)
  /\ ~KeepsRegistry => Landed.recs = tree.recs
  /\ stamps = <<>>

Stamping ==
  /\ AtRest
  /\ Sound(Landed.docs, Status(ix))
  /\ KeepsRegistry => Names(Landed.docs, tree.recs)
  /\ Landed.recs = tree.recs
  /\ StampsFrontmatter

Saving ==
  /\ KeepsRegistry /\ ix.dirty
  /\ ix.saved = NoCheckpoint
  /\ Sound(tree.docs, Status(ix))
  /\ Covers(ix, tree.recs)
  /\ Spells(ix, Status(ix))
  /\ ops = <<RegistryOp(Status(ix))>>
  /\ Due(ix, stamps)

\* A session whose sets are not refused.
SessionOK ==
  /\ ix.host = IF KeepsRegistry THEN RegPath ELSE NoPath
  /\ phase \in {"idle", "stamped"} => AtRest /\ ops = <<>>
  /\ phase \notin {"built", "staged"} => expects = NoExpectations
  /\ phase = "built" => Built
  /\ phase = "staged" => Staged
  /\ phase = "stamping" => Stamping
  /\ phase = "saving" => Saving

IInv ==
  /\ Typed
  /\ FilesOK
  /\ phase = "down" => ops = <<>> /\ expects = NoExpectations /\ stamps = <<>>
  /\ journal = NoJournal /\ phase # "down" => SessionOK

-----------------------------------------------------------------------------
(* Induction, of a set of naturals or of sequences, and what it gives of   *)
(* the recursive functions of ApplyOps and Stamped.                        *)

LEMMA NatSetInduction ==
  ASSUME NEW S \in SUBSET Nat, 0 \in S, \A n \in Nat : n \in S => n + 1 \in S
  PROVE  S = Nat
<1> SUFFICES ASSUME Nat \ S # {}
             PROVE  FALSE
  OBVIOUS
<1>1. PICK n \in Nat \ S : \A m \in Nat \ S : <<m, n>> \notin OpToRel(<, Nat)
  <2>1. IsWellFoundedOn(OpToRel(<, Nat), Nat)
    BY NatLessThanWellFounded
  <2>2. Nat \ S \subseteq Nat
    OBVIOUS
  <2> QED
    BY <2>1, <2>2, WFMin
<1>2. \A m \in Nat : m < n => m \in S
  BY <1>1 DEF OpToRel
<1>3. n # 0 /\ n - 1 \in Nat /\ n - 1 < n
  OBVIOUS
<1> QED
  BY <1>2, <1>3

LEMMA SeqSetInduction ==
  ASSUME NEW X, NEW S \in SUBSET Seq(X), <<>> \in S,
         \A s \in S, x \in X : Append(s, x) \in S
  PROVE  S = Seq(X)
<1> DEFINE Lengths == {n \in Nat : \A s \in Seq(X) : Len(s) = n => s \in S}
<1>1. 0 \in Lengths
  OBVIOUS
<1>2. ASSUME NEW n \in Nat, n \in Lengths
      PROVE  n + 1 \in Lengths
  <2> SUFFICES ASSUME NEW s \in Seq(X), Len(s) = n + 1
               PROVE  s \in S
    OBVIOUS
  <2>1. PICK u \in Seq(X), x \in X : s = Append(u, x)
    <3>1. s # <<>>
      BY EmptySeq
    <3> QED
      BY <3>1, SequenceEmptyOrAppend
  <2>2. Len(Append(u, x)) = Len(u) + 1 /\ Len(u) \in Nat
    BY AppendProperties, LenProperties
  <2>3. Len(u) = n
    BY <2>1, <2>2
  <2>4. u \in S
    BY <1>2, <2>3
  <2>5. Append(u, x) \in S
    BY <2>4
  <2> QED
    BY <2>1, <2>5
<1>3. Lengths = Nat
  <2> HIDE DEF Lengths
  <2>1. Lengths \in SUBSET Nat
    BY DEF Lengths
  <2> QED
    BY <1>1, <1>2, <2>1, NatSetInduction
<1>4. \A s \in Seq(X) : Len(s) \in Lengths
  <2> HIDE DEF Lengths
  <2> QED
    BY <1>3
<1> QED
  BY <1>4

\* ApplyOps is what its recursive function says.
LEMMA ApplyOpsDone ==
  ASSUME NEW t, NEW os, Len(os) \in Nat
  PROVE  \E done : /\ ApplyOps(t, os) = done[Len(os)]
                   /\ done[0] = t
                   /\ \A k \in 1..Len(os) : done[k] = ApplyOp(done[k - 1], os[k])
<1> DEFINE S == {n \in Nat : \E f : \A k \in 0..n :
                                f[k] = IF k = 0 THEN t ELSE ApplyOp(f[k - 1], os[k])}
<1>1. 0 \in S
  <2> DEFINE f == [k \in 0..0 |-> t]
  <2>1. \A k \in 0..0 : f[k] = IF k = 0 THEN t ELSE ApplyOp(f[k - 1], os[k])
    OBVIOUS
  <2> HIDE DEF f
  <2> QED
    BY <2>1
<1>2. ASSUME NEW n \in Nat, n \in S
      PROVE  n + 1 \in S
  <2>1. PICK f : \A k \in 0..n : f[k] = IF k = 0 THEN t ELSE ApplyOp(f[k - 1], os[k])
    BY <1>2
  <2> DEFINE g == [k \in 0..(n + 1) |-> IF k = n + 1 THEN ApplyOp(f[n], os[n + 1]) ELSE f[k]]
  <2>2. \A k \in 0..(n + 1) : g[k] = IF k = 0 THEN t ELSE ApplyOp(g[k - 1], os[k])
    <3>1. (\A k \in 0..n : g[k] = f[k]) /\ g[n + 1] = ApplyOp(f[n], os[n + 1])
      OBVIOUS
    <3> HIDE DEF g
    <3>2. \A k \in 0..n : k # 0 => k - 1 \in 0..n
      OBVIOUS
    <3>3. n + 1 # 0 /\ (n + 1) - 1 = n /\ n \in 0..n
      OBVIOUS
    <3> QED
      BY <2>1, <3>1, <3>2, <3>3
  <2> HIDE DEF g
  <2> QED
    BY <2>2
<1>3. Len(os) \in S
  <2> HIDE DEF S
  <2>1. S \in SUBSET Nat
    BY DEF S
  <2> QED
    BY <1>1, <1>2, <2>1, NatSetInduction
<1>4. \E f : f = [k \in 0..Len(os) |-> IF k = 0 THEN t ELSE ApplyOp(f[k - 1], os[k])]
  <2>1. PICK f : \A k \in 0..Len(os) : f[k] = IF k = 0 THEN t ELSE ApplyOp(f[k - 1], os[k])
    BY <1>3
  <2> DEFINE g == [k \in 0..Len(os) |-> f[k]]
             h == [k \in 0..Len(os) |-> IF k = 0 THEN t ELSE ApplyOp(g[k - 1], os[k])]
  <2>2. \A k \in 0..Len(os) : g[k] = h[k]
    BY <2>1
  <2>3. g = h
    BY <2>2
  <2> HIDE DEF g
  <2> WITNESS g
  <2> QED
    BY <2>3
<1> DEFINE done == CHOOSE f : f = [k \in 0..Len(os) |->
                                     IF k = 0 THEN t ELSE ApplyOp(f[k - 1], os[k])]
<1>5. done = [k \in 0..Len(os) |-> IF k = 0 THEN t ELSE ApplyOp(done[k - 1], os[k])]
  BY <1>4
<1>6. ApplyOps(t, os) = done[Len(os)]
  BY DEF ApplyOps
<1> HIDE DEF done
<1>7. \A k \in 0..Len(os) : done[k] = IF k = 0 THEN t ELSE ApplyOp(done[k - 1], os[k])
  BY <1>5
<1> QED
  BY <1>6, <1>7

\* And Stamped.
LEMMA StampedDone ==
  ASSUME NEW os, NEW queue, Len(queue) \in Nat
  PROVE  \E done : /\ Stamped(os, queue) = done[Len(queue)]
                   /\ done[0] = os
                   /\ \A k \in 1..Len(queue) : done[k] = StampOps(done[k - 1], queue[k])
<1> DEFINE S == {n \in Nat : \E f : \A k \in 0..n :
                                f[k] = IF k = 0 THEN os ELSE StampOps(f[k - 1], queue[k])}
<1>1. 0 \in S
  <2> DEFINE f == [k \in 0..0 |-> os]
  <2>1. \A k \in 0..0 : f[k] = IF k = 0 THEN os ELSE StampOps(f[k - 1], queue[k])
    OBVIOUS
  <2> HIDE DEF f
  <2> QED
    BY <2>1
<1>2. ASSUME NEW n \in Nat, n \in S
      PROVE  n + 1 \in S
  <2>1. PICK f : \A k \in 0..n : f[k] = IF k = 0 THEN os ELSE StampOps(f[k - 1], queue[k])
    BY <1>2
  <2> DEFINE g == [k \in 0..(n + 1) |-> IF k = n + 1 THEN StampOps(f[n], queue[n + 1]) ELSE f[k]]
  <2>2. \A k \in 0..(n + 1) : g[k] = IF k = 0 THEN os ELSE StampOps(g[k - 1], queue[k])
    <3>1. (\A k \in 0..n : g[k] = f[k]) /\ g[n + 1] = StampOps(f[n], queue[n + 1])
      OBVIOUS
    <3> HIDE DEF g
    <3>2. \A k \in 0..n : k # 0 => k - 1 \in 0..n
      OBVIOUS
    <3>3. n + 1 # 0 /\ (n + 1) - 1 = n /\ n \in 0..n
      OBVIOUS
    <3> QED
      BY <2>1, <3>1, <3>2, <3>3
  <2> HIDE DEF g
  <2> QED
    BY <2>2
<1>3. Len(queue) \in S
  <2> HIDE DEF S
  <2>1. S \in SUBSET Nat
    BY DEF S
  <2> QED
    BY <1>1, <1>2, <2>1, NatSetInduction
<1>4. \E f : f = [k \in 0..Len(queue) |-> IF k = 0 THEN os ELSE StampOps(f[k - 1], queue[k])]
  <2>1. PICK f : \A k \in 0..Len(queue) : f[k] = IF k = 0 THEN os ELSE StampOps(f[k - 1], queue[k])
    BY <1>3
  <2> DEFINE g == [k \in 0..Len(queue) |-> f[k]]
             h == [k \in 0..Len(queue) |-> IF k = 0 THEN os ELSE StampOps(g[k - 1], queue[k])]
  <2>2. \A k \in 0..Len(queue) : g[k] = h[k]
    BY <2>1
  <2>3. g = h
    BY <2>2
  <2> HIDE DEF g
  <2> WITNESS g
  <2> QED
    BY <2>3
<1> DEFINE done == CHOOSE f : f = [k \in 0..Len(queue) |->
                                     IF k = 0 THEN os ELSE StampOps(f[k - 1], queue[k])]
<1>5. done = [k \in 0..Len(queue) |-> IF k = 0 THEN os ELSE StampOps(done[k - 1], queue[k])]
  BY <1>4
<1>6. Stamped(os, queue) = done[Len(queue)]
  BY DEF Stamped
<1> HIDE DEF done
<1>7. \A k \in 0..Len(queue) : done[k] = IF k = 0 THEN os ELSE StampOps(done[k - 1], queue[k])
  BY <1>5
<1> QED
  BY <1>6, <1>7

\* No operation, one more, one sequence after another.
LEMMA ApplyNone == ASSUME NEW t PROVE ApplyOps(t, <<>>) = t
<1>1. Len(<<>>) = 0
  OBVIOUS
<1> QED
  BY <1>1, ApplyOpsDone

LEMMA ApplyAppend ==
  ASSUME NEW X, NEW os \in Seq(X), NEW o \in X, NEW t
  PROVE  ApplyOps(t, Append(os, o)) = ApplyOp(ApplyOps(t, os), o)
<1> DEFINE longer == Append(os, o)
<1>1. /\ Len(os) \in Nat /\ Len(longer) = Len(os) + 1
      /\ \A k \in 1..Len(os) : longer[k] = os[k]
      /\ longer[Len(os) + 1] = o
  BY AppendProperties, LenProperties
<1> HIDE DEF longer
<1>2. PICK a : /\ ApplyOps(t, os) = a[Len(os)]
               /\ a[0] = t
               /\ \A k \in 1..Len(os) : a[k] = ApplyOp(a[k - 1], os[k])
  BY <1>1, ApplyOpsDone
<1>3. PICK b : /\ ApplyOps(t, longer) = b[Len(longer)]
               /\ b[0] = t
               /\ \A k \in 1..Len(longer) : b[k] = ApplyOp(b[k - 1], longer[k])
  BY <1>1, ApplyOpsDone
<1> DEFINE S == {n \in Nat : n <= Len(os) => a[n] = b[n]}
<1>4. 0 \in S
  BY <1>2, <1>3
<1>5. ASSUME NEW n \in Nat, n \in S
      PROVE  n + 1 \in S
  <2> SUFFICES ASSUME n + 1 <= Len(os)
               PROVE  a[n + 1] = b[n + 1]
    OBVIOUS
  <2>1. a[n] = b[n]
    BY <1>1, <1>5
  <2>2. n + 1 \in 1..Len(os) /\ n + 1 \in 1..Len(longer) /\ (n + 1) - 1 = n
    BY <1>1
  <2>3. a[n + 1] = ApplyOp(a[n], os[n + 1])
    BY <1>2, <2>2
  <2>4. b[n + 1] = ApplyOp(b[n], longer[n + 1])
    BY <1>3, <2>2
  <2> QED
    BY <1>1, <2>1, <2>2, <2>3, <2>4
<1>6. Len(os) \in S
  <2> HIDE DEF S
  <2>1. S \in SUBSET Nat
    BY DEF S
  <2> QED
    BY <1>1, <1>4, <1>5, <2>1, NatSetInduction
<1>7. b[Len(os) + 1] = ApplyOp(b[(Len(os) + 1) - 1], o)
  BY <1>1, <1>3
<1>8. (Len(os) + 1) - 1 = Len(os)
  BY <1>1
<1> QED
  BY <1>1, <1>2, <1>3, <1>6, <1>7, <1>8 DEF longer


LEMMA StampNone == ASSUME NEW os PROVE Stamped(os, <<>>) = os
<1>1. Len(<<>>) = 0
  OBVIOUS
<1> QED
  BY <1>1, StampedDone

LEMMA StampAppend ==
  ASSUME NEW X, NEW queue \in Seq(X), NEW stamp \in X, NEW os
  PROVE  Stamped(os, Append(queue, stamp)) = StampOps(Stamped(os, queue), stamp)
<1> DEFINE longer == Append(queue, stamp)
<1>1. /\ Len(queue) \in Nat /\ Len(longer) = Len(queue) + 1
      /\ \A k \in 1..Len(queue) : longer[k] = queue[k]
      /\ longer[Len(queue) + 1] = stamp
  BY AppendProperties, LenProperties
<1> HIDE DEF longer
<1>2. PICK a : /\ Stamped(os, queue) = a[Len(queue)]
               /\ a[0] = os
               /\ \A k \in 1..Len(queue) : a[k] = StampOps(a[k - 1], queue[k])
  BY <1>1, StampedDone
<1>3. PICK b : /\ Stamped(os, longer) = b[Len(longer)]
               /\ b[0] = os
               /\ \A k \in 1..Len(longer) : b[k] = StampOps(b[k - 1], longer[k])
  BY <1>1, StampedDone
<1> DEFINE S == {n \in Nat : n <= Len(queue) => a[n] = b[n]}
<1>4. 0 \in S
  BY <1>2, <1>3
<1>5. ASSUME NEW n \in Nat, n \in S
      PROVE  n + 1 \in S
  <2> SUFFICES ASSUME n + 1 <= Len(queue)
               PROVE  a[n + 1] = b[n + 1]
    OBVIOUS
  <2>1. a[n] = b[n]
    BY <1>1, <1>5
  <2>2. n + 1 \in 1..Len(queue) /\ n + 1 \in 1..Len(longer) /\ (n + 1) - 1 = n
    BY <1>1
  <2>3. a[n + 1] = StampOps(a[n], queue[n + 1])
    BY <1>2, <2>2
  <2>4. b[n + 1] = StampOps(b[n], longer[n + 1])
    BY <1>3, <2>2
  <2> QED
    BY <1>1, <2>1, <2>2, <2>3, <2>4
<1>6. Len(queue) \in S
  <2> HIDE DEF S
  <2>1. S \in SUBSET Nat
    BY DEF S
  <2> QED
    BY <1>1, <1>4, <1>5, <2>1, NatSetInduction
<1>7. b[Len(queue) + 1] = StampOps(b[(Len(queue) + 1) - 1], stamp)
  BY <1>1, <1>3
<1>8. (Len(queue) + 1) - 1 = Len(queue)
  BY <1>1
<1> QED
  BY <1>1, <1>2, <1>3, <1>6, <1>7, <1>8 DEF longer

LEMMA ApplyConcat ==
  ASSUME NEW X, NEW a \in Seq(X), NEW b \in Seq(X), NEW t
  PROVE  ApplyOps(t, a \o b) = ApplyOps(ApplyOps(t, a), b)
<1> DEFINE S == {c \in Seq(X) : ApplyOps(t, a \o c) = ApplyOps(ApplyOps(t, a), c)}
<1>1. <<>> \in S
  BY ApplyNone, ConcatEmptySeq, EmptySeq
<1>2. ASSUME NEW c \in S, NEW x \in X
      PROVE  Append(c, x) \in S
  <2>1. c \in Seq(X) /\ Append(c, x) \in Seq(X) /\ a \o c \in Seq(X)
    BY AppendProperties, ConcatProperties
  <2>2. a \o Append(c, x) = Append(a \o c, x)
    <3>1. <<x>> \in Seq(X)
      OBVIOUS
    <3> QED
      BY <2>1, <3>1, AppendIsConcat, ConcatAssociative
  <2>3. ApplyOps(t, Append(a \o c, x)) = ApplyOp(ApplyOps(t, a \o c), x)
    BY <2>1, ApplyAppend
  <2>4. ApplyOps(ApplyOps(t, a), Append(c, x)) = ApplyOp(ApplyOps(ApplyOps(t, a), c), x)
    BY <2>1, ApplyAppend
  <2> QED
    BY <2>1, <2>2, <2>3, <2>4
<1>3. S = Seq(X)
  <2> HIDE DEF S
  <2>1. S \in SUBSET Seq(X)
    BY DEF S
  <2> QED
    BY <1>1, <1>2, <2>1, SeqSetInduction
<1> QED
  BY <1>3

-----------------------------------------------------------------------------
(* What a set of operations makes of the files.                            *)

\* An operation is of one of four kinds.
LEMMA OpKinds ==
  ASSUME NEW o \in Ops
  PROVE  \/ o.op = "write" /\ o.path \in DocPaths /\ o.doc \in Docs
         \/ o.op = "move" /\ o.path \in DocPaths /\ o.to \in DocPaths
         \/ o.op = "remove" /\ o.path \in DocPaths
         \/ o.op = "registry" /\ o.recs \in RecordMaps
  BY DEF Ops

\* What each kind does, path by path.
LEMMA ApplyOpEffect ==
  ASSUME NEW t \in Trees, NEW o \in Ops
  PROVE  /\ ApplyOp(t, o) \in Trees
         /\ o.op = "write" =>
              /\ ApplyOp(t, o).recs = t.recs
              /\ \A p \in DocPaths : ApplyOp(t, o).docs[p] = IF p = o.path THEN o.doc ELSE t.docs[p]
         /\ o.op = "move" =>
              /\ ApplyOp(t, o).recs = t.recs
              /\ \A p \in DocPaths :
                   ApplyOp(t, o).docs[p] = IF p = o.path THEN NoDoc
                                           ELSE IF p = o.to THEN t.docs[o.path] ELSE t.docs[p]
         /\ o.op = "remove" =>
              /\ ApplyOp(t, o).recs = t.recs
              /\ \A p \in DocPaths : ApplyOp(t, o).docs[p] = IF p = o.path THEN NoDoc ELSE t.docs[p]
         /\ o.op = "registry" => ApplyOp(t, o).recs = o.recs /\ ApplyOp(t, o).docs = t.docs
<1>1. t.docs \in [DocPaths -> Docs \cup {NoDoc}] /\ t.recs \in RecordMaps
  BY DEF Trees
<1>2. CASE o.op = "write" /\ o.path \in DocPaths /\ o.doc \in Docs
  <2>1. ApplyOp(t, o) = [t EXCEPT !.docs[o.path] = o.doc]
    BY <1>2 DEF ApplyOp
  <2> QED
    BY <1>1, <1>2, <2>1 DEF Trees
<1>3. CASE o.op = "move" /\ o.path \in DocPaths /\ o.to \in DocPaths
  <2>1. ApplyOp(t, o) = [t EXCEPT !.docs[o.to] = t.docs[o.path], !.docs[o.path] = NoDoc]
    BY <1>3 DEF ApplyOp
  <2> DEFINE landed == [t.docs EXCEPT ![o.to] = t.docs[o.path]]
             docs == [landed EXCEPT ![o.path] = NoDoc]
  <2>2. ApplyOp(t, o) = [docs |-> docs, recs |-> t.recs]
    BY <1>1, <1>3, <2>1 DEF Trees
  <2>3. t.docs[o.path] \in Docs \cup {NoDoc}
    BY <1>1, <1>3
  <2>4. landed \in [DocPaths -> Docs \cup {NoDoc}]
    BY <1>1, <2>3
  <2>5. docs \in [DocPaths -> Docs \cup {NoDoc}]
    BY <2>4
  <2>6. \A p \in DocPaths : docs[p] = IF p = o.path THEN NoDoc
                                      ELSE IF p = o.to THEN t.docs[o.path] ELSE t.docs[p]
    BY <1>1, <1>3, <2>4
  <2> HIDE DEF docs
  <2> QED
    BY <1>1, <1>3, <2>2, <2>5, <2>6 DEF Trees
<1>4. CASE o.op = "remove" /\ o.path \in DocPaths
  <2>1. ApplyOp(t, o) = [t EXCEPT !.docs[o.path] = NoDoc]
    BY <1>4 DEF ApplyOp
  <2> QED
    BY <1>1, <1>4, <2>1 DEF Trees
<1>5. CASE o.op = "registry" /\ o.recs \in RecordMaps
  <2>1. ApplyOp(t, o) = [t EXCEPT !.recs = o.recs]
    BY <1>5 DEF ApplyOp
  <2> QED
    BY <1>1, <1>5, <2>1 DEF Trees
<1> QED
  BY <1>2, <1>3, <1>4, <1>5, OpKinds

LEMMA ApplyTyped ==
  ASSUME NEW t \in Trees, NEW os \in Seq(Ops)
  PROVE  ApplyOps(t, os) \in Trees
<1> DEFINE S == {c \in Seq(Ops) : ApplyOps(t, c) \in Trees}
<1>1. <<>> \in S
  BY ApplyNone, EmptySeq
<1>2. \A c \in S, x \in Ops : Append(c, x) \in S
  BY ApplyAppend, ApplyOpEffect, AppendProperties
<1>3. S = Seq(Ops)
  <2> HIDE DEF S
  <2>1. S \in SUBSET Seq(Ops)
    BY DEF S
  <2> QED
    BY <1>1, <1>2, <2>1, SeqSetInduction
<1> QED
  BY <1>3

\* A set applied in two parts, as a journal does it.
LEMMA ApplyInParts ==
  ASSUME NEW t, NEW os \in Seq(Ops), NEW k \in 0..Len(os)
  PROVE  /\ SubSeq(os, 1, k) \in Seq(Ops) /\ SubSeq(os, k + 1, Len(os)) \in Seq(Ops)
         /\ ApplyOps(ApplyOps(t, SubSeq(os, 1, k)), SubSeq(os, k + 1, Len(os))) = ApplyOps(t, os)
<1>1. Len(os) \in Nat /\ \A i \in 1..Len(os) : os[i] \in Ops
  BY LenProperties
<1>2. SubSeq(os, 1, k) \in Seq(Ops) /\ SubSeq(os, k + 1, Len(os)) \in Seq(Ops)
  BY <1>1, SubSeqProperties
<1>3. SubSeq(os, 1, k) \o SubSeq(os, k + 1, Len(os)) = SubSeq(os, 1, Len(os))
  <2>1. 1 \in 1..(Len(os) + 1) /\ k \in (1 - 1)..Len(os) /\ Len(os) \in k..Len(os)
    BY <1>1
  <2> QED
    BY <2>1, ConcatAdjacentSubSeq
<1>4. SubSeq(os, 1, Len(os)) = os
  BY SubSeqFull
<1>5. ApplyOps(t, SubSeq(os, 1, k) \o SubSeq(os, k + 1, Len(os)))
        = ApplyOps(ApplyOps(t, SubSeq(os, 1, k)), SubSeq(os, k + 1, Len(os)))
  BY <1>2, ApplyConcat
<1> QED
  BY <1>2, <1>3, <1>4, <1>5

\* Documents written back as they are.
LEMMA RewritesChangeNothing ==
  ASSUME NEW t \in Trees, NEW os \in Seq(Ops),
         \A k \in DOMAIN os : os[k].op = "write" /\ os[k].doc = t.docs[os[k].path]
  PROVE  ApplyOps(t, os) = t
<1> DEFINE X == {o \in Ops : o.op = "write" /\ o.doc = t.docs[o.path]}
           S == {c \in Seq(X) : ApplyOps(t, c) = t}
<1>1. <<>> \in S
  BY ApplyNone, EmptySeq
<1>2. ASSUME NEW c \in S, NEW x \in X
      PROVE  Append(c, x) \in S
  <2>1. Append(c, x) \in Seq(X) /\ ApplyOps(t, Append(c, x)) = ApplyOp(t, x)
    BY ApplyAppend, AppendProperties
  <2>2. x.op = "write" /\ x.path \in DocPaths /\ x.doc = t.docs[x.path]
    BY OpKinds
  <2>3. ApplyOp(t, x) = [t EXCEPT !.docs[x.path] = x.doc]
    BY <2>2 DEF ApplyOp
  <2>4. [t EXCEPT !.docs[x.path] = x.doc] = t
    BY <2>2 DEF Trees
  <2> QED
    BY <2>1, <2>3, <2>4
<1>3. S = Seq(X)
  <2> HIDE DEF S
  <2>1. S \in SUBSET Seq(X)
    BY DEF S
  <2> QED
    BY <1>1, <1>2, <2>1, SeqSetInduction
<1>4. os \in Seq(X)
  <2>1. Len(os) \in Nat /\ os \in [1..Len(os) -> Ops] /\ DOMAIN os = 1..Len(os)
    BY LenProperties
  <2>2. os \in [1..Len(os) -> X]
    BY <2>1
  <2> QED
    BY <2>1, <2>2, SeqDef
<1> QED
  BY <1>3, <1>4

\* What a set does, it does alike to two trees whose documents are related.
LEMMA ApplyRelates ==
  ASSUME NEW R, \A doc \in Docs \cup {NoDoc} : <<doc, doc>> \in R,
         NEW t \in Trees, NEW u \in Trees, \A p \in DocPaths : <<t.docs[p], u.docs[p]>> \in R,
         NEW os \in Seq(Ops)
  PROVE  /\ \A p \in DocPaths : <<ApplyOps(t, os).docs[p], ApplyOps(u, os).docs[p]>> \in R
         /\ t.recs = u.recs => ApplyOps(t, os).recs = ApplyOps(u, os).recs
<1> DEFINE Alike(a, b) == /\ \A p \in DocPaths : <<a.docs[p], b.docs[p]>> \in R
                          /\ t.recs = u.recs => a.recs = b.recs
           S == {c \in Seq(Ops) : Alike(ApplyOps(t, c), ApplyOps(u, c))}
<1>1. <<>> \in S
  BY ApplyNone, EmptySeq
<1>2. ASSUME NEW c \in S, NEW x \in Ops
      PROVE  Append(c, x) \in S
  <2>1. PICK a : a = ApplyOps(t, c)
    OBVIOUS
  <2>2. PICK b : b = ApplyOps(u, c)
    OBVIOUS
  <2>3. PICK v : v = ApplyOp(a, x)
    OBVIOUS
  <2>4. PICK w : w = ApplyOp(b, x)
    OBVIOUS
  <2>5. /\ c \in Seq(Ops) /\ Append(c, x) \in Seq(Ops)
        /\ ApplyOps(t, Append(c, x)) = v /\ ApplyOps(u, Append(c, x)) = w
    BY <2>1, <2>2, <2>3, <2>4, ApplyAppend, AppendProperties
  <2>6. a \in Trees /\ b \in Trees /\ Alike(a, b)
    BY <2>1, <2>2, <2>5, ApplyTyped
  <2>7. Alike(v, w)
    <3>1. CASE x.op = "write" /\ x.path \in DocPaths /\ x.doc \in Docs
      <4>1. /\ v.recs = a.recs /\ w.recs = b.recs
            /\ \A p \in DocPaths : /\ v.docs[p] = IF p = x.path THEN x.doc ELSE a.docs[p]
                                  /\ w.docs[p] = IF p = x.path THEN x.doc ELSE b.docs[p]
        BY <2>3, <2>4, <2>6, <3>1, ApplyOpEffect
      <4> QED
        BY <2>6, <3>1, <4>1
    <3>2. CASE x.op = "move" /\ x.path \in DocPaths /\ x.to \in DocPaths
      <4>1. /\ v.recs = a.recs /\ w.recs = b.recs
            /\ \A p \in DocPaths :
                 /\ v.docs[p] = IF p = x.path THEN NoDoc
                                ELSE IF p = x.to THEN a.docs[x.path] ELSE a.docs[p]
                 /\ w.docs[p] = IF p = x.path THEN NoDoc
                                ELSE IF p = x.to THEN b.docs[x.path] ELSE b.docs[p]
        BY <2>3, <2>4, <2>6, <3>2, ApplyOpEffect
      <4> QED
        BY <2>6, <3>2, <4>1
    <3>3. CASE x.op = "remove" /\ x.path \in DocPaths
      <4>1. /\ v.recs = a.recs /\ w.recs = b.recs
            /\ \A p \in DocPaths : /\ v.docs[p] = IF p = x.path THEN NoDoc ELSE a.docs[p]
                                  /\ w.docs[p] = IF p = x.path THEN NoDoc ELSE b.docs[p]
        BY <2>3, <2>4, <2>6, <3>3, ApplyOpEffect
      <4> QED
        BY <2>6, <3>3, <4>1
    <3>4. CASE x.op = "registry" /\ x.recs \in RecordMaps
      <4>1. v.recs = x.recs /\ w.recs = x.recs /\ v.docs = a.docs /\ w.docs = b.docs
        BY <2>3, <2>4, <2>6, <3>4, ApplyOpEffect
      <4> QED
        BY <2>6, <4>1
    <3> QED
      BY <3>1, <3>2, <3>3, <3>4, OpKinds
  <2> HIDE DEF Alike
  <2> QED
    BY <2>5, <2>7
<1>3. S = Seq(Ops)
  <2> HIDE DEF S
  <2>1. S \in SUBSET Seq(Ops)
    BY DEF S
  <2> QED
    BY <1>1, <1>2, <2>1, SeqSetInduction
<1> QED
  BY <1>3

\* The same files, but for edits added to documents.
Grown(t, u) ==
  /\ u.recs = t.recs
  /\ \A p \in DocPaths :
       /\ t.docs[p] = NoDoc <=> u.docs[p] = NoDoc
       /\ t.docs[p] # NoDoc => u.docs[p].id = t.docs[p].id /\ t.docs[p].edits \subseteq u.docs[p].edits

LEMMA ApplyGrows ==
  ASSUME NEW t \in Trees, NEW u \in Trees, Grown(t, u), NEW os \in Seq(Ops)
  PROVE  Grown(ApplyOps(t, os), ApplyOps(u, os))
<1> DEFINE D == Docs \cup {NoDoc}
           R == {d \in D \X D :
                   /\ d[1] = NoDoc <=> d[2] = NoDoc
                   /\ d[1] # NoDoc => d[2].id = d[1].id /\ d[1].edits \subseteq d[2].edits}
<1>1. \A d \in D : <<d, d>> \in R
  OBVIOUS
<1>2. \A p \in DocPaths : <<t.docs[p], u.docs[p]>> \in R
  BY DEF Grown, Trees
<1>3. /\ \A p \in DocPaths : <<ApplyOps(t, os).docs[p], ApplyOps(u, os).docs[p]>> \in R
      /\ ApplyOps(t, os).recs = ApplyOps(u, os).recs
  <2>1. t.recs = u.recs
    BY DEF Grown
  <2>2. PICK r : r = R
    OBVIOUS
  <2> HIDE DEF R
  <2>3. /\ \A doc \in Docs \cup {NoDoc} : <<doc, doc>> \in r
        /\ \A p \in DocPaths : <<t.docs[p], u.docs[p]>> \in r
    BY <1>1, <1>2, <2>2
  <2>4. /\ \A p \in DocPaths : <<ApplyOps(t, os).docs[p], ApplyOps(u, os).docs[p]>> \in r
        /\ t.recs = u.recs => ApplyOps(t, os).recs = ApplyOps(u, os).recs
    BY <2>3, ApplyRelates, ZenonT(30)
  <2> QED
    BY <2>1, <2>2, <2>4
<1> QED
  BY <1>3 DEF Grown

\* Documents still there, with the edits they had, or more.
Fuller(t, u) ==
  \A p \in DocPaths : t.docs[p] # NoDoc =>
    u.docs[p] # NoDoc /\ t.docs[p].edits \subseteq u.docs[p].edits

LEMMA ApplyFuller ==
  ASSUME NEW t \in Trees, NEW u \in Trees, Fuller(t, u), NEW os \in Seq(Ops)
  PROVE  Fuller(ApplyOps(t, os), ApplyOps(u, os))
<1> DEFINE D == Docs \cup {NoDoc}
           R == {d \in D \X D : d[1] # NoDoc => d[2] # NoDoc /\ d[1].edits \subseteq d[2].edits}
<1>1. \A d \in D : <<d, d>> \in R
  OBVIOUS
<1>2. \A p \in DocPaths : <<t.docs[p], u.docs[p]>> \in R
  BY DEF Fuller, Trees
<1>3. \A p \in DocPaths : <<ApplyOps(t, os).docs[p], ApplyOps(u, os).docs[p]>> \in R
  <2> HIDE DEF R
  <2> QED
    BY <1>1, <1>2, ApplyRelates
<1> QED
  BY <1>3 DEF Fuller

-----------------------------------------------------------------------------
(* What ChangeSet::staged reads of a set, and what the stamps make of it.   *)

LEMMA MaxOK ==
  ASSUME NEW n \in Nat, NEW W \in SUBSET (1..n), W # {}
  PROVE  Max(W) \in W /\ \A y \in W : y <= Max(W)
<1> DEFINE S == {m \in Nat : \A V \in SUBSET (1..m) : V # {} => \E x \in V : \A y \in V : x >= y}
<1>1. 0 \in S
  <2>1. 1..0 = {}
    OBVIOUS
  <2> QED
    BY <2>1
<1>2. ASSUME NEW m \in Nat, m \in S
      PROVE  m + 1 \in S
  <2> SUFFICES ASSUME NEW V \in SUBSET (1..(m + 1)), V # {}
               PROVE  \E x \in V : \A y \in V : x >= y
    OBVIOUS
  <2>1. CASE m + 1 \in V
    BY <2>1
  <2>2. CASE m + 1 \notin V
    <3>1. V \in SUBSET (1..m)
      BY <2>2
    <3> QED
      BY <1>2, <3>1
  <2> QED
    BY <2>1, <2>2
<1>3. n \in S
  <2> HIDE DEF S
  <2>1. S \in SUBSET Nat
    BY DEF S
  <2> QED
    BY <1>1, <1>2, <2>1, NatSetInduction
<1>4. \E x \in W : \A y \in W : x >= y
  BY <1>3
<1>5. Max(W) \in W /\ \A y \in W : Max(W) >= y
  BY <1>4 DEF Max
<1> QED
  BY <1>5

\* The last write of a path is the one just added, if it is one, and the one
\* before it otherwise.
LEMMA LoadStagedAppend ==
  ASSUME NEW c \in Seq(Ops), NEW x \in Ops, NEW p \in DocPaths
  PROVE  LoadStaged(Append(c, x), p) = IF x.op = "write" /\ x.path = p THEN x.doc
                                       ELSE LoadStaged(c, p)
<1> DEFINE longer == Append(c, x)
           n == Len(c)
<1>1. /\ n \in Nat /\ DOMAIN c = 1..n /\ DOMAIN longer = 1..(n + 1)
      /\ \A k \in 1..n : longer[k] = c[k]
      /\ longer[n + 1] = x
  <2>1. longer \in Seq(Ops) /\ Len(longer) = n + 1
    BY AppendProperties
  <2> QED
    BY <2>1, AppendProperties, LenProperties
<1> HIDE DEF longer, n
<1>2. CASE x.op = "write" /\ x.path = p
  <2>1. n + 1 \in Writes(longer, p) /\ Writes(longer, p) \in SUBSET (1..(n + 1))
    BY <1>1, <1>2 DEF Writes
  <2>2. Max(Writes(longer, p)) \in 1..(n + 1) /\ n + 1 <= Max(Writes(longer, p))
    BY <1>1, <2>1, MaxOK
  <2>3. Max(Writes(longer, p)) = n + 1
    BY <1>1, <2>2
  <2>4. Writes(longer, p) # {}
    BY <2>1
  <2> QED
    BY <1>1, <1>2, <2>3, <2>4 DEF LoadStaged, longer
<1>3. CASE ~(x.op = "write" /\ x.path = p)
  <2>1. Writes(longer, p) = Writes(c, p)
    BY <1>1, <1>3 DEF Writes
  <2>2. CASE Writes(c, p) = {}
    BY <1>3, <2>1, <2>2 DEF LoadStaged, longer
  <2>3. CASE Writes(c, p) # {}
    <3>1. Writes(c, p) \in SUBSET (1..n)
      BY <1>1 DEF Writes
    <3>2. Max(Writes(c, p)) \in 1..n
      BY <1>1, <2>3, <3>1, MaxOK
    <3> QED
      BY <1>1, <1>3, <2>1, <2>3, <3>2 DEF LoadStaged, longer
  <2> QED
    BY <2>2, <2>3
<1> QED
  BY <1>2, <1>3

\* Once the document a set moves is written where it went, what the set has
\* staged for a path is what it leaves there, unless that is nothing.
LEMMA LoadStagedLands ==
  ASSUME tree \in Trees, NEW os \in Seq(Ops), Shaped(os), NEW p \in DocPaths
  PROVE  ApplyOps(tree, os).docs[p] \in {NoDoc, LoadStaged(os, p)}
<1> DEFINE Moved(c, q) == /\ 1 \in DOMAIN c /\ c[1].op = "move" /\ c[1].to = q
                          /\ Writes(c, q) = {}
           MovesFirst(c) == \A k \in DOMAIN c : c[k].op = "move" => k = 1
           S == {c \in Seq(Ops) : MovesFirst(c) => \A q \in DocPaths :
                   ApplyOps(tree, c).docs[q] \in {NoDoc, LoadStaged(c, q)} \/ Moved(c, q)}
<1>1. <<>> \in S
  <2>1. Writes(<<>>, p) = {} /\ \A q \in DocPaths : Writes(<<>>, q) = {}
    BY DEF Writes
  <2> QED
    BY <2>1, ApplyNone, EmptySeq DEF LoadStaged
<1>2. ASSUME NEW c \in S, NEW x \in Ops
      PROVE  Append(c, x) \in S
  <2> DEFINE longer == Append(c, x)
             n == Len(c)
             t == ApplyOps(tree, c)
             u == ApplyOps(tree, longer)
  <2>1. c \in Seq(Ops) /\ longer \in Seq(Ops)
    BY AppendProperties
  <2>2. /\ n \in Nat /\ DOMAIN c = 1..n /\ DOMAIN longer = 1..(n + 1)
        /\ \A k \in 1..n : longer[k] = c[k]
        /\ longer[n + 1] = x
    <3>1. Len(longer) = n + 1
      BY <2>1, AppendProperties
    <3> QED
      BY <2>1, <3>1, AppendProperties, LenProperties
  <2>3. t \in Trees /\ u = ApplyOp(t, x)
    BY <2>1, ApplyTyped, ApplyAppend
  <2>4. \A q \in DocPaths : LoadStaged(longer, q) = IF x.op = "write" /\ x.path = q THEN x.doc
                                                   ELSE LoadStaged(c, q)
    BY <2>1, LoadStagedAppend
  <2> SUFFICES ASSUME MovesFirst(longer), NEW q \in DocPaths
               PROVE  u.docs[q] \in {NoDoc, LoadStaged(longer, q)} \/ Moved(longer, q)
    BY <2>1
  <2>5. MovesFirst(c)
    BY <2>2
  <2>6. t.docs[q] \in {NoDoc, LoadStaged(c, q)} \/ Moved(c, q)
    BY <2>5
  <2> HIDE DEF longer, t, u, S, MovesFirst
  <2>7. CASE x.op = "write" /\ x.path \in DocPaths /\ x.doc \in Docs
    <3>1. CASE q = x.path
      BY <2>3, <2>4, <2>7, <3>1, ApplyOpEffect
    <3>2. CASE q # x.path
      <4>1. u.docs[q] = t.docs[q] /\ LoadStaged(longer, q) = LoadStaged(c, q)
        BY <2>3, <2>4, <2>7, <3>2, ApplyOpEffect
      <4>2. Moved(c, q) => Moved(longer, q)
        BY <2>2, <2>7, <3>2 DEF Writes
      <4> QED
        BY <2>6, <4>1, <4>2
    <3> QED
      BY <3>1, <3>2
  <2>8. CASE x.op = "move" /\ x.path \in DocPaths /\ x.to \in DocPaths
    <3>1. n = 0 /\ longer[1] = x
      BY <2>2, <2>8 DEF MovesFirst
    <3>2. t = tree
      <4>1. c = <<>>
        BY <2>1, <3>1, EmptySeq
      <4> QED
        BY <4>1, ApplyNone DEF t
    <3>3. /\ Writes(longer, q) = {} /\ LoadStaged(longer, q) = tree.docs[q]
      BY <2>2, <2>8, <3>1 DEF Writes, LoadStaged
    <3>4. u.docs[q] \in {NoDoc, tree.docs[q]} \/ q = x.to
      BY <2>3, <2>8, <3>2, ApplyOpEffect
    <3> QED
      BY <2>2, <2>8, <3>1, <3>3, <3>4
  <2>9. CASE x.op = "remove" /\ x.path \in DocPaths
    <3>1. u.docs[q] \in {NoDoc, t.docs[q]} /\ LoadStaged(longer, q) = LoadStaged(c, q)
      BY <2>3, <2>4, <2>9, ApplyOpEffect
    <3>2. Moved(c, q) => Moved(longer, q)
      BY <2>2, <2>9 DEF Writes
    <3> QED
      BY <2>6, <3>1, <3>2
  <2>10. CASE x.op = "registry" /\ x.recs \in RecordMaps
    <3>1. u.docs[q] = t.docs[q] /\ LoadStaged(longer, q) = LoadStaged(c, q)
      BY <2>3, <2>4, <2>10, ApplyOpEffect
    <3>2. Moved(c, q) => Moved(longer, q)
      BY <2>2, <2>10 DEF Writes
    <3> QED
      BY <2>6, <3>1, <3>2
  <2> QED
    BY <2>7, <2>8, <2>9, <2>10, OpKinds
<1>3. S = Seq(Ops)
  <2> HIDE DEF S
  <2>1. S \in SUBSET Seq(Ops)
    BY DEF S
  <2> QED
    BY <1>1, <1>2, <2>1, SeqSetInduction
<1>4. MovesFirst(os)
  BY DEF Shaped
<1>5. ~Moved(os, p)
  BY DEF Shaped, Writes
<1> QED
  BY <1>3, <1>4, <1>5

-----------------------------------------------------------------------------
\* A set laid out in some order.
LEMMA SomeOrder ==
  ASSUME NEW S, IsFiniteSet(S), NEW s \in SetToSeqs(S)
  PROVE  s \in Seq(S) /\ \A k \in DOMAIN s : s[k] \in S
<1>1. Cardinality(S) \in Nat
  BY FS_CardinalityType
<1>2. s \in [1..Cardinality(S) -> S]
  BY DEF SetToSeqs
<1>3. s \in Seq(S)
  BY <1>1, <1>2, SeqDef
<1> QED
  BY <1>2, <1>3

\* The documents a verb writes back, and those that stamp_ids does.
LEMMA RewritesOK ==
  ASSUME tree \in Trees, NEW ps \in SUBSET DocPaths, \A p \in ps : Present(p),
         NEW rewrites \in Rewrites(ps)
  PROVE  /\ rewrites \in Seq(Ops)
         /\ \A k \in DOMAIN rewrites : /\ rewrites[k].op = "write"
                                       /\ rewrites[k].path \in ps
                                       /\ rewrites[k].doc = tree.docs[rewrites[k].path]
<1> DEFINE W == {WriteOp(p, tree.docs[p]) : p \in ps}
           f == [p \in ps |-> WriteOp(p, tree.docs[p])]
<1>1. W \in SUBSET Ops
  BY DEF WriteOp, Ops, Trees, Present
<1>2. IsFiniteSet(W)
  <2>1. IsFiniteSet(ps)
    BY PathsAreFinite, FS_Subset DEF DocPaths
  <2>2. f \in Surjection(ps, W)
    BY DEF Surjection
  <2> HIDE DEF f, W
  <2> QED
    BY <2>1, <2>2, FS_Surjection
<1>3. rewrites \in Seq(W) /\ \A k \in DOMAIN rewrites : rewrites[k] \in W
  <2> HIDE DEF W
  <2>1. rewrites \in SetToSeqs(W)
    BY DEF Rewrites, W
  <2> QED
    BY <1>2, <2>1, SomeOrder
<1>4. rewrites \in Seq(Ops)
  <2> HIDE DEF W
  <2> QED
    BY <1>1, <1>3, SeqMonotonic
<1> QED
  BY <1>3, <1>4 DEF WriteOp

\* Stamps leave what a set leaves, with the ids of its documents filled in.
StampGood(os) ==
  LET t == ApplyOps(tree, os)
  IN /\ os \in Seq(Ops) /\ Shaped(os)
     /\ \A p \in DocPaths : Renames(os, p) <=> Renames(ops, p)
     /\ t.recs = Landed.recs
     /\ Sound(t.docs, Status(ix))
     /\ \A p \in DocPaths : Landed.docs[p] # NoDoc =>
          t.docs[p] # NoDoc /\ Landed.docs[p].edits \subseteq t.docs[p].edits

LEMMA StampOpsGood ==
  ASSUME tree \in Trees, ops \in Seq(Ops), NEW os, StampGood(os), StoreOK(ix),
         NEW p \in DocPaths, NEW i \in Ids, Renames(ops, p) \/ Status(ix)[i] = p
  PROVE  StampGood(StampOps(os, <<p, i>>))
<1> DEFINE doc == LoadStaged(os, p)
           o == WriteOp(p, [doc EXCEPT !.id = i])
           t == ApplyOps(tree, os)
           u == ApplyOps(tree, Append(os, o))
<1>1. StampOps(os, <<p, i>>) = IF Renames(os, p) \/ doc = NoDoc THEN os
                              ELSE IF doc.id = i THEN os ELSE Append(os, o)
  BY DEF StampOps
<1> SUFFICES ASSUME ~Renames(os, p), doc # NoDoc
             PROVE  StampGood(Append(os, o))
  BY <1>1
<1>2. os \in Seq(Ops) /\ Shaped(os) /\ t \in Trees
  BY ApplyTyped DEF StampGood
<1>3. t.docs[p] \in {NoDoc, doc}
  BY <1>2, LoadStagedLands
<1>4. doc \in Docs
  <2>1. CASE Writes(os, p) = {}
    BY <2>1 DEF LoadStaged, Trees
  <2>2. CASE Writes(os, p) # {}
    <3>1. Len(os) \in Nat /\ Writes(os, p) \in SUBSET (1..Len(os))
      BY <1>2, LenProperties DEF Writes
    <3>2. Max(Writes(os, p)) \in Writes(os, p)
      BY <2>2, <3>1, MaxOK
    <3>3. os[Max(Writes(os, p))] \in Ops /\ os[Max(Writes(os, p))].op = "write"
      BY <1>2, <3>1, <3>2, ElementOfSeq DEF Writes
    <3>4. doc = os[Max(Writes(os, p))].doc
      BY <2>2 DEF LoadStaged
    <3> QED
      BY <3>3, <3>4, OpKinds
  <2> QED
    BY <2>1, <2>2
<1>5. /\ o \in Ops /\ o.op = "write" /\ o.path = p
      /\ o.doc \in Docs /\ o.doc.id = i /\ o.doc.edits = doc.edits
  <2>1. [doc EXCEPT !.id = i] \in Docs /\ [doc EXCEPT !.id = i].id = i
        /\ [doc EXCEPT !.id = i].edits = doc.edits
    BY <1>4 DEF Docs
  <2> HIDE DEF doc
  <2> QED
    BY <2>1 DEF WriteOp, Ops
<1> HIDE DEF o, doc
<1>6. Append(os, o) \in Seq(Ops) /\ u = ApplyOp(t, o)
  BY <1>2, <1>5, AppendProperties, ApplyAppend
<1>7. /\ u.recs = t.recs
      /\ \A q \in DocPaths : u.docs[q] = IF q = p THEN o.doc ELSE t.docs[q]
  BY <1>2, <1>5, <1>6, ApplyOpEffect
<1>8. /\ DOMAIN Append(os, o) = 1..(Len(os) + 1) /\ DOMAIN os = 1..Len(os) /\ Len(os) \in Nat
      /\ \A k \in 1..Len(os) : Append(os, o)[k] = os[k]
      /\ Append(os, o)[Len(os) + 1] = o
  BY <1>2, <1>5, <1>6, AppendProperties, LenProperties
<1>9. Shaped(Append(os, o))
  BY <1>2, <1>5, <1>8 DEF Shaped
<1>10. \A q \in DocPaths : Renames(Append(os, o), q) <=> Renames(ops, q)
  <2>1. \A q \in DocPaths : Renames(Append(os, o), q) <=> Renames(os, q)
    BY <1>5, <1>8 DEF Renames
  <2> QED
    BY <2>1 DEF StampGood
<1>11. Status(ix)[i] = p
  BY DEF StampGood
<1> HIDE DEF t, u
<1>12. Sound(t.docs, Status(ix))
  BY DEF StampGood, t
<1>13. o.doc # NoDoc /\ doc # NoDoc
  BY <1>4, <1>5, DocSentinels DEF Docs
<1>14. Sound(u.docs, Status(ix))
  BY <1>5, <1>7, <1>11, <1>12, <1>13 DEF Sound, Carries, Names, Carried
<1>15. \A q \in DocPaths : Landed.docs[q] # NoDoc =>
          u.docs[q] # NoDoc /\ Landed.docs[q].edits \subseteq u.docs[q].edits
  <2>1. \A q \in DocPaths : Landed.docs[q] # NoDoc =>
          t.docs[q] # NoDoc /\ Landed.docs[q].edits \subseteq t.docs[q].edits
    BY DEF StampGood, t
  <2> QED
    BY <1>3, <1>5, <1>7, <1>13, <2>1
<1>16. u.recs = Landed.recs
  BY <1>7 DEF StampGood, t
<1> QED
  BY <1>6, <1>9, <1>10, <1>14, <1>15, <1>16 DEF StampGood, u

LEMMA StampedGood ==
  ASSUME tree \in Trees, ops \in Seq(Ops), Shaped(ops), StoreOK(ix),
         Sound(Landed.docs, Status(ix)), stamps \in Seq(DocPaths \X Ids), StampsDue
  PROVE  StampGood(Stamped(ops, stamps))
<1> DEFINE X == {s \in DocPaths \X Ids : Renames(ops, s[1]) \/ Status(ix)[s[2]] = s[1]}
           S == {c \in Seq(X) : StampGood(Stamped(ops, c))}
<1>1. <<>> \in S
  <2>1. StampGood(ops)
    BY DEF StampGood, Landed
  <2> QED
    BY <2>1, StampNone, EmptySeq
<1>2. ASSUME NEW c \in S, NEW x \in X
      PROVE  Append(c, x) \in S
  <2>1. c \in Seq(X) /\ Append(c, x) \in Seq(X) /\ StampGood(Stamped(ops, c))
    BY AppendProperties
  <2>2. Stamped(ops, Append(c, x)) = StampOps(Stamped(ops, c), x)
    BY <2>1, StampAppend
  <2>3. x = <<x[1], x[2]>> /\ x[1] \in DocPaths /\ x[2] \in Ids
    OBVIOUS
  <2>4. StampGood(StampOps(Stamped(ops, c), <<x[1], x[2]>>))
    BY <2>1, <2>3, StampOpsGood
  <2> QED
    BY <2>1, <2>2, <2>3, <2>4
<1>3. S = Seq(X)
  <2> HIDE DEF S
  <2>1. S \in SUBSET Seq(X)
    BY DEF S
  <2> QED
    BY <1>1, <1>2, <2>1, SeqSetInduction
<1>4. stamps \in Seq(X)
  <2>1. /\ Len(stamps) \in Nat /\ DOMAIN stamps = 1..Len(stamps)
        /\ stamps \in [1..Len(stamps) -> DocPaths \X Ids]
    BY LenProperties
  <2>2. stamps \in [1..Len(stamps) -> X]
    BY <2>1 DEF StampsDue
  <2> HIDE DEF X
  <2> QED
    BY <2>1, <2>2, SeqDef
<1> QED
  BY <1>3, <1>4

-----------------------------------------------------------------------------
(* The store of a session.                                                 *)

\* The id of a path is the one whose status the path is.
LEMMA IdStatus ==
  ASSUME NEW s, StoreOK(s), NEW p \in Paths
  PROVE  /\ IdForPath(s, p) \in Ids \cup {NoId}
         /\ \A i \in Ids : IdForPath(s, p) = i <=> Status(s)[i] = p
<1>1. s.live \in LiveMaps /\ IsBijection(s.live)
  BY DEF StoreOK, Stores, RecordsOK
<1>2. IdForPath(s, p) \in Ids \cup {NoId}
  BY <1>1 DEF IdForPath, LiveMaps
<1>3. ASSUME NEW i \in Ids
      PROVE  IdForPath(s, p) = i <=> Status(s)[i] = p
  <2>1. IdForPath(s, p) = i <=> s.live.fwd[i] = p
    BY <1>1 DEF IdForPath, IsBijection
  <2>2. s.live.fwd[i] = p <=> Status(s)[i] = p
    BY SentinelsAreApart DEF Status, StatusOf
  <2> QED
    BY <2>1, <2>2
<1> QED
  BY <1>2, <1>3

\* change(), of a session at rest, saves the store as it is.
LEMMA ChangeOK ==
  ASSUME StoreOK(ix)
  PROVE  /\ StoreOK(Change)
         /\ ix.saved = NoCheckpoint =>
              /\ Change.saved # NoCheckpoint
              /\ \A r \in {Change, Change.saved} :
                   /\ Status(r) = Status(ix) /\ r.dirty = ix.dirty
                   /\ r.text = ix.text /\ r.persisted = ix.persisted
              /\ Change.host = ix.host
              /\ \A p \in Paths : IdForPath(Change, p) = IdForPath(ix, p)
<1>1. StoreOK(Change)
  BY RollbackOK, CheckpointOK DEF Change
<1>2. ASSUME ix.saved = NoCheckpoint
      PROVE  /\ Change.saved # NoCheckpoint
             /\ \A r \in {Change, Change.saved} :
                  /\ Status(r) = Status(ix) /\ r.dirty = ix.dirty
                  /\ r.text = ix.text /\ r.persisted = ix.persisted
             /\ Change.host = ix.host
             /\ \A p \in Paths : IdForPath(Change, p) = IdForPath(ix, p)
  <2> DEFINE snap == [live |-> ix.live, tomb |-> ix.tomb, text |-> ix.text,
                      persisted |-> ix.persisted, requote |-> ix.requote, dirty |-> ix.dirty]
  <2>1. Change = [ix EXCEPT !.saved = snap]
    BY <1>2 DEF Change, Checkpoint, Rollback
  <2>2. /\ snap \in Snapshots /\ snap.live = ix.live /\ snap.tomb = ix.tomb
        /\ snap.text = ix.text /\ snap.persisted = ix.persisted /\ snap.dirty = ix.dirty
    BY DEF StoreOK, Stores, Snapshots
  <2> HIDE DEF snap
  <2>3. /\ Change.saved = snap /\ Change.live = ix.live /\ Change.tomb = ix.tomb
        /\ Change.text = ix.text /\ Change.persisted = ix.persisted
        /\ Change.dirty = ix.dirty /\ Change.host = ix.host
    BY <2>1, <2>2 DEF StoreOK, Stores
  <2> QED
    BY <2>2, <2>3, CheckpointsAreApart DEF Status, IdForPath
<1> QED
  BY <1>1, <1>2

\* rollback puts back what the checkpoint holds.
LEMMA RollbackStore ==
  ASSUME NEW s, StoreOK(s)
  PROVE  /\ StoreOK(Rollback(s)) /\ Rollback(s).saved = NoCheckpoint
         /\ Rollback(s).host = s.host
         /\ s.saved # NoCheckpoint =>
              /\ Status(Rollback(s)) = Status(s.saved)
              /\ Rollback(s).text = s.saved.text /\ Rollback(s).persisted = s.saved.persisted
              /\ Rollback(s).dirty = s.saved.dirty
<1>1. CASE s.saved = NoCheckpoint
  BY <1>1, RollbackOK DEF Rollback
<1>2. CASE s.saved # NoCheckpoint
  <2>1. s.saved \in Snapshots
    BY <1>2 DEF StoreOK, Stores
  <2>2. /\ Rollback(s).live = s.saved.live /\ Rollback(s).tomb = s.saved.tomb
        /\ Rollback(s).text = s.saved.text /\ Rollback(s).persisted = s.saved.persisted
        /\ Rollback(s).dirty = s.saved.dirty /\ Rollback(s).host = s.host
    BY <1>2, <2>1 DEF Rollback, StoreOK, Stores, Snapshots
  <2> QED
    BY <1>2, <2>2, RollbackOK DEF Status
<1> QED
  BY <1>1, <1>2

\* A store t in which, since s, fresh ids have been given to some of ps.
Grew(s, t, ps) ==
  /\ StoreOK(t)
  /\ t.saved = s.saved /\ t.host = s.host /\ t.text = s.text /\ t.persisted = s.persisted
  /\ t.dirty \/ (t.dirty = s.dirty /\ Status(t) = Status(s))
  /\ \A i \in Ids : \/ Status(t)[i] = Status(s)[i]
                    \/ Status(s)[i] = NoRecord /\ Status(t)[i] \in ps

LEMMA GrewTwice ==
  ASSUME NEW s, NEW t, NEW u, NEW ps \in SUBSET Paths, Grew(s, t, ps), Grew(t, u, ps)
  PROVE  Grew(s, u, ps)
  BY SentinelsAreApart DEF Grew

\* register, register_for_authoring.
LEMMA AuthoredGrew ==
  ASSUME NEW s, StoreOK(s), NEW ps \in SUBSET Paths, NEW p \in ps, NEW link,
         NEW t, t \in Registered(s, p) \/ t \in Authored(s, p, link)
  PROVE  Grew(s, t, ps)
<1>1. CASE t = s
  <2>1. s.dirty = s.dirty /\ Status(s) = Status(s)
    OBVIOUS
  <2> QED
    BY <1>1 DEF Grew
<1>2. CASE t # s
  <2>1. IdForPath(s, p) = NoId /\ \E i \in Ids \ KnownIds(s) : t = Register(s, i, p)
    BY <1>2 DEF Authored, Registered
  <2>2. PICK i \in Ids : ~IsKnown(s, i) /\ t = Register(s, i, p)
    BY <2>1 DEF KnownIds
  <2>3. Status(s)[i] = NoRecord
    BY <2>2 DEF IsKnown, Resolve, Status, StatusOf
  <2>4. \A j \in Ids : Status(s)[j] # p
    BY <2>1, IdStatus, SentinelsAreApart
  <2>5. Status(t) = [j \in Ids |-> IF j = i THEN p
                                   ELSE IF Status(s)[j] = p THEN Null ELSE Status(s)[j]]
    BY <2>2, RegisterStatus
  <2>6. StoreOK(t)
    BY <2>2, RegisterOK
  <2> QED
    BY <2>2, <2>3, <2>4, <2>5, <2>6, RegisterStatus DEF Grew
<1> QED
  BY <1>1, <1>2

\* What agreed with s agrees with a t grown from it, if what has been given ids
\* is there.
LEMMA GrewSound ==
  ASSUME NEW s, StoreOK(s), NEW ps \in SUBSET DocPaths, NEW t, Grew(s, t, ps),
         NEW docs, Sound(docs, Status(s)), \A p \in ps : docs[p] # NoDoc,
         \A p \in Carried(docs) : docs[p].id \in Ids
  PROVE  Sound(docs, Status(t))
<1>1. Carries(docs, Status(t))
  BY SentinelsAreApart DEF Grew, Sound, Carries, Carried, DocPaths
<1>2. Names(docs, Status(t))
  BY SentinelsAreApart DEF Grew, Sound, Names
<1> QED
  BY <1>1, <1>2 DEF Sound

LEMMA GrewBelieves ==
  ASSUME NEW s, StoreOK(s), NEW ps \in SUBSET DocPaths, NEW t, Grew(s, t, ps),
         NEW recs, Believes(s, recs)
  PROVE  Believes(t, recs)
  BY SentinelsAreApart DEF Grew, Believes, Spells, Covers, Clean, DocPaths

LEMMA GrewDue ==
  ASSUME NEW s, NEW ps \in SUBSET DocPaths, NEW t, Grew(s, t, ps),
         NEW i \in Ids, NEW p \in DocPaths, Status(s)[i] = p
  PROVE  Status(t)[i] = p
  BY SentinelsAreApart DEF Grew, DocPaths

LEMMA GrewQueue ==
  ASSUME NEW s, NEW ps \in SUBSET DocPaths, NEW t, Grew(s, t, ps),
         NEW queue \in Seq(DocPaths \X Ids), Due(s, queue)
  PROVE  Due(t, queue)
<1> SUFFICES ASSUME NEW k \in DOMAIN queue
             PROVE  Status(t)[queue[k][2]] = queue[k][1]
  BY DEF Due
<1>1. queue[k] \in DocPaths \X Ids
  BY LenProperties
<1>2. PICK p : p = queue[k][1]
  OBVIOUS
<1>3. PICK i : i = queue[k][2]
  OBVIOUS
<1>4. p \in DocPaths /\ i \in Ids /\ Status(s)[i] = p
  BY <1>1, <1>2, <1>3 DEF Due
<1>5. Status(t)[i] = p
  BY <1>4, GrewDue
<1> QED
  BY <1>2, <1>3, <1>5

\* A stamp queued for an id a path has earned is due.
LEMMA EarnedDue ==
  ASSUME NEW before, NEW after, StoreOK(after), NEW p \in DocPaths
  PROVE  /\ Earned(before, after, p) \in Seq(DocPaths \X Ids)
         /\ Due(after, Earned(before, after, p))
<1>1. p \in Paths
  BY DEF DocPaths
<1>2. IdForPath(after, p) # NoId =>
        IdForPath(after, p) \in Ids /\ Status(after)[IdForPath(after, p)] = p
  BY <1>1, IdStatus
<1> QED
  BY <1>2 DEF Earned, Due

-----------------------------------------------------------------------------
(* What a verb hands to commit.                                            *)

Handable(store, queue, set, expected) ==
  /\ StoreOK(store)
  /\ queue \in Seq(DocPaths \X Ids)
  /\ set \in Seq(Ops)
  /\ expected \in [DocPaths -> Docs \cup {NoDoc, Unread}]

\* What a verb of a session whose sets are not refused hands to it.
Fitting(store, queue, set, expected) ==
  LET t == ApplyOps(tree, set)
  IN /\ store.saved # NoCheckpoint /\ store.host = ix.host
     /\ Fits(store.saved, tree)
     /\ KeepsRegistry => Believes(store, tree.recs)
     /\ Shaped(set)
     /\ t.recs = tree.recs
     /\ Sound(t.docs, Status(store))
     /\ \A p \in DocPaths : expected[p] \notin {NoDoc, Unread} =>
          \E q \in DocPaths : t.docs[q] # NoDoc /\ expected[p].edits \subseteq t.docs[q].edits
     /\ \A k \in DOMAIN queue :
          Renames(set, queue[k][1]) \/ Status(store)[queue[k][2]] = queue[k][1]

LEMMA HandOK ==
  ASSUME IInv, phase = "idle", NEW store, NEW queue, NEW set, NEW expected,
         Handable(store, queue, set, expected),
         journal = NoJournal => Fitting(store, queue, set, expected),
         Hand(store, queue, set, expected)
  PROVE  IInv'
<1>1. /\ phase' = "built" /\ ix' = store /\ stamps' = queue /\ ops' = set /\ expects' = expected
      /\ policy' = policy /\ storage' = storage /\ tree' = tree /\ journal' = journal
  BY DEF Hand
<1>2. Typed'
  BY <1>1 DEF IInv, Typed, Handable
<1>3. KeepsRegistry' = KeepsRegistry
  BY <1>1 DEF KeepsRegistry
<1>4. Healed' = Healed
  BY <1>1 DEF Healed
<1>5. Records' = Healed'.recs /\ Records = Healed.recs
  BY <1>1 DEF Records, HalfPersisted
<1>6. FilesOK'
  BY <1>3, <1>4, <1>5 DEF IInv, FilesOK
<1>7. ASSUME journal' = NoJournal
      PROVE  SessionOK'
  <2>1. Fitting(store, queue, set, expected) /\ SessionOK
    BY <1>1, <1>7 DEF IInv
  <2>2. Landed' = ApplyOps(tree, set)
    BY <1>1 DEF Landed
  <2>3. Building'
    BY <1>1, <1>3, <2>1, <2>2 DEF Building, Fitting, Fits, EditsLand
  <2>4. StampsDue'
    BY <1>1, <2>1 DEF StampsDue, Fitting, Renames
  <2>5. Built'
    BY <1>1, <1>3, <2>1, <2>2, <2>3, <2>4 DEF Built, Fitting
  <2> QED
    BY <1>1, <1>3, <2>1, <2>5 DEF SessionOK, Fitting
<1> QED
  BY <1>1, <1>2, <1>6, <1>7 DEF IInv

\* A session at rest.
LEMMA RestOK ==
  ASSUME IInv, phase = "idle"
  PROVE  /\ tree \in Trees /\ stamps \in Seq(DocPaths \X Ids) /\ StoreOK(ix) /\ StoreOK(Change)
         /\ \A p \in Carried(tree.docs) : tree.docs[p].id \in Ids
         /\ \A p \in DocPaths : tree.docs[p] \in Docs \cup {NoDoc}
         /\ journal = NoJournal =>
              /\ Change.saved # NoCheckpoint /\ Change.host = ix.host
              /\ Status(Change) = Status(ix)
              /\ Sound(tree.docs, Status(ix))
              /\ Fits(Change.saved, tree)
              /\ KeepsRegistry => Believes(Change, tree.recs)
              /\ Due(Change, stamps)
              /\ \A p \in Paths : IdForPath(Change, p) = IdForPath(ix, p)
<1>1. Typed
  BY DEF IInv
<1>2. StoreOK(Change)
  BY <1>1, ChangeOK DEF Typed
<1>3. /\ \A p \in Carried(tree.docs) : tree.docs[p].id \in Ids
      /\ \A p \in DocPaths : tree.docs[p] \in Docs \cup {NoDoc}
  BY <1>1 DEF Typed, Trees, Docs, Carried
<1>4. ASSUME journal = NoJournal
      PROVE  /\ Change.saved # NoCheckpoint /\ Change.host = ix.host
             /\ Status(Change) = Status(ix)
             /\ Sound(tree.docs, Status(ix))
             /\ Fits(Change.saved, tree)
             /\ KeepsRegistry => Believes(Change, tree.recs)
             /\ Due(Change, stamps)
             /\ \A p \in Paths : IdForPath(Change, p) = IdForPath(ix, p)
  <2>1. AtRest /\ ops = <<>>
    BY <1>4 DEF IInv, SessionOK
  <2>2. /\ Change.saved # NoCheckpoint
        /\ \A r \in {Change, Change.saved} :
             /\ Status(r) = Status(ix) /\ r.dirty = ix.dirty
             /\ r.text = ix.text /\ r.persisted = ix.persisted
        /\ Change.host = ix.host
        /\ \A p \in Paths : IdForPath(Change, p) = IdForPath(ix, p)
    BY <1>1, <2>1, ChangeOK DEF Typed, AtRest
  <2>3. Sound(tree.docs, Status(ix)) /\ (KeepsRegistry => Believes(ix, tree.recs))
    BY <2>1 DEF AtRest, Fits
  <2>4. \A r \in {Change, Change.saved} : KeepsRegistry => Believes(r, tree.recs)
    BY <2>2, <2>3 DEF Believes, Spells, Covers, Clean
  <2>5. Due(Change, stamps)
    BY <2>1, <2>2 DEF AtRest, Due
  <2> QED
    BY <2>2, <2>3, <2>4, <2>5 DEF Fits
<1> QED
  BY <1>1, <1>2, <1>3, <1>4 DEF Typed

\* The paths of two stamps more.
LEMMA QueueTyped ==
  ASSUME NEW a, a \in Seq(DocPaths \X Ids), NEW b, b \in Seq(DocPaths \X Ids)
  PROVE  /\ a \o b \in Seq(DocPaths \X Ids)
         /\ \A k \in DOMAIN (a \o b) : \/ \E j \in DOMAIN a : (a \o b)[k] = a[j]
                                       \/ \E j \in DOMAIN b : (a \o b)[k] = b[j]
<1>1. /\ a \o b \in Seq(DocPaths \X Ids) /\ Len(a \o b) = Len(a) + Len(b)
      /\ \A i \in 1..Len(a) + Len(b) : (a \o b)[i] = IF i <= Len(a) THEN a[i] ELSE b[i - Len(a)]
  BY ConcatProperties
<1>2. /\ Len(a) \in Nat /\ Len(b) \in Nat /\ DOMAIN a = 1..Len(a) /\ DOMAIN b = 1..Len(b)
      /\ DOMAIN (a \o b) = 1..(Len(a) + Len(b))
  BY <1>1, LenProperties
<1>3. ASSUME NEW k \in DOMAIN (a \o b)
      PROVE  \/ \E j \in DOMAIN a : (a \o b)[k] = a[j]
             \/ \E j \in DOMAIN b : (a \o b)[k] = b[j]
  <2>1. CASE k <= Len(a)
    BY <1>1, <1>2, <1>3, <2>1
  <2>2. CASE ~(k <= Len(a))
    <3>1. k - Len(a) \in DOMAIN b
      BY <1>2, <1>3, <2>2
    <3> QED
      BY <1>1, <1>2, <1>3, <2>2, <3>1
  <2> QED
    BY <2>1, <2>2
<1> QED
  BY <1>1, <1>3

\* One queue after another: due, if both are.
LEMMA QueuesDue ==
  ASSUME NEW s, NEW a, NEW b, a \in Seq(DocPaths \X Ids), b \in Seq(DocPaths \X Ids)
  PROVE  /\ a \o b \in Seq(DocPaths \X Ids)
         /\ Due(s, a) /\ Due(s, b) => Due(s, a \o b)
<1>1. PICK c : c = a \o b
  OBVIOUS
<1>2. c \in Seq(DocPaths \X Ids)
  BY <1>1, QueueTyped
<1>3. \A k \in DOMAIN c : (\E j \in DOMAIN a : c[k] = a[j]) \/ (\E j \in DOMAIN b : c[k] = b[j])
  BY <1>1, QueueTyped
<1>4. Due(s, a) /\ Due(s, b) => Due(s, c)
  BY <1>3 DEF Due
<1> QED
  BY <1>1, <1>2, <1>4

\* A queue, with what two paths have since earned: it is due if it was.
LEMMA QueueDue ==
  ASSUME NEW first, first \in Seq(DocPaths \X Ids), NEW before, NEW after, StoreOK(after),
         NEW p \in DocPaths, NEW q \in DocPaths
  PROVE  /\ first \o Earned(before, after, p) \o Earned(before, after, q) \in Seq(DocPaths \X Ids)
         /\ Due(after, first) =>
              Due(after, first \o Earned(before, after, p) \o Earned(before, after, q))
<1>1. /\ Earned(before, after, p) \in Seq(DocPaths \X Ids) /\ Due(after, Earned(before, after, p))
      /\ Earned(before, after, q) \in Seq(DocPaths \X Ids) /\ Due(after, Earned(before, after, q))
  BY EarnedDue
<1>2. PICK a : a = Earned(before, after, p)
  OBVIOUS
<1>3. PICK b : b = Earned(before, after, q)
  OBVIOUS
<1>4. first \o a \in Seq(DocPaths \X Ids) /\ (Due(after, first) => Due(after, first \o a))
  BY <1>1, <1>2, QueuesDue
<1>5. /\ (first \o a) \o b \in Seq(DocPaths \X Ids)
      /\ Due(after, first \o a) => Due(after, (first \o a) \o b)
  BY <1>1, <1>3, <1>4, QueuesDue
<1> QED
  BY <1>2, <1>3, <1>4, <1>5

\* Of a set of one operation or two.
LEMMA ApplyTwo ==
  ASSUME NEW t, NEW a \in Ops, NEW b \in Ops
  PROVE  /\ <<a, b>> \in Seq(Ops) /\ <<a>> \in Seq(Ops)
         /\ ApplyOps(t, <<a, b>>) = ApplyOp(ApplyOp(t, a), b)
         /\ ApplyOps(t, <<a>>) = ApplyOp(t, a)
<1>1. <<>> \in Seq(Ops) /\ <<a>> \in Seq(Ops) /\ <<b>> \in Seq(Ops) /\ <<a, b>> \in Seq(Ops)
  OBVIOUS
<1>2. <<>> \o <<a>> = <<a>>
  BY <1>1, ConcatEmptySeq
<1>3. Append(<<>>, a) = <<a>>
  BY <1>1, <1>2, AppendIsConcat
<1>4. <<a>> \o <<b>> = <<a, b>>
  <2>1. Len(<<a>>) = 1 /\ Len(<<b>>) = 1 /\ <<a>>[1] = a /\ <<b>>[1] = b
    OBVIOUS
  <2>2. Len(<<a, b>>) = 2 /\ <<a, b>>[1] = a /\ <<a, b>>[2] = b
    OBVIOUS
  <2>3. /\ <<a>> \o <<b>> \in Seq(Ops) /\ Len(<<a>> \o <<b>>) = 2
        /\ (<<a>> \o <<b>>)[1] = a /\ (<<a>> \o <<b>>)[2] = b
    <3>1. /\ <<a>> \o <<b>> \in Seq(Ops) /\ Len(<<a>> \o <<b>>) = Len(<<a>>) + Len(<<b>>)
          /\ \A i \in 1..Len(<<a>>) + Len(<<b>>) :
               (<<a>> \o <<b>>)[i] = IF i <= Len(<<a>>) THEN <<a>>[i] ELSE <<b>>[i - Len(<<a>>)]
      BY <1>1, ConcatProperties
    <3> QED
      BY <2>1, <3>1
  <2>4. \A i \in 1..2 : (<<a>> \o <<b>>)[i] = <<a, b>>[i]
    BY <2>2, <2>3
  <2> QED
    BY <1>1, <2>2, <2>3, <2>4, SeqEqual
<1>5. Append(<<a>>, b) = <<a, b>>
  BY <1>1, <1>4, AppendIsConcat
<1>6. ApplyOps(t, Append(<<>>, a)) = ApplyOp(ApplyOps(t, <<>>), a)
  BY <1>1, ApplyAppend
<1>7. ApplyOps(t, Append(<<a>>, b)) = ApplyOp(ApplyOps(t, <<a>>), b)
  BY <1>1, ApplyAppend
<1> QED
  BY <1>1, <1>3, <1>5, <1>6, <1>7, ApplyNone

\* What a verb does, followed by the documents it writes back besides.
LEMMA WithRewrites ==
  ASSUME tree \in Trees, NEW ps \in SUBSET DocPaths, \A p \in ps : Present(p),
         NEW rewrites \in Rewrites(ps), NEW head \in Seq(Ops), Shaped(head),
         \A p \in ps : ApplyOps(tree, head).docs[p] = tree.docs[p]
  PROVE  /\ head \o rewrites \in Seq(Ops)
         /\ ApplyOps(tree, head \o rewrites) = ApplyOps(tree, head)
         /\ Shaped(head \o rewrites)
         /\ \A p \in DocPaths : Renames(head, p) => Renames(head \o rewrites, p)
<1> DEFINE set == head \o rewrites
           t == ApplyOps(tree, head)
<1>1. /\ rewrites \in Seq(Ops)
      /\ \A k \in DOMAIN rewrites : /\ rewrites[k].op = "write"
                                    /\ rewrites[k].path \in ps
                                    /\ rewrites[k].doc = tree.docs[rewrites[k].path]
  BY RewritesOK
<1>2. set \in Seq(Ops) /\ ApplyOps(tree, set) = ApplyOps(t, rewrites)
  BY <1>1, ApplyConcat, ConcatProperties
<1>3. t \in Trees
  BY ApplyTyped
<1>4. ApplyOps(t, rewrites) = t
  <2>1. \A k \in DOMAIN rewrites : rewrites[k].op = "write" /\ rewrites[k].doc = t.docs[rewrites[k].path]
    BY <1>1
  <2> HIDE DEF t
  <2> QED
    BY <1>1, <1>3, <2>1, RewritesChangeNothing
<1>5. /\ Len(head) \in Nat /\ Len(rewrites) \in Nat
      /\ DOMAIN head = 1..Len(head) /\ DOMAIN rewrites = 1..Len(rewrites)
      /\ DOMAIN set = 1..(Len(head) + Len(rewrites))
      /\ \A k \in 1..Len(head) : set[k] = head[k]
      /\ \A k \in 1..(Len(head) + Len(rewrites)) : ~(k <= Len(head)) => set[k] = rewrites[k - Len(head)]
  <2>1. /\ Len(set) = Len(head) + Len(rewrites)
        /\ \A i \in 1..Len(head) + Len(rewrites) :
             set[i] = IF i <= Len(head) THEN head[i] ELSE rewrites[i - Len(head)]
    BY <1>1, ConcatProperties
  <2>2. Len(head) \in Nat /\ Len(rewrites) \in Nat /\ DOMAIN head = 1..Len(head)
        /\ DOMAIN rewrites = 1..Len(rewrites) /\ DOMAIN set = 1..Len(set)
    BY <1>1, <1>2, LenProperties
  <2> QED
    BY <2>1, <2>2
<1> HIDE DEF set, t
<1>6. \A k \in DOMAIN set : ~(k \in DOMAIN head) => set[k].op = "write"
  <2> TAKE k \in DOMAIN set
  <2> HAVE ~(k \in DOMAIN head)
  <2>1. ~(k <= Len(head)) /\ k - Len(head) \in DOMAIN rewrites
    BY <1>5
  <2> QED
    BY <1>1, <1>5, <2>1
<1>7. \A k \in DOMAIN head : k \in DOMAIN set /\ set[k] = head[k]
  BY <1>5
<1>8. Shaped(set)
  BY <1>6, <1>7 DEF Shaped
<1>9. \A p \in DocPaths : Renames(head, p) => Renames(set, p)
  BY <1>7 DEF Renames
<1> QED
  BY <1>2, <1>4, <1>8, <1>9 DEF set, t

\* What a set expects to find has its type.
LEMMA ExpectingTyped ==
  ASSUME tree \in Trees, NEW absent, NEW read
  PROVE  /\ Expecting(absent, read) \in [DocPaths -> Docs \cup {NoDoc, Unread}]
         /\ \A p \in DocPaths : Expecting(absent, read)[p] \notin {NoDoc, Unread} =>
              p \in read /\ Expecting(absent, read)[p] = tree.docs[p]
         /\ NoExpectations \in [DocPaths -> Docs \cup {NoDoc, Unread}]
  BY DEF Expecting, NoExpectations, Trees

LEMMA CreateOK ==
  ASSUME IInv, OnlyOthersWrite, NEW p \in DocPaths, NEW parent \in DocPaths, Create(p, parent)
  PROVE  IInv'
<1>1. phase = "idle" /\ Present(parent) /\ ~Present(p) /\ "abandon" \notin Freedoms
  BY DEF Create, OnlyOthersWrite
<1> DEFINE ps == {parent, p}
           Queue(s) == stamps \o Earned(Change, s, parent) \o Earned(Change, s, p)
           New(s) == [id |-> IF StampsFrontmatter THEN IdForPath(s, p) ELSE NoId, edits |-> {}]
           Set(s) == <<WriteOp(p, New(s)), WriteOp(parent, tree.docs[parent])>>
           expected == Expecting({p}, {})
<1>0. ps \in SUBSET DocPaths
  OBVIOUS
<1>2. PICK up \in Authored(Change, parent, "up") : \E down \in Authored(up, p, "down") :
        \E store \in Authored(down, p, "create") : Hand(store, Queue(down), Set(store), expected)
  BY <1>1 DEF Create, Abandon
<1>3. PICK down \in Authored(up, p, "down") :
        \E store \in Authored(down, p, "create") : Hand(store, Queue(down), Set(store), expected)
  BY <1>2
<1>4. PICK store \in Authored(down, p, "create") : Hand(store, Queue(down), Set(store), expected)
  BY <1>3
<1>5. Grew(Change, down, ps) /\ Grew(down, store, ps) /\ Grew(Change, store, ps)
  <2>1. StoreOK(Change) /\ ps \in SUBSET Paths
    BY <1>1, RestOK DEF DocPaths
  <2>2. Grew(Change, up, ps)
    BY <2>1, AuthoredGrew
  <2>3. Grew(up, down, ps)
    BY <2>1, <2>2, AuthoredGrew DEF Grew
  <2>4. Grew(Change, down, ps)
    BY <2>1, <2>2, <2>3, GrewTwice
  <2>5. Grew(down, store, ps)
    BY <2>1, <2>4, AuthoredGrew DEF Grew
  <2>6. Grew(Change, store, ps)
    BY <2>1, <2>4, <2>5, GrewTwice
  <2> QED
    BY <2>4, <2>5, <2>6
<1>6. StoreOK(down) /\ StoreOK(store) /\ StoreOK(Change)
  BY <1>1, <1>5, RestOK DEF Grew
<1>7. stamps \in Seq(DocPaths \X Ids)
  BY <1>1, RestOK
<1>16. PICK queue : queue = Queue(down)
  OBVIOUS
<1>17. /\ queue \in Seq(DocPaths \X Ids)
       /\ Due(Change, stamps) => Due(store, queue)
  <2>1. queue \in Seq(DocPaths \X Ids) /\ (Due(down, stamps) => Due(down, queue))
    BY <1>6, <1>7, <1>16, QueueDue
  <2> HIDE DEF ps
  <2>2. Due(Change, stamps) => Due(down, stamps)
    BY <1>0, <1>5, <1>7, GrewQueue
  <2>3. Due(down, queue) => Due(store, queue)
    BY <1>0, <1>5, <2>1, GrewQueue
  <2> QED
    BY <2>1, <2>2, <2>3
<1> DEFINE new == New(store)
           a == WriteOp(p, new)
           b == WriteOp(parent, tree.docs[parent])
           t == ApplyOps(tree, <<a, b>>)
<1>8. /\ new \in Docs /\ new # NoDoc
      /\ new.id # NoId => new.id \in Ids /\ Status(store)[new.id] = p
  <2>1. p \in Paths
    BY DEF DocPaths
  <2>2. IdForPath(store, p) \in Ids \cup {NoId}
        /\ (IdForPath(store, p) # NoId => Status(store)[IdForPath(store, p)] = p)
    BY <1>6, <2>1, IdStatus
  <2> QED
    BY <2>2, DocSentinels DEF Docs
<1> HIDE DEF new
<1>9. /\ a \in Ops /\ a.op = "write" /\ a.path = p /\ a.doc = new
      /\ b \in Ops /\ b.op = "write" /\ b.path = parent /\ b.doc = tree.docs[parent]
  BY <1>1, <1>8, RestOK DEF WriteOp, Ops, Present
<1> HIDE DEF a, b
<1>10. <<a, b>> \in Seq(Ops) /\ t = ApplyOp(ApplyOp(tree, a), b)
  BY <1>9, ApplyTwo
<1>11. /\ t.recs = tree.recs
       /\ \A q \in DocPaths : t.docs[q] = IF q = p THEN new ELSE tree.docs[q]
  <2>1. PICK u : u = ApplyOp(tree, a)
    OBVIOUS
  <2>2. /\ u \in Trees /\ u.recs = tree.recs
        /\ \A q \in DocPaths : u.docs[q] = IF q = p THEN new ELSE tree.docs[q]
    BY <1>1, <1>9, <2>1, RestOK, ApplyOpEffect
  <2>3. /\ ApplyOp(u, b).recs = u.recs
        /\ \A q \in DocPaths : ApplyOp(u, b).docs[q] = IF q = parent THEN tree.docs[parent] ELSE u.docs[q]
    BY <1>9, <2>2, ApplyOpEffect
  <2> QED
    BY <1>1, <1>10, <2>1, <2>2, <2>3 DEF Present
<1> HIDE DEF t
<1>12. Shaped(<<a, b>>)
  BY <1>9 DEF Shaped
<1>13. Handable(store, queue, <<a, b>>, expected)
  BY <1>1, <1>6, <1>17, <1>10, RestOK, ExpectingTyped DEF Handable
<1>14. ASSUME journal = NoJournal
       PROVE  Fitting(store, queue, <<a, b>>, expected)
  <2>1. /\ Change.saved # NoCheckpoint /\ Change.host = ix.host
        /\ Status(Change) = Status(ix)
        /\ Sound(tree.docs, Status(ix))
        /\ Fits(Change.saved, tree)
        /\ KeepsRegistry => Believes(Change, tree.recs)
        /\ Due(Change, stamps)
    BY <1>1, <1>14, RestOK
  <2>2. store.saved = Change.saved /\ store.host = Change.host
    BY <1>5 DEF Grew
  <2>3. KeepsRegistry => Believes(store, tree.recs)
    BY <1>5, <1>6, <2>1, GrewBelieves
  <2>4. Carries(t.docs, Status(store))
    <3> SUFFICES ASSUME NEW q \in Carried(t.docs)
                 PROVE  Status(store)[t.docs[q].id] = q
      BY DEF Carries
    <3>1. CASE q = p
      BY <1>8, <1>11, <3>1 DEF Carried
    <3>2. CASE q # p
      <4>1. q \in Carried(tree.docs) /\ t.docs[q] = tree.docs[q]
        BY <1>11, <3>2 DEF Carried
      <4>2. tree.docs[q].id \in Ids /\ Status(Change)[tree.docs[q].id] = q
        BY <1>1, <2>1, <4>1, RestOK DEF Sound, Carries
      <4>3. q # NoRecord
        BY SentinelsAreApart DEF DocPaths, Carried
      <4> QED
        BY <1>5, <4>1, <4>2, <4>3 DEF Grew
    <3> QED
      BY <3>1, <3>2
  <2>5. Names(t.docs, Status(store))
    <3> SUFFICES ASSUME NEW i \in Ids, Status(store)[i] \in Paths
                 PROVE  Status(store)[i] \in DocPaths /\ t.docs[Status(store)[i]] # NoDoc
      BY DEF Names
    <3>1. CASE Status(store)[i] \in ps
      BY <1>1, <1>8, <1>11, <3>1 DEF Present
    <3>2. CASE Status(store)[i] = Status(ix)[i]
      BY <1>8, <1>11, <2>1, <3>2 DEF Sound, Names
    <3> QED
      BY <1>5, <2>1, <3>1, <3>2 DEF Grew
  <2>6. Due(store, queue)
    BY <1>17, <2>1
  <2>7. \A q \in DocPaths : expected[q] \in {NoDoc, Unread}
    BY DEF Expecting
  <2> HIDE DEF expected
  <2> QED
    BY <1>11, <1>12, <2>1, <2>2, <2>3, <2>4, <2>5, <2>6, <2>7 DEF Fitting, Sound, Due, t
<1>15. Hand(store, queue, <<a, b>>, expected)
  BY <1>4, <1>16 DEF new, a, b
<1> QED
  BY <1>1, <1>13, <1>14, <1>15, HandOK

LEMMA AdoptOK ==
  ASSUME IInv, OnlyOthersWrite, NEW child \in DocPaths, NEW parent \in DocPaths,
         Adopt(child, parent)
  PROVE  IInv'
<1>1. /\ phase = "idle" /\ Present(parent) /\ Present(child) /\ "abandon" \notin Freedoms
  BY DEF Adopt, OnlyOthersWrite
<1> DEFINE ps == {parent, child}
           Queue(s) == stamps \o Earned(Change, s, parent) \o Earned(Change, s, child)
           a == WriteOp(child, tree.docs[child])
           b == WriteOp(parent, tree.docs[parent])
           t == ApplyOps(tree, <<a, b>>)
<1>0. ps \in SUBSET DocPaths
  OBVIOUS
<1>2. PICK up \in Authored(Change, parent, "up") : \E store \in Authored(up, child, "down") :
        Hand(store, Queue(store), <<a, b>>, NoExpectations)
  BY <1>1 DEF Adopt, Abandon
<1>3. PICK store \in Authored(up, child, "down") :
        Hand(store, Queue(store), <<a, b>>, NoExpectations)
  BY <1>2
<1>4. Grew(Change, store, ps) /\ StoreOK(Change)
  <2>1. StoreOK(Change) /\ ps \in SUBSET Paths
    BY <1>1, RestOK DEF DocPaths
  <2>2. Grew(Change, up, ps)
    BY <2>1, AuthoredGrew
  <2>3. Grew(up, store, ps)
    BY <2>1, <2>2, AuthoredGrew DEF Grew
  <2> QED
    BY <2>1, <2>2, <2>3, GrewTwice
<1>5. StoreOK(store)
  BY <1>4 DEF Grew
<1>6. stamps \in Seq(DocPaths \X Ids)
  BY <1>1, RestOK
<1>13. PICK queue : queue = Queue(store)
  OBVIOUS
<1>15. /\ queue \in Seq(DocPaths \X Ids)
       /\ Due(Change, stamps) => Due(store, queue)
  <2>1. queue \in Seq(DocPaths \X Ids) /\ (Due(store, stamps) => Due(store, queue))
    BY <1>5, <1>6, <1>13, QueueDue
  <2> HIDE DEF ps
  <2>2. Due(Change, stamps) => Due(store, stamps)
    BY <1>0, <1>4, <1>6, GrewQueue
  <2> QED
    BY <2>1, <2>2
<1>7. /\ a \in Ops /\ a.op = "write" /\ a.path = child /\ a.doc = tree.docs[child]
      /\ b \in Ops /\ b.op = "write" /\ b.path = parent /\ b.doc = tree.docs[parent]
  BY <1>1, RestOK DEF WriteOp, Ops, Present
<1> HIDE DEF a, b
<1>8. <<a, b>> \in Seq(Ops)
  BY <1>7, ApplyTwo
<1>9. t = tree
  <2>1. \A k \in DOMAIN <<a, b>> : <<a, b>>[k].op = "write"
                                   /\ <<a, b>>[k].doc = tree.docs[<<a, b>>[k].path]
    BY <1>7
  <2> QED
    BY <1>1, <1>8, <2>1, RestOK, RewritesChangeNothing
<1> HIDE DEF t
<1>10. Shaped(<<a, b>>)
  BY <1>7 DEF Shaped
<1>11. Handable(store, queue, <<a, b>>, NoExpectations)
  BY <1>1, <1>5, <1>15, <1>8, RestOK, ExpectingTyped DEF Handable
<1>12. ASSUME journal = NoJournal
       PROVE  Fitting(store, queue, <<a, b>>, NoExpectations)
  <2>1. /\ Change.saved # NoCheckpoint /\ Change.host = ix.host
        /\ Status(Change) = Status(ix)
        /\ Sound(tree.docs, Status(ix))
        /\ Fits(Change.saved, tree)
        /\ KeepsRegistry => Believes(Change, tree.recs)
        /\ Due(Change, stamps)
    BY <1>1, <1>12, RestOK
  <2>2. store.saved = Change.saved /\ store.host = Change.host
    BY <1>4 DEF Grew
  <2>3. KeepsRegistry => Believes(store, tree.recs)
    BY <1>4, <2>1, GrewBelieves
  <2>4. Sound(tree.docs, Status(store))
    <3>1. \A q \in ps : tree.docs[q] # NoDoc
      BY <1>1 DEF Present
    <3>2. \A q \in Carried(tree.docs) : tree.docs[q].id \in Ids
      BY <1>1, RestOK
    <3>3. Sound(tree.docs, Status(Change))
      BY <2>1
    <3> HIDE DEF ps
    <3> QED
      BY <1>0, <1>4, <3>1, <3>2, <3>3, GrewSound
  <2>5. Due(store, queue)
    BY <1>15, <2>1
  <2>6. \A q \in DocPaths : NoExpectations[q] = Unread
    BY DEF NoExpectations
  <2> QED
    BY <1>9, <1>10, <2>1, <2>2, <2>3, <2>4, <2>5, <2>6 DEF Fitting, Due, t
<1>14. Hand(store, queue, <<a, b>>, NoExpectations)
  BY <1>3, <1>13 DEF a, b
<1> QED
  BY <1>1, <1>11, <1>12, <1>14, HandOK

\* Registered or retired, an id is never unknown again.
LEMMA BelievesStill ==
  ASSUME NEW s, NEW t, NEW recs, Believes(s, recs), t.text = s.text, t.persisted = s.persisted,
         t.dirty, \A i \in Ids : Status(s)[i] # NoRecord => Status(t)[i] # NoRecord
  PROVE  Believes(t, recs)
  BY DEF Believes, Spells, Covers, Clean

LEMMA RenameDocOK ==
  ASSUME IInv, NEW from \in DocPaths, NEW to \in DocPaths, NEW inbound \in SUBSET DocPaths,
         RenameDoc(from, to, inbound)
  PROVE  IInv'
<1> DEFINE id == IdForPath(ix, from)
           moved == IF id = NoId THEN Change ELSE SetPath(Change, id, to)
           a == MoveOp(from, to)
           b == WriteOp(to, tree.docs[from])
           expected == Expecting({to}, inbound \cup {from})
<1>1. /\ phase = "idle" /\ Present(from) /\ ~Present(to) /\ from # to
      /\ \A p \in inbound : Present(p) /\ p # from
      /\ from \in Paths /\ to \in Paths
  BY DEF RenameDoc, Present, DocPaths
<1>2. PICK rewrites \in Rewrites(inbound) :
        Hand(moved, stamps, <<a, b>> \o rewrites, expected)
  BY DEF RenameDoc
<1> DEFINE t == ApplyOps(tree, <<a, b>>)
           set == <<a, b>> \o rewrites
<1>3. /\ a \in Ops /\ a.op = "move" /\ a.path = from /\ a.to = to
      /\ b \in Ops /\ b.op = "write" /\ b.path = to /\ b.doc = tree.docs[from]
  BY <1>1, RestOK DEF WriteOp, MoveOp, Ops, Present
<1> HIDE DEF a, b
<1>4. <<a, b>> \in Seq(Ops) /\ t = ApplyOp(ApplyOp(tree, a), b)
  BY <1>3, ApplyTwo
<1>5. /\ t.recs = tree.recs
      /\ \A q \in DocPaths : t.docs[q] = IF q = to THEN tree.docs[from]
                                         ELSE IF q = from THEN NoDoc ELSE tree.docs[q]
  <2>1. PICK u : u = ApplyOp(tree, a)
    OBVIOUS
  <2>2. /\ u \in Trees /\ u.recs = tree.recs
        /\ \A q \in DocPaths : u.docs[q] = IF q = from THEN NoDoc
                                           ELSE IF q = to THEN tree.docs[from] ELSE tree.docs[q]
    BY <1>1, <1>3, <2>1, RestOK, ApplyOpEffect
  <2>3. /\ ApplyOp(u, b).recs = u.recs
        /\ \A q \in DocPaths : ApplyOp(u, b).docs[q] = IF q = to THEN tree.docs[from] ELSE u.docs[q]
    BY <1>3, <2>2, ApplyOpEffect
  <2> QED
    BY <1>4, <2>1, <2>2, <2>3
<1>6. Shaped(<<a, b>>) /\ Renames(<<a, b>>, from)
  BY <1>3 DEF Shaped, Renames
<1>7. set \in Seq(Ops) /\ ApplyOps(tree, set) = t /\ Shaped(set) /\ Renames(set, from)
  <2>1. \A p \in inbound : Present(p) /\ t.docs[p] = tree.docs[p]
    BY <1>1, <1>5
  <2>2. tree \in Trees
    BY <1>1, RestOK
  <2> QED
    BY <1>4, <1>6, <2>1, <2>2, WithRewrites
<1> HIDE DEF t, set
<1>8. StoreOK(Change) /\ StoreOK(moved) /\ id \in Ids \cup {NoId}
  <2>1. StoreOK(Change) /\ StoreOK(ix)
    BY <1>1, RestOK
  <2>2. id \in Ids \cup {NoId}
    BY <1>1, <2>1, IdStatus
  <2> QED
    BY <1>1, <2>1, <2>2, RegisterOK DEF SetPath
<1>9. Handable(moved, stamps, set, expected)
  BY <1>1, <1>7, <1>8, RestOK, ExpectingTyped DEF Handable
<1>10. ASSUME journal = NoJournal
       PROVE  Fitting(moved, stamps, set, expected)
  <2>1. /\ Change.saved # NoCheckpoint /\ Change.host = ix.host
        /\ Status(Change) = Status(ix)
        /\ Sound(tree.docs, Status(ix))
        /\ Fits(Change.saved, tree)
        /\ KeepsRegistry => Believes(Change, tree.recs)
        /\ Due(Change, stamps)
        /\ stamps \in Seq(DocPaths \X Ids)
    BY <1>1, <1>10, RestOK
  <2>2. \A i \in Ids : id = i <=> Status(ix)[i] = from
    BY <1>1, RestOK, IdStatus
  <2>3. /\ moved.saved = Change.saved /\ moved.host = Change.host
        /\ moved.text = Change.text /\ moved.persisted = Change.persisted
        /\ id # NoId => moved.dirty
        /\ \A i \in Ids : Status(moved)[i] = IF i = id THEN to ELSE Status(ix)[i]
    <3>1. CASE id = NoId
      BY <2>1, <3>1, SentinelsAreApart
    <3>2. CASE id # NoId
      <4>1. \A i \in Ids : Status(ix)[i] # to
        BY <1>1, <2>1 DEF Sound, Names, Present
      <4>2. moved = Register(Change, id, to) /\ id \in Ids
        BY <1>8, <3>2 DEF SetPath
      <4>3. /\ Status(moved) = [i \in Ids |-> IF i = id THEN to
                                              ELSE IF Status(Change)[i] = to THEN Null
                                              ELSE Status(Change)[i]]
            /\ moved.saved = Change.saved /\ moved.host = Change.host
            /\ moved.text = Change.text /\ moved.persisted = Change.persisted
            /\ moved.dirty
        <5>1. StoreOK(Change) /\ to \in Paths
          BY <1>1, <1>8
        <5> HIDE DEF moved, id
        <5>2. PICK s : s = Change
          OBVIOUS
        <5>3. StoreOK(s) /\ moved = Register(s, id, to) /\ id \in Ids
          BY <4>2, <5>1, <5>2
        <5> QED
          BY <5>1, <5>2, <5>3, RegisterStatus
      <4> HIDE DEF moved, id
      <4> QED
        BY <2>1, <4>1, <4>2, <4>3
    <3> QED
      BY <3>1, <3>2
  <2> HIDE DEF id
  <2>4. KeepsRegistry => Believes(moved, tree.recs)
    <3>1. CASE id = NoId
      BY <2>1, <3>1
    <3>2. CASE id # NoId
      <4>1. to # NoRecord
        BY <1>1, SentinelsAreApart
      <4>2. \A i \in Ids : Status(Change)[i] # NoRecord => Status(moved)[i] # NoRecord
        BY <2>1, <2>3, <4>1
      <4> HIDE DEF moved
      <4> QED
        BY <2>1, <2>3, <3>2, <4>2, BelievesStill
    <3> QED
      BY <3>1, <3>2
  <2> HIDE DEF moved
  <2>5. Carries(t.docs, Status(moved))
    <3> SUFFICES ASSUME NEW q \in Carried(t.docs)
                 PROVE  Status(moved)[t.docs[q].id] = q
      BY DEF Carries
    <3>1. CASE q = to
      <4>1. t.docs[q] = tree.docs[from] /\ from \in Carried(tree.docs)
        BY <1>1, <1>5, <3>1 DEF Carried, Present
      <4>2. tree.docs[from].id \in Ids /\ Status(ix)[tree.docs[from].id] = from
        BY <1>1, <2>1, <4>1, RestOK DEF Sound, Carries
      <4> QED
        BY <2>2, <2>3, <3>1, <4>1, <4>2
    <3>2. CASE q # to
      <4>1. q # from /\ t.docs[q] = tree.docs[q] /\ q \in Carried(tree.docs)
        BY <1>5, <3>2 DEF Carried
      <4>2. tree.docs[q].id \in Ids /\ Status(ix)[tree.docs[q].id] = q
        BY <1>1, <2>1, <4>1, RestOK DEF Sound, Carries
      <4> QED
        BY <2>2, <2>3, <4>1, <4>2
    <3> QED
      BY <3>1, <3>2
  <2>6. Names(t.docs, Status(moved))
    <3> SUFFICES ASSUME NEW i \in Ids, Status(moved)[i] \in Paths
                 PROVE  Status(moved)[i] \in DocPaths /\ t.docs[Status(moved)[i]] # NoDoc
      BY DEF Names
    <3>1. CASE i = id
      BY <1>1, <1>5, <2>3, <3>1 DEF Present
    <3>2. CASE i # id
      <4>1. Status(moved)[i] = Status(ix)[i] /\ Status(ix)[i] # from
        BY <2>2, <2>3, <3>2
      <4>2. Status(ix)[i] \in DocPaths /\ tree.docs[Status(ix)[i]] # NoDoc
        BY <2>1, <4>1 DEF Sound, Names
      <4> QED
        BY <1>1, <1>5, <4>1, <4>2 DEF Present
    <3> QED
      BY <3>1, <3>2
  <2>7. \A k \in DOMAIN stamps :
          Renames(set, stamps[k][1]) \/ Status(moved)[stamps[k][2]] = stamps[k][1]
    <3> TAKE k \in DOMAIN stamps
    <3>1. stamps[k] \in DocPaths \X Ids
      BY <2>1, LenProperties
    <3>2. stamps[k][2] \in Ids /\ Status(ix)[stamps[k][2]] = stamps[k][1]
      BY <2>1, <3>1 DEF Due
    <3>3. CASE stamps[k][1] = from
      BY <1>7, <3>3
    <3>4. CASE stamps[k][1] # from
      BY <2>2, <2>3, <3>2, <3>4
    <3> QED
      BY <3>3, <3>4
  <2>8. ASSUME NEW p \in DocPaths, expected[p] \notin {NoDoc, Unread}
        PROVE  \E q \in DocPaths : t.docs[q] # NoDoc /\ expected[p].edits \subseteq t.docs[q].edits
    <3>1. p \in inbound \cup {from} /\ expected[p] = tree.docs[p]
      BY <1>1, <2>8, RestOK, ExpectingTyped
    <3>2. CASE p = from
      <4>1. t.docs[to] = tree.docs[p] /\ t.docs[to] # NoDoc
        BY <1>1, <1>5, <3>2 DEF Present
      <4> QED
        BY <3>1, <4>1
    <3>3. CASE p # from
      <4>1. t.docs[p] = tree.docs[p] /\ t.docs[p] # NoDoc
        BY <1>1, <1>5, <3>1, <3>3 DEF Present
      <4> QED
        BY <3>1, <4>1
    <3> QED
      BY <3>2, <3>3
  <2> HIDE DEF expected
  <2> QED
    BY <1>5, <1>7, <2>1, <2>3, <2>4, <2>5, <2>6, <2>7, <2>8 DEF Fitting, Sound
<1>11. Hand(moved, stamps, set, expected)
  BY <1>2 DEF set
<1> QED
  BY <1>1, <1>9, <1>10, <1>11, HandOK

LEMMA DeleteOK ==
  ASSUME IInv, OnlyOthersWrite, NEW p \in DocPaths, NEW parents \in SUBSET DocPaths,
         Delete(p, parents)
  PROVE  IInv'
<1> DEFINE id == IdForPath(ix, p)
           left == IF id = NoId THEN Change ELSE Unregister(Change, id)
           a == RemoveOp(p)
<1>1. /\ phase = "idle" /\ Present(p) /\ p \in Paths
      /\ \A q \in parents : Present(q) /\ q # p
      /\ \A k \in DOMAIN stamps : stamps[k][1] # p
  BY DEF Delete, OnlyOthersWrite, DocPaths
<1>2. PICK rewrites \in Rewrites(parents) : Hand(left, stamps, <<a>> \o rewrites, NoExpectations)
  BY DEF Delete
<1> DEFINE t == ApplyOps(tree, <<a>>)
           set == <<a>> \o rewrites
<1>3. a \in Ops /\ a.op = "remove" /\ a.path = p
  BY DEF RemoveOp, Ops
<1> HIDE DEF a
<1>4. <<a>> \in Seq(Ops) /\ t = ApplyOp(tree, a)
  BY <1>3, ApplyTwo
<1>5. /\ t.recs = tree.recs
      /\ \A q \in DocPaths : t.docs[q] = IF q = p THEN NoDoc ELSE tree.docs[q]
  BY <1>1, <1>3, <1>4, RestOK, ApplyOpEffect
<1>6. Shaped(<<a>>)
  BY <1>3 DEF Shaped
<1>7. set \in Seq(Ops) /\ ApplyOps(tree, set) = t /\ Shaped(set)
  <2>1. \A q \in parents : Present(q) /\ t.docs[q] = tree.docs[q]
    BY <1>1, <1>5
  <2>2. tree \in Trees
    BY <1>1, RestOK
  <2> QED
    BY <1>4, <1>6, <2>1, <2>2, WithRewrites
<1> HIDE DEF t, set
<1>8. StoreOK(Change) /\ StoreOK(left) /\ id \in Ids \cup {NoId}
  <2>1. StoreOK(Change) /\ StoreOK(ix)
    BY <1>1, RestOK
  <2>2. id \in Ids \cup {NoId}
    BY <1>1, <2>1, IdStatus
  <2> QED
    BY <2>1, <2>2, UnregisterOK
<1>9. Handable(left, stamps, set, NoExpectations)
  BY <1>1, <1>7, <1>8, RestOK, ExpectingTyped DEF Handable
<1>10. ASSUME journal = NoJournal
       PROVE  Fitting(left, stamps, set, NoExpectations)
  <2>1. /\ Change.saved # NoCheckpoint /\ Change.host = ix.host
        /\ Status(Change) = Status(ix)
        /\ Sound(tree.docs, Status(ix))
        /\ Fits(Change.saved, tree)
        /\ KeepsRegistry => Believes(Change, tree.recs)
        /\ Due(Change, stamps)
        /\ stamps \in Seq(DocPaths \X Ids)
        /\ Status(ix) \in RecordMaps
    BY <1>1, <1>10, RestOK, StatusOfStore
  <2>2. \A i \in Ids : id = i <=> Status(ix)[i] = p
    BY <1>1, RestOK, IdStatus
  <2>3. /\ left.saved = Change.saved /\ left.host = Change.host
        /\ left.text = Change.text /\ left.persisted = Change.persisted
        /\ id # NoId => left.dirty
        /\ \A i \in Ids : Status(left)[i] = IF i = id THEN Null ELSE Status(ix)[i]
    <3>1. CASE id = NoId
      BY <2>1, <3>1, SentinelsAreApart
    <3>2. CASE id # NoId
      <4>1. left = Unregister(Change, id) /\ id \in Ids
        BY <1>8, <3>2
      <4>2. /\ Status(left) = [Status(Change) EXCEPT ![id] = Null]
            /\ left.saved = Change.saved /\ left.host = Change.host
            /\ left.text = Change.text /\ left.persisted = Change.persisted
            /\ left.dirty
        BY <1>8, <4>1, UnregisterStatus
      <4> HIDE DEF left, id
      <4> QED
        BY <2>1, <4>1, <4>2 DEF RecordMaps
    <3> QED
      BY <3>1, <3>2
  <2> HIDE DEF id
  <2>4. KeepsRegistry => Believes(left, tree.recs)
    <3>1. CASE id = NoId
      BY <2>1, <3>1
    <3>2. CASE id # NoId
      <4>1. \A i \in Ids : Status(Change)[i] # NoRecord => Status(left)[i] # NoRecord
        BY <2>1, <2>3, SentinelsAreApart
      <4> HIDE DEF left
      <4> QED
        BY <2>1, <2>3, <3>2, <4>1, BelievesStill
    <3> QED
      BY <3>1, <3>2
  <2> HIDE DEF left
  <2>5. Carries(t.docs, Status(left))
    <3> SUFFICES ASSUME NEW q \in Carried(t.docs)
                 PROVE  Status(left)[t.docs[q].id] = q
      BY DEF Carries
    <3>1. q # p /\ t.docs[q] = tree.docs[q] /\ q \in Carried(tree.docs)
      BY <1>5 DEF Carried
    <3>2. tree.docs[q].id \in Ids /\ Status(ix)[tree.docs[q].id] = q
      BY <1>1, <2>1, <3>1, RestOK DEF Sound, Carries
    <3> QED
      BY <2>2, <2>3, <3>1, <3>2
  <2>6. Names(t.docs, Status(left))
    <3> SUFFICES ASSUME NEW i \in Ids, Status(left)[i] \in Paths
                 PROVE  Status(left)[i] \in DocPaths /\ t.docs[Status(left)[i]] # NoDoc
      BY DEF Names
    <3>1. Status(left)[i] = Status(ix)[i] /\ Status(ix)[i] # p
      BY <2>2, <2>3, SentinelsAreApart
    <3>2. Status(ix)[i] \in DocPaths /\ tree.docs[Status(ix)[i]] # NoDoc
      BY <2>1, <3>1 DEF Sound, Names
    <3> QED
      BY <1>5, <3>1, <3>2
  <2>7. \A k \in DOMAIN stamps : Status(left)[stamps[k][2]] = stamps[k][1]
    <3> TAKE k \in DOMAIN stamps
    <3>1. stamps[k] \in DocPaths \X Ids
      BY <2>1, LenProperties
    <3>2. stamps[k][2] \in Ids /\ Status(ix)[stamps[k][2]] = stamps[k][1] /\ stamps[k][1] # p
      BY <1>1, <2>1, <3>1 DEF Due
    <3> QED
      BY <2>2, <2>3, <3>2
  <2>8. \A q \in DocPaths : NoExpectations[q] = Unread
    BY DEF NoExpectations
  <2> QED
    BY <1>5, <1>7, <2>1, <2>3, <2>4, <2>5, <2>6, <2>7, <2>8 DEF Fitting, Sound
<1>11. Hand(left, stamps, set, NoExpectations)
  BY <1>2 DEF set
<1> QED
  BY <1>1, <1>9, <1>10, <1>11, HandOK

LEMMA RetitleOK ==
  ASSUME IInv, NEW p \in DocPaths, NEW inbound \in SUBSET DocPaths, Retitle(p, inbound)
  PROVE  IInv'
<1> DEFINE a == WriteOp(p, tree.docs[p])
           expected == Expecting({}, inbound \cup {p})
<1>1. /\ phase = "idle" /\ Present(p)
      /\ \A q \in inbound : Present(q)
  BY DEF Retitle
<1>2. PICK rewrites \in Rewrites(inbound) : Hand(Change, stamps, <<a>> \o rewrites, expected)
  BY DEF Retitle
<1> DEFINE set == <<a>> \o rewrites
<1>3. a \in Ops /\ a.op = "write" /\ a.path = p /\ a.doc = tree.docs[p]
  BY <1>1, RestOK DEF WriteOp, Ops, Present
<1> HIDE DEF a
<1>4. <<a>> \in Seq(Ops)
  BY <1>3, ApplyTwo
<1>5. ApplyOps(tree, <<a>>) = tree
  <2>1. \A k \in DOMAIN <<a>> : <<a>>[k].op = "write" /\ <<a>>[k].doc = tree.docs[<<a>>[k].path]
    BY <1>3
  <2> QED
    BY <1>1, <1>4, <2>1, RestOK, RewritesChangeNothing
<1>6. Shaped(<<a>>)
  BY <1>3 DEF Shaped
<1>7. set \in Seq(Ops) /\ ApplyOps(tree, set) = tree /\ Shaped(set)
  <2>1. \A q \in inbound : Present(q) /\ ApplyOps(tree, <<a>>).docs[q] = tree.docs[q]
    BY <1>1, <1>5
  <2>2. tree \in Trees
    BY <1>1, RestOK
  <2> QED
    BY <1>4, <1>5, <1>6, <2>1, <2>2, WithRewrites
<1> HIDE DEF set
<1>8. Handable(Change, stamps, set, expected)
  BY <1>1, <1>7, RestOK, ExpectingTyped DEF Handable
<1>9. ASSUME journal = NoJournal
      PROVE  Fitting(Change, stamps, set, expected)
  <2>1. /\ Change.saved # NoCheckpoint /\ Change.host = ix.host
        /\ Status(Change) = Status(ix)
        /\ Sound(tree.docs, Status(ix))
        /\ Fits(Change.saved, tree)
        /\ KeepsRegistry => Believes(Change, tree.recs)
        /\ Due(Change, stamps)
    BY <1>1, <1>9, RestOK
  <2>2. ASSUME NEW q \in DocPaths, expected[q] \notin {NoDoc, Unread}
        PROVE  tree.docs[q] # NoDoc /\ expected[q].edits \subseteq tree.docs[q].edits
    BY <1>1, <2>2, RestOK, ExpectingTyped DEF Present
  <2> HIDE DEF expected
  <2> QED
    BY <1>7, <2>1, <2>2 DEF Fitting, Due
<1>10. Hand(Change, stamps, set, expected)
  BY <1>2 DEF set
<1> QED
  BY <1>1, <1>8, <1>9, <1>10, HandOK

-----------------------------------------------------------------------------
(* The other steps of a session.                                           *)

\* Steps that leave the files, and what the records are taken to be.
LEMMA FilesStay ==
  ASSUME FilesOK, Healed' = Healed, Records' = Records, KeepsRegistry' = KeepsRegistry
  PROVE  FilesOK'
  BY DEF FilesOK

LEMMA RegisterDocOK ==
  ASSUME IInv, NEW p \in DocPaths, RegisterDoc(p)
  PROVE  IInv'
<1>1. /\ phase = "idle" /\ phase' = "idle" /\ Present(p) /\ policy' = policy /\ storage' = storage
      /\ ops' = ops /\ expects' = expects /\ tree' = tree /\ journal' = journal
  BY DEF RegisterDoc
<1>2. PICK store \in Registered(ix, p) : ix' = store /\ stamps' = stamps \o Earned(ix, store, p)
  BY DEF RegisterDoc
<1> DEFINE ps == {p}
<1>3. StoreOK(ix) /\ stamps \in Seq(DocPaths \X Ids) /\ ps \in SUBSET Paths /\ ps \in SUBSET DocPaths
  BY <1>1, RestOK DEF DocPaths
<1>4. Grew(ix, store, ps)
  BY <1>3, AuthoredGrew
<1>5. StoreOK(store)
  BY <1>4 DEF Grew
<1>6. stamps' \in Seq(DocPaths \X Ids) /\ (Due(store, stamps) => Due(store, stamps'))
  <2>1. PICK a : a = Earned(ix, store, p)
    OBVIOUS
  <2>2. a \in Seq(DocPaths \X Ids) /\ Due(store, a)
    BY <1>5, <2>1, EarnedDue
  <2> QED
    BY <1>2, <1>3, <2>1, <2>2, QueuesDue
<1>7. Typed'
  BY <1>1, <1>2, <1>5, <1>6 DEF IInv, Typed
<1>8. KeepsRegistry' = KeepsRegistry
  BY <1>1 DEF KeepsRegistry
<1>9. FilesOK'
  <2>1. Healed' = Healed
    BY <1>1 DEF Healed
  <2>2. Records' = Healed'.recs /\ Records = Healed.recs
    BY <1>1 DEF Records, HalfPersisted
  <2> QED
    BY <1>8, <2>1, <2>2, FilesStay DEF IInv
<1>10. ASSUME journal = NoJournal
       PROVE  SessionOK'
  <2>1. SessionOK /\ AtRest
    BY <1>1, <1>10 DEF IInv, SessionOK
  <2> HIDE DEF ps
  <2>2. Due(ix, stamps) => Due(store, stamps)
    BY <1>3, <1>4, GrewQueue
  <2>3. KeepsRegistry => Believes(store, tree.recs)
    BY <1>3, <1>4, <2>1, GrewBelieves DEF AtRest, Fits
  <2>4. Sound(tree.docs, Status(store))
    <3>1. \A q \in ps : tree.docs[q] # NoDoc
      BY <1>1 DEF Present, ps
    <3>2. \A q \in Carried(tree.docs) : tree.docs[q].id \in Ids
      BY <1>1, RestOK
    <3>3. Sound(tree.docs, Status(ix))
      BY <2>1 DEF AtRest, Fits
    <3> QED
      BY <1>3, <1>4, <3>1, <3>2, <3>3, GrewSound
  <2>5. store.saved = ix.saved /\ store.host = ix.host
    BY <1>4 DEF Grew
  <2>6. AtRest'
    BY <1>1, <1>2, <1>6, <1>8, <2>1, <2>2, <2>3, <2>4, <2>5 DEF AtRest, Fits
  <2> QED
    BY <1>1, <1>2, <1>8, <2>1, <2>5, <2>6 DEF SessionOK
<1> QED
  BY <1>1, <1>7, <1>9, <1>10 DEF IInv

\* The document a set has staged for a path has its type.
LEMMA LoadStagedTyped ==
  ASSUME tree \in Trees, NEW os \in Seq(Ops), NEW p \in DocPaths, LoadStaged(os, p) # NoDoc
  PROVE  LoadStaged(os, p) \in Docs
<1>1. CASE Writes(os, p) = {}
  BY <1>1 DEF LoadStaged, Trees
<1>2. CASE Writes(os, p) # {}
  <2>1. Len(os) \in Nat /\ Writes(os, p) \in SUBSET (1..Len(os))
    BY LenProperties DEF Writes
  <2>2. Max(Writes(os, p)) \in Writes(os, p)
    BY <1>2, <2>1, MaxOK
  <2>3. os[Max(Writes(os, p))] \in Ops /\ os[Max(Writes(os, p))].op = "write"
    BY <2>1, <2>2, ElementOfSeq DEF Writes
  <2>4. LoadStaged(os, p) = os[Max(Writes(os, p))].doc
    BY <1>2 DEF LoadStaged
  <2> QED
    BY <2>3, <2>4, OpKinds
<1> QED
  BY <1>1, <1>2

LEMMA StampedTyped ==
  ASSUME tree \in Trees, ops \in Seq(Ops), stamps \in Seq(DocPaths \X Ids)
  PROVE  Stamped(ops, stamps) \in Seq(Ops)
<1> DEFINE X == DocPaths \X Ids
           S == {c \in Seq(X) : Stamped(ops, c) \in Seq(Ops)}
<1>1. <<>> \in S
  BY StampNone, EmptySeq
<1>2. ASSUME NEW c \in S, NEW x \in X
      PROVE  Append(c, x) \in S
  <2>1. c \in Seq(X) /\ Append(c, x) \in Seq(X) /\ Stamped(ops, c) \in Seq(Ops)
    BY AppendProperties
  <2>2. Stamped(ops, Append(c, x)) = StampOps(Stamped(ops, c), x)
    BY <2>1, StampAppend
  <2>3. x[1] \in DocPaths /\ x[2] \in Ids
    OBVIOUS
  <2>4. PICK os : os = Stamped(ops, c)
    OBVIOUS
  <2>5. PICK doc : doc = LoadStaged(os, x[1])
    OBVIOUS
  <2>6. PICK o : o = WriteOp(x[1], [doc EXCEPT !.id = x[2]])
    OBVIOUS
  <2>7. StampOps(os, x) = IF Renames(os, x[1]) \/ doc = NoDoc THEN os
                          ELSE IF doc.id = x[2] THEN os ELSE Append(os, o)
    BY <2>5, <2>6 DEF StampOps
  <2>8. ASSUME doc # NoDoc
        PROVE  Append(os, o) \in Seq(Ops)
    <3>1. doc \in Docs
      BY <2>1, <2>3, <2>4, <2>5, <2>8, LoadStagedTyped
    <3>2. [doc EXCEPT !.id = x[2]] \in Docs
      BY <2>3, <3>1 DEF Docs
    <3>3. o \in Ops
      BY <2>3, <2>6, <3>2 DEF WriteOp, Ops
    <3> QED
      BY <2>1, <2>4, <3>3, AppendProperties
  <2>9. StampOps(os, x) \in Seq(Ops)
    BY <2>1, <2>4, <2>7, <2>8
  <2> QED
    BY <2>1, <2>2, <2>4, <2>9
<1>3. S = Seq(X)
  <2> HIDE DEF S
  <2>1. S \in SUBSET Seq(X)
    BY DEF S
  <2> QED
    BY <1>1, <1>2, <2>1, SeqSetInduction
<1> QED
  BY <1>3

\* What pending_write stages.
LEMMA RegistryOpTyped ==
  ASSUME NEW s, StoreOK(s), HasPendingWrite(s)
  PROVE  RegistryOp(Render(s).text) \in Ops
<1>1. StoreOK(PendingWrite(s)) /\ PendingWrite(s) = Render(s)
  BY PendingWriteOK DEF PendingWrite
<1>2. Render(s).text \in RecordMaps
  BY <1>1 DEF StoreOK, Stores
<1> QED
  BY <1>2 DEF RegistryOp, Ops

LEMMA StageOK ==
  ASSUME IInv, Stage
  PROVE  IInv'
<1>1. /\ phase = "built" /\ phase' = "staged" /\ policy' = policy /\ storage' = storage
      /\ ops' = WithRegistry(Stamped(ops, stamps)) /\ stamps' = <<>> /\ ix' = PendingWrite(ix)
      /\ expects' = expects /\ tree' = tree /\ journal' = journal
  BY DEF Stage
<1>2. /\ tree \in Trees /\ ops \in Seq(Ops) /\ stamps \in Seq(DocPaths \X Ids) /\ StoreOK(ix)
  BY DEF IInv, Typed
<1> DEFINE os == Stamped(ops, stamps)
           o == RegistryOp(Render(ix).text)
<1>3. os \in Seq(Ops)
  BY <1>2, StampedTyped
<1>4. HasPendingWrite(ix) => o \in Ops /\ Append(os, o) \in Seq(Ops)
  BY <1>2, <1>3, RegistryOpTyped, AppendProperties
<1>5. ops' = IF HasPendingWrite(ix) THEN Append(os, o) ELSE os
  BY <1>1 DEF WithRegistry
<1>6. StoreOK(PendingWrite(ix)) /\ PendingWrite(ix).host = ix.host
  BY <1>2, PendingWriteOK
<1>7. Typed'
  <2>1. ops' \in Seq(Ops)
    BY <1>3, <1>4, <1>5
  <2>2. stamps' \in Seq(DocPaths \X Ids)
    BY <1>1, EmptySeq
  <2> QED
    BY <1>1, <1>6, <2>1, <2>2 DEF IInv, Typed
<1>8. KeepsRegistry' = KeepsRegistry
  BY <1>1 DEF KeepsRegistry
<1>9. FilesOK'
  <2>1. Healed' = Healed
    BY <1>1 DEF Healed
  <2>2. Records' = Healed'.recs /\ Records = Healed.recs
    BY <1>1 DEF Records, HalfPersisted
  <2> QED
    BY <1>8, <2>1, <2>2, FilesStay DEF IInv
<1> DEFINE t == ApplyOps(tree, os)
<1>10. ASSUME journal = NoJournal
       PROVE  SessionOK'
  <2>1. SessionOK /\ Built
    BY <1>1, <1>10 DEF IInv, SessionOK
  <2>2. StampGood(os)
    BY <1>2, <2>1, StampedGood DEF Built, Building
  <2> HIDE DEF os
  <2>3. /\ t \in Trees /\ t.recs = tree.recs /\ Sound(t.docs, Status(ix)) /\ Shaped(os)
        /\ \A p \in DocPaths : Landed.docs[p] # NoDoc =>
             t.docs[p] # NoDoc /\ Landed.docs[p].edits \subseteq t.docs[p].edits
    BY <1>2, <1>3, <2>1, <2>2, ApplyTyped DEF StampGood, Built
  <2> HIDE DEF t
  <2>4. HasPendingWrite(ix) <=> KeepsRegistry /\ ix.dirty
    BY <2>1, RegPathIsAPath, SentinelsAreApart DEF SessionOK, HasPendingWrite
  <2>5. /\ Status(ix') = Status(ix) /\ ix'.saved = ix.saved /\ ix'.dirty = ix.dirty
        /\ KeepsRegistry => Spells(ix', Status(ix)) /\ Covers(ix', tree.recs)
    <3>1. CASE KeepsRegistry
      <4>1. ix.text = ix.persisted /\ Covers(ix, ix.persisted) /\ ix.text = tree.recs
        BY <2>1, <3>1 DEF Built, Believes, Spells
      <4>2. /\ Status(ix') = Status(ix) /\ ix'.saved = ix.saved /\ ix'.dirty = ix.dirty
            /\ ix'.text = ix'.persisted
            /\ HasPendingWrite(ix) => ix'.text = Status(ix)
        BY <1>1, <1>2, <4>1, PendingWriteStatus
      <4>3. ~HasPendingWrite(ix) => ix' = ix /\ Status(ix) = tree.recs
        BY <1>1, <2>1, <2>4, <3>1 DEF PendingWrite, Built, Believes, Clean
      <4>4. Covers(ix', tree.recs)
        BY <2>1, <3>1, <4>2 DEF Built, Believes, Covers
      <4> QED
        BY <4>1, <4>2, <4>3, <4>4 DEF Spells
    <3>2. CASE ~KeepsRegistry
      BY <1>1, <2>4, <3>2 DEF PendingWrite
    <3> QED
      BY <3>1, <3>2
  <2>6. /\ Landed'.docs = t.docs
        /\ Landed'.recs = IF HasPendingWrite(ix) THEN Status(ix) ELSE tree.recs
        /\ StagesRegistry' <=> HasPendingWrite(ix)
    <3>1. CASE HasPendingWrite(ix)
      <4>1. PICK x : x = o
        OBVIOUS
      <4>2. x \in Ops /\ x.op = "registry" /\ x.recs = Render(ix).text
        BY <1>4, <3>1, <4>1 DEF RegistryOp
      <4>3. Render(ix).text = Status(ix)
        <5>1. ix' = Render(ix) /\ KeepsRegistry
          BY <1>1, <2>4, <3>1 DEF PendingWrite
        <5> QED
          BY <2>5, <5>1 DEF Spells
      <4>4. ops' = Append(os, x)
        BY <1>5, <3>1, <4>1
      <4>5. Landed' = ApplyOp(t, x)
        BY <1>1, <1>3, <4>2, <4>4, ApplyAppend DEF Landed, t
      <4>6. Landed'.docs = t.docs /\ Landed'.recs = Status(ix)
        BY <2>3, <4>2, <4>3, <4>5, ApplyOpEffect
      <4>7. Len(os) + 1 \in DOMAIN ops' /\ ops'[Len(os) + 1] = x
        <5>1. Append(os, x) \in Seq(Ops) /\ Len(Append(os, x)) = Len(os) + 1 /\ Len(os) \in Nat
              /\ Append(os, x)[Len(os) + 1] = x
          BY <1>3, <4>2, AppendProperties, LenProperties
        <5>2. DOMAIN Append(os, x) = 1..(Len(os) + 1)
          BY <5>1, LenProperties
        <5> QED
          BY <4>4, <5>1, <5>2
      <4>8. StagesRegistry'
        BY <4>2, <4>7 DEF StagesRegistry
      <4> QED
        BY <3>1, <4>6, <4>8
    <3>2. CASE ~HasPendingWrite(ix)
      <4>1. ops' = os /\ Landed' = t
        BY <1>1, <1>5, <3>2 DEF Landed, t
      <4>2. ~StagesRegistry'
        BY <2>3, <4>1 DEF StagesRegistry, Shaped
      <4> QED
        BY <2>3, <3>2, <4>1, <4>2
    <3> QED
      BY <3>1, <3>2
  <2>7. EditsLand'
    <3> SUFFICES ASSUME NEW p \in DocPaths, expects[p] \notin {NoDoc, Unread}
                 PROVE  \E q \in DocPaths : /\ t.docs[q] # NoDoc
                                            /\ expects[p].edits \subseteq t.docs[q].edits
      BY <1>1, <2>6 DEF EditsLand
    <3>1. PICK q \in DocPaths : Landed.docs[q] # NoDoc /\ expects[p].edits \subseteq Landed.docs[q].edits
      BY <2>1 DEF Built, Building, EditsLand
    <3> QED
      BY <2>3, <3>1
  <2>8. Building'
    BY <1>1, <1>8, <2>1, <2>3, <2>5, <2>6, <2>7 DEF Built, Building, Fits
  <2>9. KeepsRegistry => Landed'.recs = Status(ix') /\ Clean(ix', tree.recs)
    BY <2>1, <2>4, <2>5, <2>6 DEF Built, Believes, Clean
  <2>10. Staged'
    BY <1>1, <1>8, <2>4, <2>5, <2>6, <2>8, <2>9 DEF Staged
  <2> QED
    BY <1>1, <1>6, <1>8, <2>1, <2>10 DEF SessionOK
<1> QED
  BY <1>1, <1>7, <1>9, <1>10 DEF IInv

-----------------------------------------------------------------------------
(* What becomes of a set.                                                  *)

\* A set that fails leaves the session where its checkpoint was.
LEMMA UndoFits ==
  ASSUME StoreOK(ix), ix.saved # NoCheckpoint, Fits(ix.saved, tree)
  PROVE  /\ StoreOK(Undo) /\ Undo.saved = NoCheckpoint /\ Undo.host = ix.host
         /\ Fits(Undo, tree)
  BY RollbackStore DEF Undo, Fits, Believes, Spells, Covers, Clean

LEMMA StageFailsOK ==
  ASSUME IInv, StageFails
  PROVE  IInv'
<1>1. /\ phase = "built" /\ phase' = "idle" /\ policy' = policy /\ storage' = storage
      /\ ops' = <<>> /\ stamps' = <<>> /\ ix' = Undo
      /\ expects' = NoExpectations /\ tree' = tree /\ journal' = journal
  BY DEF StageFails, Settle
<1>2. StoreOK(Undo)
  BY RollbackStore DEF IInv, Typed, Undo
<1>3. Typed'
  <2>1. ops' \in Seq(Ops) /\ stamps' \in Seq(DocPaths \X Ids)
    BY <1>1, EmptySeq
  <2> QED
    BY <1>1, <1>2, <2>1, ExpectingTyped DEF IInv, Typed
<1>4. KeepsRegistry' = KeepsRegistry
  BY <1>1 DEF KeepsRegistry
<1>5. FilesOK'
  <2>1. Healed' = Healed
    BY <1>1 DEF Healed
  <2>2. Records' = Healed'.recs /\ Records = Healed.recs
    BY <1>1 DEF Records, HalfPersisted
  <2> QED
    BY <1>4, <2>1, <2>2, FilesStay DEF IInv
<1>6. ASSUME journal = NoJournal
      PROVE  SessionOK'
  <2>1. SessionOK /\ Built
    BY <1>1, <1>6 DEF IInv, SessionOK
  <2>2. Undo.saved = NoCheckpoint /\ Undo.host = ix.host /\ Fits(Undo, tree)
    BY <2>1, UndoFits DEF IInv, Typed, Built, Building
  <2>3. AtRest'
    BY <1>1, <1>4, <2>2 DEF AtRest, Fits, Due
  <2> QED
    BY <1>1, <1>4, <2>1, <2>2, <2>3 DEF SessionOK
<1> QED
  BY <1>1, <1>3, <1>5, <1>6 DEF IInv

\* Refused, or failed and undone.
LEMMA SettledOK ==
  ASSUME IInv, Applying, Settle(AfterFailure), phase = "saving" => journal # NoJournal,
         UNCHANGED <<policy, storage, stamps, tree, journal>>
  PROVE  IInv'
<1>1. /\ phase \in {"staged", "stamping", "saving"} /\ phase' = "idle"
      /\ policy' = policy /\ storage' = storage
      /\ ops' = <<>> /\ stamps' = stamps /\ ix' = AfterFailure
      /\ expects' = NoExpectations /\ tree' = tree /\ journal' = journal
  BY DEF Settle, Applying
<1>2. StoreOK(AfterFailure)
  BY RollbackStore DEF IInv, Typed, Undo, AfterFailure
<1>3. Typed'
  <2>1. ops' \in Seq(Ops)
    BY <1>1, EmptySeq
  <2> QED
    BY <1>1, <1>2, <2>1, ExpectingTyped DEF IInv, Typed
<1>4. KeepsRegistry' = KeepsRegistry
  BY <1>1 DEF KeepsRegistry
<1>5. FilesOK'
  <2>1. Healed' = Healed
    BY <1>1 DEF Healed
  <2>2. Records' = Healed'.recs /\ Records = Healed.recs
    BY <1>1 DEF Records, HalfPersisted
  <2> QED
    BY <1>4, <2>1, <2>2, FilesStay DEF IInv
<1>6. ASSUME journal = NoJournal
      PROVE  SessionOK'
  <2>1. SessionOK
    BY <1>1, <1>6 DEF IInv
  <2>2. CASE phase = "staged"
    <3>1. Staged /\ ix' = Undo
      BY <1>1, <2>1, <2>2 DEF SessionOK, AfterFailure
    <3>2. Undo.saved = NoCheckpoint /\ Undo.host = ix.host /\ Fits(Undo, tree)
      BY <3>1, UndoFits DEF IInv, Typed, Staged, Building
    <3>3. AtRest'
      BY <1>1, <1>4, <3>1, <3>2 DEF AtRest, Fits, Due, Staged
    <3> QED
      BY <1>1, <1>4, <2>1, <3>1, <3>2, <3>3 DEF SessionOK
  <2>3. CASE phase = "stamping"
    <3>1. AtRest /\ ix' = ix
      BY <1>1, <2>1, <2>3 DEF SessionOK, Stamping, AfterFailure
    <3>2. AtRest'
      BY <1>1, <1>4, <3>1 DEF AtRest, Fits, Due
    <3> QED
      BY <1>1, <1>4, <2>1, <3>1, <3>2 DEF SessionOK
  <2> QED
    BY <1>1, <1>6, <2>2, <2>3
<1> QED
  BY <1>1, <1>3, <1>5, <1>6 DEF IInv

\* persist_identity expects nothing of the documents.
LEMMA NothingDrifts ==
  ASSUME IInv, phase \in {"stamping", "saving"}, journal = NoJournal
  PROVE  ~Refused
<1>1. expects = NoExpectations
  BY DEF IInv, SessionOK
<1> QED
  BY <1>1 DEF Refused, Drifted, NoExpectations

\* A registry half persisted does not stop there.
LEMMA GoesOn ==
  ASSUME IInv, OnlyOthersWrite, MayStopHere, journal = NoJournal
  PROVE  /\ phase # "saving"
         /\ phase \in {"stamping", "stamped"} => ~(KeepsRegistry /\ ix.dirty)
<1>1. ~HalfPersisted
  BY DEF MayStopHere, OnlyOthersWrite
<1>2. phase = "saving" => KeepsRegistry /\ ix.dirty
  BY DEF IInv, SessionOK, Saving
<1> QED
  BY <1>1, <1>2 DEF HalfPersisted

LEMMA ApplyRefusedOK ==
  ASSUME IInv, ApplyRefused
  PROVE  IInv'
<1>1. phase = "saving" => journal # NoJournal
  BY NothingDrifts DEF ApplyRefused
<1> QED
  BY <1>1, SettledOK DEF ApplyRefused

LEMMA ApplyFailsOK ==
  ASSUME IInv, OnlyOthersWrite, ApplyFails
  PROVE  IInv'
<1>1. phase # "saving"
  BY GoesOn DEF ApplyFails, Refused
<1> QED
  BY <1>1, SettledOK DEF ApplyFails

\* Documents that agree with a store say different things.
LEMMA CarriesSingle ==
  ASSUME NEW docs, NEW recs, Carries(docs, recs)
  PROVE  Single(docs)
  BY DEF Carries, Single

\* The files, once the set under way has landed.
LEMMA LandedFiles ==
  ASSUME IInv, journal = NoJournal, phase \in {"staged", "stamping"}
  PROVE  /\ Landed \in Trees
         /\ Single(Landed.docs)
         /\ Sound(Landed.docs, Status(ix))
         /\ KeepsRegistry => /\ Uncontested(Landed.recs)
                             /\ Names(Landed.docs, Landed.recs)
                             /\ ~(phase = "stamping" /\ ix.dirty) => Landed.recs = Status(ix)
<1>1. Landed \in Trees
  BY ApplyTyped DEF IInv, Typed, Landed
<1>2. SessionOK
  BY DEF IInv
<1>3. Sound(Landed.docs, Status(ix))
  BY <1>2 DEF SessionOK, Staged, Building, Stamping
<1>4. Single(Landed.docs)
  BY <1>3, CarriesSingle DEF Sound
<1>5. CASE phase = "staged"
  <2>1. KeepsRegistry => Landed.recs = Status(ix)
    BY <1>2, <1>5 DEF SessionOK, Staged
  <2>2. Uncontested(Status(ix))
    BY StatusOfStore DEF IInv, Typed
  <2> QED
    BY <1>1, <1>3, <1>4, <1>5, <2>1, <2>2 DEF Sound
<1>6. CASE phase = "stamping"
  <2>1. Stamping
    BY <1>2, <1>6 DEF SessionOK
  <2>2. KeepsRegistry => Uncontested(tree.recs)
    BY DEF IInv, FilesOK, Healed
  <2>3. KeepsRegistry /\ ~ix.dirty => Status(ix) = tree.recs
    BY <2>1 DEF Stamping, AtRest, Fits, Believes, Clean
  <2> QED
    BY <1>1, <1>3, <1>4, <1>6, <2>1, <2>2, <2>3 DEF Stamping
<1> QED
  BY <1>5, <1>6

\* commit settles the store.
LEMMA CommittedStore ==
  ASSUME NEW s, StoreOK(s), NEW b \in BOOLEAN
  PROVE  /\ StoreOK(Committed(s, b))
         /\ Status(Committed(s, b)) = Status(s)
         /\ Committed(s, b).saved = NoCheckpoint /\ Committed(s, b).host = s.host
         /\ Committed(s, b).text = s.text /\ Committed(s, b).persisted = s.persisted
  BY CommittedOK DEF Committed, Status, StoreOK, Stores

LEMMA ApplyLandsOK ==
  ASSUME IInv, ApplyLands
  PROVE  IInv'
<1>1. /\ phase \in {"staged", "stamping", "saving"}
      /\ phase' = IF phase = "stamping" THEN "stamped" ELSE "idle"
      /\ policy' = policy /\ storage' = storage /\ journal' = journal /\ journal = NoJournal
      /\ ops' = <<>> /\ stamps' = stamps /\ ix' = AfterLanding
      /\ expects' = NoExpectations /\ tree' = Landed
  BY DEF ApplyLands, Applying, Refused, Landed
<1>2. StoreOK(ix) /\ SessionOK /\ KeepsRegistry' = KeepsRegistry
  BY <1>1 DEF IInv, Typed, KeepsRegistry
<1>3. Landed \in Trees
  BY ApplyTyped DEF IInv, Typed, Landed
<1>4. StagesRegistry \in BOOLEAN
  BY DEF StagesRegistry
<1>5. /\ StoreOK(ix') /\ Status(ix') = Status(ix) /\ ix'.saved = NoCheckpoint /\ ix'.host = ix.host
      /\ ix'.text = ix.text /\ ix'.persisted = ix.persisted
      /\ phase = "stamping" => ix' = ix
  <2>1. CASE phase = "staged"
    BY <1>1, <1>2, <1>4, <2>1, CommittedStore DEF AfterLanding
  <2>2. CASE phase = "saving"
    BY <1>1, <1>2, <2>2, CommittedStore DEF AfterLanding
  <2>3. CASE phase = "stamping"
    BY <1>1, <1>2, <2>3 DEF AfterLanding, SessionOK, Stamping, AtRest
  <2> QED
    BY <1>1, <2>1, <2>2, <2>3
<1>6. Typed'
  <2>1. ops' \in Seq(Ops)
    BY <1>1, EmptySeq
  <2> QED
    BY <1>1, <1>3, <1>5, <2>1, ExpectingTyped DEF IInv, Typed
<1>7. Healed' = Landed
  BY <1>1 DEF Healed
<1>8. CASE phase = "staged"
  <2>1. Staged /\ phase' = "idle"
    BY <1>1, <1>2, <1>8 DEF SessionOK
  <2>2. /\ Single(Landed.docs) /\ Sound(Landed.docs, Status(ix))
        /\ KeepsRegistry => /\ Uncontested(Landed.recs)
                            /\ Names(Landed.docs, Landed.recs)
                            /\ Landed.recs = Status(ix)
    BY <1>1, <1>8, LandedFiles
  <2>3. Records' = Landed.recs
    BY <1>7, <2>1 DEF Records, HalfPersisted
  <2>4. FilesOK'
    BY <1>2, <1>7, <2>2, <2>3 DEF FilesOK, Sound
  <2>5. KeepsRegistry => Spells(ix, Status(ix))
    BY <2>1 DEF Staged
  <2>6. AtRest'
    BY <1>1, <1>2, <1>5, <2>1, <2>2, <2>5
    DEF AtRest, Fits, Believes, Spells, Covers, Clean, Due, Staged
  <2>7. SessionOK'
    BY <1>1, <1>2, <1>5, <2>1, <2>6 DEF SessionOK
  <2> QED
    BY <1>6, <2>1, <2>4, <2>7 DEF IInv
<1>9. CASE phase = "stamping"
  <2>1. Stamping /\ phase' = "stamped" /\ AtRest
    BY <1>1, <1>2, <1>9 DEF SessionOK, Stamping
  <2>2. /\ Single(Landed.docs) /\ Sound(Landed.docs, Status(ix)) /\ Landed.recs = tree.recs
        /\ KeepsRegistry => /\ Uncontested(Landed.recs)
                            /\ Names(Landed.docs, Landed.recs)
                            /\ ~ix.dirty => Landed.recs = Status(ix)
    BY <1>1, <1>9, <2>1, LandedFiles DEF Stamping
  <2>3. KeepsRegistry => Records' = Status(ix)
    <3>1. Records' = IF KeepsRegistry /\ ix.dirty THEN Status(ix) ELSE Landed.recs
      BY <1>1, <1>2, <1>5, <1>7, <1>9, <2>1, CurrentIsStatus DEF Records, HalfPersisted
    <3> QED
      BY <2>2, <3>1
  <2>4. FilesOK'
    BY <1>2, <1>7, <2>2, <2>3 DEF FilesOK, Sound
  <2>5. AtRest'
    BY <1>1, <1>2, <1>5, <1>9, <2>1, <2>2 DEF AtRest, Fits, Due
  <2>6. SessionOK'
    BY <1>1, <1>2, <1>5, <2>1, <2>5 DEF SessionOK
  <2> QED
    BY <1>6, <2>1, <2>4, <2>6 DEF IInv
<1>10. CASE phase = "saving"
  <2>1. Saving /\ phase' = "idle"
    BY <1>1, <1>2, <1>10 DEF SessionOK
  <2>2. Landed.docs = tree.docs /\ Landed.recs = Status(ix)
    <3>1. Status(ix) \in RecordMaps /\ tree \in Trees
      BY <1>2, StatusOfStore DEF IInv, Typed
    <3>2. PICK o : o = RegistryOp(Status(ix))
      OBVIOUS
    <3>3. o \in Ops /\ o.op = "registry" /\ o.recs = Status(ix)
      BY <3>1, <3>2 DEF RegistryOp, Ops
    <3>4. Landed = ApplyOp(tree, o)
      BY <2>1, <3>2, <3>3, ApplyTwo DEF Saving, Landed
    <3> QED
      BY <3>1, <3>3, <3>4, ApplyOpEffect
  <2>3. Sound(Landed.docs, Status(ix)) /\ Single(Landed.docs) /\ Uncontested(Status(ix))
    BY <1>2, <2>1, <2>2, CarriesSingle, StatusOfStore DEF Saving, Sound
  <2>4. Records' = Landed.recs
    BY <1>7, <2>1 DEF Records, HalfPersisted
  <2>5. FilesOK'
    BY <1>2, <1>7, <2>2, <2>3, <2>4 DEF FilesOK, Sound
  <2>6. AtRest'
    BY <1>1, <1>2, <1>5, <2>1, <2>2, <2>3
    DEF AtRest, Fits, Believes, Spells, Covers, Clean, Due, Saving
  <2>7. SessionOK'
    BY <1>1, <1>2, <1>5, <2>1, <2>6 DEF SessionOK
  <2> QED
    BY <1>6, <2>1, <2>5, <2>7 DEF IInv
<1> QED
  BY <1>1, <1>8, <1>9, <1>10

\* The set stops in its midst: recovery is bound to finish it.
LEMMA InterruptedOK ==
  ASSUME IInv, OnlyOthersWrite, NEW k \in 0..Len(ops), Interrupted(k), storage' = storage,
         phase' \in {"idle", "down"}
  PROVE  /\ tree' \in Trees /\ journal' \in Seq(Ops) /\ journal' # NoJournal
         /\ FilesOK'
<1>1. /\ phase \in {"staged", "stamping", "saving"} /\ journal = NoJournal /\ MayStopHere
      /\ Len(ops) > 1
      /\ tree' = ApplyOps(tree, SubSeq(ops, 1, k)) /\ journal' = SubSeq(ops, k + 1, Len(ops))
  BY DEF Interrupted, Applying, Refused
<1>2. tree \in Trees /\ ops \in Seq(Ops)
  BY DEF IInv, Typed
<1>3. /\ SubSeq(ops, 1, k) \in Seq(Ops) /\ journal' \in Seq(Ops)
      /\ ApplyOps(tree', journal') = Landed
  BY <1>1, <1>2, ApplyInParts DEF Landed
<1>4. journal' # NoJournal /\ tree' \in Trees
  BY <1>1, <1>2, <1>3, NoJournalIsNoSet, ApplyTyped
<1>5. Healed' = Landed
  BY <1>3, <1>4 DEF Healed
<1>6. Records' = Landed.recs
  BY <1>4, <1>5 DEF Records, HalfPersisted
<1>7. phase \in {"staged", "stamping"} /\ (KeepsRegistry => ~(phase = "stamping" /\ ix.dirty))
  BY <1>1, GoesOn
<1>8. /\ Single(Landed.docs) /\ Sound(Landed.docs, Status(ix))
      /\ KeepsRegistry => /\ Uncontested(Landed.recs)
                          /\ Names(Landed.docs, Landed.recs)
                          /\ Landed.recs = Status(ix)
  BY <1>1, <1>7, LandedFiles
<1>9. KeepsRegistry' = KeepsRegistry
  BY DEF KeepsRegistry
<1>10. FilesOK'
  BY <1>5, <1>6, <1>8, <1>9 DEF FilesOK, Sound
<1> QED
  BY <1>3, <1>4, <1>10

LEMMA ApplyTornOK ==
  ASSUME IInv, OnlyOthersWrite, NEW k \in 0..Len(ops), ApplyTorn(k)
  PROVE  IInv'
<1>1. /\ Interrupted(k) /\ policy' = policy /\ storage' = storage /\ stamps' = stamps
      /\ phase' = "idle" /\ ix' = AfterFailure /\ ops' = <<>> /\ expects' = NoExpectations
  BY DEF ApplyTorn, Settle
<1>2. tree' \in Trees /\ journal' \in Seq(Ops) /\ journal' # NoJournal /\ FilesOK'
  BY <1>1, InterruptedOK
<1>3. StoreOK(AfterFailure)
  BY RollbackStore DEF IInv, Typed, Undo, AfterFailure
<1>4. ops' \in Seq(Ops)
  BY <1>1, EmptySeq
<1>5. Typed'
  BY <1>1, <1>2, <1>3, <1>4, ExpectingTyped DEF IInv, Typed
<1> QED
  BY <1>1, <1>2, <1>5 DEF IInv

LEMMA CrashInApplyOK ==
  ASSUME IInv, OnlyOthersWrite, NEW k \in 0..Len(ops), CrashInApply(k)
  PROVE  IInv'
<1>1. /\ Interrupted(k) /\ policy' = policy /\ storage' = storage /\ stamps' = <<>>
      /\ phase' = "down" /\ ix' = EmptyStore /\ ops' = <<>> /\ expects' = NoExpectations
  BY DEF CrashInApply, Down
<1>2. tree' \in Trees /\ journal' \in Seq(Ops) /\ journal' # NoJournal /\ FilesOK'
  BY <1>1, InterruptedOK
<1>3. ops' \in Seq(Ops) /\ stamps' \in Seq(DocPaths \X Ids)
  BY <1>1, EmptySeq
<1>4. Typed'
  BY <1>1, <1>2, <1>3, EmptyStoreOK, ExpectingTyped DEF IInv, Typed
<1> QED
  BY <1>1, <1>2, <1>4 DEF IInv

LEMMA CrashOK ==
  ASSUME IInv, OnlyOthersWrite, Crash
  PROVE  IInv'
<1>1. /\ phase # "down" /\ MayStopHere
      /\ policy' = policy /\ storage' = storage /\ tree' = tree /\ journal' = journal
      /\ phase' = "down" /\ ix' = EmptyStore /\ ops' = <<>> /\ expects' = NoExpectations
      /\ stamps' = <<>>
  BY DEF Crash, Down
<1>2. ops' \in Seq(Ops) /\ stamps' \in Seq(DocPaths \X Ids)
  BY <1>1, EmptySeq
<1>3. Typed'
  BY <1>1, <1>2, EmptyStoreOK, ExpectingTyped DEF IInv, Typed
<1>4. FilesOK'
  <2>1. Healed' = Healed /\ KeepsRegistry' = KeepsRegistry
    BY <1>1 DEF Healed, KeepsRegistry
  <2>2. ~HalfPersisted /\ ~HalfPersisted'
    BY <1>1 DEF MayStopHere, OnlyOthersWrite, HalfPersisted
  <2>3. Records' = Healed'.recs /\ Records = Healed.recs
    BY <2>2 DEF Records
  <2> QED
    BY <2>1, <2>3, FilesStay DEF IInv
<1> QED
  BY <1>1, <1>3, <1>4 DEF IInv

-----------------------------------------------------------------------------
(* persist_identity.                                                       *)

\* A set the registry is not in.
Unregistered(os) == \A k \in DOMAIN os : os[k].op # "registry"

\* The documents of ps, written with their ids.
WithIds(ids, ps) == {WriteOp(p, [tree.docs[p] EXCEPT !.id = ids[p]]) : p \in ps}

\* stamp_ids gives documents their ids, and does nothing else.
LEMMA StampIdsLands ==
  ASSUME tree \in Trees, NEW ids \in [DocPaths -> Ids \cup {NoId}], NEW os,
         NEW ps \in SUBSET DocPaths, \A p \in ps : Present(p),
         os \in SetToSeqs(WithIds(ids, ps))
  PROVE  /\ os \in Seq(Ops) /\ Unregistered(os)
         /\ ApplyOps(tree, os).recs = tree.recs
         /\ \A q \in DocPaths : LET doc == ApplyOps(tree, os).docs[q]
                                IN \/ doc = tree.docs[q]
                                   \/ doc # NoDoc /\ tree.docs[q] # NoDoc /\ doc.id = ids[q]
<1> DEFINE New(p) == [tree.docs[p] EXCEPT !.id = ids[p]]
           W == {WriteOp(p, New(p)) : p \in ps}
           f == [p \in ps |-> WriteOp(p, New(p))]
           Fine(t) == /\ t.recs = tree.recs
                      /\ \A q \in DocPaths : \/ t.docs[q] = tree.docs[q]
                                             \/ /\ t.docs[q] # NoDoc /\ tree.docs[q] # NoDoc
                                                /\ t.docs[q].id = ids[q]
           S == {c \in Seq(W) : Fine(ApplyOps(tree, c))}
<1>1. ASSUME NEW p \in ps
      PROVE  /\ WriteOp(p, New(p)) \in Ops /\ WriteOp(p, New(p)).op = "write"
             /\ WriteOp(p, New(p)).path = p /\ WriteOp(p, New(p)).doc = New(p)
             /\ New(p) # NoDoc /\ New(p).id = ids[p] /\ tree.docs[p] # NoDoc
  <2>1. tree.docs[p] \in Docs /\ tree.docs[p] # NoDoc
    BY DEF Trees, Present
  <2>2. New(p) \in Docs /\ New(p).id = ids[p]
    BY <2>1 DEF Docs
  <2>3. New(p) # NoDoc
    BY <2>2, DocSentinels DEF Docs
  <2> HIDE DEF New
  <2> QED
    BY <2>1, <2>2, <2>3 DEF WriteOp, Ops
<1> HIDE DEF New
<1>2. W \in SUBSET Ops
  BY <1>1
<1>3. IsFiniteSet(W)
  <2>1. IsFiniteSet(ps)
    BY PathsAreFinite, FS_Subset DEF DocPaths
  <2>2. f \in Surjection(ps, W)
    BY DEF Surjection
  <2> HIDE DEF f, W
  <2> QED
    BY <2>1, <2>2, FS_Surjection
<1>4. os \in Seq(W) /\ Unregistered(os)
  <2>1. os \in SetToSeqs(W)
    BY DEF New, WithIds
  <2>2. \A x \in W : x.op # "registry"
    BY <1>1
  <2> HIDE DEF W
  <2>3. os \in Seq(W) /\ \A k \in DOMAIN os : os[k] \in W
    BY <1>3, <2>1, SomeOrder
  <2> QED
    BY <2>2, <2>3 DEF Unregistered
<1>5. \A c \in Seq(W) : c \in Seq(Ops)
  <2> HIDE DEF W
  <2> QED
    BY <1>2, SeqMonotonic
<1>6. <<>> \in S
  BY ApplyNone, EmptySeq
<1>7. ASSUME NEW c \in S, NEW x \in W
      PROVE  Append(c, x) \in S
  <2>1. PICK p \in ps : x = WriteOp(p, New(p))
    OBVIOUS
  <2>2. /\ x \in Ops /\ x.op = "write" /\ x.path = p /\ x.doc = New(p)
        /\ New(p) # NoDoc /\ New(p).id = ids[p] /\ tree.docs[p] # NoDoc
    BY <1>1, <2>1
  <2>3. c \in Seq(W) /\ Append(c, x) \in Seq(W)
    <3>1. c \in Seq(W)
      OBVIOUS
    <3> HIDE DEF W
    <3> QED
      BY <3>1, AppendProperties
  <2>4. PICK t : t = ApplyOps(tree, c)
    OBVIOUS
  <2>5. t \in Trees /\ ApplyOps(tree, Append(c, x)) = ApplyOp(t, x)
    <3> HIDE DEF W, S
    <3> QED
      BY <1>5, <2>2, <2>3, <2>4, ApplyTyped, ApplyAppend
  <2>6. /\ ApplyOp(t, x).recs = t.recs
        /\ \A q \in DocPaths : ApplyOp(t, x).docs[q] = IF q = p THEN New(p) ELSE t.docs[q]
    <3> HIDE DEF W, S
    <3> QED
      BY <2>2, <2>5, ApplyOpEffect
  <2>7. Fine(t)
    BY <2>4
  <2>8. Fine(ApplyOp(t, x))
    BY <2>2, <2>6, <2>7
  <2> QED
    BY <2>3, <2>5, <2>8
<1>8. S = Seq(W)
  <2>1. S \in SUBSET Seq(W)
    OBVIOUS
  <2> HIDE DEF S, W
  <2> QED
    BY <1>6, <1>7, <2>1, SeqSetInduction
<1>9. Fine(ApplyOps(tree, os))
  BY <1>4, <1>8
<1> QED
  BY <1>4, <1>5, <1>9

LEMMA StampIdsOK ==
  ASSUME IInv, StampIds
  PROVE  IInv'
<1> DEFINE ps == {q \in DocPaths : Unstamped(q)}
           ids == [q \in DocPaths |-> IdForPath(ix, q)]
           W == {WriteOp(p, [tree.docs[p] EXCEPT !.id = IdForPath(ix, p)]) : p \in ps}
<1>1. /\ phase = "idle" /\ StampsFrontmatter /\ phase' = "stamping"
      /\ policy' = policy /\ storage' = storage /\ ix' = ix /\ stamps' = stamps
      /\ expects' = expects /\ tree' = tree /\ journal' = journal
      /\ ops' \in SetToSeqs(W)
  BY DEF StampIds
<1>2. W = WithIds(ids, ps)
  BY DEF WithIds
<1>3. /\ ids \in [DocPaths -> Ids \cup {NoId}]
      /\ \A q \in DocPaths, i \in Ids : ids[q] = i <=> Status(ix)[i] = q
  BY <1>1, RestOK, IdStatus DEF DocPaths
<1>4. tree \in Trees /\ \A p \in ps : Present(p)
  BY <1>1, RestOK DEF Unstamped
<1>5. ps \in SUBSET DocPaths
  OBVIOUS
<1>6. ops' \in SetToSeqs(WithIds(ids, ps))
  BY <1>1, <1>2
<1> HIDE DEF W, ids, ps
<1>7. /\ ops' \in Seq(Ops)
      /\ Landed'.recs = tree.recs
      /\ \A q \in DocPaths : \/ Landed'.docs[q] = tree.docs[q]
                             \/ /\ Landed'.docs[q] # NoDoc /\ tree.docs[q] # NoDoc
                                /\ Landed'.docs[q].id = ids[q]
  <2>1. PICK os : os = ops'
    OBVIOUS
  <2>2. os \in SetToSeqs(WithIds(ids, ps))
    BY <1>6, <2>1
  <2>3. PICK t : t = ApplyOps(tree, os)
    OBVIOUS
  <2>4. /\ os \in Seq(Ops) /\ t.recs = tree.recs
        /\ \A q \in DocPaths : \/ t.docs[q] = tree.docs[q]
                               \/ t.docs[q] # NoDoc /\ tree.docs[q] # NoDoc /\ t.docs[q].id = ids[q]
    BY <1>3, <1>4, <1>5, <2>2, <2>3, StampIdsLands
  <2>5. Landed' = t
    BY <1>1, <2>1, <2>3 DEF Landed
  <2> QED
    BY <2>1, <2>4, <2>5
<1>8. Typed'
  BY <1>1, <1>7 DEF IInv, Typed
<1>9. KeepsRegistry' = KeepsRegistry /\ StampsFrontmatter' = StampsFrontmatter
  BY <1>1 DEF KeepsRegistry, StampsFrontmatter
<1>10. FilesOK'
  <2>1. Healed' = Healed
    BY <1>1 DEF Healed
  <2>2. Records' = Healed'.recs /\ Records = Healed.recs
    BY <1>1 DEF Records, HalfPersisted
  <2> QED
    BY <1>9, <2>1, <2>2, FilesStay DEF IInv
<1>11. ASSUME journal = NoJournal
       PROVE  SessionOK'
  <2>1. SessionOK /\ AtRest
    BY <1>1, <1>11 DEF IInv, SessionOK
  <2>2. Sound(tree.docs, Status(ix))
    BY <2>1 DEF AtRest, Fits
  <2>3. Carries(Landed'.docs, Status(ix))
    <3> SUFFICES ASSUME NEW q \in DocPaths, Landed'.docs[q] # NoDoc, Landed'.docs[q].id # NoId
                 PROVE  Status(ix)[Landed'.docs[q].id] = q
      BY DEF Carries, Carried
    <3>1. CASE Landed'.docs[q] = tree.docs[q]
      BY <2>2, <3>1 DEF Sound, Carries, Carried
    <3>2. CASE Landed'.docs[q].id = ids[q]
      <4>1. ids[q] \in Ids
        BY <1>3, <3>2
      <4> QED
        BY <1>3, <3>2, <4>1
    <3> QED
      BY <1>7, <3>1, <3>2
  <2>4. \A q \in DocPaths : tree.docs[q] # NoDoc => Landed'.docs[q] # NoDoc
    BY <1>7
  <2>5. Names(Landed'.docs, Status(ix))
    BY <2>2, <2>4 DEF Sound, Names
  <2>6. KeepsRegistry => Names(Landed'.docs, tree.recs)
    BY <1>11, <2>4 DEF IInv, FilesOK, Healed, Names
  <2>7. AtRest'
    BY <1>1, <1>9, <2>1 DEF AtRest, Fits
  <2>8. Stamping'
    BY <1>1, <1>7, <1>9, <2>3, <2>5, <2>6, <2>7 DEF Stamping, Sound
  <2> QED
    BY <1>1, <1>9, <2>1, <2>8 DEF SessionOK
<1> QED
  BY <1>1, <1>8, <1>10, <1>11 DEF IInv

LEMMA SaveIndexOK ==
  ASSUME IInv, SaveIndex
  PROVE  IInv'
<1> DEFINE store == SetHost(ix, RegPath, tree.recs, FALSE)
           o == RegistryOp(Render(store).text)
<1>1. /\ phase \in {"idle", "stamped"}
      /\ policy' = policy /\ storage' = storage /\ stamps' = stamps
      /\ expects' = expects /\ tree' = tree /\ journal' = journal
      /\ KeepsRegistry' = KeepsRegistry
      /\ Healed' = Healed
  BY DEF SaveIndex, KeepsRegistry, Healed
<1>2. StoreOK(ix) /\ tree \in Trees
  BY DEF IInv, Typed
<1>3. ASSUME journal = NoJournal
      PROVE  SessionOK /\ AtRest /\ ops = <<>> /\ expects = NoExpectations
  BY <1>1, <1>3 DEF IInv, SessionOK
<1>4. CASE KeepsRegistry /\ ix.dirty
  <2>1. phase' = "saving" /\ ix' = PendingWrite(store) /\ ops' = <<o>>
    BY <1>4 DEF SaveIndex
  <2>2. /\ StoreOK(store) /\ Status(store) = Status(ix) /\ store.saved = ix.saved
        /\ store.dirty = ix.dirty /\ store.host = RegPath
        /\ store.text = tree.recs /\ store.persisted = tree.recs
    <3>1. tree.recs \in RecordMaps
      BY <1>2 DEF Trees
    <3> QED
      BY <1>2, <3>1, RegPathIsAPath, SetHostOK DEF SetHost, StoreOK, Stores, Status
  <2> HIDE DEF store
  <2>3. HasPendingWrite(store)
    BY <1>4, <2>2, RegPathIsAPath, SentinelsAreApart DEF HasPendingWrite
  <2>4. o \in Ops /\ StoreOK(ix') /\ ix'.host = RegPath /\ ix' = Render(store)
    BY <2>1, <2>2, <2>3, RegistryOpTyped, PendingWriteOK DEF PendingWrite
  <2>5. Typed'
    <3> HIDE DEF o
    <3>1. ops' \in Seq(Ops)
      BY <2>1, <2>4, ApplyTwo
    <3> QED
      BY <1>1, <2>1, <2>4, <3>1 DEF IInv, Typed
  <2>6. CASE journal # NoJournal
    <3>1. Records' = Healed'.recs /\ Records = Healed.recs
      BY <1>1, <2>6 DEF Records, HalfPersisted
    <3> QED
      BY <1>1, <2>1, <2>5, <2>6, <3>1, FilesStay DEF IInv
  <2>7. CASE journal = NoJournal
    <3>1. /\ SessionOK /\ AtRest /\ ops = <<>> /\ expects = NoExpectations
          /\ Sound(tree.docs, Status(ix)) /\ Covers(ix, tree.recs)
      BY <1>3, <1>4, <2>7 DEF AtRest, Fits, Believes
    <3>2. /\ Status(ix') = Status(ix) /\ ix'.saved = ix.saved /\ ix'.dirty = ix.dirty
          /\ ix'.text = Status(ix) /\ ix'.persisted = Status(ix)
      <4>1. store.text = store.persisted /\ Covers(store, store.persisted)
        BY <2>2, <3>1 DEF Covers
      <4> QED
        BY <2>1, <2>2, <2>3, <4>1, PendingWriteStatus
    <3>3. ops' = <<RegistryOp(Status(ix'))>>
      BY <2>1, <2>4, <3>2
    <3>4. Due(ix', stamps') /\ Covers(ix', tree.recs) /\ Spells(ix', Status(ix'))
      BY <1>1, <3>1, <3>2 DEF AtRest, Due, Covers, Spells
    <3>5. Saving'
      BY <1>1, <1>4, <3>1, <3>2, <3>3, <3>4 DEF Saving, AtRest
    <3>6. SessionOK'
      BY <1>1, <1>4, <2>1, <2>4, <3>1, <3>5 DEF SessionOK
    <3>7. FilesOK'
      <4>1. Records' = Status(ix)
        BY <1>1, <1>4, <2>1, <2>7, <3>2, CurrentIsStatus DEF Records, HalfPersisted
      <4> QED
        BY <1>1, <2>7, <3>1, <4>1 DEF IInv, FilesOK, Healed, Sound
    <3> QED
      BY <2>1, <2>5, <3>6, <3>7 DEF IInv
  <2> QED
    BY <2>6, <2>7
<1>5. CASE ~(KeepsRegistry /\ ix.dirty)
  <2>1. phase' = "idle" /\ ix' = (IF KeepsRegistry THEN ix ELSE MarkClean(ix)) /\ ops' = ops
    BY <1>5 DEF SaveIndex
  <2>2. /\ StoreOK(ix') /\ Status(ix') = Status(ix) /\ ix'.saved = ix.saved /\ ix'.host = ix.host
    <3>1. /\ MarkClean(ix) \in Stores /\ MarkClean(ix).live = ix.live /\ MarkClean(ix).tomb = ix.tomb
          /\ MarkClean(ix).saved = ix.saved /\ MarkClean(ix).host = ix.host
      BY <1>2 DEF MarkClean, StoreOK, Stores
    <3>2. StoreOK(MarkClean(ix)) /\ Status(MarkClean(ix)) = Status(ix)
      BY <1>2, <3>1, SameRecordsOK DEF Status
    <3> QED
      BY <1>2, <2>1, <3>1, <3>2
  <2>3. Typed'
    BY <1>1, <2>1, <2>2 DEF IInv, Typed
  <2>4. FilesOK'
    <3>1. Records' = Healed'.recs /\ Records = Healed.recs
      BY <1>1, <1>5, <2>1 DEF Records, HalfPersisted
    <3> QED
      BY <1>1, <3>1, FilesStay DEF IInv
  <2>5. ASSUME journal = NoJournal
        PROVE  SessionOK'
    <3>1. SessionOK /\ AtRest /\ ops = <<>> /\ expects = NoExpectations
      BY <1>3, <2>5
    <3>2. KeepsRegistry => ix' = ix
      BY <2>1
    <3>3. AtRest'
      BY <1>1, <2>2, <3>1, <3>2 DEF AtRest, Fits, Due
    <3> QED
      BY <1>1, <2>1, <2>2, <3>1, <3>3 DEF SessionOK
  <2> QED
    BY <1>1, <2>1, <2>3, <2>4, <2>5 DEF IInv
<1> QED
  BY <1>4, <1>5

-----------------------------------------------------------------------------
(* Sessions, their owner, and other writers.                               *)

\* What scan_ids makes of the documents, and of those no two of which carry one id.
LEMMA ScannedOK ==
  ASSUME tree \in Trees, NEW s \in ScannedIndex(tree.docs)
  PROVE  /\ StoreOK(MarkClean(s))
         /\ MarkClean(s).saved = NoCheckpoint /\ MarkClean(s).host = NoPath
         /\ Single(tree.docs) => Sound(tree.docs, Status(MarkClean(s)))
<1> DEFINE docs == tree.docs
           Rev(at) == [p \in Paths |-> IF \E i \in Ids : at[i] = p THEN docs[p].id ELSE NoId]
           t == MarkClean(s)
<1>1. PICK at \in MetLast(docs) :
        s = [EmptyStore EXCEPT !.live = [fwd |-> at, rev |-> Rev(at)],
                               !.dirty = Carried(docs) # {}]
  BY DEF ScannedIndex
<1> DEFINE rev == Rev(at)
<1>2. /\ at \in [Ids -> DocPaths \cup {NoPath}]
      /\ \A i \in Ids : at[i] = NoPath \/ at[i] \in Carriers(docs, i)
      /\ \A i \in Ids : \A p \in Carriers(docs, i) : at[i] \in Carriers(docs, i)
  BY <1>1 DEF MetLast
<1>3. \A p \in Carried(docs) : docs[p].id \in Ids /\ p \in DocPaths /\ p \in Paths
  BY DEF Trees, Docs, Carried, DocPaths
<1>4. \A i \in Ids : \A p \in Carriers(docs, i) :
        p \in Carried(docs) /\ docs[p].id = i /\ docs[p] # NoDoc /\ p # NoPath
  BY <1>3, SentinelsAreApart DEF Carriers, Carried
<1>5. /\ t.live = [fwd |-> at, rev |-> rev] /\ t.tomb = {} /\ t.host = NoPath
      /\ t.saved = NoCheckpoint /\ t.dirty = FALSE /\ t.requote = FALSE
      /\ t.text = NoRecords /\ t.persisted = NoRecords
      /\ t = [live |-> [fwd |-> at, rev |-> rev], tomb |-> {}, host |-> NoPath, text |-> NoRecords,
              persisted |-> NoRecords, requote |-> FALSE, dirty |-> FALSE, saved |-> NoCheckpoint]
  <2>1. PICK live : live = [fwd |-> at, rev |-> rev]
    OBVIOUS
  <2>2. PICK some : some = (Carried(docs) # {})
    OBVIOUS
  <2>3. s = [EmptyStore EXCEPT !.live = live, !.dirty = some] /\ t = [s EXCEPT !.dirty = FALSE]
    BY <1>1, <2>1, <2>2 DEF MarkClean
  <2> HIDE DEF t, rev, docs
  <2>4. t = [live |-> live, tomb |-> {}, host |-> NoPath, text |-> NoRecords,
             persisted |-> NoRecords, requote |-> FALSE, dirty |-> FALSE, saved |-> NoCheckpoint]
    BY <2>3 DEF EmptyStore
  <2> QED
    BY <2>1, <2>4
<1>6. rev \in [Paths -> Ids \cup {NoId}]
  <2> SUFFICES ASSUME NEW p \in Paths, NEW i \in Ids, at[i] = p
               PROVE  docs[p].id \in Ids
    OBVIOUS
  <2>1. p \in Carriers(docs, i)
    BY <1>2, SentinelsAreApart
  <2> QED
    BY <1>4, <2>1
<1>7. \A i \in Ids, p \in Paths : at[i] = p <=> rev[p] = i
  <2> TAKE i \in Ids, p \in Paths
  <2>1. ASSUME at[i] = p
        PROVE  rev[p] = i
    <3>1. p \in Carriers(docs, i)
      BY <1>2, <2>1, SentinelsAreApart
    <3> QED
      BY <1>4, <2>1, <3>1
  <2>2. ASSUME rev[p] = i
        PROVE  at[i] = p
    <3>1. PICK j \in Ids : at[j] = p
      BY <2>2, SentinelsAreApart
    <3>2. rev[p] = docs[p].id /\ p \in Carriers(docs, j)
      BY <1>2, <3>1, SentinelsAreApart
    <3>3. i = j
      BY <1>4, <2>2, <3>2
    <3> QED
      BY <3>1, <3>3
  <2> QED
    BY <2>1, <2>2
<1>8. StoreOK(t)
  <2>1. at \in [Ids -> Paths \cup {NoPath}]
    BY <1>2 DEF DocPaths
  <2> HIDE DEF rev
  <2>2. PICK live : live = [fwd |-> at, rev |-> rev]
    OBVIOUS
  <2>3. live \in LiveMaps /\ IsBijection(live)
    BY <1>6, <1>7, <2>1, <2>2 DEF LiveMaps, IsBijection
  <2>4. t = [live |-> live, tomb |-> {}, host |-> NoPath, text |-> NoRecords,
              persisted |-> NoRecords, requote |-> FALSE, dirty |-> FALSE, saved |-> NoCheckpoint]
    BY <1>5, <2>2
  <2>5. NoRecords \in RecordMaps
    BY DEF NoRecords, RecordMaps
  <2> HIDE DEF t
  <2>6. t \in Stores
    BY <2>3, <2>4, <2>5 DEF Stores
  <2> QED
    BY <2>3, <2>4, <2>6 DEF StoreOK, RecordsOK
<1>9. \A i \in Ids : Status(t)[i] = IF at[i] = NoPath THEN NoRecord ELSE at[i]
  <2>1. t.live.fwd = at /\ t.tomb = {}
    BY <1>5
  <2> HIDE DEF t
  <2> QED
    BY <2>1 DEF Status, StatusOf
<1> HIDE DEF t, Rev
<1>10. ASSUME Single(docs)
       PROVE  Carries(docs, Status(t))
  <2> SUFFICES ASSUME NEW p \in Carried(docs)
               PROVE  Status(t)[docs[p].id] = p
    BY DEF Carries
  <2>1. docs[p].id \in Ids /\ p \in Carriers(docs, docs[p].id)
    BY <1>3 DEF Carriers
  <2>2. at[docs[p].id] \in Carriers(docs, docs[p].id)
    BY <1>2, <2>1
  <2>3. at[docs[p].id] = p
    BY <1>4, <1>10, <2>1, <2>2 DEF Single
  <2> QED
    BY <1>4, <1>9, <2>1, <2>3
<1>11. Names(docs, Status(t))
  <2> SUFFICES ASSUME NEW i \in Ids, Status(t)[i] \in Paths
               PROVE  Status(t)[i] \in DocPaths /\ docs[Status(t)[i]] # NoDoc
    BY DEF Names
  <2>1. at[i] # NoPath /\ Status(t)[i] = at[i]
    BY <1>9, SentinelsAreApart
  <2>2. at[i] \in Carriers(docs, i)
    BY <1>2, <2>1
  <2> QED
    BY <1>3, <1>4, <2>1, <2>2
<1> QED
  BY <1>5, <1>8, <1>10, <1>11 DEF Sound, t

\* A session opened on files that are well fits them.
LEMMA OpenedOK ==
  ASSUME tree \in Trees, Single(tree.docs),
         KeepsRegistry => Uncontested(tree.recs) /\ Sound(tree.docs, tree.recs),
         NEW s \in Opened(tree)
  PROVE  /\ StoreOK(s) /\ s.saved = NoCheckpoint
         /\ s.host = IF KeepsRegistry THEN RegPath ELSE NoPath
         /\ Fits(s, tree)
<1>1. CASE KeepsRegistry
  <2>1. s \in Parse(RegPath, tree.recs, FALSE) /\ tree.recs \in RecordMaps
    BY <1>1 DEF Opened, Trees
  <2>2. /\ StoreOK(s) /\ Status(s) = tree.recs /\ s.saved = NoCheckpoint /\ s.host = RegPath
        /\ s.text = tree.recs /\ s.persisted = tree.recs
    <3>1. PICK recs : recs = tree.recs
      OBVIOUS
    <3>2. recs \in RecordMaps /\ Uncontested(recs) /\ s \in Parse(RegPath, recs, FALSE)
      BY <1>1, <2>1, <3>1
    <3>3. StoreOK(s)
      BY <3>2, RegPathIsAPath, ParseOK
    <3>4. /\ Status(s) = recs /\ s.saved = NoCheckpoint /\ s.host = RegPath
          /\ ~s.dirty
          /\ s.text = recs /\ s.persisted = recs
      <4>1. PICK bare \in BOOLEAN : bare = FALSE
        OBVIOUS
      <4>2. s \in Parse(RegPath, recs, bare) /\ recs \in RecordMaps /\ Uncontested(recs)
        BY <3>2, <4>1
      <4> QED
        BY <4>2, RegPathIsAPath, ParseStatus
    <3> QED
      BY <3>1, <3>3, <3>4
  <2> QED
    BY <1>1, <2>2 DEF Fits, Believes, Spells, Covers, Clean
<1>2. CASE ~KeepsRegistry
  <2>1. PICK scanned \in ScannedIndex(tree.docs) : s = MarkClean(scanned)
    BY <1>2 DEF Opened
  <2>2. /\ StoreOK(s) /\ Sound(tree.docs, Status(s))
        /\ s.saved = NoCheckpoint /\ s.host = NoPath
    BY <2>1, ScannedOK
  <2> QED
    BY <1>2, <2>2 DEF Fits
<1> QED
  BY <1>1, <1>2

LEMMA OpenOK ==
  ASSUME IInv, Open
  PROVE  IInv'
<1>1. /\ phase = "down" /\ journal = NoJournal /\ phase' = "idle" /\ ix' \in Opened(tree)
      /\ policy' = policy /\ storage' = storage /\ stamps' = stamps /\ ops' = ops
      /\ expects' = expects /\ tree' = tree /\ journal' = journal
      /\ KeepsRegistry' = KeepsRegistry /\ Healed' = tree /\ Healed = tree
  BY DEF Open, KeepsRegistry, Healed
<1>2. Records' = tree.recs /\ Records = tree.recs
  BY <1>1 DEF Records, HalfPersisted
<1>3. ops = <<>> /\ expects = NoExpectations /\ stamps = <<>>
  BY <1>1 DEF IInv
<1>4. /\ tree \in Trees /\ Single(tree.docs)
      /\ KeepsRegistry => Uncontested(tree.recs) /\ Sound(tree.docs, tree.recs)
  BY <1>1, <1>2 DEF IInv, Typed, FilesOK, Sound
<1>5. /\ StoreOK(ix') /\ ix'.saved = NoCheckpoint
      /\ ix'.host = IF KeepsRegistry THEN RegPath ELSE NoPath
      /\ Fits(ix', tree)
  BY <1>1, <1>4, OpenedOK
<1>6. Typed'
  BY <1>1, <1>5 DEF IInv, Typed
<1>7. FilesOK'
  BY <1>1, <1>2, FilesStay DEF IInv
<1>8. AtRest'
  BY <1>1, <1>3, <1>5 DEF AtRest, Fits, Due
<1>9. SessionOK'
  BY <1>1, <1>3, <1>5, <1>8 DEF SessionOK
<1> QED
  BY <1>1, <1>6, <1>7, <1>9 DEF IInv

LEMMA RecoverOK ==
  ASSUME IInv, OnlyOthersWrite, Recover
  PROVE  IInv'
<1>1. /\ phase = "down" /\ journal # NoJournal /\ tree' = Healed /\ journal' = NoJournal
      /\ policy' = policy /\ storage' = storage /\ ix' = ix /\ stamps' = stamps /\ phase' = phase
      /\ ops' = ops /\ expects' = expects
      /\ KeepsRegistry' = KeepsRegistry
  BY DEF Recover, OnlyOthersWrite, KeepsRegistry
<1>2. Healed \in Trees
  BY ApplyTyped DEF IInv, Typed, Healed
<1>3. Typed'
  BY <1>1, <1>2 DEF IInv, Typed
<1>4. Healed' = Healed
  BY <1>1 DEF Healed
<1>5. Records' = Healed'.recs /\ Records = Healed.recs
  BY <1>1 DEF Records, HalfPersisted
<1>6. FilesOK'
  BY <1>1, <1>4, <1>5, FilesStay DEF IInv
<1> QED
  BY <1>1, <1>3, <1>6 DEF IInv

LEMMA MigrateOK ==
  ASSUME IInv, Migrate
  PROVE  IInv'
<1>1. /\ phase = "down" /\ journal = NoJournal /\ storage = "registry" /\ storage' = "both"
      /\ policy' = policy /\ ix' = ix /\ stamps' = stamps /\ phase' = phase
      /\ ops' = ops /\ expects' = expects /\ tree' = tree /\ journal' = journal
      /\ Healed' = Healed
  BY DEF Migrate, Healed
<1>2. KeepsRegistry' = KeepsRegistry
  BY <1>1 DEF KeepsRegistry
<1>3. Records' = Healed'.recs /\ Records = Healed.recs
  BY <1>1 DEF Records, HalfPersisted
<1>4. FilesOK'
  BY <1>1, <1>2, <1>3, FilesStay DEF IInv
<1>5. Typed'
  BY <1>1 DEF IInv, Typed
<1> QED
  BY <1>1, <1>4, <1>5 DEF IInv

LEMMA OtherSessionOK ==
  ASSUME IInv, OnlyOthersWrite, NEW p \in DocPaths, NEW i \in Ids, OtherSession(p, i)
  PROVE  IInv'
<1> DEFINE id == IF StampsFrontmatter THEN i ELSE NoId
           doc == [tree.docs[p] EXCEPT !.id = id]
<1>1. /\ phase = "down" /\ journal = NoJournal /\ KeepsRegistry
      /\ tree.docs[p] # NoDoc /\ tree.docs[p].id = NoId
      /\ tree.recs[i] = NoRecord /\ \A j \in Ids : tree.recs[j] # p
      /\ tree' = [tree EXCEPT !.docs[p].id = id, !.recs[i] = p]
      /\ policy' = policy /\ storage' = storage /\ ix' = ix /\ stamps' = stamps /\ phase' = phase
      /\ ops' = ops /\ expects' = expects /\ journal' = journal
      /\ KeepsRegistry' = KeepsRegistry
  BY DEF OtherSession, OnlyOthersWrite, KeepsRegistry, Present
<1>2. /\ tree \in Trees /\ tree.docs \in [DocPaths -> Docs \cup {NoDoc}] /\ tree.recs \in RecordMaps
      /\ tree = [docs |-> tree.docs, recs |-> tree.recs]
      /\ p \in Paths
  BY DEF IInv, Typed, Trees, DocPaths
<1>3. doc \in Docs /\ doc.id = id /\ doc # NoDoc /\ id \in {i, NoId}
  <2>1. tree.docs[p] \in Docs
    BY <1>1, <1>2
  <2>2. doc \in Docs /\ doc.id = id
    BY <2>1 DEF Docs
  <2> QED
    BY <2>2, DocSentinels DEF Docs
<1>4. /\ tree' \in Trees
      /\ \A q \in DocPaths : tree'.docs[q] = IF q = p THEN doc ELSE tree.docs[q]
      /\ \A j \in Ids : tree'.recs[j] = IF j = i THEN p ELSE tree.recs[j]
  <2>1. tree' = [docs |-> [tree.docs EXCEPT ![p] = doc], recs |-> [tree.recs EXCEPT ![i] = p]]
    BY <1>1, <1>2
  <2> HIDE DEF doc
  <2> QED
    BY <1>2, <1>3, <2>1 DEF Trees, RecordMaps
<1> HIDE DEF doc, id
<1>5. Typed'
  BY <1>1, <1>4 DEF IInv, Typed
<1>6. Healed = tree /\ Healed' = tree' /\ Records = tree.recs /\ Records' = tree'.recs
  BY <1>1 DEF Healed, Records, HalfPersisted
<1>7. Uncontested(tree.recs) /\ Names(tree.docs, tree.recs) /\ Carries(tree.docs, tree.recs)
  BY <1>1, <1>6 DEF IInv, FilesOK
<1>8. Carries(tree'.docs, tree'.recs)
  <2> SUFFICES ASSUME NEW q \in DocPaths, tree'.docs[q] # NoDoc, tree'.docs[q].id # NoId
               PROVE  tree'.recs[tree'.docs[q].id] = q
    BY DEF Carries, Carried
  <2>1. CASE q = p
    BY <1>3, <1>4, <2>1
  <2>2. CASE q # p
    <3>1. tree.docs[q].id \in Ids /\ tree.recs[tree.docs[q].id] = q
      BY <1>2, <1>4, <1>7, <2>2 DEF Carries, Carried, Docs
    <3>2. q # NoRecord
      BY SentinelsAreApart DEF DocPaths
    <3> QED
      BY <1>1, <1>4, <2>2, <3>1, <3>2
  <2> QED
    BY <2>1, <2>2
<1>9. Names(tree'.docs, tree'.recs)
  BY <1>3, <1>4, <1>7 DEF Names
<1>10. Uncontested(tree'.recs)
  BY <1>1, <1>4, <1>7 DEF Uncontested
<1>11. FilesOK'
  BY <1>6, <1>8, <1>9, <1>10, CarriesSingle DEF FilesOK
<1> QED
  BY <1>1, <1>5, <1>11 DEF IInv

\* Edits change nothing of what agrees.
LEMMA GrownAgrees ==
  ASSUME NEW t, NEW u, Grown(t, u)
  PROVE  /\ \A recs : Carries(t.docs, recs) => Carries(u.docs, recs)
         /\ \A recs : Names(t.docs, recs) => Names(u.docs, recs)
         /\ \A recs : Sound(t.docs, recs) => Sound(u.docs, recs)
         /\ Single(t.docs) => Single(u.docs)
         /\ \A s : Fits(s, t) => Fits(s, u)
         /\ u.recs = t.recs
<1>1. Carried(u.docs) = Carried(t.docs) /\ \A p \in Carried(t.docs) : u.docs[p].id = t.docs[p].id
  BY DEF Grown, Carried
<1>2. \A p \in DocPaths : t.docs[p] # NoDoc <=> u.docs[p] # NoDoc
  BY DEF Grown
<1>3. u.recs = t.recs
  BY DEF Grown
<1>4. ASSUME NEW recs
      PROVE  /\ Carries(t.docs, recs) => Carries(u.docs, recs)
             /\ Names(t.docs, recs) => Names(u.docs, recs)
  BY <1>1, <1>2 DEF Carries, Names
<1>5. \A recs : Sound(t.docs, recs) => Sound(u.docs, recs)
  BY <1>4 DEF Sound
<1>6. Single(t.docs) => Single(u.docs)
  BY <1>1 DEF Single
<1>7. \A s : Fits(s, t) => Fits(s, u)
  BY <1>3, <1>5 DEF Fits
<1> QED
  BY <1>3, <1>4, <1>5, <1>6, <1>7

LEMMA ExternalEditOK ==
  ASSUME IInv, NEW p \in DocPaths, NEW e \in Edits, ExternalEdit(p, e)
  PROVE  IInv'
<1>1. /\ journal = NoJournal /\ tree.docs[p] # NoDoc
      /\ tree' = [tree EXCEPT !.docs[p].edits = @ \cup {e}]
      /\ policy' = policy /\ storage' = storage /\ ix' = ix /\ stamps' = stamps /\ phase' = phase
      /\ ops' = ops /\ expects' = expects /\ journal' = journal
      /\ KeepsRegistry' = KeepsRegistry /\ StampsFrontmatter' = StampsFrontmatter
  BY DEF ExternalEdit, KeepsRegistry, StampsFrontmatter, Present
<1>2. tree \in Trees /\ ops \in Seq(Ops)
  BY DEF IInv, Typed
<1> DEFINE doc == [tree.docs[p] EXCEPT !.edits = @ \cup {e}]
<1>3. /\ doc \in Docs /\ doc.id = tree.docs[p].id /\ tree.docs[p].edits \subseteq doc.edits
      /\ doc # NoDoc
  <2>1. tree.docs[p] \in Docs
    BY <1>1, <1>2 DEF Trees
  <2>2. doc \in Docs /\ doc.id = tree.docs[p].id /\ doc.edits = tree.docs[p].edits \cup {e}
    BY <2>1 DEF Docs
  <2>3. doc # NoDoc
    BY <2>2, DocSentinels DEF Docs
  <2> HIDE DEF doc
  <2> QED
    BY <2>2, <2>3
<1>4. tree' \in Trees /\ Grown(tree, tree')
  <2>1. tree' = [docs |-> [tree.docs EXCEPT ![p] = doc], recs |-> tree.recs]
    BY <1>1, <1>2 DEF Trees
  <2> HIDE DEF doc
  <2>2. tree' \in Trees
    BY <1>2, <1>3, <2>1 DEF Trees
  <2>3. \A q \in DocPaths : tree'.docs[q] = IF q = p THEN doc ELSE tree.docs[q]
    BY <1>2, <2>1 DEF Trees
  <2>4. Grown(tree, tree')
    BY <1>1, <1>3, <2>1, <2>3 DEF Grown
  <2> QED
    BY <2>2, <2>4
<1>5. Typed'
  BY <1>1, <1>4 DEF IInv, Typed
<1>6. /\ Single(tree.docs) => Single(tree'.docs)
      /\ \A recs : Carries(tree.docs, recs) => Carries(tree'.docs, recs)
      /\ \A recs : Names(tree.docs, recs) => Names(tree'.docs, recs)
      /\ \A recs : Sound(tree.docs, recs) => Sound(tree'.docs, recs)
      /\ \A s : Fits(s, tree) => Fits(s, tree')
      /\ tree'.recs = tree.recs
  <2>1. PICK u : u = tree'
    OBVIOUS
  <2>2. Grown(tree, u)
    BY <1>4, <2>1
  <2> QED
    BY <2>1, <2>2, GrownAgrees
<1>7. FilesOK'
  <2>1. Healed = tree /\ Healed' = tree'
    BY <1>1 DEF Healed
  <2>2. Records' = Records
    BY <1>1, <1>6, <2>1 DEF Records, HalfPersisted
  <2> QED
    BY <1>1, <1>6, <2>1, <2>2 DEF IInv, FilesOK
<1>8. ASSUME phase # "down"
      PROVE  SessionOK'
  <2>1. SessionOK
    BY <1>1, <1>8 DEF IInv
  <2>2. PICK v : v = Landed'
    OBVIOUS
  <2>3. Grown(Landed, v)
    <3>1. PICK u : u = tree'
      OBVIOUS
    <3>2. u \in Trees /\ Grown(tree, u)
      BY <1>4, <3>1
    <3>3. v = ApplyOps(u, ops)
      BY <1>1, <2>2, <3>1 DEF Landed
    <3> QED
      BY <1>2, <3>2, <3>3, ApplyGrows DEF Landed
  <2>4. /\ \A recs : Names(Landed.docs, recs) => Names(Landed'.docs, recs)
        /\ \A recs : Sound(Landed.docs, recs) => Sound(Landed'.docs, recs)
        /\ Landed'.recs = Landed.recs
    BY <2>2, <2>3, GrownAgrees
  <2>5. \A q \in DocPaths : Landed.docs[q] # NoDoc =>
          Landed'.docs[q] # NoDoc /\ Landed.docs[q].edits \subseteq Landed'.docs[q].edits
    BY <2>2, <2>3 DEF Grown
  <2>6. AtRest => AtRest'
    BY <1>1, <1>6 DEF AtRest, Fits, Due
  <2>7. EditsLand => EditsLand'
    <3> SUFFICES ASSUME EditsLand, NEW q \in DocPaths, expects[q] \notin {NoDoc, Unread}
                 PROVE  \E r \in DocPaths : /\ Landed'.docs[r] # NoDoc
                                            /\ expects[q].edits \subseteq Landed'.docs[r].edits
      BY <1>1 DEF EditsLand
    <3>1. PICK r \in DocPaths : Landed.docs[r] # NoDoc /\ expects[q].edits \subseteq Landed.docs[r].edits
      BY DEF EditsLand
    <3> QED
      BY <2>5, <3>1
  <2>8. Building => Building'
    BY <1>1, <1>6, <2>4, <2>7 DEF Building, Fits
  <2>9. Built => Built'
    BY <1>1, <1>6, <2>4, <2>8 DEF Built, StampsDue
  <2>10. Staged => Staged'
    BY <1>1, <1>6, <2>4, <2>8 DEF Staged, StagesRegistry
  <2>11. Stamping => Stamping'
    BY <1>1, <1>6, <2>4, <2>6 DEF Stamping
  <2>12. Saving => Saving'
    BY <1>1, <1>6 DEF Saving, Due
  <2> QED
    BY <1>1, <2>1, <2>6, <2>9, <2>10, <2>11, <2>12 DEF SessionOK
<1> QED
  BY <1>1, <1>5, <1>7, <1>8 DEF IInv

LEMMA StutterOK ==
  ASSUME IInv, UNCHANGED vars
  PROVE  IInv'
<1>1. /\ policy' = policy /\ storage' = storage /\ ix' = ix /\ stamps' = stamps /\ phase' = phase
      /\ ops' = ops /\ expects' = expects /\ tree' = tree /\ journal' = journal
      /\ KeepsRegistry' = KeepsRegistry /\ StampsFrontmatter' = StampsFrontmatter
      /\ Healed' = Healed /\ Landed' = Landed
  BY DEF vars, KeepsRegistry, StampsFrontmatter, Healed, Landed
<1>2. Typed'
  BY <1>1 DEF IInv, Typed
<1>3. FilesOK'
  BY <1>1, FilesStay DEF IInv, Records, HalfPersisted
<1>4. AtRest' = AtRest /\ Building' = Building
  BY <1>1 DEF AtRest, Building, EditsLand, Fits
<1>5. SessionOK => SessionOK'
  <2>1. Built => Built'
    BY <1>1, <1>4 DEF Built, StampsDue
  <2>2. Staged => Staged'
    BY <1>1, <1>4 DEF Staged, StagesRegistry
  <2>3. Stamping => Stamping'
    BY <1>1, <1>4 DEF Stamping
  <2>4. Saving => Saving'
    BY <1>1 DEF Saving
  <2> QED
    BY <1>1, <1>4, <2>1, <2>2, <2>3, <2>4 DEF SessionOK
<1> QED
  BY <1>1, <1>2, <1>3, <1>5 DEF IInv

LEMMA InitOK ==
  ASSUME Init
  PROVE  IInv
<1>1. /\ policy \in Policies /\ storage \in Storages /\ ix \in Opened(tree) /\ stamps = <<>>
      /\ phase = "idle" /\ ops = <<>> /\ expects = NoExpectations /\ journal = NoJournal
  BY DEF Init
<1>2. PICK present \in SUBSET DocPaths :
        tree = [docs |-> [p \in DocPaths |-> IF p \in present
                                             THEN [id |-> NoId, edits |-> {}] ELSE NoDoc],
                recs |-> NoRecords]
  BY DEF Init
<1>3. /\ tree \in Trees
      /\ Carried(tree.docs) = {}
      /\ \A i \in Ids : tree.recs[i] = NoRecord
  BY <1>2 DEF Trees, Docs, Carried, NoRecords, RecordMaps
<1>4. /\ Single(tree.docs) /\ Uncontested(tree.recs) /\ Sound(tree.docs, tree.recs)
      /\ Names(tree.docs, tree.recs) /\ Carries(tree.docs, tree.recs)
  BY <1>3, SentinelsAreApart DEF Single, Uncontested, Sound, Carries, Names
<1>5. /\ StoreOK(ix) /\ ix.saved = NoCheckpoint
      /\ ix.host = IF KeepsRegistry THEN RegPath ELSE NoPath
      /\ Fits(ix, tree)
  BY <1>1, <1>3, <1>4, OpenedOK
<1>6. Typed
  <2>1. ops \in Seq(Ops) /\ stamps \in Seq(DocPaths \X Ids)
    BY <1>1, EmptySeq
  <2> QED
    BY <1>1, <1>3, <1>5, <2>1, StorageNames, ExpectingTyped DEF Typed
<1>7. FilesOK
  <2>1. Healed = tree
    BY <1>1 DEF Healed
  <2>2. Records = tree.recs
    BY <1>1, <2>1 DEF Records, HalfPersisted
  <2> QED
    BY <1>4, <2>1, <2>2 DEF FilesOK
<1>8. AtRest
  BY <1>1, <1>5 DEF AtRest, Due
<1>9. SessionOK
  BY <1>1, <1>5, <1>8 DEF SessionOK
<1> QED
  BY <1>1, <1>6, <1>7, <1>9 DEF IInv

-----------------------------------------------------------------------------
(* The invariant, and what follows from it.                                *)

LEMMA NextOK ==
  ASSUME IInv, OnlyOthersWrite, [Next]_vars
  PROVE  IInv'
<1>1. ASSUME NEW p \in DocPaths, RegisterDoc(p)
      PROVE  IInv'
  BY <1>1, RegisterDocOK
<1>2. ASSUME NEW p \in DocPaths, NEW parent \in DocPaths, Create(p, parent)
      PROVE  IInv'
  BY <1>2, CreateOK
<1>3. ASSUME NEW p \in DocPaths, NEW parent \in DocPaths, Adopt(p, parent)
      PROVE  IInv'
  BY <1>3, AdoptOK
<1>4. ASSUME NEW p \in DocPaths, NEW others \in SUBSET DocPaths, NEW to \in DocPaths,
             RenameDoc(p, to, others)
      PROVE  IInv'
  BY <1>4, RenameDocOK
<1>5. ASSUME NEW p \in DocPaths, NEW others \in SUBSET DocPaths, Delete(p, others)
      PROVE  IInv'
  BY <1>5, DeleteOK
<1>6. ASSUME NEW p \in DocPaths, NEW others \in SUBSET DocPaths, Retitle(p, others)
      PROVE  IInv'
  BY <1>6, RetitleOK
<1>7. CASE Stage
  BY <1>7, StageOK
<1>8. CASE StageFails
  BY <1>8, StageFailsOK
<1>9. CASE ApplyRefused
  BY <1>9, ApplyRefusedOK
<1>10. CASE ApplyLands
  BY <1>10, ApplyLandsOK
<1>11. CASE ApplyFails
  BY <1>11, ApplyFailsOK
<1>12. ASSUME NEW k \in 0..Len(ops), ApplyTorn(k)
       PROVE  IInv'
  BY <1>12, ApplyTornOK
<1>13. ASSUME NEW k \in 0..Len(ops), CrashInApply(k)
       PROVE  IInv'
  BY <1>13, CrashInApplyOK
<1>14. CASE StampIds
  BY <1>14, StampIdsOK
<1>15. CASE SaveIndex
  BY <1>15, SaveIndexOK
<1>16. CASE Crash
  BY <1>16, CrashOK
<1>17. CASE Recover
  BY <1>17, RecoverOK
<1>18. CASE Open
  BY <1>18, OpenOK
<1>19. CASE Migrate
  BY <1>19, MigrateOK
<1>20. ASSUME NEW p \in DocPaths, NEW i \in Ids, OtherSession(p, i)
       PROVE  IInv'
  BY <1>20, OtherSessionOK
<1>21. ASSUME NEW p \in DocPaths, NEW e \in Edits, ExternalEdit(p, e)
       PROVE  IInv'
  BY <1>21, ExternalEditOK
<1>22. CASE UNCHANGED vars
  BY <1>22, StutterOK
<1> QED
  BY <1>1, <1>2, <1>3, <1>4, <1>5, <1>6, <1>7, <1>8, <1>9, <1>10, <1>11, <1>12, <1>13, <1>14,
     <1>15, <1>16, <1>17, <1>18, <1>19, <1>20, <1>21, <1>22 DEF Next

-----------------------------------------------------------------------------
(* What may happen besides: the two action properties, of what no freedom   *)
(* breaks them.                                                             *)

\* t has followed from s: where s was read, and knows all s knows.
Follows(s, t) ==
  /\ StoreOK(t)
  /\ t.host = s.host
  /\ \A recs \in RecordMaps : AllKept(s, recs) => AllKept(t, recs)

LEMMA FollowsTwice ==
  ASSUME NEW s, NEW t, NEW u, Follows(s, t), Follows(t, u)
  PROVE  Follows(s, u)
  BY DEF Follows

LEMMA RegisterFollows ==
  ASSUME NEW s, StoreOK(s), NEW i \in Ids, NEW p \in Paths
  PROVE  Follows(s, Register(s, i, p)) /\ Follows(s, Unregister(s, i))
  BY RegisterOK, RegisterStatus, RegisterKept, UnregisterOK, UnregisterStatus, UnregisterKept
  DEF Follows

LEMMA AuthoredFollows ==
  ASSUME NEW s, StoreOK(s), NEW p \in DocPaths, NEW link,
         NEW t, t \in Registered(s, p) \/ t \in Authored(s, p, link)
  PROVE  Follows(s, t)
<1>1. CASE t = s
  BY <1>1 DEF Follows
<1>2. CASE t # s
  <2>1. PICK i \in Ids : t = Register(s, i, p)
    BY <1>2 DEF Authored, Registered
  <2> QED
    BY <2>1, RegisterFollows DEF DocPaths
<1> QED
  BY <1>1, <1>2

LEMMA ChangeFollows ==
  ASSUME StoreOK(ix)
  PROVE  Follows(ix, Change)
<1>1. StoreOK(Rollback(ix)) /\ Rollback(ix).host = ix.host
  BY RollbackStore
<1>2. PICK s : s = Rollback(ix)
  OBVIOUS
<1>3. StoreOK(Checkpoint(s)) /\ Checkpoint(s).host = s.host
  <2>1. s \in Stores
    BY <1>1, <1>2 DEF StoreOK
  <2> QED
    BY <1>1, <1>2, <2>1, CheckpointOK DEF Checkpoint, Stores
<1>4. ASSUME NEW recs \in RecordMaps, AllKept(ix, recs)
      PROVE  AllKept(Checkpoint(s), recs)
  BY <1>2, <1>4, RollbackKept, CheckpointKept
<1> QED
  BY <1>1, <1>2, <1>3, <1>4 DEF Follows, Change

-----------------------------------------------------------------------------
(* What a verb takes to commit.                                            *)

\* A set whatever store and queue come with it.
Offer(store, queue, set, expected) ==
  /\ Handable(store, queue, set, expected)
  /\ Follows(ix, store)
  /\ Shaped(set)
  /\ \A p \in DocPaths : expected[p] \notin {NoDoc, Unread} =>
       \E q \in DocPaths : /\ ApplyOps(tree, set).docs[q] # NoDoc
                           /\ expected[p].edits \subseteq ApplyOps(tree, set).docs[q].edits

\* A store and a queue left behind, and nothing else.
Left(store, queue) ==
  /\ ix' = store
  /\ stamps' = queue
  /\ UNCHANGED <<policy, storage, phase, ops, expects, tree, journal>>

Taken(store, queue, set, expected) ==
  /\ phase = "idle"
  /\ Offer(store, queue, set, expected)
  /\ Hand(store, queue, set, expected) \/ Left(store, queue)

\* The types, as the verbs use them.
LEMMA TypedRest ==
  ASSUME Typed
  PROVE  /\ tree \in Trees /\ stamps \in Seq(DocPaths \X Ids) /\ StoreOK(ix) /\ StoreOK(Change)
         /\ \A p \in DocPaths : tree.docs[p] \in Docs \cup {NoDoc}
  BY ChangeOK DEF Typed, Trees

\* Nothing is asked of a set that expects no document.
LEMMA NothingAsked ==
  ASSUME tree \in Trees, NEW store, NEW queue, NEW set, NEW absent, NEW expected,
         Handable(store, queue, set, expected), Follows(ix, store), Shaped(set),
         expected \in {NoExpectations, Expecting(absent, {})}
  PROVE  Offer(store, queue, set, expected)
<1>1. \A p \in DocPaths : expected[p] \in {NoDoc, Unread}
  BY DEF NoExpectations, Expecting
<1> QED
  BY <1>1 DEF Offer

LEMMA RegisterDocOffers ==
  ASSUME Typed, NEW p \in DocPaths, RegisterDoc(p)
  PROVE  \E store, queue, set, expected : Taken(store, queue, set, expected)
<1>1. PICK store \in Registered(ix, p) : ix' = store /\ stamps' = stamps \o Earned(ix, store, p)
  BY DEF RegisterDoc
<1>2. PICK queue : queue = stamps \o Earned(ix, store, p)
  OBVIOUS
<1>3. Follows(ix, store)
  BY TypedRest, AuthoredFollows
<1>4. queue \in Seq(DocPaths \X Ids)
  <2>1. PICK a : a = Earned(ix, store, p)
    OBVIOUS
  <2>2. a \in Seq(DocPaths \X Ids)
    BY <1>3, <2>1, EarnedDue DEF Follows
  <2> QED
    BY <1>2, <2>1, <2>2, TypedRest, QueuesDue
<1>5. Handable(store, queue, <<>>, NoExpectations)
  <2>1. <<>> \in Seq(Ops)
    BY EmptySeq
  <2> QED
    BY <1>3, <1>4, <2>1, TypedRest, ExpectingTyped DEF Handable, Follows
<1>6. Shaped(<<>>)
  BY DEF Shaped
<1>7. Offer(store, queue, <<>>, NoExpectations)
  BY <1>3, <1>5, <1>6, TypedRest, NothingAsked
<1>8. phase = "idle" /\ Left(store, queue)
  BY <1>1, <1>2 DEF RegisterDoc, Left
<1> QED
  BY <1>7, <1>8 DEF Taken

LEMMA CreateOffers ==
  ASSUME Typed, NEW p \in DocPaths, NEW parent \in DocPaths, Create(p, parent)
  PROVE  \E store, queue, set, expected : Taken(store, queue, set, expected)
<1> DEFINE Queue(s) == stamps \o Earned(Change, s, parent) \o Earned(Change, s, p)
           New(s) == [id |-> IF StampsFrontmatter THEN IdForPath(s, p) ELSE NoId, edits |-> {}]
           Set(s) == <<WriteOp(p, New(s)), WriteOp(parent, tree.docs[parent])>>
           expected == Expecting({p}, {})
<1>1. phase = "idle" /\ Present(parent)
  BY DEF Create
<1>2. PICK up \in Authored(Change, parent, "up") : \E down \in Authored(up, p, "down") :
        \E store \in Authored(down, p, "create") :
          Abandon(store, Queue(down)) \/ Hand(store, Queue(down), Set(store), expected)
  BY DEF Create
<1>3. PICK down \in Authored(up, p, "down") : \E store \in Authored(down, p, "create") :
        Abandon(store, Queue(down)) \/ Hand(store, Queue(down), Set(store), expected)
  BY <1>2
<1>4. PICK store \in Authored(down, p, "create") :
        Abandon(store, Queue(down)) \/ Hand(store, Queue(down), Set(store), expected)
  BY <1>3
<1>5. Follows(ix, store) /\ StoreOK(down)
  <2>1. Follows(ix, Change) /\ StoreOK(Change)
    BY TypedRest, ChangeFollows
  <2>2. Follows(Change, up)
    BY <2>1, AuthoredFollows
  <2>3. Follows(up, down)
    BY <2>2, AuthoredFollows DEF Follows
  <2>4. Follows(down, store)
    BY <2>3, AuthoredFollows DEF Follows
  <2>5. Follows(ix, down)
    BY <2>1, <2>2, <2>3, FollowsTwice
  <2> QED
    BY <2>4, <2>5, FollowsTwice DEF Follows
<1>6. PICK queue : queue = Queue(down)
  OBVIOUS
<1>7. queue \in Seq(DocPaths \X Ids)
  BY <1>5, <1>6, TypedRest, QueueDue
<1>8. PICK a : a = WriteOp(p, New(store))
  OBVIOUS
<1>9. PICK b : b = WriteOp(parent, tree.docs[parent])
  OBVIOUS
<1>10. a \in Ops /\ b \in Ops /\ a.op = "write" /\ b.op = "write"
  <2>1. IdForPath(store, p) \in Ids \cup {NoId}
    BY <1>5, IdStatus DEF Follows, DocPaths
  <2>2. New(store) \in Docs /\ tree.docs[parent] \in Docs
    BY <1>1, <2>1, TypedRest DEF Docs, Present
  <2> HIDE DEF New
  <2> QED
    BY <1>8, <1>9, <2>2 DEF WriteOp, Ops
<1>11. <<a, b>> \in Seq(Ops) /\ Shaped(<<a, b>>)
  BY <1>10, ApplyTwo DEF Shaped
<1>12. Handable(store, queue, <<a, b>>, expected)
  BY <1>5, <1>7, <1>11, TypedRest, ExpectingTyped DEF Handable, Follows
<1>13. Offer(store, queue, <<a, b>>, expected)
  BY <1>5, <1>11, <1>12, TypedRest, NothingAsked
<1>14. Left(store, queue) \/ Hand(store, queue, <<a, b>>, expected)
  BY <1>4, <1>6, <1>8, <1>9 DEF Abandon, Left
<1> QED
  BY <1>1, <1>13, <1>14 DEF Taken

LEMMA AdoptOffers ==
  ASSUME Typed, NEW child \in DocPaths, NEW parent \in DocPaths, Adopt(child, parent)
  PROVE  \E store, queue, set, expected : Taken(store, queue, set, expected)
<1> DEFINE Queue(s) == stamps \o Earned(Change, s, parent) \o Earned(Change, s, child)
<1>1. phase = "idle" /\ Present(parent) /\ Present(child)
  BY DEF Adopt
<1>2. PICK a : a = WriteOp(child, tree.docs[child])
  OBVIOUS
<1>3. PICK b : b = WriteOp(parent, tree.docs[parent])
  OBVIOUS
<1>4. PICK up \in Authored(Change, parent, "up") : \E store \in Authored(up, child, "down") :
        Abandon(store, Queue(store)) \/ Hand(store, Queue(store), <<a, b>>, NoExpectations)
  BY <1>2, <1>3 DEF Adopt
<1>5. PICK store \in Authored(up, child, "down") :
        Abandon(store, Queue(store)) \/ Hand(store, Queue(store), <<a, b>>, NoExpectations)
  BY <1>4
<1>6. Follows(ix, store)
  <2>1. Follows(ix, Change) /\ StoreOK(Change)
    BY TypedRest, ChangeFollows
  <2>2. Follows(Change, up)
    BY <2>1, AuthoredFollows
  <2>3. Follows(up, store)
    BY <2>2, AuthoredFollows DEF Follows
  <2> QED
    BY <2>1, <2>2, <2>3, FollowsTwice
<1>7. PICK queue : queue = Queue(store)
  OBVIOUS
<1>8. queue \in Seq(DocPaths \X Ids)
  BY <1>6, <1>7, TypedRest, QueueDue DEF Follows
<1>9. a \in Ops /\ b \in Ops /\ a.op = "write" /\ b.op = "write"
  BY <1>1, <1>2, <1>3, TypedRest DEF WriteOp, Ops, Present
<1>10. <<a, b>> \in Seq(Ops) /\ Shaped(<<a, b>>)
  BY <1>9, ApplyTwo DEF Shaped
<1>11. Handable(store, queue, <<a, b>>, NoExpectations)
  BY <1>6, <1>8, <1>10, TypedRest, ExpectingTyped DEF Handable, Follows
<1>12. Offer(store, queue, <<a, b>>, NoExpectations)
  BY <1>6, <1>10, <1>11, TypedRest, NothingAsked
<1>13. Left(store, queue) \/ Hand(store, queue, <<a, b>>, NoExpectations)
  BY <1>5, <1>7 DEF Abandon, Left
<1> QED
  BY <1>1, <1>12, <1>13 DEF Taken

LEMMA RenameDocOffers ==
  ASSUME Typed, NEW from \in DocPaths, NEW to \in DocPaths, NEW inbound \in SUBSET DocPaths,
         RenameDoc(from, to, inbound)
  PROVE  \E store, queue, set, expected : Taken(store, queue, set, expected)
<1> DEFINE id == IdForPath(ix, from)
           moved == IF id = NoId THEN Change ELSE SetPath(Change, id, to)
           expected == Expecting({to}, inbound \cup {from})
<1>1. /\ phase = "idle" /\ Present(from) /\ ~Present(to) /\ from # to
      /\ \A p \in inbound : Present(p) /\ p # from
      /\ from \in Paths /\ to \in Paths
  BY DEF RenameDoc, Present, DocPaths
<1>2. PICK a : a = MoveOp(from, to)
  OBVIOUS
<1>3. PICK b : b = WriteOp(to, tree.docs[from])
  OBVIOUS
<1>4. PICK rewrites \in Rewrites(inbound) :
        Hand(moved, stamps, <<a, b>> \o rewrites, expected)
  BY <1>2, <1>3 DEF RenameDoc
<1>5. /\ a \in Ops /\ a.op = "move" /\ a.path = from /\ a.to = to
      /\ b \in Ops /\ b.op = "write" /\ b.path = to /\ b.doc = tree.docs[from]
  BY <1>1, <1>2, <1>3, TypedRest DEF WriteOp, MoveOp, Ops, Present
<1>6. PICK t : t = ApplyOps(tree, <<a, b>>)
  OBVIOUS
<1>7. <<a, b>> \in Seq(Ops) /\ t = ApplyOp(ApplyOp(tree, a), b) /\ Shaped(<<a, b>>)
  <2>1. <<a, b>> \in Seq(Ops) /\ t = ApplyOp(ApplyOp(tree, a), b)
    BY <1>5, <1>6, ApplyTwo
  <2>2. Shaped(<<a, b>>)
    BY <1>5 DEF Shaped
  <2> QED
    BY <2>1, <2>2
<1>8. \A q \in DocPaths : t.docs[q] = IF q = to THEN tree.docs[from]
                                      ELSE IF q = from THEN NoDoc ELSE tree.docs[q]
  <2>1. PICK u : u = ApplyOp(tree, a)
    OBVIOUS
  <2>2. u \in Trees /\ \A q \in DocPaths : q \notin {from, to} => u.docs[q] = tree.docs[q]
    BY <1>5, <2>1, TypedRest, ApplyOpEffect
  <2>3. u.docs[from] = NoDoc
    BY <1>1, <1>5, <2>1, TypedRest, ApplyOpEffect
  <2>4. \A q \in DocPaths : ApplyOp(u, b).docs[q] = IF q = to THEN tree.docs[from] ELSE u.docs[q]
    BY <1>5, <2>2, ApplyOpEffect
  <2> QED
    BY <1>7, <2>1, <2>2, <2>3, <2>4
<1>9. PICK set : set = <<a, b>> \o rewrites
  OBVIOUS
<1>10. set \in Seq(Ops) /\ ApplyOps(tree, set) = t /\ Shaped(set)
  <2>1. \A p \in inbound : Present(p) /\ t.docs[p] = tree.docs[p]
    BY <1>1, <1>8
  <2> QED
    BY <1>6, <1>7, <1>9, <2>1, TypedRest, WithRewrites
<1>11. Follows(ix, moved)
  <2>1. Follows(ix, Change) /\ StoreOK(Change)
    BY TypedRest, ChangeFollows
  <2>2. id \in Ids \cup {NoId}
    BY <1>1, TypedRest, IdStatus
  <2>3. CASE id = NoId
    BY <2>1, <2>3
  <2>4. CASE id # NoId
    <3>1. Follows(Change, Register(Change, id, to))
      BY <1>1, <2>1, <2>2, <2>4, RegisterFollows
    <3>2. moved = Register(Change, id, to)
      BY <2>4 DEF SetPath
    <3> HIDE DEF id, moved
    <3> QED
      BY <2>1, <3>1, <3>2, FollowsTwice
  <2> QED
    BY <2>3, <2>4
<1> HIDE DEF moved
<1>12. Handable(moved, stamps, set, expected)
  BY <1>10, <1>11, TypedRest, ExpectingTyped DEF Handable, Follows
<1>13. ASSUME NEW p \in DocPaths, expected[p] \notin {NoDoc, Unread}
       PROVE  \E q \in DocPaths : t.docs[q] # NoDoc /\ expected[p].edits \subseteq t.docs[q].edits
  <2>1. p \in inbound \cup {from} /\ expected[p] = tree.docs[p]
    BY <1>1, <1>13, TypedRest, ExpectingTyped
  <2>2. CASE p = from
    <3>1. t.docs[to] = tree.docs[p] /\ t.docs[to] # NoDoc
      BY <1>1, <1>8, <2>2 DEF Present
    <3> QED
      BY <2>1, <3>1
  <2>3. CASE p # from
    <3>1. t.docs[p] = tree.docs[p] /\ t.docs[p] # NoDoc
      BY <1>1, <1>8, <2>1, <2>3 DEF Present
    <3> QED
      BY <2>1, <3>1
  <2> QED
    BY <2>2, <2>3
<1> HIDE DEF expected
<1>14. Offer(moved, stamps, set, expected)
  BY <1>10, <1>11, <1>12, <1>13 DEF Offer
<1>15. Hand(moved, stamps, set, expected)
  BY <1>4, <1>9
<1> QED
  BY <1>1, <1>14, <1>15 DEF Taken

LEMMA DeleteOffers ==
  ASSUME Typed, NEW p \in DocPaths, NEW parents \in SUBSET DocPaths, Delete(p, parents)
  PROVE  \E store, queue, set, expected : Taken(store, queue, set, expected)
<1> DEFINE id == IdForPath(ix, p)
           left == IF id = NoId THEN Change ELSE Unregister(Change, id)
<1>1. /\ phase = "idle" /\ p \in Paths
      /\ \A q \in parents : Present(q) /\ q # p
  BY DEF Delete, DocPaths
<1>2. PICK a : a = RemoveOp(p)
  OBVIOUS
<1>3. PICK rewrites \in Rewrites(parents) : Hand(left, stamps, <<a>> \o rewrites, NoExpectations)
  BY <1>2 DEF Delete
<1>4. a \in Ops /\ a.op = "remove" /\ a.path = p
  BY <1>2 DEF RemoveOp, Ops
<1>5. <<a>> \in Seq(Ops) /\ ApplyOps(tree, <<a>>) = ApplyOp(tree, a) /\ Shaped(<<a>>)
  <2>1. <<a>> \in Seq(Ops) /\ ApplyOps(tree, <<a>>) = ApplyOp(tree, a)
    BY <1>4, ApplyTwo
  <2>2. Shaped(<<a>>)
    BY <1>4 DEF Shaped
  <2> QED
    BY <2>1, <2>2
<1>6. PICK set : set = <<a>> \o rewrites
  OBVIOUS
<1>7. set \in Seq(Ops) /\ Shaped(set)
  <2>1. \A q \in parents : Present(q) /\ ApplyOps(tree, <<a>>).docs[q] = tree.docs[q]
    BY <1>1, <1>4, <1>5, TypedRest, ApplyOpEffect
  <2> QED
    BY <1>5, <1>6, <2>1, TypedRest, WithRewrites
<1>8. Follows(ix, left)
  <2>1. Follows(ix, Change) /\ StoreOK(Change)
    BY TypedRest, ChangeFollows
  <2>2. id \in Ids \cup {NoId}
    BY <1>1, TypedRest, IdStatus
  <2>3. CASE id = NoId
    BY <2>1, <2>3
  <2>4. CASE id # NoId
    <3>1. Follows(Change, Unregister(Change, id))
      BY <1>1, <2>1, <2>2, <2>4, RegisterFollows
    <3>2. left = Unregister(Change, id)
      BY <2>4
    <3> HIDE DEF id, left
    <3> QED
      BY <2>1, <3>1, <3>2, FollowsTwice
  <2> QED
    BY <2>3, <2>4
<1> HIDE DEF left
<1>9. Handable(left, stamps, set, NoExpectations)
  BY <1>7, <1>8, TypedRest, ExpectingTyped DEF Handable, Follows
<1>10. Offer(left, stamps, set, NoExpectations)
  BY <1>7, <1>8, <1>9, TypedRest, NothingAsked
<1>11. Hand(left, stamps, set, NoExpectations)
  BY <1>3, <1>6
<1> QED
  BY <1>1, <1>10, <1>11 DEF Taken

LEMMA RetitleOffers ==
  ASSUME Typed, NEW p \in DocPaths, NEW inbound \in SUBSET DocPaths, Retitle(p, inbound)
  PROVE  \E store, queue, set, expected : Taken(store, queue, set, expected)
<1> DEFINE expected == Expecting({}, inbound \cup {p})
<1>1. /\ phase = "idle" /\ Present(p)
      /\ \A q \in inbound : Present(q)
  BY DEF Retitle
<1>2. PICK a : a = WriteOp(p, tree.docs[p])
  OBVIOUS
<1>3. PICK rewrites \in Rewrites(inbound) : Hand(Change, stamps, <<a>> \o rewrites, expected)
  BY <1>2 DEF Retitle
<1>4. a \in Ops /\ a.op = "write" /\ a.path = p /\ a.doc = tree.docs[p]
  BY <1>1, <1>2, TypedRest DEF WriteOp, Ops, Present
<1>5. <<a>> \in Seq(Ops) /\ Shaped(<<a>>)
  BY <1>4, ApplyTwo DEF Shaped
<1>6. ApplyOps(tree, <<a>>) = tree
  <2>1. \A k \in DOMAIN <<a>> : <<a>>[k].op = "write" /\ <<a>>[k].doc = tree.docs[<<a>>[k].path]
    BY <1>4
  <2> QED
    BY <1>5, <2>1, TypedRest, RewritesChangeNothing
<1>7. PICK set : set = <<a>> \o rewrites
  OBVIOUS
<1>8. set \in Seq(Ops) /\ ApplyOps(tree, set) = tree /\ Shaped(set)
  <2>1. \A q \in inbound : Present(q) /\ ApplyOps(tree, <<a>>).docs[q] = tree.docs[q]
    BY <1>1, <1>6
  <2> QED
    BY <1>5, <1>6, <1>7, <2>1, TypedRest, WithRewrites
<1>9. Follows(ix, Change)
  BY TypedRest, ChangeFollows
<1>10. Handable(Change, stamps, set, expected)
  BY <1>8, TypedRest, ExpectingTyped DEF Handable
<1>11. ASSUME NEW q \in DocPaths, expected[q] \notin {NoDoc, Unread}
       PROVE  tree.docs[q] # NoDoc /\ expected[q].edits \subseteq tree.docs[q].edits
  BY <1>1, <1>11, TypedRest, ExpectingTyped DEF Present
<1> HIDE DEF expected
<1>12. Offer(Change, stamps, set, expected)
  BY <1>8, <1>9, <1>10, <1>11 DEF Offer
<1>13. Hand(Change, stamps, set, expected)
  BY <1>3, <1>7
<1> QED
  BY <1>1, <1>12, <1>13 DEF Taken

-----------------------------------------------------------------------------
(* What holds whatever happens besides.                                    *)

\* The set under way lands, now or by way of its journal.
Landing == journal = NoJournal /\ Applying /\ ~Refused /\ Healed' = Landed

\* Another session, or another writer, changes a document.
OthersWrite ==
  \E p \in DocPaths : (\E i \in Ids : OtherSession(p, i)) \/ (\E e \in Edits : ExternalEdit(p, e))

\* The set under way is one a verb or persist_identity builds, and leaves the
\* edits it has read.
Held ==
  /\ Typed
  /\ phase \in {"idle", "stamped", "down"} => ops = <<>>
  /\ phase = "stamping" => Unregistered(ops)
  /\ phase = "built" => Shaped(ops)
  /\ phase \in {"built", "staged"} => EditsLand

\* Nothing to hold of a set there is not.
LEMMA Settled ==
  ASSUME Typed', phase' \in {"idle", "stamped", "down"}, ops' = <<>>
  PROVE  Held'
  BY DEF Held

LEMMA TakenHeld ==
  ASSUME Held, NEW store, NEW queue, NEW set, NEW expected, Taken(store, queue, set, expected)
  PROVE  Held' /\ UNCHANGED <<storage, tree, journal>> /\ ix' = store
<1>1. phase = "idle" /\ ops = <<>> /\ Typed /\ Handable(store, queue, set, expected)
  BY DEF Held, Taken, Offer
<1>2. CASE Hand(store, queue, set, expected)
  <2>1. /\ phase' = "built" /\ ix' = store /\ stamps' = queue /\ ops' = set /\ expects' = expected
        /\ policy' = policy /\ storage' = storage /\ tree' = tree /\ journal' = journal
    BY <1>2 DEF Hand
  <2>2. Typed'
    BY <1>1, <2>1 DEF Typed, Handable
  <2>3. Landed' = ApplyOps(tree, set)
    BY <2>1 DEF Landed
  <2>4. EditsLand' /\ Shaped(ops')
    BY <2>1, <2>3 DEF Taken, Offer, EditsLand
  <2> QED
    BY <2>1, <2>2, <2>4 DEF Held
<1>3. CASE Left(store, queue)
  <2>1. /\ ix' = store /\ stamps' = queue /\ policy' = policy /\ storage' = storage
        /\ phase' = phase /\ ops' = ops /\ expects' = expects /\ tree' = tree
        /\ journal' = journal
    BY <1>3 DEF Left
  <2>2. Typed'
    BY <1>1, <2>1 DEF Typed, Handable
  <2> QED
    BY <1>1, <2>1, <2>2, Settled
<1> QED
  BY <1>2, <1>3 DEF Taken

\* Stamps leave what a set leaves, and add edits at most.
StampFull(os) ==
  /\ os \in Seq(Ops) /\ Shaped(os)
  /\ Fuller(Landed, ApplyOps(tree, os))

LEMMA StampOpsFull ==
  ASSUME tree \in Trees, NEW os, StampFull(os), NEW p \in DocPaths, NEW i \in Ids
  PROVE  StampFull(StampOps(os, <<p, i>>))
<1> DEFINE doc == LoadStaged(os, p)
           o == WriteOp(p, [doc EXCEPT !.id = i])
           t == ApplyOps(tree, os)
           u == ApplyOps(tree, Append(os, o))
<1>1. StampOps(os, <<p, i>>) = IF Renames(os, p) \/ doc = NoDoc THEN os
                              ELSE IF doc.id = i THEN os ELSE Append(os, o)
  BY DEF StampOps
<1> SUFFICES ASSUME doc # NoDoc
             PROVE  StampFull(Append(os, o))
  BY <1>1
<1>2. os \in Seq(Ops) /\ Shaped(os) /\ t \in Trees
  BY ApplyTyped DEF StampFull
<1>3. t.docs[p] \in {NoDoc, doc}
  BY <1>2, LoadStagedLands
<1>4. doc \in Docs
  BY <1>2, LoadStagedTyped
<1>5. /\ o \in Ops /\ o.op = "write" /\ o.path = p
      /\ o.doc \in Docs /\ o.doc.edits = doc.edits
  <2>1. [doc EXCEPT !.id = i] \in Docs /\ [doc EXCEPT !.id = i].edits = doc.edits
    BY <1>4 DEF Docs
  <2> HIDE DEF doc
  <2> QED
    BY <2>1 DEF WriteOp, Ops
<1> HIDE DEF o, doc
<1>6. Append(os, o) \in Seq(Ops) /\ u = ApplyOp(t, o)
  BY <1>2, <1>5, AppendProperties, ApplyAppend
<1>7. \A q \in DocPaths : u.docs[q] = IF q = p THEN o.doc ELSE t.docs[q]
  BY <1>2, <1>5, <1>6, ApplyOpEffect
<1>8. /\ DOMAIN Append(os, o) = 1..(Len(os) + 1) /\ DOMAIN os = 1..Len(os) /\ Len(os) \in Nat
      /\ \A k \in 1..Len(os) : Append(os, o)[k] = os[k]
      /\ Append(os, o)[Len(os) + 1] = o
  BY <1>2, <1>5, <1>6, AppendProperties, LenProperties
<1>9. Shaped(Append(os, o))
  BY <1>2, <1>5, <1>8 DEF Shaped
<1> HIDE DEF t, u
<1>10. Fuller(Landed, t)
  BY DEF StampFull, t
<1>11. o.doc # NoDoc
  BY <1>5, DocSentinels DEF Docs
<1>12. Fuller(Landed, u)
  BY <1>3, <1>5, <1>7, <1>10, <1>11 DEF Fuller
<1> QED
  BY <1>6, <1>9, <1>12 DEF StampFull, u

LEMMA StampedFull ==
  ASSUME tree \in Trees, ops \in Seq(Ops), Shaped(ops), stamps \in Seq(DocPaths \X Ids)
  PROVE  StampFull(Stamped(ops, stamps))
<1> DEFINE X == DocPaths \X Ids
           S == {c \in Seq(X) : StampFull(Stamped(ops, c))}
<1>1. <<>> \in S
  <2>1. StampFull(ops)
    BY DEF StampFull, Landed, Fuller
  <2> QED
    BY <2>1, StampNone, EmptySeq
<1>2. ASSUME NEW c \in S, NEW x \in X
      PROVE  Append(c, x) \in S
  <2>1. c \in Seq(X) /\ Append(c, x) \in Seq(X) /\ StampFull(Stamped(ops, c))
    BY AppendProperties
  <2>2. Stamped(ops, Append(c, x)) = StampOps(Stamped(ops, c), x)
    BY <2>1, StampAppend
  <2>3. x = <<x[1], x[2]>> /\ x[1] \in DocPaths /\ x[2] \in Ids
    OBVIOUS
  <2>4. StampFull(StampOps(Stamped(ops, c), <<x[1], x[2]>>))
    BY <2>1, <2>3, StampOpsFull
  <2> QED
    BY <2>1, <2>2, <2>3, <2>4
<1>3. S = Seq(X)
  <2> HIDE DEF S
  <2>1. S \in SUBSET Seq(X)
    BY DEF S
  <2> QED
    BY <1>1, <1>2, <2>1, SeqSetInduction
<1> QED
  BY <1>3

-----------------------------------------------------------------------------
\* A set whose reads land still does when what it leaves has only grown.
LEMMA EditsStay ==
  ASSUME EditsLand, Fuller(Landed, Landed'), expects' = expects
  PROVE  EditsLand'
  BY DEF EditsLand, Fuller

LEMMA StageHeld ==
  ASSUME Held, Stage
  PROVE  Held'
<1> DEFINE o == RegistryOp(Render(ix).text)
<1>1. /\ phase = "built" /\ phase' = "staged" /\ policy' = policy /\ storage' = storage
      /\ ops' = WithRegistry(Stamped(ops, stamps)) /\ stamps' = <<>> /\ ix' = PendingWrite(ix)
      /\ expects' = expects /\ tree' = tree /\ journal' = journal
  BY DEF Stage
<1>2. /\ Typed /\ tree \in Trees /\ ops \in Seq(Ops) /\ stamps \in Seq(DocPaths \X Ids)
      /\ StoreOK(ix) /\ Shaped(ops) /\ EditsLand
  BY <1>1 DEF Held, Typed
<1>3. PICK os : os = Stamped(ops, stamps)
  OBVIOUS
<1>4. os \in Seq(Ops) /\ Fuller(Landed, ApplyOps(tree, os))
  BY <1>2, <1>3, StampedFull DEF StampFull
<1>5. ops' = IF HasPendingWrite(ix) THEN Append(os, o) ELSE os
  BY <1>1, <1>3 DEF WithRegistry
<1>6. ops' \in Seq(Ops) /\ Landed'.docs = ApplyOps(tree, os).docs
  <2>1. CASE ~HasPendingWrite(ix)
    BY <1>1, <1>4, <1>5, <2>1 DEF Landed
  <2>2. CASE HasPendingWrite(ix)
    <3>1. o \in Ops /\ o.op = "registry"
      BY <1>2, <2>2, RegistryOpTyped DEF RegistryOp
    <3> HIDE DEF o
    <3>2. /\ Append(os, o) \in Seq(Ops)
          /\ ApplyOps(tree, Append(os, o)) = ApplyOp(ApplyOps(tree, os), o)
      BY <1>4, <3>1, ApplyAppend, AppendProperties
    <3>3. Landed' = ApplyOp(ApplyOps(tree, os), o)
      BY <1>1, <1>5, <2>2, <3>2 DEF Landed
    <3> QED
      BY <1>2, <1>4, <1>5, <2>2, <3>1, <3>2, <3>3, ApplyTyped, ApplyOpEffect
  <2> QED
    BY <2>1, <2>2
<1>7. EditsLand'
  <2>1. Fuller(Landed, Landed')
    BY <1>4, <1>6 DEF Fuller
  <2> QED
    BY <1>1, <1>2, <2>1, EditsStay
<1>8. Typed'
  <2>1. StoreOK(ix') /\ stamps' \in Seq(DocPaths \X Ids)
    BY <1>1, <1>2, PendingWriteOK, EmptySeq
  <2> QED
    BY <1>1, <1>2, <1>6, <2>1 DEF Typed
<1> QED
  BY <1>1, <1>7, <1>8 DEF Held

\* A set that does not land, and one that does.
LEMMA FailedHeld ==
  ASSUME Held, StageFails \/ ApplyRefused \/ ApplyFails
  PROVE  Held' /\ UNCHANGED <<storage, tree, journal>> /\ ix' \in {ix, Undo}
<1>1. /\ phase' = "idle" /\ ops' = <<>> /\ expects' = NoExpectations /\ stamps' \in {stamps, <<>>}
      /\ policy' = policy /\ storage' = storage /\ tree' = tree /\ journal' = journal
      /\ ix' \in {ix, Undo}
  BY DEF StageFails, ApplyRefused, ApplyFails, Settle, AfterFailure
<1>2. StoreOK(ix')
  BY <1>1, RollbackStore DEF Held, Typed, Undo
<1>3. ops' \in Seq(Ops) /\ stamps' \in Seq(DocPaths \X Ids)
  BY <1>1, EmptySeq DEF Held, Typed
<1>4. Typed'
  BY <1>1, <1>2, <1>3, ExpectingTyped DEF Held, Typed
<1> QED
  BY <1>1, <1>4, Settled

LEMMA LandsHeld ==
  ASSUME Held, ApplyLands
  PROVE  Held'
<1>1. /\ phase \in {"staged", "stamping", "saving"} /\ phase' \in {"stamped", "idle"}
      /\ policy' = policy /\ storage' = storage /\ journal' = journal /\ stamps' = stamps
      /\ ops' = <<>> /\ expects' = NoExpectations /\ tree' = ApplyOps(tree, ops)
      /\ ix' = AfterLanding
  BY DEF ApplyLands, Applying
<1>2. Typed
  BY DEF Held
<1>3. tree' \in Trees
  BY <1>1, <1>2, ApplyTyped DEF Typed
<1>4. StoreOK(ix')
  <2>1. StoreOK(ix) /\ StagesRegistry \in BOOLEAN
    BY <1>2 DEF Typed, StagesRegistry
  <2> QED
    BY <1>1, <2>1, CommittedOK DEF AfterLanding
<1>5. ops' \in Seq(Ops)
  BY <1>1, EmptySeq
<1>6. Typed'
  BY <1>1, <1>2, <1>3, <1>4, <1>5, ExpectingTyped DEF Typed
<1> QED
  BY <1>1, <1>6, Settled

LEMMA StoppedHeld ==
  ASSUME Held, NEW k \in 0..Len(ops), ApplyTorn(k) \/ CrashInApply(k)
  PROVE  Held' /\ Landing /\ journal' # NoJournal /\ storage' = storage
<1>1. /\ Interrupted(k) /\ phase' \in {"idle", "down"} /\ ops' = <<>> /\ expects' = NoExpectations
      /\ stamps' \in {stamps, <<>>} /\ policy' = policy /\ storage' = storage
      /\ ix' \in {ix, Undo, EmptyStore}
  BY DEF ApplyTorn, CrashInApply, Settle, AfterFailure, Down
<1>2. /\ Applying /\ ~Refused /\ journal = NoJournal
      /\ tree' = ApplyOps(tree, SubSeq(ops, 1, k)) /\ journal' = SubSeq(ops, k + 1, Len(ops))
  BY <1>1 DEF Interrupted, Refused
<1>3. Typed /\ tree \in Trees /\ ops \in Seq(Ops)
  BY DEF Held, Typed
<1>4. /\ SubSeq(ops, 1, k) \in Seq(Ops) /\ journal' \in Seq(Ops)
      /\ ApplyOps(tree', journal') = Landed
  BY <1>2, <1>3, ApplyInParts DEF Landed
<1>5. tree' \in Trees /\ journal' # NoJournal
  BY <1>2, <1>3, <1>4, ApplyTyped, NoJournalIsNoSet
<1>6. StoreOK(ix')
  BY <1>1, <1>3, RollbackStore, EmptyStoreOK DEF Typed, Undo
<1>7. ops' \in Seq(Ops) /\ stamps' \in Seq(DocPaths \X Ids)
  BY <1>1, <1>3, EmptySeq DEF Typed
<1>8. Typed'
  BY <1>1, <1>3, <1>4, <1>5, <1>6, <1>7, ExpectingTyped DEF Typed
<1>9. Held'
  BY <1>1, <1>8, Settled
<1>10. Landing
  BY <1>2, <1>4, <1>5 DEF Landing, Healed
<1> QED
  BY <1>1, <1>5, <1>9, <1>10

-----------------------------------------------------------------------------
LEMMA OpenedTyped ==
  ASSUME tree \in Trees, NEW s \in Opened(tree)
  PROVE  StoreOK(s) /\ (~KeepsRegistry => s.host = NoPath)
<1>1. CASE KeepsRegistry
  <2>1. PICK recs : recs = tree.recs
    OBVIOUS
  <2>2. recs \in RecordMaps /\ s \in Parse(RegPath, recs, FALSE)
    BY <1>1, <2>1 DEF Opened, Trees
  <2> QED
    BY <1>1, <2>2, RegPathIsAPath, ParseOK
<1>2. CASE ~KeepsRegistry
  BY <1>2, ScannedOK DEF Opened
<1> QED
  BY <1>1, <1>2

LEMMA StampIdsHeld ==
  ASSUME Held, StampIds
  PROVE  Held' /\ Unregistered(ops')
<1> DEFINE ps == {q \in DocPaths : Unstamped(q)}
           ids == [q \in DocPaths |-> IdForPath(ix, q)]
<1>1. /\ phase' = "stamping" /\ policy' = policy /\ storage' = storage /\ ix' = ix
      /\ stamps' = stamps /\ expects' = expects /\ tree' = tree /\ journal' = journal
      /\ ops' \in SetToSeqs(WithIds(ids, ps))
  BY DEF StampIds, WithIds
<1>2. Typed /\ tree \in Trees /\ StoreOK(ix)
  BY DEF Held, Typed
<1>3. ids \in [DocPaths -> Ids \cup {NoId}]
  BY <1>2, IdStatus DEF DocPaths
<1>4. ps \in SUBSET DocPaths /\ \A q \in ps : Present(q)
  BY DEF Unstamped
<1> HIDE DEF ids, ps
<1>5. ops' \in Seq(Ops) /\ Unregistered(ops')
  BY <1>1, <1>2, <1>3, <1>4, StampIdsLands
<1>6. Typed'
  BY <1>1, <1>2, <1>5 DEF Typed
<1> QED
  BY <1>1, <1>5, <1>6 DEF Held

LEMMA SaveIndexHeld ==
  ASSUME Held, SaveIndex
  PROVE  Held'
<1> DEFINE store == SetHost(ix, RegPath, tree.recs, FALSE)
           o == RegistryOp(Render(store).text)
<1>1. /\ phase \in {"idle", "stamped"}
      /\ policy' = policy /\ storage' = storage /\ stamps' = stamps
      /\ expects' = expects /\ tree' = tree /\ journal' = journal
  BY DEF SaveIndex
<1>2. Typed /\ StoreOK(ix) /\ tree.recs \in RecordMaps /\ ops = <<>>
  BY <1>1 DEF Held, Typed, Trees
<1>3. CASE KeepsRegistry /\ ix.dirty
  <2>1. phase' = "saving" /\ ix' = PendingWrite(store) /\ ops' = <<o>>
    BY <1>3 DEF SaveIndex
  <2>2. StoreOK(store) /\ HasPendingWrite(store)
    <3>1. store.host = RegPath /\ store.dirty = ix.dirty
      BY <1>2 DEF SetHost, StoreOK, Stores
    <3> QED
      BY <1>2, <1>3, <3>1, RegPathIsAPath, SetHostOK, SentinelsAreApart DEF HasPendingWrite
  <2> HIDE DEF store
  <2>3. o \in Ops /\ StoreOK(ix')
    BY <2>1, <2>2, RegistryOpTyped, PendingWriteOK
  <2> HIDE DEF o
  <2>4. ops' \in Seq(Ops)
    BY <2>1, <2>3, ApplyTwo
  <2>5. Typed'
    BY <1>1, <1>2, <2>1, <2>3, <2>4 DEF Typed
  <2> QED
    BY <2>1, <2>5 DEF Held
<1>4. CASE ~(KeepsRegistry /\ ix.dirty)
  <2>1. phase' = "idle" /\ ix' \in {ix, MarkClean(ix)} /\ ops' = ops
    BY <1>4 DEF SaveIndex
  <2>2. StoreOK(MarkClean(ix))
    <3>1. /\ MarkClean(ix) \in Stores /\ MarkClean(ix).live = ix.live
          /\ MarkClean(ix).tomb = ix.tomb /\ MarkClean(ix).saved = ix.saved
      BY <1>2 DEF MarkClean, StoreOK, Stores
    <3> QED
      BY <1>2, <3>1, SameRecordsOK
  <2>3. Typed'
    BY <1>1, <1>2, <2>1, <2>2 DEF Typed
  <2> QED
    BY <1>2, <2>1, <2>3, Settled
<1> QED
  BY <1>3, <1>4

LEMMA SessionsHeld ==
  ASSUME Held, Crash \/ Recover \/ Open \/ Migrate \/ UNCHANGED vars
  PROVE  Held'
<1>1. CASE Crash
  <2>1. /\ phase' = "down" /\ ops' = <<>> /\ expects' = NoExpectations /\ stamps' = <<>>
        /\ ix' = EmptyStore /\ policy' = policy /\ storage' = storage /\ tree' = tree
        /\ journal' = journal
    BY <1>1 DEF Crash, Down
  <2>2. ops' \in Seq(Ops) /\ stamps' \in Seq(DocPaths \X Ids)
    BY <2>1, EmptySeq
  <2>3. Typed'
    BY <2>1, <2>2, EmptyStoreOK, ExpectingTyped DEF Held, Typed
  <2> QED
    BY <2>1, <2>3, Settled
<1>2. CASE Recover
  <2>1. /\ phase \in {"down", "idle"} /\ tree' = Healed /\ journal' = NoJournal
        /\ policy' = policy /\ storage' = storage /\ ix' = ix /\ stamps' = stamps
        /\ phase' = phase /\ ops' = ops /\ expects' = expects
    BY <1>2 DEF Recover
  <2>2. tree' \in Trees
    BY <2>1, ApplyTyped DEF Held, Typed, Healed
  <2>3. Typed'
    BY <2>1, <2>2 DEF Held, Typed
  <2> QED
    BY <2>1, <2>3, Settled DEF Held
<1>3. CASE Open
  <2>1. /\ phase = "down" /\ phase' = "idle" /\ ix' \in Opened(tree) /\ policy' = policy
        /\ storage' = storage /\ stamps' = stamps /\ ops' = ops /\ expects' = expects
        /\ tree' = tree /\ journal' = journal
    BY <1>3 DEF Open
  <2>2. StoreOK(ix')
    BY <2>1, OpenedTyped DEF Held, Typed
  <2>3. Typed'
    BY <2>1, <2>2 DEF Held, Typed
  <2> QED
    BY <2>1, <2>3, Settled DEF Held
<1>4. CASE Migrate
  <2>1. /\ phase = "down" /\ storage' = "both" /\ policy' = policy /\ ix' = ix
        /\ stamps' = stamps /\ phase' = phase /\ ops' = ops /\ expects' = expects
        /\ tree' = tree /\ journal' = journal
    BY <1>4 DEF Migrate
  <2>2. Typed'
    BY <2>1 DEF Held, Typed
  <2> QED
    BY <2>1, <2>2, Settled DEF Held
<1>5. CASE UNCHANGED vars
  <2>1. /\ policy' = policy /\ storage' = storage /\ ix' = ix /\ stamps' = stamps
        /\ phase' = phase /\ ops' = ops /\ expects' = expects /\ tree' = tree
        /\ journal' = journal
    BY <1>5 DEF vars
  <2> QED
    BY <2>1 DEF Held, Typed, EditsLand, Landed
<1> QED
  BY <1>1, <1>2, <1>3, <1>4, <1>5

\* What another session or another writer does to the files.
LEMMA OthersHeld ==
  ASSUME Held, OthersWrite
  PROVE  Held' /\ Fuller(Healed, Healed') /\ UNCHANGED <<storage, ix, phase, ops, journal>>
         /\ journal = NoJournal
<1> PICK p \in DocPaths : (\E i \in Ids : OtherSession(p, i)) \/ (\E e \in Edits : ExternalEdit(p, e))
  BY DEF OthersWrite
<1>1. /\ journal = NoJournal /\ tree.docs[p] # NoDoc
      /\ policy' = policy /\ storage' = storage /\ ix' = ix /\ stamps' = stamps
      /\ phase' = phase /\ ops' = ops /\ expects' = expects /\ journal' = journal
  BY DEF OtherSession, ExternalEdit, Present
<1>2. Typed /\ tree \in Trees /\ ops \in Seq(Ops) /\ tree.docs[p] \in Docs
  BY <1>1 DEF Held, Typed, Trees
<1>3. tree' \in Trees /\ Fuller(tree, tree')
  <2>1. CASE \E i \in Ids : OtherSession(p, i)
    <3>1. PICK i \in Ids : OtherSession(p, i)
      BY <2>1
    <3>2. PICK doc : doc = [tree.docs[p] EXCEPT !.id = IF StampsFrontmatter THEN i ELSE NoId]
      OBVIOUS
    <3>3. doc \in Docs /\ doc # NoDoc /\ doc.edits = tree.docs[p].edits
      BY <1>2, <3>2, DocSentinels DEF Docs
    <3>4. tree' = [docs |-> [tree.docs EXCEPT ![p] = doc], recs |-> [tree.recs EXCEPT ![i] = p]]
      BY <1>2, <3>1, <3>2 DEF OtherSession, Trees
    <3>5. [tree.recs EXCEPT ![i] = p] \in RecordMaps
      BY <1>2 DEF Trees, RecordMaps, DocPaths
    <3> QED
      BY <1>2, <3>3, <3>4, <3>5 DEF Trees, Fuller
  <2>2. CASE \E e \in Edits : ExternalEdit(p, e)
    <3>1. PICK e \in Edits : ExternalEdit(p, e)
      BY <2>2
    <3>2. PICK doc : doc = [tree.docs[p] EXCEPT !.edits = @ \cup {e}]
      OBVIOUS
    <3>3. doc \in Docs /\ doc # NoDoc /\ tree.docs[p].edits \subseteq doc.edits
      BY <1>2, <3>2, DocSentinels DEF Docs
    <3>4. tree' = [docs |-> [tree.docs EXCEPT ![p] = doc], recs |-> tree.recs]
      BY <1>2, <3>1, <3>2 DEF ExternalEdit, Trees
    <3> QED
      BY <1>2, <3>3, <3>4 DEF Trees, Fuller
  <2> QED
    BY <2>1, <2>2
<1>4. Fuller(Landed, Landed')
  BY <1>1, <1>2, <1>3, ApplyFuller DEF Landed
<1>5. EditsLand => EditsLand'
  BY <1>1, <1>4, EditsStay
<1>6. Typed'
  BY <1>1, <1>2, <1>3 DEF Typed
<1>7. Held'
  BY <1>1, <1>5, <1>6 DEF Held
<1>8. Fuller(Healed, Healed')
  BY <1>1, <1>3 DEF Healed
<1> QED
  BY <1>1, <1>7, <1>8

-----------------------------------------------------------------------------
\* What any verb hands over.
LEMMA VerbsOffer ==
  ASSUME Typed, NEW p \in DocPaths,
         \/ RegisterDoc(p)
         \/ \E q \in DocPaths : Create(p, q) \/ Adopt(p, q)
         \/ \E others \in SUBSET DocPaths : \/ \E to \in DocPaths : RenameDoc(p, to, others)
                                            \/ Delete(p, others)
                                            \/ Retitle(p, others)
  PROVE  \E store, queue, set, expected : Taken(store, queue, set, expected)
  BY RegisterDocOffers, CreateOffers, AdoptOffers, RenameDocOffers, DeleteOffers, RetitleOffers

\* The steps, as the two properties tell them apart.
LEMMA StepKinds ==
  ASSUME Held, [Next]_vars
  PROVE  \/ \E store, queue, set, expected : Taken(store, queue, set, expected)
         \/ Stage
         \/ StageFails \/ ApplyRefused \/ ApplyFails
         \/ ApplyLands
         \/ \E k \in 0..Len(ops) : ApplyTorn(k) \/ CrashInApply(k)
         \/ StampIds
         \/ SaveIndex
         \/ Crash \/ Recover \/ Open \/ Migrate \/ UNCHANGED vars
         \/ OthersWrite
<1>1. CASE \E p \in DocPaths :
             \/ RegisterDoc(p)
             \/ \E q \in DocPaths : Create(p, q) \/ Adopt(p, q)
             \/ \E others \in SUBSET DocPaths : \/ \E to \in DocPaths : RenameDoc(p, to, others)
                                                \/ Delete(p, others)
                                                \/ Retitle(p, others)
  BY <1>1, VerbsOffer DEF Held
<1>2. CASE \/ Stage \/ StageFails \/ ApplyRefused \/ ApplyFails \/ ApplyLands
           \/ \E k \in 0..Len(ops) : ApplyTorn(k) \/ CrashInApply(k)
           \/ StampIds \/ SaveIndex \/ Crash \/ Recover \/ Open \/ Migrate \/ UNCHANGED vars
  BY <1>2
<1>3. CASE OthersWrite
  BY <1>3
<1> QED
  BY <1>1, <1>2, <1>3 DEF Next, OthersWrite

LEMMA NextHeld ==
  ASSUME Held, [Next]_vars
  PROVE  Held'
  BY StepKinds, TakenHeld, StageHeld, FailedHeld, LandsHeld, StoppedHeld, StampIdsHeld,
     SaveIndexHeld, SessionsHeld, OthersHeld

LEMMA InitHeld ==
  ASSUME Init
  PROVE  Held
  BY InitOK DEF Init, IInv, Held

\* What a step may do to the files, healed.
LEMMA HealedMoves ==
  ASSUME Held, [Next]_vars
  PROVE  Healed' = Healed \/ Landing \/ OthersWrite
<1>1. CASE \E store, queue, set, expected : Taken(store, queue, set, expected)
  BY <1>1, TakenHeld DEF Healed
<1>2. CASE Stage \/ StampIds \/ SaveIndex
  BY <1>2 DEF Stage, StampIds, SaveIndex, Healed
<1>3. CASE StageFails \/ ApplyRefused \/ ApplyFails
  BY <1>3, FailedHeld DEF Healed
<1>4. CASE ApplyLands
  BY <1>4 DEF ApplyLands, Landing, Refused, Healed, Landed
<1>5. CASE \E k \in 0..Len(ops) : ApplyTorn(k) \/ CrashInApply(k)
  BY <1>5, StoppedHeld
<1>6. CASE Crash \/ Open \/ Migrate \/ UNCHANGED vars
  BY <1>6 DEF Crash, Open, Migrate, vars, Healed
<1>7. CASE Recover
  BY <1>7 DEF Recover, Healed
<1> QED
  BY <1>1, <1>2, <1>3, <1>4, <1>5, <1>6, <1>7, StepKinds

-----------------------------------------------------------------------------
(* The records, where no other session runs beside this one and a journal  *)
(* is recovered before a session opens.                                    *)

\* One session at a time, and recovery first.
OneSession == Freedoms \cap {"recoverLate", "twoSessions"} = {}

\* The session knows every id the registry has recorded, and the set under way
\* writes what the session knows.
Remembers ==
  /\ KeepsRegistry => AllKept(ix, tree.recs)
  /\ ~KeepsRegistry => ix.host = NoPath
  /\ \A k \in DOMAIN ops : ops[k].op = "registry" =>
       KeepsRegistry /\ phase \in {"staged", "saving"} /\ ops[k].recs = Status(ix)

Recorded ==
  /\ Held
  /\ KeepsRegistry => Uncontested(Healed.recs)
  /\ journal = NoJournal /\ phase # "down" => Remembers

\* A set records nothing but what its registry operations do.
LEMMA ApplyRecords ==
  ASSUME NEW t \in Trees, NEW r, NEW os \in Seq(Ops),
         \A k \in DOMAIN os : os[k].op = "registry" => os[k].recs = r
  PROVE  ApplyOps(t, os).recs \in {t.recs, r}
<1> DEFINE X == {o \in Ops : o.op = "registry" => o.recs = r}
           S == {c \in Seq(X) : ApplyOps(t, c).recs \in {t.recs, r}}
<1>1. <<>> \in S
  BY ApplyNone, EmptySeq
<1>2. ASSUME NEW c \in S, NEW x \in X
      PROVE  Append(c, x) \in S
  <2>1. c \in Seq(X) /\ ApplyOps(t, c).recs \in {t.recs, r}
    OBVIOUS
  <2>2. x \in Ops /\ (x.op = "registry" => x.recs = r)
    OBVIOUS
  <2>3. X \in SUBSET Ops
    OBVIOUS
  <2> HIDE DEF X
  <2>4. Append(c, x) \in Seq(X) /\ c \in Seq(Ops)
    BY <2>1, <2>3, AppendProperties, SeqMonotonic
  <2>5. PICK u : u = ApplyOps(t, c)
    OBVIOUS
  <2>6. u \in Trees /\ ApplyOps(t, Append(c, x)) = ApplyOp(u, x)
    BY <2>2, <2>4, <2>5, ApplyTyped, ApplyAppend
  <2>7. ApplyOp(u, x).recs \in {u.recs, r}
    BY <2>2, <2>6, OpKinds, ApplyOpEffect
  <2> QED
    BY <2>1, <2>4, <2>5, <2>6, <2>7
<1>3. S = Seq(X)
  <2> HIDE DEF S
  <2>1. S \in SUBSET Seq(X)
    BY DEF S
  <2> QED
    BY <1>1, <1>2, <2>1, SeqSetInduction
<1>4. os \in Seq(X)
  <2>1. Len(os) \in Nat /\ os \in [1..Len(os) -> Ops] /\ DOMAIN os = 1..Len(os)
    BY LenProperties
  <2>2. os \in [1..Len(os) -> X]
    BY <2>1
  <2> QED
    BY <2>1, <2>2, SeqDef
<1> QED
  BY <1>3, <1>4

\* Stamps are documents written.
LEMMA StampedUnregistered ==
  ASSUME tree \in Trees, ops \in Seq(Ops), Shaped(ops), stamps \in Seq(DocPaths \X Ids)
  PROVE  Unregistered(Stamped(ops, stamps))
  BY StampedFull DEF StampFull, Shaped, Unregistered

\* What lands: the records there were, or those of the session, which has kept them.
LEMMA LandedRecords ==
  ASSUME Recorded, Applying, journal = NoJournal
  PROVE  /\ Landed.recs \in {tree.recs, Status(ix)}
         /\ phase = "stamping" \/ ~KeepsRegistry => Landed.recs = tree.recs
         /\ KeepsRegistry => Uncontested(Landed.recs)
         /\ \A i \in Ids : tree.recs[i] # NoRecord => Landed.recs[i] # NoRecord
<1>1. Held /\ Remembers /\ tree \in Trees /\ ops \in Seq(Ops) /\ StoreOK(ix)
  BY DEF Recorded, Held, Typed, Applying
<1>2. Landed.recs \in {tree.recs, Status(ix)}
  BY <1>1, ApplyRecords DEF Remembers, Landed
<1>3. ASSUME phase = "stamping" \/ ~KeepsRegistry
      PROVE  Landed.recs = tree.recs
  <2>1. \A k \in DOMAIN ops : ops[k].op = "registry" => ops[k].recs = tree.recs
    BY <1>1, <1>3 DEF Remembers
  <2> QED
    BY <1>1, <2>1, ApplyRecords DEF Landed
<1>4. KeepsRegistry => Uncontested(Landed.recs)
  BY <1>1, <1>2, StatusOfStore DEF Recorded, Healed
<1>5. KeepsRegistry => Covers(ix, tree.recs)
  BY <1>1 DEF Remembers, AllKept, Kept
<1>6. \A i \in Ids : tree.recs[i] # NoRecord => Landed.recs[i] # NoRecord
  BY <1>2, <1>3, <1>5 DEF Covers
<1> QED
  BY <1>2, <1>3, <1>4, <1>6

\* Where the files stay, so do their records.
LEMMA RecordsStay ==
  ASSUME Recorded, Held', UNCHANGED <<storage, tree, journal>>,
         journal = NoJournal /\ phase' # "down" => Remembers'
  PROVE  Recorded'
<1>1. KeepsRegistry' = KeepsRegistry /\ Healed' = Healed
  BY DEF KeepsRegistry, Healed
<1> QED
  BY <1>1 DEF Recorded

LEMMA TakenRecorded ==
  ASSUME Recorded, NEW store, NEW queue, NEW set, NEW expected,
         Taken(store, queue, set, expected)
  PROVE  Recorded'
<1>1. Held' /\ UNCHANGED <<storage, tree, journal>> /\ ix' = store /\ phase = "idle"
  BY TakenHeld DEF Recorded, Taken
<1>2. /\ Follows(ix, store) /\ tree.recs \in RecordMaps /\ ops = <<>>
      /\ \A k \in DOMAIN set : set[k].op # "registry"
  BY <1>1 DEF Recorded, Held, Typed, Trees, Taken, Offer, Shaped
<1>3. ops' \in {ops, set}
  BY DEF Taken, Hand, Left
<1>4. \A k \in DOMAIN ops' : ops'[k].op # "registry"
  BY <1>2, <1>3
<1>5. ASSUME journal = NoJournal
      PROVE  Remembers'
  <2>1. Remembers
    BY <1>1, <1>5 DEF Recorded
  <2>2. KeepsRegistry' = KeepsRegistry /\ tree' = tree
    BY <1>1 DEF KeepsRegistry
  <2> QED
    BY <1>1, <1>2, <1>4, <2>1, <2>2 DEF Remembers, Follows
<1> QED
  BY <1>1, <1>5, RecordsStay

LEMMA StageRecorded ==
  ASSUME Recorded, Stage
  PROVE  Recorded'
<1> DEFINE o == RegistryOp(Render(ix).text)
<1>1. /\ phase = "built" /\ phase' = "staged" /\ storage' = storage
      /\ ops' = WithRegistry(Stamped(ops, stamps)) /\ ix' = PendingWrite(ix)
      /\ tree' = tree /\ journal' = journal /\ KeepsRegistry' = KeepsRegistry
  BY DEF Stage, KeepsRegistry
<1>2. /\ Held /\ tree \in Trees /\ ops \in Seq(Ops) /\ stamps \in Seq(DocPaths \X Ids)
      /\ StoreOK(ix) /\ Shaped(ops)
  BY <1>1 DEF Recorded, Held, Typed
<1>3. PICK os : os = Stamped(ops, stamps)
  OBVIOUS
<1>4. os \in Seq(Ops) /\ Unregistered(os)
  BY <1>2, <1>3, StampedTyped, StampedUnregistered
<1>5. ops' = IF HasPendingWrite(ix) THEN Append(os, o) ELSE os
  BY <1>1, <1>3 DEF WithRegistry
<1>6. ASSUME journal = NoJournal
      PROVE  Remembers'
  <2>1. Remembers
    BY <1>1, <1>6 DEF Recorded
  <2>2. CASE ~KeepsRegistry
    <3>1. ~HasPendingWrite(ix)
      BY <2>1, <2>2 DEF Remembers, HasPendingWrite
    <3>2. ix' = ix /\ ops' = os
      BY <1>1, <1>5, <3>1 DEF PendingWrite
    <3> QED
      BY <1>1, <1>4, <2>1, <2>2, <3>2 DEF Remembers, Unregistered
  <2>3. CASE KeepsRegistry
    <3>1. AllKept(ix, tree.recs)
      BY <2>1, <2>3 DEF Remembers
    <3>2. AllKept(ix', tree.recs)
      BY <1>1, <3>1, PendingWriteKept
    <3>3. /\ Status(ix') = Status(ix)
          /\ HasPendingWrite(ix) => Render(ix).text = Status(ix)
      BY <1>1, <3>1, PendingWriteStatus DEF AllKept, Kept, PendingWrite
    <3>4. ASSUME NEW k \in DOMAIN ops', ops'[k].op = "registry"
          PROVE  ops'[k].recs = Status(ix')
      <4>1. HasPendingWrite(ix)
        BY <1>4, <1>5, <3>4 DEF Unregistered
      <4>2. o \in Ops /\ o.recs = Status(ix')
        BY <1>2, <3>3, <4>1, RegistryOpTyped DEF RegistryOp
      <4> HIDE DEF o
      <4>3. /\ DOMAIN Append(os, o) = 1..(Len(os) + 1) /\ DOMAIN os = 1..Len(os) /\ Len(os) \in Nat
            /\ \A j \in 1..Len(os) : Append(os, o)[j] = os[j]
            /\ Append(os, o)[Len(os) + 1] = o
        <5>1. Append(os, o) \in Seq(Ops) /\ Len(Append(os, o)) = Len(os) + 1
          BY <1>4, <4>2, AppendProperties
        <5> QED
          BY <1>4, <4>2, <5>1, AppendProperties, LenProperties
      <4>4. k \in 1..(Len(os) + 1) /\ ops'[k] = Append(os, o)[k]
        BY <1>5, <3>4, <4>1, <4>3
      <4>5. k = Len(os) + 1
        BY <1>4, <3>4, <4>3, <4>4 DEF Unregistered
      <4> QED
        BY <4>2, <4>3, <4>4, <4>5
    <3> HIDE DEF o
    <3> QED
      BY <1>1, <2>3, <3>2, <3>4 DEF Remembers
  <2> QED
    BY <2>2, <2>3
<1>7. Held'
  BY <1>2, StageHeld
<1> QED
  BY <1>1, <1>6, <1>7, RecordsStay

LEMMA FailedRecorded ==
  ASSUME Recorded, StageFails \/ ApplyRefused \/ ApplyFails
  PROVE  Recorded'
<1>1. Held' /\ UNCHANGED <<storage, tree, journal>> /\ ix' \in {ix, Undo}
  BY FailedHeld DEF Recorded
<1>2. phase # "down" /\ ops' = <<>>
  BY DEF StageFails, ApplyRefused, ApplyFails, Applying, Settle
<1>3. ASSUME journal = NoJournal
      PROVE  Remembers'
  <2>1. Remembers /\ StoreOK(ix)
    BY <1>2, <1>3 DEF Recorded, Held, Typed
  <2>2. KeepsRegistry' = KeepsRegistry /\ tree' = tree
    BY <1>1 DEF KeepsRegistry
  <2>3. KeepsRegistry => AllKept(ix', tree.recs)
    BY <1>1, <2>1, RollbackKept DEF Remembers, Undo
  <2>4. ~KeepsRegistry => ix'.host = NoPath
    BY <1>1, <2>1, RollbackStore DEF Remembers, Undo
  <2> QED
    BY <1>2, <2>2, <2>3, <2>4 DEF Remembers
<1> QED
  BY <1>1, <1>3, RecordsStay

LEMMA LandsRecorded ==
  ASSUME Recorded, ApplyLands
  PROVE  Recorded'
<1>1. /\ Applying /\ journal = NoJournal /\ journal' = NoJournal /\ phase # "down"
      /\ ops' = <<>> /\ tree' = Landed /\ ix' = AfterLanding
      /\ KeepsRegistry' = KeepsRegistry
      /\ phase \in {"staged", "stamping", "saving"}
  BY DEF ApplyLands, Applying, Refused, Landed, KeepsRegistry
<1>2. Remembers /\ StoreOK(ix) /\ Held
  BY <1>1 DEF Recorded, Held, Typed
<1>3. /\ Landed.recs \in {tree.recs, Status(ix)}
      /\ phase = "stamping" \/ ~KeepsRegistry => Landed.recs = tree.recs
      /\ KeepsRegistry => Uncontested(Landed.recs)
  BY <1>1, LandedRecords
<1>4. ix' = ix \/ \E b \in BOOLEAN : ix' = Committed(ix, b)
  BY <1>1 DEF AfterLanding, StagesRegistry
<1>5. phase = "stamping" => ix' = ix
  BY <1>1 DEF AfterLanding
<1>6. phase # "stamping" => \E b \in BOOLEAN : ix' = Committed(ix, b)
  BY <1>1 DEF AfterLanding, StagesRegistry
<1>7. KeepsRegistry => AllKept(ix', Landed.recs)
  <2>1. CASE phase = "stamping"
    BY <1>2, <1>3, <1>5, <2>1 DEF Remembers
  <2>2. CASE phase # "stamping"
    BY <1>2, <1>3, <1>6, <2>2, CommittedKept DEF Remembers
  <2> QED
    BY <2>1, <2>2
<1>8. ~KeepsRegistry => ix'.host = NoPath
  BY <1>2, <1>4, CommittedStore DEF Remembers
<1>9. Remembers'
  BY <1>1, <1>7, <1>8 DEF Remembers
<1>10. Healed' = Landed
  BY <1>1 DEF Healed
<1>11. Held'
  BY <1>2, LandsHeld
<1> QED
  BY <1>1, <1>3, <1>9, <1>10, <1>11 DEF Recorded

LEMMA StoppedRecorded ==
  ASSUME Recorded, NEW k \in 0..Len(ops), ApplyTorn(k) \/ CrashInApply(k)
  PROVE  Recorded'
<1>1. Held' /\ Landing /\ journal' # NoJournal /\ storage' = storage
  BY StoppedHeld DEF Recorded
<1>2. Healed' = Landed /\ (KeepsRegistry => Uncontested(Landed.recs))
  BY <1>1, LandedRecords DEF Landing
<1>3. KeepsRegistry' = KeepsRegistry
  BY <1>1 DEF KeepsRegistry
<1> QED
  BY <1>1, <1>2, <1>3 DEF Recorded

LEMMA StampIdsRecorded ==
  ASSUME Recorded, StampIds
  PROVE  Recorded'
<1>1. Held' /\ Unregistered(ops')
  BY StampIdsHeld DEF Recorded
<1>2. /\ phase = "idle" /\ UNCHANGED <<storage, ix, tree, journal>>
      /\ KeepsRegistry' = KeepsRegistry
  BY DEF StampIds, KeepsRegistry
<1>3. ASSUME journal = NoJournal
      PROVE  Remembers'
  BY <1>1, <1>2, <1>3 DEF Recorded, Remembers, Unregistered
<1> QED
  BY <1>1, <1>2, <1>3, RecordsStay

LEMMA SaveIndexRecorded ==
  ASSUME Recorded, SaveIndex
  PROVE  Recorded'
<1> DEFINE store == SetHost(ix, RegPath, tree.recs, FALSE)
<1>1. /\ phase \in {"idle", "stamped"} /\ UNCHANGED <<storage, tree, journal>>
      /\ KeepsRegistry' = KeepsRegistry
  BY DEF SaveIndex, KeepsRegistry
<1>2. Held /\ StoreOK(ix) /\ tree.recs \in RecordMaps /\ ops = <<>>
  BY <1>1 DEF Recorded, Held, Typed, Trees
<1>3. ASSUME journal = NoJournal, KeepsRegistry, ix.dirty
      PROVE  Remembers'
  <2>1. phase' = "saving" /\ ix' = PendingWrite(store) /\ ops' = <<RegistryOp(Render(store).text)>>
    BY <1>3 DEF SaveIndex
  <2>2. AllKept(ix, tree.recs)
    BY <1>1, <1>3 DEF Recorded, Remembers
  <2>3. /\ AllKept(store, tree.recs) /\ store.host = RegPath /\ store.dirty
    <3>1. PICK bare \in BOOLEAN : bare = FALSE
      OBVIOUS
    <3>2. PICK s : s = SetHost(ix, RegPath, tree.recs, bare)
      OBVIOUS
    <3>3. AllKept(s, tree.recs) /\ s.host = RegPath /\ s.dirty = ix.dirty
      BY <1>2, <2>2, <3>2, RegPathIsAPath, SetHostKept
    <3> QED
      BY <1>3, <3>1, <3>2, <3>3
  <2> HIDE DEF store
  <2>4. HasPendingWrite(store)
    BY <2>3, RegPathIsAPath, SentinelsAreApart DEF HasPendingWrite
  <2>5. /\ AllKept(ix', tree.recs) /\ Render(store).text = Status(ix')
    <3>1. Status(ix') = Status(store) /\ PendingWrite(store).text = Status(store)
      BY <2>1, <2>3, <2>4, PendingWriteStatus DEF AllKept, Kept
    <3>2. PendingWrite(store) = Render(store)
      BY <2>4 DEF PendingWrite
    <3> QED
      BY <2>1, <2>3, <3>1, <3>2, PendingWriteKept
  <2>6. \A k \in DOMAIN ops' : ops'[k].recs = Status(ix')
    BY <2>1, <2>5 DEF RegistryOp
  <2> QED
    BY <1>1, <1>3, <2>1, <2>5, <2>6 DEF Remembers
<1>4. ASSUME journal = NoJournal, ~(KeepsRegistry /\ ix.dirty)
      PROVE  Remembers'
  <2>1. ix' = (IF KeepsRegistry THEN ix ELSE MarkClean(ix)) /\ ops' = <<>>
    BY <1>2, <1>4 DEF SaveIndex
  <2>2. Remembers /\ MarkClean(ix).host = ix.host
    BY <1>1, <1>2, <1>4 DEF Recorded, MarkClean, StoreOK, Stores
  <2> QED
    BY <1>1, <2>1, <2>2 DEF Remembers
<1>5. Held'
  BY <1>2, SaveIndexHeld
<1> QED
  BY <1>1, <1>3, <1>4, <1>5, RecordsStay

LEMMA OpenRecorded ==
  ASSUME Held, KeepsRegistry => Uncontested(tree.recs), NEW s \in Opened(tree)
  PROVE  /\ KeepsRegistry => AllKept(s, tree.recs)
         /\ ~KeepsRegistry => s.host = NoPath
<1>1. tree \in Trees
  BY DEF Held, Typed
<1>2. StoreOK(s) /\ (~KeepsRegistry => s.host = NoPath)
  BY <1>1, OpenedTyped
<1>3. ASSUME KeepsRegistry
      PROVE  AllKept(s, tree.recs)
  <2>1. PICK bare \in BOOLEAN : bare = FALSE
    OBVIOUS
  <2>2. PICK recs : recs = tree.recs
    OBVIOUS
  <2>3. recs \in RecordMaps /\ Uncontested(recs) /\ s \in Parse(RegPath, recs, bare)
    BY <1>1, <1>3, <2>1, <2>2 DEF Opened, Trees
  <2>4. Status(s) = recs /\ s.saved = NoCheckpoint /\ s.text = recs /\ s.persisted = recs
    BY <2>3, RegPathIsAPath, ParseStatus
  <2> QED
    BY <1>2, <2>2, <2>4 DEF AllKept, Kept, Covers
<1> QED
  BY <1>2, <1>3

LEMMA SessionsRecorded ==
  ASSUME Recorded, OneSession, Crash \/ Recover \/ Open \/ Migrate \/ UNCHANGED vars
  PROVE  Recorded'
<1>1. Held'
  BY SessionsHeld DEF Recorded
<1>2. CASE Crash
  <2>1. phase' = "down" /\ UNCHANGED <<storage, tree, journal>>
    BY <1>2 DEF Crash, Down
  <2> QED
    BY <1>1, <2>1, RecordsStay
<1>3. CASE Recover
  <2>1. /\ phase = "down" /\ phase' = "down" /\ journal' = NoJournal /\ tree' = Healed
        /\ KeepsRegistry' = KeepsRegistry
    BY <1>3 DEF Recover, OneSession, KeepsRegistry
  <2>2. Healed' = Healed
    BY <2>1 DEF Healed
  <2> QED
    BY <1>1, <2>1, <2>2 DEF Recorded
<1>4. CASE Open
  <2>1. /\ phase = "down" /\ journal = NoJournal /\ ix' \in Opened(tree) /\ ops' = ops
        /\ UNCHANGED <<storage, tree, journal>> /\ KeepsRegistry' = KeepsRegistry
    BY <1>4 DEF Open, KeepsRegistry
  <2>2. Held /\ ops = <<>> /\ (KeepsRegistry => Uncontested(tree.recs))
    BY <2>1 DEF Recorded, Held, Healed
  <2>3. Remembers'
    BY <2>1, <2>2, OpenRecorded DEF Remembers
  <2> QED
    BY <1>1, <2>1, <2>3, RecordsStay
<1>5. CASE Migrate
  <2>1. /\ phase' = "down" /\ KeepsRegistry' = KeepsRegistry /\ Healed' = Healed
    BY <1>5 DEF Migrate, KeepsRegistry, Healed
  <2> QED
    BY <1>1, <2>1 DEF Recorded
<1>6. CASE UNCHANGED vars
  <2>1. UNCHANGED <<storage, ix, phase, ops, tree, journal>> /\ KeepsRegistry' = KeepsRegistry
    BY <1>6 DEF vars, KeepsRegistry
  <2>2. Remembers => Remembers'
    BY <2>1 DEF Remembers
  <2> QED
    BY <1>1, <2>1, <2>2, RecordsStay DEF Recorded
<1> QED
  BY <1>2, <1>3, <1>4, <1>5, <1>6

LEMMA OthersRecorded ==
  ASSUME Recorded, OneSession, OthersWrite
  PROVE  /\ Recorded'
         /\ \A i \in Ids : Healed.recs[i] # NoRecord => Healed'.recs[i] # NoRecord
<1> PICK p \in DocPaths : (\E i \in Ids : OtherSession(p, i)) \/ (\E e \in Edits : ExternalEdit(p, e))
  BY DEF OthersWrite
<1>1. /\ Held' /\ journal = NoJournal
      /\ storage' = storage /\ ix' = ix /\ phase' = phase /\ ops' = ops /\ journal' = journal
      /\ KeepsRegistry' = KeepsRegistry /\ Healed = tree /\ Healed' = tree'
  BY OthersHeld DEF Recorded, KeepsRegistry, Healed
<1>2. tree \in Trees /\ tree.recs \in RecordMaps
  BY DEF Recorded, Held, Typed, Trees
<1>3. CASE \E i \in Ids : OtherSession(p, i)
  <2>1. PICK i \in Ids : OtherSession(p, i)
    BY <1>3
  <2>2. /\ phase = "down" /\ tree.recs[i] = NoRecord /\ \A j \in Ids : tree.recs[j] # p
        /\ \A j \in Ids : tree'.recs[j] = IF j = i THEN p ELSE tree.recs[j]
    BY <1>2, <2>1 DEF OtherSession, OneSession, Trees, RecordMaps
  <2>3. KeepsRegistry => Uncontested(tree'.recs)
    BY <1>1, <2>2 DEF Recorded, Uncontested
  <2>4. p # NoRecord
    BY SentinelsAreApart DEF DocPaths
  <2> QED
    BY <1>1, <2>2, <2>3, <2>4 DEF Recorded
<1>4. CASE \E e \in Edits : ExternalEdit(p, e)
  <2>1. tree'.recs = tree.recs
    BY <1>2, <1>4 DEF ExternalEdit, Trees
  <2>2. Remembers => Remembers'
    BY <1>1, <2>1 DEF Remembers
  <2> QED
    BY <1>1, <2>1, <2>2 DEF Recorded
<1> QED
  BY <1>3, <1>4

LEMMA NextRecorded ==
  ASSUME Recorded, OneSession, [Next]_vars
  PROVE  Recorded'
<1>1. Held
  BY DEF Recorded
<1> QED
  BY <1>1, StepKinds, TakenRecorded, StageRecorded, FailedRecorded, LandsRecorded,
     StoppedRecorded, StampIdsRecorded, SaveIndexRecorded, SessionsRecorded, OthersRecorded

LEMMA InitRecorded ==
  ASSUME Init
  PROVE  Recorded
<1>1. Held /\ Healed = tree /\ ops = <<>>
  BY InitHeld DEF Init, Healed
<1>2. Uncontested(tree.recs)
  BY SentinelsAreApart DEF Init, NoRecords, Uncontested
<1>3. Remembers
  BY <1>1, <1>2, OpenRecorded DEF Init, Remembers
<1> QED
  BY <1>1, <1>2, <1>3 DEF Recorded

-----------------------------------------------------------------------------
(* The theorems.                                                           *)

\* The inductive invariant, for a workspace where a verb is not abandoned
\* before its commit and one session runs at a time: what the change set under
\* way (built by the verbs, staged by Workspace::commit, applied by
\* fs-transaction) leaves agrees with the store if it lands, and the files
\* agree with the checkpoint if it does not.
THEOREM WorkspaceInvariant ==
  ASSUME OnlyOthersWrite
  PROVE  Spec => []IInv
<1>1. Init => IInv
  BY InitOK
<1>2. IInv /\ [Next]_vars => IInv'
  BY NextOK
<1> QED
  BY <1>1, <1>2, PTL DEF Spec

\* Through refused, failed, torn and crashed sets, and whatever of stamp_ids and
\* save_index has run, a document that carries an id is the one the registry
\* has for it, and no two documents carry one id.
THEOREM HomesAgree ==
  ASSUME OnlyOthersWrite
  PROVE  Spec => []TwoHomesAgree
<1>1. IInv => TwoHomesAgree
  BY DEF IInv, FilesOK, Single, Carries, Carried, TwoHomesAgree
<1> QED
  BY <1>1, WorkspaceInvariant, PTL

\* The registry a set leaves, interrupted or not, names no document that was
\* never written or that the set removed.
THEOREM RecordsNameWhatIsThere ==
  ASSUME OnlyOthersWrite
  PROVE  Spec => []RecordsNameDocuments
<1>1. IInv => RecordsNameDocuments
  BY DEF IInv, FilesOK, Names, RecordsNameDocuments
<1> QED
  BY <1>1, WorkspaceInvariant, PTL

\* A set that expects what a verb has read (rename, move, retitle) is refused
\* when another writer has edited it since, and lands with every edit it read:
\* whatever happens besides, verbs abandoned, journals recovered late and
\* sessions side by side included.
THEOREM ReadsAreGuarded == Spec => GuardedReadsKeepEdits
<1> DEFINE Guarded ==
             phase = "staged" =>
               EditsAt(Healed, {p \in DocPaths : expects[p] # Unread}) \subseteq
                 (EditsAt(Healed, DocPaths))'
<1>1. Init => Held
  BY InitHeld
<1>2. Held /\ [Next]_vars => Held'
  BY NextHeld
<1>3. Held /\ [Next]_vars => [Guarded]_vars
  <2> SUFFICES ASSUME Held, [Next]_vars, phase = "staged",
                      NEW p \in DocPaths, expects[p] # Unread, Healed.docs[p] # NoDoc
               PROVE  \E q \in DocPaths : /\ Healed'.docs[q] # NoDoc
                                          /\ Healed.docs[p].edits \subseteq Healed'.docs[q].edits
    BY DEF EditsAt
  <2>1. CASE Healed' = Healed
    BY <2>1
  <2>2. CASE Landing
    <3>1. Healed = tree /\ expects[p] = tree.docs[p] /\ Healed' = Landed
      BY <2>2 DEF Landing, Refused, Drifted, Healed
    <3>2. EditsLand
      BY DEF Held
    <3> QED
      BY <3>1, <3>2 DEF EditsLand
  <2>3. CASE OthersWrite
    BY <2>3, OthersHeld DEF Fuller
  <2> QED
    BY <2>1, <2>2, <2>3, HealedMoves
<1> QED
  BY <1>1, <1>2, <1>3, PTL DEF Spec, GuardedReadsKeepEdits

\* No rollback, abandoned verb, failed stamp, refused set or recovery takes a
\* line out of the registry: an id once recorded keeps its record, if only as a
\* tombstone, where one session runs at a time and a journal is recovered
\* before a session opens.
THEOREM RecordsAreKept ==
  ASSUME OneSession
  PROVE  Spec => NothingRecordedIsDropped
<1> DEFINE Remains == \A i \in Ids : Healed.recs[i] # NoRecord => (Healed.recs[i])' # NoRecord
<1>1. Init => Recorded
  BY InitRecorded
<1>2. Recorded /\ [Next]_vars => Recorded'
  BY NextRecorded
<1>3. Recorded /\ [Next]_vars => [Remains]_vars
  <2> SUFFICES ASSUME Recorded, [Next]_vars
               PROVE  Remains
    OBVIOUS
  <2>1. CASE Healed' = Healed
    BY <2>1
  <2>2. CASE Landing
    BY <2>2, LandedRecords DEF Landing, Healed
  <2>3. CASE OthersWrite
    BY <2>3, OthersRecorded
  <2> QED
    BY <2>1, <2>2, <2>3, HealedMoves DEF Recorded
<1> QED
  BY <1>1, <1>2, <1>3, PTL DEF Spec, NothingRecordedIsDropped

=============================================================================
