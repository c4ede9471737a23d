-------------------------- MODULE ContainmentProofs --------------------------
(***************************************************************************)
(* For every finite set of paths, the verbs of containment leave all links *)
(* answered but for a forced delete and the rename of a top; no verb but   *)
(* adopt makes a loop; and each changes the documents in one of the four   *)
(* ways Forest gives to change a forest.                                   *)
(***************************************************************************)
EXTENDS Containment, FiniteSetTheorems, WellFoundedInduction, TLAPS

Files == [Paths -> Docs \cup {NoDoc}]
TypeOK == docs \in Files

Answered == TypeOK /\ LinksAreAnswered
-----------------------------------------------------------------------------
(* The climb.                                                              *)

\* The rungs are the least set that has the start and all above what it has.
LEMMA RungsOK ==
    ASSUME TypeOK, NEW p \in Paths
    PROVE  /\ p \in Rungs(p) /\ Rungs(p) \in SUBSET Paths /\ HasAllAbove(Rungs(p))
           /\ \A rungs \in SUBSET Paths : p \in rungs /\ HasAllAbove(rungs) => Rungs(p) \subseteq rungs
<1>1. p \in Rungs(p) /\ Rungs(p) \in SUBSET Paths
    BY DEF Rungs
<1>2. \A rungs \in SUBSET Paths : p \in rungs /\ HasAllAbove(rungs) => Rungs(p) \subseteq rungs
    BY DEF Rungs
<1>3. ASSUME NEW q \in Rungs(p) \cap Present, docs[q].up # NoPath PROVE docs[q].up \in Rungs(p)
    <2>1. docs[q].up \in Paths
        BY <1>3 DEF TypeOK, Files, Docs, Present
    <2>2. \A rungs \in SUBSET Paths : p \in rungs /\ HasAllAbove(rungs) => docs[q].up \in rungs
        BY <1>2, <1>3 DEF HasAllAbove
    <2> QED
        BY <2>1, <2>2 DEF Rungs
<1> QED
    BY <1>1, <1>2, <1>3 DEF HasAllAbove

\* A climb goes on as the climb from any of its rungs does.
LEMMA RungsOfRung ==
    ASSUME TypeOK, NEW p \in Paths, NEW q \in Rungs(p)
    PROVE  q \in Paths /\ Rungs(q) \subseteq Rungs(p)
<1>1. q \in Paths /\ HasAllAbove(Rungs(p)) /\ Rungs(p) \in SUBSET Paths
    BY RungsOK
<1> QED
    BY <1>1, RungsOK

\* It is the start and the climb from the parent.
LEMMA RungsOfParent ==
    ASSUME TypeOK, NEW p \in Present, docs[p].up # NoPath
    PROVE  /\ docs[p].up \in Paths /\ docs[p].up \in Rungs(p)
           /\ Rungs(p) = {p} \cup Rungs(docs[p].up)
<1> DEFINE u == docs[p].up
           rungs == {p} \cup Rungs(u)
<1>1. p \in Paths /\ u \in Paths
    BY DEF TypeOK, Files, Docs, Present
<1>2. p \in Rungs(p) /\ u \in Rungs(p)
    BY <1>1, RungsOK DEF HasAllAbove
<1>3. Rungs(u) \subseteq Rungs(p)
    BY <1>1, <1>2, RungsOfRung
<1>4. rungs \in SUBSET Paths /\ HasAllAbove(rungs)
    BY <1>1, RungsOK DEF HasAllAbove
<1>5. Rungs(p) \subseteq rungs
    BY <1>1, <1>4, RungsOK
<1> QED
    BY <1>1, <1>2, <1>3, <1>5

LEMMA RungsOfTop ==
    ASSUME TypeOK, NEW p \in Paths, IsTop(p)
    PROVE  Rungs(p) = {p}
<1>1. HasAllAbove({p}) /\ {p} \in SUBSET Paths
    BY DEF HasAllAbove, IsTop
<1> QED
    BY <1>1, RungsOK

\* Of any sets of paths one has none of the others strictly within it.
LEMMA LeastOK ==
    ASSUME NEW F \in SUBSET SUBSET Paths, F # {}
    PROVE  \E X \in F : \A Y \in F : Y \subseteq X => Y = X
<1>1. F \subseteq FiniteSubsetsOf(Paths)
    BY ContainmentPaths, FS_Subset DEF FiniteSubsetsOf
<1>2. PICK X \in F : \A Y \in F : ~(<<Y, X>> \in StrictSubsetOrdering(Paths))
    BY <1>1, WFMin, FS_StrictSubsetOrderingWellFounded
<1> QED
    BY <1>2 DEF StrictSubsetOrdering

\* In a loop, which all its rungs climb in full, each is the parent of one of them.
LEMMA LoopOK ==
    ASSUME TypeOK, NEW L \in SUBSET Paths, NEW p \in L,
           \A r \in L : ~IsTop(r) /\ Rungs(r) = L
    PROVE  \E c \in L \cap Present : docs[c].up = p
<1> SUFFICES ASSUME \A c \in L \cap Present : docs[c].up # p PROVE FALSE
    OBVIOUS
<1>1. p \in Present /\ docs[p].up # NoPath /\ docs[p].up # p
    BY DEF IsTop
<1>2. docs[p].up \in L
    BY <1>1, RungsOfParent
<1>3. HasAllAbove(L \ {p})
    <2>1. HasAllAbove(L)
        BY RungsOK
    <2> QED
        BY <2>1 DEF HasAllAbove
<1>4. Rungs(docs[p].up) \subseteq L \ {p}
    BY <1>1, <1>2, <1>3, RungsOK
<1> QED
    BY <1>2, <1>4

\* A climb ends: the least of the climbs from its rungs is that of a top alone, or
\* of a loop, which the climb starts in or comes into.
LEMMA SomeEnd ==
    ASSUME TypeOK, NEW p \in Paths
    PROVE  \E e \in Rungs(p) : IsTop(e) \/ Enters(e, p)
<1> SUFFICES ASSUME \A r \in Rungs(p) : ~IsTop(r) PROVE \E e \in Rungs(p) : Enters(e, p)
    OBVIOUS
<1> DEFINE F == {Rungs(q) : q \in Rungs(p)}
<1>1. F \in SUBSET SUBSET Paths /\ F # {}
    BY RungsOK, RungsOfRung
<1>2. PICK X \in F : \A Y \in F : Y \subseteq X => Y = X
    BY <1>1, LeastOK
<1>3. PICK q \in Rungs(p) : X = Rungs(q)
    OBVIOUS
<1>4. q \in X /\ X \in SUBSET Paths /\ X \subseteq Rungs(p)
    BY <1>3, RungsOK, RungsOfRung
<1>5. \A r \in X : ~IsTop(r) /\ Rungs(r) = X
    <2> SUFFICES ASSUME NEW r \in X PROVE Rungs(r) = X
        BY <1>4
    <2>1. r \in Rungs(p) /\ Rungs(r) \subseteq X
        BY <1>3, <1>4, RungsOfRung
    <2> QED
        BY <1>2, <2>1
<1> HIDE DEF F
<1>6. CASE p \in X
    <2>1. PICK c \in X \cap Present : docs[c].up = p
        BY <1>4, <1>5, <1>6, LoopOK
    <2> QED
        BY <1>5, <1>6, <2>1, RungsOK DEF Enters
<1>7. CASE p \notin X
    <2>1. PICK c \in (Rungs(p) \ X) \cap Present : docs[c].up \in X
        <3> SUFFICES ASSUME \A c \in (Rungs(p) \ X) \cap Present : docs[c].up \notin X PROVE FALSE
            OBVIOUS
        <3>1. HasAllAbove(Rungs(p) \ X) /\ p \in Rungs(p) \ X
            BY <1>7, RungsOK DEF HasAllAbove
        <3>2. Rungs(p) \subseteq Rungs(p) \ X
            BY <3>1, RungsOK
        <3> QED
            BY <1>3, <1>4, <3>2
    <2> DEFINE e == docs[c].up
    <2>2. PICK d \in X \cap Present : docs[d].up = e
        BY <1>4, <1>5, <2>1, LoopOK
    <2>3. Rungs(e) = X /\ e \in Rungs(p)
        BY <1>4, <1>5, <2>1
    <2> QED
        BY <2>1, <2>2, <2>3 DEF Enters
<1> QED
    BY <1>6, <1>7

LEMMA ClimbEndOK ==
    ASSUME TypeOK, NEW p \in Paths
    PROVE  /\ ClimbEnd(p) \in Rungs(p)
           /\ IsTop(ClimbEnd(p)) \/ Enters(ClimbEnd(p), p)
    BY SomeEnd DEF ClimbEnd

\* The rungs from a document are documents.
LEMMA RungsArePresent ==
    ASSUME TypeOK, LinksAreAnswered, NEW p \in Present
    PROVE  Rungs(p) \subseteq Present
<1>1. HasAllAbove(Present) /\ Present \in SUBSET Paths
    BY DEF HasAllAbove, LinksAreAnswered, Present
<1> QED
    BY <1>1, RungsOK

-----------------------------------------------------------------------------
(* The census.                                                             *)

\* From a rung of a document's climb the census visits the document: else it would
\* visit none of those above it either, each being listed by the next.
LEMMA BelowIsVisited ==
    ASSUME Answered, NEW p \in Present, NEW e \in Rungs(p)
    PROVE  p \in Visited(e)
<1>1. TypeOK /\ LinksAreAnswered /\ p \in Paths /\ Rungs(p) \subseteq Present
    BY RungsArePresent DEF Answered, Present
<1>2. SUFFICES ASSUME NEW visited \in SUBSET Present, {e} \cap Present \subseteq visited,
                      HasAllListed(visited), p \notin visited
               PROVE  FALSE
    BY DEF Visited
<1>3. ASSUME NEW r \in (Rungs(p) \ visited) \cap Present, docs[r].up # NoPath
      PROVE  docs[r].up \in Rungs(p) \ visited
    <2>1. docs[r].up \in Rungs(p)
        BY <1>1, <1>3, RungsOK DEF HasAllAbove
    <2>2. Lists(docs[r].up, r)
        BY <1>1, <1>3 DEF LinksAreAnswered
    <2> QED
        BY <1>2, <1>3, <2>1, <2>2 DEF HasAllListed
<1>4. HasAllAbove(Rungs(p) \ visited)
    BY <1>3 DEF HasAllAbove
<1>5. Rungs(p) \subseteq Rungs(p) \ visited
    BY <1>1, <1>2, <1>4, RungsOK
<1> QED
    BY <1>1, <1>2, <1>5

\* What a visited document lists is visited.
LEMMA ListedIsVisited ==
    ASSUME NEW start, NEW c \in Visited(start), NEW p \in Present, Lists(c, p)
    PROVE  p \in Visited(start)
    BY DEF Visited, HasAllListed

-----------------------------------------------------------------------------
(* The entries of a document, as a sequence that has each once.            *)

LEMMA AppendOK ==
    ASSUME NEW s \in Seq(Paths), IsInjective(s), NEW p \in Paths \ Range(s)
    PROVE  /\ Append(s, p) \in Seq(Paths) /\ IsInjective(Append(s, p))
           /\ Range(Append(s, p)) = Range(s) \cup {p}
<1>1. /\ Append(s, p) \in Seq(Paths)
      /\ DOMAIN Append(s, p) = 1 .. Len(s) + 1 /\ DOMAIN s = 1 .. Len(s) /\ Len(s) \in Nat
    OBVIOUS
<1>2. /\ \A k \in 1 .. Len(s) : Append(s, p)[k] = s[k]
      /\ Append(s, p)[Len(s) + 1] = p
    OBVIOUS
<1>3. Range(Append(s, p)) = Range(s) \cup {p}
    BY <1>1, <1>2 DEF Range
<1>4. IsInjective(Append(s, p))
    BY <1>1, <1>2 DEF IsInjective, Range
<1> QED
    BY <1>1, <1>3, <1>4

LEMMA RemoveAtOK ==
    ASSUME NEW s \in Seq(Paths), IsInjective(s), NEW i \in DOMAIN s
    PROVE  /\ RemoveAt(s, i) \in Seq(Paths) /\ IsInjective(RemoveAt(s, i))
           /\ Range(RemoveAt(s, i)) = Range(s) \ {s[i]}
<1> DEFINE t == RemoveAt(s, i)
           a == SubSeq(s, 1, i - 1)
           b == SubSeq(s, i + 1, Len(s))
<1>1. i \in 1 .. Len(s) /\ Len(s) \in Nat /\ DOMAIN s = 1 .. Len(s)
    OBVIOUS
<1>2. t = a \o b
    BY DEF RemoveAt
<1>3. /\ a \in Seq(Paths) /\ Len(a) = i - 1 /\ \A k \in 1 .. i - 1 : a[k] = s[k]
      /\ b \in Seq(Paths) /\ Len(b) = Len(s) - i /\ \A k \in 1 .. Len(s) - i : b[k] = s[k + i]
    BY <1>1
<1> HIDE DEF t, a, b
<1>4. t \in Seq(Paths) /\ Len(t) = Len(s) - 1 /\ DOMAIN t = 1 .. Len(s) - 1
    <2>1. t \in Seq(Paths) /\ Len(t) = Len(a) + Len(b)
        BY <1>2, <1>3
    <2>2. Len(t) = Len(s) - 1
        BY <1>1, <1>3, <2>1
    <2> QED
        BY <2>1, <2>2
<1>5. ASSUME NEW k \in 1 .. Len(s) - 1
      PROVE  t[k] = IF k < i THEN s[k] ELSE s[k + 1]
    <2>1. k \in 1 .. Len(a) + Len(b)
        BY <1>1, <1>3
    <2>2. t[k] = IF k <= Len(a) THEN a[k] ELSE b[k - Len(a)]
        BY <1>2, <1>3, <2>1
    <2>3. CASE k < i
        BY <1>1, <1>3, <2>2, <2>3
    <2>4. CASE k >= i
        <3>1. k - Len(a) \in 1 .. Len(s) - i /\ (k - Len(a)) + i = k + 1 /\ ~(k <= Len(a)) /\ ~(k < i)
            BY <1>1, <1>3, <2>4
        <3> QED
            BY <1>3, <2>2, <3>1
    <2> QED
        BY <1>1, <2>3, <2>4
<1> DEFINE m(k) == IF k < i THEN k ELSE k + 1
<1>6. \A k \in DOMAIN t : m(k) \in DOMAIN s \ {i} /\ t[k] = s[m(k)]
    BY <1>1, <1>4, <1>5
<1>7. \A k, l \in DOMAIN t : m(k) = m(l) => k = l
    BY <1>1, <1>4
<1>8. \A k \in DOMAIN s \ {i} : \E l \in DOMAIN t : k = m(l)
    <2> TAKE k \in DOMAIN s \ {i}
    <2>1. CASE k < i
        BY <1>1, <1>4, <2>1
    <2>2. CASE k > i
        <3>1. k - 1 \in DOMAIN t /\ m(k - 1) = k
            BY <1>1, <1>4, <2>2
        <3> QED
            BY <3>1
    <2> QED
        BY <1>1, <2>1, <2>2
<1> HIDE DEF m
<1>9. IsInjective(t)
    BY <1>6, <1>7 DEF IsInjective
<1>10. Range(t) = Range(s) \ {s[i]}
    BY <1>6, <1>8 DEF IsInjective, Range
<1> QED
    BY <1>4, <1>9, <1>10 DEF t

LEMMA WithoutOK ==
    ASSUME NEW s \in Seq(Paths), IsInjective(s), NEW p
    PROVE  /\ Without(s, p) \in Seq(Paths) /\ IsInjective(Without(s, p))
           /\ Range(Without(s, p)) = Range(s) \ {p}
<1>1. CASE p \notin Range(s)
    <2>1. Without(s, p) = s
        BY <1>1 DEF Without, Range
    <2> QED
        BY <1>1, <2>1
<1>2. CASE p \in Range(s)
    <2>1. PICK k \in DOMAIN s : s[k] = p
        BY <1>2 DEF Range
    <2>2. k \in Nat /\ IsFirst(k, s, p)
        BY <2>1 DEF IsFirst, IsInjective
    <2> DEFINE i == CHOOSE l \in DOMAIN s : IsFirst(l, s, p)
    <2>3. i \in DOMAIN s /\ IsFirst(i, s, p)
        BY <2>1, <2>2
    <2>4. Without(s, p) = RemoveAt(s, i)
        BY <2>1 DEF Without
    <2> HIDE DEF i
    <2>5. s[i] = p
        BY <2>3 DEF IsFirst
    <2> QED
        BY <2>3, <2>4, <2>5, RemoveAtOK
<1> QED
    BY <1>1, <1>2

LEMMA RetargetOK ==
    ASSUME NEW s \in Seq(Paths), IsInjective(s), NEW from \in Paths, NEW to \in Paths \ Range(s)
    PROVE  /\ Retarget(s, from, to) \in Seq(Paths) /\ IsInjective(Retarget(s, from, to))
           /\ Range(Retarget(s, from, to)) = {IF p = from THEN to ELSE p : p \in Range(s)}
<1> DEFINE t == Retarget(s, from, to)
<1>1. DOMAIN t = DOMAIN s /\ \A k \in DOMAIN s : t[k] = IF s[k] = from THEN to ELSE s[k]
    BY DEF Retarget
<1>2. t \in Seq(Paths)
    BY DEF Retarget
<1> HIDE DEF t
<1>3. IsInjective(t)
    BY <1>1 DEF IsInjective, Range
<1>4. Range(t) = {IF p = from THEN to ELSE p : p \in Range(s)}
    BY <1>1 DEF Range
<1> QED
    BY <1>2, <1>3, <1>4 DEF t

LEMMA PermutedOK ==
    ASSUME NEW s \in Seq(Paths), IsInjective(s), NEW perm \in Bijection(DOMAIN s, DOMAIN s),
           NEW t, t = [k \in DOMAIN s |-> s[perm[k]]]
    PROVE  t \in Seq(Paths) /\ IsInjective(t) /\ Range(t) = Range(s)
<1>1. DOMAIN s = 1 .. Len(s) /\ Len(s) \in Nat
    OBVIOUS
<1>2. /\ perm \in [DOMAIN s -> DOMAIN s]
      /\ \A k \in DOMAIN s : \E l \in DOMAIN s : perm[l] = k
      /\ \A k, l \in DOMAIN s : perm[k] = perm[l] => k = l
    BY DEF Bijection, Injection, Surjection, IsInjective
<1>3. t \in Seq(Paths)
    BY <1>1, <1>2
<1>4. IsInjective(t)
    BY <1>2 DEF IsInjective
<1>5. Range(t) = Range(s)
    BY <1>2 DEF Range
<1> QED
    BY <1>3, <1>4, <1>5

\* A set as a sequence.
LEMMA SetToSeqOK ==
    ASSUME NEW S \in SUBSET Paths
    PROVE  SetToSeq(S) \in Seq(Paths) /\ IsInjective(SetToSeq(S)) /\ Range(SetToSeq(S)) = S
<1> DEFINE n == Cardinality(S)
<1>1. IsFiniteSet(S) /\ n \in Nat /\ ExistsBijection(1 .. n, S)
    BY ContainmentPaths, FS_Subset, FS_CardinalityType
<1>2. \E f \in [1 .. n -> S] : IsInjective(f)
    BY <1>1 DEF ExistsBijection, Bijection, Injection
<1>3. SetToSeq(S) \in [1 .. n -> S] /\ IsInjective(SetToSeq(S))
    BY <1>2 DEF SetToSeq
<1>4. Range(SetToSeq(S)) = S
    <2>1. SetToSeq(S) \in Injection(1 .. n, S)
        BY <1>3 DEF Injection
    <2>2. IsFiniteSet(1 .. n) /\ Cardinality(1 .. n) = n
        BY <1>1, FS_Interval
    <2>3. SetToSeq(S) \in Surjection(1 .. n, S)
        BY <1>1, <2>1, <2>2, FS_Injection
    <2> QED
        BY <1>3, <2>3 DEF Surjection, Range
<1> QED
    BY <1>1, <1>3, <1>4

-----------------------------------------------------------------------------
(* The two invariants of any documents ds, with what a document lists as a *)
(* set, and what is apart from what is above a path as some set that has   *)
(* the one and not the other.                                              *)

There(ds) == {p \in Paths : ds[p] # NoDoc}
Kids(ds, c) == Range(ds[c].down)

Agree(ds) ==
  \A c \in There(ds) :
    /\ IsInjective(ds[c].down)
    /\ \A p \in Kids(ds, c) : p \in There(ds) /\ ds[p].up = c
    /\ ds[c].up # NoPath => ds[c].up \in There(ds) /\ c \in Kids(ds, ds[c].up)

Climbs(ds, rungs) ==
  \A q \in rungs \cap There(ds) : ds[q].up # NoPath => ds[q].up \in rungs

Apart(ds, c, p) == \E rungs \in SUBSET Paths : p \in rungs /\ Climbs(ds, rungs) /\ c \notin rungs

Acyclic(ds) == \A p \in There(ds) : ds[p].up # NoPath => Apart(ds, p, ds[p].up)

LEMMA AgreeOK == TypeOK /\ LinksAreAnswered => Agree(docs)
<1> SUFFICES ASSUME TypeOK, LinksAreAnswered PROVE Agree(docs)
    OBVIOUS
<1>1. There(docs) = Present /\ \A c, p : Lists(c, p) <=> p \in Kids(docs, c)
    BY DEF Lists, Kids, Range, There, Present
<1>2. \A c \in Present : Kids(docs, c) \subseteq Paths
    <2>1. \A c \in Present : docs[c].down \in Seq(Paths)
        BY DEF TypeOK, Files, Docs, Present
    <2> QED
        BY <2>1 DEF Kids, Range
<1> QED
    BY <1>1, <1>2 DEF LinksAreAnswered, Agree

LEMMA AgreeNext == Agree(docs') => LinksAreAnswered'
<1>1. There(docs') = Present'
    BY DEF There, Present
<1>2. \A c, p : (\E k \in DOMAIN docs'[c].down : docs'[c].down[k] = p) <=> p \in Kids(docs', c)
    BY DEF Kids, Range
<1> QED
    BY <1>1, <1>2 DEF LinksAreAnswered, Agree, Lists

LEMMA ApartOK ==
    ASSUME NEW c \in Paths, NEW p \in Paths
    PROVE  Apart(docs, c, p) <=> ~Above(c, p)
<1>1. \A rungs : Climbs(docs, rungs) <=> HasAllAbove(rungs)
    BY DEF Climbs, HasAllAbove, There, Present
<1> QED
    BY <1>1 DEF Apart, Above, Rungs

LEMMA AcyclicOK == TypeOK /\ NothingContainsItself => Acyclic(docs)
<1> SUFFICES ASSUME TypeOK, NothingContainsItself, NEW p \in Present, docs[p].up # NoPath
             PROVE  Apart(docs, p, docs[p].up)
    BY DEF Acyclic, There, Present
<1>1. p \in Paths /\ docs[p].up \in Paths
    BY DEF TypeOK, Files, Docs, Present
<1>2. ~Above(p, docs[p].up)
    BY DEF NothingContainsItself
<1> QED
    BY <1>1, <1>2, ApartOK

LEMMA AcyclicNext == Acyclic(docs') => NothingContainsItself'
<1>1. \A rungs : Climbs(docs', rungs) <=>
        \A q \in rungs \cap Present' : docs'[q].up # NoPath => docs'[q].up \in rungs
    BY DEF Climbs, There, Present
<1> QED
    BY <1>1 DEF Acyclic, Apart, There, Present, NothingContainsItself, Above, Rungs, HasAllAbove

\* Every parent is there: what is not has nothing beneath it.
LEMMA ParentsAreThere ==
    ASSUME NEW ds, Agree(ds), NEW q \in There(ds), ds[q].up # NoPath
    PROVE  ds[q].up \in There(ds) /\ q \in Kids(ds, ds[q].up)
    BY DEF Agree

-----------------------------------------------------------------------------
(* The four changes, of documents ds into documents es.                    *)

Planted(ds, es, p, u) ==
  /\ p \in Paths \ There(ds) /\ u \in There(ds) \cup {NoPath}
  /\ There(es) = There(ds) \cup {p}
  /\ es[p].up = u /\ es[p].down = <<>>
  /\ \A q \in There(ds) :
       /\ es[q].up = ds[q].up /\ IsInjective(es[q].down)
       /\ Kids(es, q) = Kids(ds, q) \cup (IF q = u THEN {p} ELSE {})

LEMMA PlantedOK ==
    ASSUME NEW ds, NEW es, Agree(ds), NEW p, NEW u, Planted(ds, es, p, u)
    PROVE  Agree(es) /\ (Acyclic(ds) => Acyclic(es))
<1>1. IsInjective(es[p].down) /\ Kids(es, p) = {}
    BY DEF IsInjective, Kids, Range, Planted
<1>2. Agree(es)
    <2> SUFFICES ASSUME NEW c \in There(es)
                 PROVE  /\ IsInjective(es[c].down)
                        /\ \A q \in Kids(es, c) : q \in There(es) /\ es[q].up = c
                        /\ es[c].up # NoPath => es[c].up \in There(es) /\ c \in Kids(es, es[c].up)
        BY DEF Agree
    <2>1. CASE c = p
        BY <1>1, <2>1 DEF Planted
    <2>2. CASE c \in There(ds)
        BY <2>2 DEF Planted, Agree
    <2> QED
        BY <2>1, <2>2 DEF Planted
<1>3. ASSUME Acyclic(ds), NEW q \in There(es), es[q].up # NoPath PROVE Apart(es, q, es[q].up)
    <2>1. CASE q = p
        <3>1. es[p].up \in Paths \ {p}
            BY <1>3, <2>1 DEF Planted, There
        <3>2. Climbs(es, Paths \ {p})
            BY ParentsAreThere DEF Climbs, Planted, There
        <3> QED
            BY <2>1, <3>1, <3>2 DEF Apart
    <2>2. CASE q \in There(ds)
        <3>1. es[q].up = ds[q].up /\ ds[q].up # p /\ q # p
            BY <1>3, <2>2, ParentsAreThere DEF Planted
        <3>2. PICK rungs \in SUBSET Paths : ds[q].up \in rungs /\ Climbs(ds, rungs) /\ q \notin rungs
            BY <1>3, <2>2, <3>1 DEF Acyclic, Apart
        <3>3. Climbs(es, rungs \ {p})
            BY <3>2, ParentsAreThere DEF Climbs, Planted
        <3> QED
            BY <3>1, <3>2, <3>3 DEF Apart
    <2> QED
        BY <2>1, <2>2 DEF Planted
<1> QED
    BY <1>2, <1>3 DEF Acyclic

Grafted(ds, es, c, u) ==
  /\ c \in There(ds) /\ u \in There(ds) /\ c # u
  /\ There(es) = There(ds)
  /\ \A q \in There(ds) :
       /\ es[q].up = (IF q = c THEN u ELSE ds[q].up) /\ IsInjective(es[q].down)
       /\ Kids(es, q) = IF q = u THEN Kids(ds, q) \cup {c} ELSE Kids(ds, q) \ {c}

LEMMA GraftedOK ==
    ASSUME NEW ds, NEW es, Agree(ds), NEW c, NEW u, Grafted(ds, es, c, u)
    PROVE  Agree(es) /\ (Acyclic(ds) /\ Apart(ds, c, u) => Acyclic(es))
<1>1. Agree(es)
    BY DEF Agree, Grafted
<1>2. ASSUME Acyclic(ds), Apart(ds, c, u), NEW q \in There(es), es[q].up # NoPath
      PROVE  Apart(es, q, es[q].up)
    <2>1. PICK above \in SUBSET Paths : u \in above /\ Climbs(ds, above) /\ c \notin above
        BY <1>2 DEF Apart
    <2>2. Climbs(es, above)
        BY <2>1 DEF Climbs, Grafted
    <2>3. CASE q = c
        BY <1>2, <2>1, <2>2, <2>3 DEF Apart, Grafted
    <2>4. CASE q # c
        <3>1. es[q].up = ds[q].up
            BY <1>2, <2>4 DEF Grafted
        <3>2. PICK rungs \in SUBSET Paths : ds[q].up \in rungs /\ Climbs(ds, rungs) /\ q \notin rungs
            BY <1>2, <3>1 DEF Acyclic, Apart, Grafted
        <3>3. CASE q \in above
            <4>1. ds[q].up \in above /\ q \in There(ds)
                BY <1>2, <2>1, <3>1, <3>3 DEF Climbs, Grafted
            <4>2. Climbs(es, rungs \cap above)
                BY <2>1, <3>2 DEF Climbs, Grafted
            <4> QED
                BY <3>1, <3>2, <4>1, <4>2 DEF Apart
        <3>4. CASE q \notin above
            <4>1. Climbs(es, rungs \cup above)
                BY <2>1, <3>2 DEF Climbs, Grafted
            <4> QED
                BY <2>1, <3>1, <3>2, <3>4, <4>1 DEF Apart
        <3> QED
            BY <3>3, <3>4
    <2> QED
        BY <2>3, <2>4
<1> QED
    BY <1>1, <1>2 DEF Acyclic

Relabelled(ds, es, from, to) ==
  LET at(q) == IF q = from THEN to ELSE q
  IN /\ from \in There(ds) /\ to \in Paths \ There(ds)
     /\ There(es) = (There(ds) \ {from}) \cup {to}
     /\ \A q \in There(ds) :
          /\ es[at(q)].up = at(ds[q].up) /\ IsInjective(es[at(q)].down)
          /\ Kids(es, at(q)) = {at(p) : p \in Kids(ds, q)}

LEMMA RelabelledOK ==
    ASSUME NEW ds, NEW es, Agree(ds), NEW from, NEW to, Relabelled(ds, es, from, to)
    PROVE  Agree(es)
<1> DEFINE at(q) == IF q = from THEN to ELSE q
<1>1. /\ from \in There(ds) /\ from \in Paths /\ to \in Paths \ There(ds) /\ from # to
      /\ from # NoPath /\ to # NoPath
    BY ContainmentSentinels DEF Relabelled, There
<1>2. There(es) = {at(q) : q \in There(ds)}
    BY <1>1 DEF Relabelled
<1>3. \A q \in There(ds) :
        /\ es[at(q)].up = at(ds[q].up) /\ IsInjective(es[at(q)].down)
        /\ Kids(es, at(q)) = {at(p) : p \in Kids(ds, q)}
    BY DEF Relabelled
<1>4. ASSUME NEW q \in There(ds)
      PROVE  /\ es[at(q)].up = NoPath <=> ds[q].up = NoPath
             /\ ds[q].up # NoPath => ds[q].up \in There(ds)
    BY <1>1, <1>3, ParentsAreThere
<1>5. \A p, q \in There(ds) : at(p) = at(q) => p = q
    BY <1>1
<1>6. Agree(es)
    <2> SUFFICES ASSUME NEW q \in There(ds)
                 PROVE  /\ IsInjective(es[at(q)].down)
                        /\ \A k \in Kids(es, at(q)) : k \in There(es) /\ es[k].up = at(q)
                        /\ es[at(q)].up # NoPath =>
                             es[at(q)].up \in There(es) /\ at(q) \in Kids(es, es[at(q)].up)
        BY <1>2 DEF Agree
    <2>1. ASSUME NEW k \in Kids(es, at(q)) PROVE k \in There(es) /\ es[k].up = at(q)
        <3>1. PICK p \in Kids(ds, q) : k = at(p)
            BY <1>3, <2>1
        <3>2. p \in There(ds) /\ ds[p].up = q
            BY DEF Agree
        <3> QED
            BY <1>2, <1>3, <3>1, <3>2
    <2>2. ASSUME es[at(q)].up # NoPath
          PROVE  es[at(q)].up \in There(es) /\ at(q) \in Kids(es, es[at(q)].up)
        <3>1. ds[q].up \in There(ds) /\ q \in Kids(ds, ds[q].up)
            BY <1>4, <2>2, ParentsAreThere
        <3>2. es[at(q)].up = at(ds[q].up) /\ at(q) \in Kids(es, at(ds[q].up))
            BY <1>3, <3>1
        <3> QED
            BY <1>2, <3>1, <3>2
    <2> QED
        BY <1>3, <2>1, <2>2
<1> QED
    BY <1>6

Pruned(ds, es, p) ==
  /\ p \in There(ds) /\ Kids(ds, p) = {}
  /\ There(es) = There(ds) \ {p}
  /\ \A q \in There(es) :
       es[q].up = ds[q].up /\ IsInjective(es[q].down) /\ Kids(es, q) = Kids(ds, q) \ {p}

LEMMA PrunedOK ==
    ASSUME NEW ds, NEW es, Agree(ds), NEW p, Pruned(ds, es, p)
    PROVE  Agree(es)
    BY DEF Agree, Pruned

\* Without some of them the documents have no loop they had not.
LEMMA FewerOK ==
    ASSUME NEW ds, NEW es, Acyclic(ds), There(es) \subseteq There(ds),
           \A q \in There(es) : es[q].up = ds[q].up
    PROVE  Acyclic(es)
<1>1. \A rungs : Climbs(ds, rungs) => Climbs(es, rungs)
    BY DEF Climbs
<1> QED
    BY <1>1 DEF Acyclic, Apart

\* Nor when one goes elsewhere, whoever of those beneath it follows.
LEMMA MovedOK ==
    ASSUME NEW ds, NEW es, Agree(ds), Acyclic(ds), NEW from \in There(ds), NEW to \in Paths \ There(ds),
           There(es) = (There(ds) \ {from}) \cup {to},
           es[to].up = ds[from].up,
           \A q \in There(ds) \ {from} : es[q].up = ds[q].up \/ (ds[q].up = from /\ es[q].up = to)
    PROVE  Acyclic(es)
<1> DEFINE at(q) == IF q = from THEN to ELSE q
           moved(rungs) == IF from \in rungs THEN (rungs \ {to}) \cup {to} ELSE rungs \ {to}
<1>1. from \in Paths /\ to \in Paths /\ from # to /\ to # NoPath /\ from # NoPath
    BY ContainmentSentinels DEF There
<1>2. \A q \in There(ds) : ds[q].up # NoPath => ds[q].up \in There(ds) /\ ds[q].up # to
    BY ParentsAreThere
<1>3. ASSUME NEW rungs \in SUBSET Paths, Climbs(ds, rungs) PROVE Climbs(es, moved(rungs))
    <2> SUFFICES ASSUME NEW q \in moved(rungs) \cap There(es), es[q].up # NoPath
                 PROVE  es[q].up \in moved(rungs)
        BY DEF Climbs
    <2>1. CASE q = to
        <3>1. from \in rungs /\ es[q].up = ds[from].up
            BY <2>1
        <3>2. ds[from].up \in rungs /\ ds[from].up # to
            BY <1>2, <1>3, <3>1 DEF Climbs
        <3> QED
            BY <3>1, <3>2
    <2>2. CASE q # to
        <3>1. q \in rungs /\ q \in There(ds) \ {from}
            BY <2>2
        <3>2. ds[q].up # NoPath
            BY <1>1, <3>1
        <3>3. ds[q].up \in rungs /\ ds[q].up # to
            BY <1>2, <1>3, <3>1, <3>2 DEF Climbs
        <3> QED
            BY <3>1, <3>3
    <2> QED
        BY <2>1, <2>2
<1> SUFFICES ASSUME NEW q \in There(es), es[q].up # NoPath PROVE Apart(es, q, es[q].up)
    BY DEF Acyclic
<1>4. CASE q = to
    <2>1. PICK rungs \in SUBSET Paths : ds[from].up \in rungs /\ Climbs(ds, rungs) /\ from \notin rungs
        BY <1>4 DEF Acyclic, Apart
    <2>2. to \notin moved(rungs) /\ moved(rungs) \in SUBSET Paths /\ es[q].up \in moved(rungs)
        BY <1>2, <1>4, <2>1
    <2> QED
        BY <1>3, <1>4, <2>1, <2>2 DEF Apart
<1>5. CASE q # to
    <2>1. q \in There(ds) \ {from} /\ ds[q].up # NoPath
        BY <1>1, <1>5
    <2>2. PICK rungs \in SUBSET Paths : ds[q].up \in rungs /\ Climbs(ds, rungs) /\ q \notin rungs
        BY <2>1 DEF Acyclic, Apart
    <2>3. q \notin moved(rungs) /\ moved(rungs) \in SUBSET Paths
        BY <1>1, <1>5, <2>2
    <2>4. es[q].up \in moved(rungs)
        BY <1>2, <2>1, <2>2
    <2> QED
        BY <1>3, <2>2, <2>3, <2>4 DEF Apart
<1> QED
    BY <1>4, <1>5

-----------------------------------------------------------------------------
(* The four changes are those of Forest.                                   *)

LEMMA MappedOK ==
    ASSUME TypeOK
    PROVE  /\ Promise!There = There(docs)
           /\ \A p \in Paths : ParentOf[p] = IF p \in There(docs) THEN docs[p].up ELSE NoDoc
           /\ \A p \in There(docs) : docs[p].up \in Paths \cup {NoPath}
           /\ ParentOf \in [Paths -> Paths \cup {NoPath, NoDoc}]
<1>1. \A p \in Paths : ParentOf[p] = IF p \in There(docs) THEN docs[p].up ELSE NoDoc
    BY DEF ParentOf, There
<1>2. \A p \in There(docs) : docs[p].up \in Paths \cup {NoPath}
    BY DEF TypeOK, Files, Docs, There
<1>3. Promise!There = There(docs)
    BY <1>1, <1>2, ContainmentSentinels DEF Promise!There, There
<1>4. ParentOf \in [Paths -> Paths \cup {NoPath, NoDoc}]
    <2>1. \A p \in Paths : ParentOf[p] \in Paths \cup {NoPath, NoDoc}
        BY <1>1, <1>2
    <2> QED
        BY <2>1 DEF ParentOf
<1> QED
    BY <1>1, <1>2, <1>3, <1>4

LEMMA MappedNext ==
    /\ ParentOf' = [p \in Paths |-> ParentOf'[p]]
    /\ \A p \in Paths : ParentOf'[p] = IF p \in There(docs') THEN docs'[p].up ELSE NoDoc
    BY DEF ParentOf, There

\* What is apart from all above a path has not the path below it: the rest of the
\* paths have all below what they have.
LEMMA WithinOK ==
    ASSUME TypeOK, NEW c \in Paths, NEW p \in Paths, Apart(docs, c, p)
    PROVE  ~Promise!Within(c, p)
<1>1. PICK rungs \in SUBSET Paths : p \in rungs /\ Climbs(docs, rungs) /\ c \notin rungs
    BY DEF Apart
<1>2. Promise!HasAllBelow(Paths \ rungs)
    <2> SUFFICES ASSUME NEW q \in There(docs), docs[q].up \in Paths \ rungs PROVE q \in Paths \ rungs
        BY MappedOK DEF Promise!HasAllBelow, There
    <2> QED
        BY <1>1, ContainmentSentinels DEF Climbs, There
<1> QED
    BY <1>1, <1>2 DEF Promise!Within

LEMMA PlantedMaps ==
    ASSUME TypeOK, NEW p, NEW u, Planted(docs, docs', p, u)
    PROVE  Promise!Next
<1>1. p \in Paths /\ u \in Paths \cup {NoPath}
    BY DEF Planted, There
<1>2. p \notin Promise!There /\ u \in Promise!There \cup {NoPath}
    BY MappedOK DEF Planted
<1>3. ParentOf' = [ParentOf EXCEPT ![p] = u]
    <2>1. \A q \in Paths : ParentOf'[q] = IF q = p THEN u ELSE ParentOf[q]
        BY MappedOK, MappedNext DEF Planted
    <2> QED
        BY <2>1, MappedNext, MappedOK
<1>4. Promise!Plant(p, u)
    BY <1>2, <1>3 DEF Promise!Plant
<1> QED
    BY <1>1, <1>4 DEF Promise!Next

LEMMA GraftedMaps ==
    ASSUME TypeOK, NEW c, NEW u, Grafted(docs, docs', c, u), Apart(docs, c, u)
    PROVE  Promise!Next
<1>1. c \in Paths /\ u \in Paths
    BY DEF Grafted, There
<1>2. c \in Promise!There /\ u \in Promise!There /\ ~Promise!Within(c, u)
    BY <1>1, MappedOK, WithinOK DEF Grafted
<1>3. ParentOf' = [ParentOf EXCEPT ![c] = u]
    <2>1. \A q \in Paths : ParentOf'[q] = IF q = c THEN u ELSE ParentOf[q]
        BY MappedOK, MappedNext DEF Grafted
    <2> QED
        BY <2>1, MappedNext, MappedOK
<1>4. Promise!Graft(c, u)
    BY <1>2, <1>3 DEF Promise!Graft
<1> QED
    BY <1>1, <1>4 DEF Promise!Next

LEMMA RelabelledMaps ==
    ASSUME TypeOK, Acyclic(docs), NEW from, NEW to, Relabelled(docs, docs', from, to)
    PROVE  Promise!Next
<1> DEFINE at(q) == IF q = from THEN to ELSE q
<1>1. /\ from \in There(docs) /\ from \in Paths /\ to \in Paths \ There(docs)
      /\ There(docs') = (There(docs) \ {from}) \cup {to}
      /\ \A q \in There(docs) : docs'[at(q)].up = at(docs[q].up)
    BY DEF Relabelled, There
<1>2. docs[from].up # from
    BY <1>1, ContainmentSentinels DEF Acyclic, Apart
<1>3. from \in Promise!There /\ to \notin Promise!There
    BY <1>1, MappedOK
<1>4. ASSUME NEW q \in Paths
      PROVE  ParentOf'[q] = IF q = from THEN NoDoc
                            ELSE IF q = to THEN ParentOf[from]
                            ELSE IF ParentOf[q] = from THEN to
                            ELSE ParentOf[q]
    <2>1. CASE q = from
        BY <1>1, <2>1, MappedNext
    <2>2. CASE q = to
        BY <1>1, <1>2, <2>2, MappedNext, MappedOK
    <2>3. CASE q # from /\ q # to /\ q \in There(docs)
        BY <1>1, <2>3, MappedNext, MappedOK
    <2>4. CASE q # from /\ q # to /\ q \notin There(docs)
        BY <1>1, <2>4, MappedNext, MappedOK, ContainmentSentinels
    <2> QED
        BY <2>1, <2>2, <2>3, <2>4
<1>5. Promise!Relabel(from, to)
    BY <1>3, <1>4, MappedNext DEF Promise!Relabel
<1> QED
    BY <1>1, <1>5 DEF Promise!Next

LEMMA PrunedMaps ==
    ASSUME TypeOK, Agree(docs), NEW p, Pruned(docs, docs', p)
    PROVE  Promise!Next
<1>1. p \in Paths /\ p \in Promise!There
    BY MappedOK DEF Pruned, There
<1>2. \A q \in Promise!There : ParentOf[q] # p
    <2> SUFFICES ASSUME NEW q \in There(docs), docs[q].up = p PROVE FALSE
        BY MappedOK DEF There
    <2> QED
        BY <1>1, ContainmentSentinels DEF Agree, Pruned
<1>3. ParentOf' = [ParentOf EXCEPT ![p] = NoDoc]
    <2>1. \A q \in Paths : ParentOf'[q] = IF q = p THEN NoDoc ELSE ParentOf[q]
        BY MappedOK, MappedNext DEF Pruned
    <2> QED
        BY <2>1, MappedNext, MappedOK
<1>4. Promise!Prune(p)
    BY <1>1, <1>2, <1>3 DEF Promise!Prune
<1> QED
    BY <1>1, <1>4 DEF Promise!Next

-----------------------------------------------------------------------------
(* The verbs.                                                              *)

\* What is so of any document where all links are answered.
LEMMA DocOK ==
    ASSUME Answered
    PROVE  /\ docs \in Files /\ There(docs) = Present /\ Present \subseteq Paths
           /\ Agree(docs)
           /\ \A q \in Present : /\ docs[q] \in Docs /\ docs[q].down \in Seq(Paths)
                                 /\ IsInjective(docs[q].down) /\ Kids(docs, q) \subseteq Paths
                                 /\ docs[q].up \in Present \cup {NoPath}
<1>1. docs \in Files /\ There(docs) = Present /\ Present \subseteq Paths /\ Agree(docs)
    BY AgreeOK DEF Answered, TypeOK, There, Present
<1>2. \A q \in Present : docs[q] \in Docs
    BY DEF Answered, TypeOK, Files, Present
<1>3. \A q \in Present : /\ docs[q].down \in Seq(Paths)
                         /\ IsInjective(docs[q].down) /\ Kids(docs, q) \subseteq Paths
                         /\ docs[q].up \in Present \cup {NoPath}
    BY <1>1, <1>2 DEF Agree, Docs
<1> QED
    BY <1>1, <1>2, <1>3

\* A leaf, listed by its parent.
LEMMA CreatePlants ==
    ASSUME Answered, NEW p \in Paths, NEW parent \in Paths, Create(p, parent)
    PROVE  Planted(docs, docs', p, parent)
<1> DEFINE leaf == [up |-> parent, down |-> <<>>]
           above == [docs[parent] EXCEPT !.down = Append(docs[parent].down, p)]
<1>1. /\ parent \in Present /\ p \notin Present /\ p # parent
      /\ docs' = [docs EXCEPT ![p] = leaf, ![parent].down = Append(@, p)]
    BY DEF Create
<1>2. /\ docs \in Files /\ docs[parent] \in Docs /\ docs[parent].down \in Seq(Paths)
      /\ IsInjective(docs[parent].down) /\ p \notin Kids(docs, parent)
    BY <1>1, DocOK DEF Agree
<1>3. leaf \in Docs /\ leaf.up = parent /\ leaf.down = <<>>
    BY DEF Docs
<1>4. /\ Append(docs[parent].down, p) \in Seq(Paths) /\ IsInjective(Append(docs[parent].down, p))
      /\ Range(Append(docs[parent].down, p)) = Kids(docs, parent) \cup {p}
    BY <1>2, AppendOK DEF Kids
<1>5. /\ above \in Docs /\ above.up = docs[parent].up /\ above.down = Append(docs[parent].down, p)
    BY <1>2, <1>4 DEF Docs
<1>6. docs' = [docs EXCEPT ![p] = leaf, ![parent] = above]
    BY <1>1, <1>2 DEF Files
<1> HIDE DEF leaf, above
<1>7. /\ docs' \in Files /\ docs'[p] = leaf /\ docs'[parent] = above
      /\ \A q \in Paths \ {p, parent} : docs'[q] = docs[q]
    BY <1>2, <1>3, <1>5, <1>6 DEF Files
<1>8. There(docs') = There(docs) \cup {p}
    BY <1>1, <1>3, <1>5, <1>7, ContainmentSentinels DEF There, Present, Docs
<1>9. Kids(docs', parent) = Kids(docs, parent) \cup {p} /\ IsInjective(docs'[parent].down)
    BY <1>4, <1>5, <1>7 DEF Kids
<1>10. \A q \in There(docs) : q # parent => Kids(docs', q) = Kids(docs, q) /\ docs'[q] = docs[q]
    BY <1>1, <1>7 DEF Kids, There, Present
<1>11. Planted(docs, docs', p, parent)
    BY <1>1, <1>3, <1>5, <1>7, <1>8, <1>9, <1>10, DocOK DEF Planted
<1> QED
    BY <1>11

\* A copy, listed by the parent if there is one.
LEMMA DuplicatePlants ==
    ASSUME Answered, NEW source \in Paths, NEW dest \in Paths, Duplicate(source, dest)
    PROVE  Planted(docs, docs', dest, docs[source].up)
<1> DEFINE parent == docs[source].up
           leaf == [up |-> parent, down |-> <<>>]
<1>1. /\ source \in Present /\ dest \notin Present /\ parent \in Present \cup {NoPath}
      /\ docs' = IF parent = NoPath THEN [docs EXCEPT ![dest] = leaf]
                 ELSE [[docs EXCEPT ![dest] = leaf] EXCEPT ![parent].down = Append(@, dest)]
    BY DEF Duplicate
<1>2. /\ docs \in Files /\ Present \subseteq Paths /\ There(docs) = Present
      /\ \A q \in Present : /\ docs[q] \in Docs /\ docs[q].down \in Seq(Paths)
                            /\ IsInjective(docs[q].down) /\ dest \notin Kids(docs, q)
    BY <1>1, DocOK DEF Agree
<1>3. leaf \in Docs /\ leaf.up = parent /\ leaf.down = <<>>
    BY <1>1, <1>2 DEF Docs
<1> HIDE DEF leaf
<1>4. CASE parent = NoPath
    <2>1. /\ docs' \in Files /\ docs'[dest] = leaf /\ \A q \in Paths \ {dest} : docs'[q] = docs[q]
        BY <1>1, <1>2, <1>3, <1>4 DEF Files
    <2>2. There(docs') = There(docs) \cup {dest}
        BY <1>3, <2>1, ContainmentSentinels DEF There, Docs
    <2>3. \A q \in There(docs) : docs'[q] = docs[q] /\ Kids(docs', q) = Kids(docs, q) /\ q # NoPath
        BY <1>1, <1>2, <2>1, ContainmentSentinels DEF Kids
    <2>4. Planted(docs, docs', dest, NoPath)
        BY <1>1, <1>2, <1>3, <1>4, <2>1, <2>2, <2>3 DEF Planted
    <2> QED
        BY <1>4, <2>4
<1>5. CASE parent # NoPath
    <2> DEFINE above == [docs[parent] EXCEPT !.down = Append(docs[parent].down, dest)]
    <2>1. parent \in Present /\ parent # dest
        BY <1>1, <1>5
    <2>2. /\ Append(docs[parent].down, dest) \in Seq(Paths) /\ IsInjective(Append(docs[parent].down, dest))
          /\ Range(Append(docs[parent].down, dest)) = Kids(docs, parent) \cup {dest}
        BY <1>2, <2>1, AppendOK DEF Kids
    <2>3. /\ above \in Docs /\ above.up = docs[parent].up /\ above.down = Append(docs[parent].down, dest)
        BY <1>2, <2>1, <2>2 DEF Docs
    <2>4. docs' = [docs EXCEPT ![dest] = leaf, ![parent] = above]
        BY <1>1, <1>2, <1>5, <2>1 DEF Files
    <2> HIDE DEF above, parent
    <2>5. /\ docs' \in Files /\ docs'[dest] = leaf /\ docs'[parent] = above
          /\ \A q \in Paths \ {dest, parent} : docs'[q] = docs[q]
        BY <1>2, <1>3, <2>1, <2>3, <2>4 DEF Files
    <2>6. There(docs') = There(docs) \cup {dest}
        BY <1>2, <1>3, <2>1, <2>3, <2>5, ContainmentSentinels DEF There, Docs
    <2>7. Kids(docs', parent) = Kids(docs, parent) \cup {dest} /\ IsInjective(docs'[parent].down)
        BY <2>2, <2>3, <2>5 DEF Kids
    <2>8. \A q \in There(docs) : q # parent => Kids(docs', q) = Kids(docs, q) /\ docs'[q] = docs[q]
        BY <1>1, <1>2, <2>5 DEF Kids
    <2>9. Planted(docs, docs', dest, parent)
        BY <1>1, <1>2, <1>3, <2>1, <2>3, <2>5, <2>6, <2>7, <2>8 DEF Planted
    <2> QED
        BY <2>9 DEF parent
<1> QED
    BY <1>4, <1>5

\* Both directions of one link.
LEMMA LinkedOK ==
    ASSUME Answered, NEW child \in Present, NEW parent \in Present, child # parent
    PROVE  /\ Linked(docs, child, parent) \in Files
           /\ There(Linked(docs, child, parent)) = There(docs)
           /\ Linked(docs, child, parent)[child].up = parent
           /\ Linked(docs, child, parent)[child].down = docs[child].down
           /\ Linked(docs, child, parent)[parent].up = docs[parent].up
           /\ IsInjective(Linked(docs, child, parent)[parent].down)
           /\ Kids(Linked(docs, child, parent), parent) = Kids(docs, parent) \cup {child}
           /\ \A q \in Paths \ {child, parent} : Linked(docs, child, parent)[q] = docs[q]
<1> DEFINE es == Linked(docs, child, parent)
           s == docs[parent].down
           t == IF \E k \in DOMAIN s : s[k] = child THEN s ELSE Append(s, child)
           x == [docs[child] EXCEPT !.up = parent]
           y == [docs[parent] EXCEPT !.down = t]
<1>1. /\ docs \in Files /\ child \in Paths /\ parent \in Paths
      /\ docs[child] \in Docs /\ docs[parent] \in Docs /\ s \in Seq(Paths) /\ IsInjective(s)
    BY DocOK
<1>2. t \in Seq(Paths) /\ IsInjective(t) /\ Range(t) = Range(s) \cup {child}
    <2>1. CASE child \in Range(s)
        BY <1>1, <2>1 DEF Range
    <2>2. CASE child \notin Range(s)
        <3>1. t = Append(s, child)
            BY <2>2 DEF Range
        <3> QED
            BY <1>1, <2>2, <3>1, AppendOK
    <2> QED
        BY <2>1, <2>2
<1>3. es = [docs EXCEPT ![child] = x, ![parent] = y]
    BY <1>1 DEF Linked, Files
<1> HIDE DEF t, es
<1>4. x \in Docs /\ x.up = parent /\ x.down = docs[child].down
    BY <1>1 DEF Docs
<1>5. y \in Docs /\ y.up = docs[parent].up /\ y.down = t
    BY <1>1, <1>2 DEF Docs
<1> HIDE DEF x, y
<1>6. /\ es \in Files /\ es[child] = x /\ es[parent] = y
      /\ \A q \in Paths \ {child, parent} : es[q] = docs[q]
    BY <1>1, <1>3, <1>4, <1>5 DEF Files
<1>7. There(es) = There(docs)
    BY <1>1, <1>4, <1>5, <1>6, ContainmentSentinels DEF There, Docs
<1>8. Kids(es, parent) = Kids(docs, parent) \cup {child} /\ IsInjective(es[parent].down)
    BY <1>2, <1>5, <1>6 DEF Kids
<1> QED
    BY <1>4, <1>5, <1>6, <1>7, <1>8 DEF es

\* A link completed, or a parent given to a document with none.
LEMMA LinkedGrafts ==
    ASSUME Answered, NEW child \in Present, NEW parent \in Present, child # parent,
           docs[child].up \in {NoPath, parent},
           docs' = Linked(docs, child, parent)
    PROVE  Grafted(docs, docs', child, parent)
<1>1. /\ docs' \in Files /\ There(docs') = There(docs) /\ There(docs) = Present /\ Present \subseteq Paths
      /\ docs'[child].up = parent /\ docs'[child].down = docs[child].down
      /\ docs'[parent].up = docs[parent].up /\ IsInjective(docs'[parent].down)
      /\ Kids(docs', parent) = Kids(docs, parent) \cup {child}
      /\ \A q \in Paths \ {child, parent} : docs'[q] = docs[q]
    BY LinkedOK, DocOK
<1>2. \A q \in Present : q # parent => child \notin Kids(docs, q)
    BY <1>1, DocOK, ContainmentSentinels DEF Agree
<1>3. ASSUME NEW q \in Present, q # parent
      PROVE  Kids(docs', q) = Kids(docs, q) \ {child} /\ IsInjective(docs'[q].down)
    <2>1. docs'[q].down = docs[q].down
        BY <1>1, <1>3
    <2> QED
        BY <1>2, <1>3, <2>1, DocOK DEF Kids
<1>4. \A q \in Present : docs'[q].up = IF q = child THEN parent ELSE docs[q].up
    BY <1>1
<1> QED
    BY <1>1, <1>3, <1>4 DEF Grafted

LEMMA AdoptGrafts ==
    ASSUME Answered, NEW child \in Paths, NEW parent \in Paths, Adopt(child, parent)
    PROVE  Grafted(docs, docs', child, parent)
    BY LinkedGrafts DEF Adopt

\* A move, with the old parent's entry, if it had one.
LEMMA ReparentGrafts ==
    ASSUME Answered, NEW child \in Paths, NEW parent \in Paths, Reparent(child, parent)
    PROVE  Grafted(docs, docs', child, parent) /\ Apart(docs, child, parent)
<1> DEFINE old == docs[child].up
           linked == Linked(docs, child, parent)
<1>1. /\ child # parent /\ child \in Present /\ parent \in Present /\ ~Above(child, parent)
      /\ docs' = IF old \in Present \ {parent}
                 THEN [linked EXCEPT ![old].down = Without(@, child)] ELSE linked
    BY DEF Reparent, CheckReparent
<1>2. Apart(docs, child, parent)
    BY <1>1, DocOK, ApartOK
<1>3. CASE old \notin Present \ {parent}
    <2>1. old \in {NoPath, parent} /\ docs' = linked
        BY <1>1, <1>3, DocOK
    <2> QED
        BY <1>1, <1>2, <2>1, LinkedGrafts
<1>4. CASE old \in Present \ {parent}
    <2>1. /\ linked \in Files /\ There(linked) = There(docs)
          /\ linked[child].up = parent /\ linked[child].down = docs[child].down
          /\ linked[parent].up = docs[parent].up /\ IsInjective(linked[parent].down)
          /\ Kids(linked, parent) = Kids(docs, parent) \cup {child}
          /\ \A q \in Paths \ {child, parent} : linked[q] = docs[q]
        BY <1>1, LinkedOK
    <2> HIDE DEF linked
    <2>2. There(docs) = Present /\ Present \subseteq Paths
        BY DocOK
    <2>3. /\ docs[old].down \in Seq(Paths) /\ IsInjective(docs[old].down)
          /\ linked[old].down = docs[old].down /\ old \in Paths /\ linked[old] \in Docs
        <3>1. old \in There(linked)
            BY <1>4, <2>1, <2>2
        <3>2. linked[old] \in Docs
            BY <2>1, <3>1 DEF Files, There
        <3>3. linked[old].down = docs[old].down
            BY <1>4, <2>1, <2>2
        <3> QED
            BY <1>4, <2>2, <3>2, <3>3, DocOK
    <2> DEFINE s == Without(docs[old].down, child)
               x == [linked[old] EXCEPT !.down = s]
    <2>4. s \in Seq(Paths) /\ IsInjective(s) /\ Range(s) = Kids(docs, old) \ {child}
        BY <2>3, WithoutOK DEF Kids
    <2>5. docs' = [linked EXCEPT ![old] = x]
        BY <1>1, <1>4, <2>1, <2>3 DEF Files
    <2> HIDE DEF s
    <2>6. x \in Docs /\ x.up = linked[old].up /\ x.down = s
        BY <2>3, <2>4 DEF Docs
    <2> HIDE DEF x, old
    <2>7. /\ docs'[old] = x /\ \A q \in Paths \ {old} : docs'[q] = linked[q]
        BY <2>1, <2>3, <2>5 DEF Files
    <2>8. There(docs') = There(docs)
        <3>1. linked[old] # NoDoc /\ x # NoDoc
            BY <2>3, <2>6, ContainmentSentinels DEF Docs
        <3>2. There(docs') = There(linked)
            BY <2>3, <2>7, <3>1 DEF There
        <3> QED
            BY <2>1, <3>2
    <2>9. \A q \in Present : q # old => child \notin Kids(docs, q)
        BY <2>2, DocOK DEF Agree, old
    <2>10. ASSUME NEW q \in Present, q # parent
           PROVE  Kids(docs', q) = Kids(docs, q) \ {child} /\ IsInjective(docs'[q].down)
        <3>1. CASE q = old
            BY <2>4, <2>6, <2>7, <3>1 DEF Kids
        <3>2. CASE q # old
            <4>1. docs'[q].down = docs[q].down
                BY <2>1, <2>2, <2>7, <2>10, <3>2
            <4> QED
                BY <2>9, <2>10, <3>2, <4>1, DocOK DEF Kids
        <3> QED
            BY <3>1, <3>2
    <2>11. Kids(docs', parent) = Kids(docs, parent) \cup {child} /\ IsInjective(docs'[parent].down)
        <3>1. docs'[parent] = linked[parent]
            BY <1>4, <2>7 DEF old
        <3> QED
            BY <2>1, <3>1 DEF Kids
    <2>12. ASSUME NEW q \in Present PROVE docs'[q].up = IF q = child THEN parent ELSE docs[q].up
        <3>1. docs'[q].up = linked[q].up
            BY <2>2, <2>6, <2>7, <2>12
        <3>2. linked[q].up = IF q = child THEN parent ELSE docs[q].up
            BY <1>1, <2>1, <2>2, <2>12
        <3> QED
            BY <3>1, <3>2
    <2> QED
        BY <1>1, <1>2, <2>2, <2>8, <2>10, <2>11, <2>12 DEF Grafted
<1> QED
    BY <1>3, <1>4

\* The same links in another order.
LEMMA ReorderOK ==
    ASSUME Answered, NEW parent \in Paths, Reorder(parent)
    PROVE  /\ There(docs') = There(docs) /\ \A q \in There(docs) : docs'[q].up = docs[q].up
           /\ Agree(docs') /\ ParentOf' = ParentOf
<1> DEFINE s == docs[parent].down
<1>1. PICK perm \in Bijection(DOMAIN s, DOMAIN s) :
        docs' = [docs EXCEPT ![parent].down = [k \in DOMAIN @ |-> @[perm[k]]]]
    BY DEF Reorder
<1>2. /\ docs \in Files /\ There(docs) = Present /\ parent \in Present /\ docs[parent] \in Docs
      /\ s \in Seq(Paths) /\ IsInjective(s)
    BY DocOK DEF Reorder
<1> DEFINE t == [k \in DOMAIN s |-> s[perm[k]]]
           x == [docs[parent] EXCEPT !.down = t]
<1>3. t \in Seq(Paths) /\ IsInjective(t) /\ Range(t) = Range(s)
    BY <1>2, PermutedOK
<1>4. docs' = [docs EXCEPT ![parent] = x]
    BY <1>1, <1>2 DEF Files
<1> HIDE DEF t
<1>5. x \in Docs /\ x.up = docs[parent].up /\ x.down = t
    BY <1>2, <1>3 DEF Docs
<1> HIDE DEF x
<1>6. docs'[parent] = x /\ \A q \in Paths \ {parent} : docs'[q] = docs[q]
    BY <1>2, <1>4, <1>5 DEF Files
<1>7. There(docs') = There(docs)
    BY <1>2, <1>5, <1>6, ContainmentSentinels DEF There, Docs
<1>8. \A q \in There(docs) : /\ docs'[q].up = docs[q].up /\ IsInjective(docs'[q].down)
                             /\ Kids(docs', q) = Kids(docs, q)
    BY <1>2, <1>3, <1>5, <1>6, DocOK DEF Kids
<1>9. Agree(docs')
    BY <1>7, <1>8, DocOK DEF Agree
<1>10. ParentOf' = ParentOf
    <2>1. \A q \in Paths : ParentOf'[q] = ParentOf[q]
        BY <1>7, <1>8, MappedNext, MappedOK DEF Answered
    <2> QED
        BY <2>1, MappedNext, MappedOK DEF Answered
<1> QED
    BY <1>7, <1>8, <1>9, <1>10

\* A document goes, with its parent's entry for it.
LEMMA DeleteOK ==
    ASSUME Answered, NEW p \in Paths, NEW force \in BOOLEAN, Delete(p, force), docs[p].up # p
    PROVE  /\ p \in There(docs) /\ There(docs') = There(docs) \ {p}
           /\ \A q \in There(docs') :
                docs'[q].up = docs[q].up /\ IsInjective(docs'[q].down) /\ Kids(docs', q) = Kids(docs, q) \ {p}
<1> DEFINE parent == docs[p].up
<1>1. /\ p \in Present /\ parent \in Present \cup {NoPath}
      /\ docs' = IF parent # NoPath /\ Lists(parent, p)
                 THEN [[docs EXCEPT ![p] = NoDoc] EXCEPT ![parent] = [docs[parent] EXCEPT !.down = Without(@, p)]]
                 ELSE [docs EXCEPT ![p] = NoDoc]
    BY DEF Delete
<1>2. /\ docs \in Files /\ There(docs) = Present /\ Present \subseteq Paths
      /\ \A q \in Present : /\ docs[q] \in Docs /\ docs[q].down \in Seq(Paths)
                            /\ IsInjective(docs[q].down)
      /\ \A q \in Present : q # parent => p \notin Kids(docs, q)
    BY DocOK DEF Agree
<1>3. CASE parent = NoPath
    <2>1. docs'[p] = NoDoc /\ \A q \in Paths \ {p} : docs'[q] = docs[q]
        BY <1>1, <1>2, <1>3 DEF Files
    <2>2. There(docs') = There(docs) \ {p}
        BY <2>1 DEF There
    <2>3. \A q \in There(docs') : docs'[q] = docs[q] /\ Kids(docs', q) = Kids(docs, q) \ {p}
        BY <1>2, <1>3, <2>1, <2>2, ContainmentSentinels DEF Kids
    <2> QED
        BY <1>1, <1>2, <2>2, <2>3
<1>4. CASE parent # NoPath
    <2> DEFINE s == Without(docs[parent].down, p)
               x == [docs[parent] EXCEPT !.down = s]
    <2>1. parent \in Present /\ parent # p /\ Lists(parent, p)
        BY <1>1, <1>4 DEF Answered, LinksAreAnswered
    <2>2. s \in Seq(Paths) /\ IsInjective(s) /\ Range(s) = Kids(docs, parent) \ {p}
        BY <1>2, <2>1, WithoutOK DEF Kids
    <2>3. docs' = [docs EXCEPT ![p] = NoDoc, ![parent] = x]
        BY <1>1, <1>4, <2>1
    <2> HIDE DEF s
    <2>4. x \in Docs /\ x.up = docs[parent].up /\ x.down = s
        BY <1>2, <2>1, <2>2 DEF Docs
    <2> HIDE DEF x, parent
    <2>5. /\ docs'[p] = NoDoc /\ docs'[parent] = x
          /\ \A q \in Paths \ {p, parent} : docs'[q] = docs[q]
        BY <1>1, <1>2, <2>1, <2>3, <2>4 DEF Files
    <2>6. There(docs') = There(docs) \ {p}
        BY <1>2, <2>1, <2>4, <2>5, ContainmentSentinels DEF There, Docs
    <2>7. ASSUME NEW q \in There(docs')
          PROVE  /\ docs'[q].up = docs[q].up /\ IsInjective(docs'[q].down)
                 /\ Kids(docs', q) = Kids(docs, q) \ {p}
        <3>1. CASE q = parent
            BY <2>2, <2>4, <2>5, <3>1 DEF Kids
        <3>2. CASE q # parent
            BY <1>2, <2>5, <2>6, <3>2 DEF Kids
        <3> QED
            BY <3>1, <3>2
    <2> QED
        BY <1>1, <1>2, <2>6, <2>7
<1> QED
    BY <1>3, <1>4

\* One with no children is a leaf.
LEMMA DeletePrunes ==
    ASSUME Answered, NEW p \in Paths, NEW force \in BOOLEAN, Delete(p, force), docs[p].down = <<>>
    PROVE  Pruned(docs, docs', p)
<1>1. Kids(docs, p) = {}
    BY DEF Kids, Range
<1>2. docs[p].up # p
    BY <1>1, DocOK, ContainmentSentinels DEF Delete, Agree
<1> QED
    BY <1>1, <1>2, DeleteOK DEF Pruned

\* With its children left behind or not, a document that goes closes no loop.
LEMMA DeleteKeepsOrder ==
    ASSUME Answered, Acyclic(docs), NEW p \in Paths, NEW force \in BOOLEAN, Delete(p, force)
    PROVE  Acyclic(docs')
<1>1. docs[p].up # p
    BY DocOK, ContainmentSentinels DEF Delete, Acyclic, Apart
<1> QED
    BY <1>1, DeleteOK, FewerOK

\* The documents whose links a rename has to take along are those its census visits,
\* unless the document is the end of its own climb and has children.
LEMMA SourcesOK ==
    ASSUME Answered, NEW from \in Present, ClimbEnd(from) # from \/ docs[from].down = <<>>,
           NEW q \in Present, q # from, docs[q].up = from \/ from \in Kids(docs, q)
    PROVE  q \in InboundSources(from)
<1> DEFINE up == docs[from].up
           e == ClimbEnd(from)
<1>1. TypeOK /\ LinksAreAnswered /\ There(docs) = Present /\ Present \subseteq Paths /\ Agree(docs)
    BY DocOK DEF Answered
<1>2. ASSUME docs[q].up = from PROVE Lists(from, q) /\ q \in Kids(docs, from)
    BY <1>1, <1>2, ContainmentSentinels DEF LinksAreAnswered, Agree
<1>3. ASSUME from \in Kids(docs, q) PROVE up = q /\ up # NoPath
    BY <1>1, <1>3, ContainmentSentinels DEF Agree
<1>4. e # from
    <2> SUFFICES ASSUME e = from, docs[from].down = <<>> PROVE FALSE
        OBVIOUS
    <2>1. Kids(docs, from) = {}
        BY DEF Kids, Range
    <2>2. up # NoPath
        BY <1>2, <1>3, <2>1
    <2>3. Enters(from, from)
        BY <1>1, <2>2, ClimbEndOK DEF IsTop
    <2>4. PICK c \in Rungs(from) \cap Present : docs[c].up = from
        BY <2>3 DEF Enters
    <2> QED
        BY <1>1, <2>1, <2>4, ContainmentSentinels DEF Agree
<1>5. e \in Rungs(from) /\ from \in Paths
    BY <1>1, ClimbEndOK
<1>6. up # NoPath
    <2> SUFFICES ASSUME up = NoPath PROVE FALSE
        OBVIOUS
    <2>1. Rungs(from) = {from}
        BY <1>1, RungsOfTop DEF IsTop
    <2> QED
        BY <1>4, <1>5, <2>1
<1>7. up \in Present /\ e \in Rungs(up)
    BY <1>1, <1>4, <1>5, <1>6, RungsOfParent DEF LinksAreAnswered
<1>8. from \in Visited(e) /\ up \in Visited(e) /\ InboundSources(from) = Visited(e) \ {from}
    BY <1>4, <1>5, <1>7, BelowIsVisited DEF InboundSources, SpanningRoot
<1> HIDE DEF e
<1>9. CASE from \in Kids(docs, q)
    BY <1>3, <1>8, <1>9
<1>10. CASE docs[q].up = from
    BY <1>2, <1>8, <1>10, ListedIsVisited
<1> QED
    BY <1>9, <1>10

\* A document that moves, with every link to it.
LEMMA RenameRelabels ==
    ASSUME Answered, NEW from \in Paths, NEW to \in Paths, Rename(from, to),
           ClimbEnd(from) # from \/ docs[from].down = <<>>
    PROVE  Relabelled(docs, docs', from, to)
<1> DEFINE at(q) == IF q = from THEN to ELSE q
           up == docs[from].up
           sources == InboundSources(from)
<1>1. /\ from \in Present /\ to \notin Present
      /\ docs' = [p \in Paths |-> IF p = to THEN docs[from]
                                  ELSE IF p = from THEN NoDoc
                                  ELSE IF p \in sources THEN Retargeted(docs[p], from, to) ELSE docs[p]]
    BY DEF Rename, Renamed
<1>2. /\ There(docs) = Present /\ Present \subseteq Paths /\ TypeOK
      /\ Agree(docs)
      /\ \A q \in Present : /\ docs[q] \in Docs /\ docs[q].down \in Seq(Paths)
                            /\ IsInjective(docs[q].down) /\ Kids(docs, q) \subseteq Present
                            /\ docs[q].up \in Present \cup {NoPath}
    BY DocOK DEF Agree, Answered
<1>3. sources \subseteq Present /\ from \notin sources
    BY DEF InboundSources, Visited
<1>4. up # from /\ from \notin Kids(docs, from)
    <2> SUFFICES up # from
        BY <1>1, <1>2 DEF Agree
    <2> SUFFICES ASSUME up = from PROVE FALSE
        OBVIOUS
    <2>1. Rungs(from) = {from}
        <3>1. HasAllAbove({from})
            BY DEF HasAllAbove
        <3> QED
            BY <1>2, <3>1, RungsOK
    <2>2. from \in Kids(docs, from)
        BY <1>1, <1>2, ContainmentSentinels DEF Agree
    <2> QED
        BY <1>2, <2>1, <2>2, ClimbEndOK DEF Kids, Range
<1>5. ASSUME NEW q \in Present, q # from, docs[q].up = from \/ from \in Kids(docs, q)
      PROVE  q \in sources
    BY <1>1, <1>5, SourcesOK
<1> HIDE DEF sources
<1>6. ASSUME NEW q \in Present, q # from
      PROVE  /\ docs'[q] \in Docs /\ docs'[q].up = at(docs[q].up)
             /\ IsInjective(docs'[q].down) /\ Kids(docs', q) = {at(p) : p \in Kids(docs, q)}
    <2> DEFINE s == Retarget(docs[q].down, from, to)
    <2>1. q # to /\ q \in Paths /\ to \notin Range(docs[q].down)
        BY <1>1, <1>2 DEF Kids
    <2>2. CASE q \in sources
        <3>1. s \in Seq(Paths) /\ IsInjective(s) /\ Range(s) = {at(p) : p \in Kids(docs, q)}
            BY <1>2, <2>1, RetargetOK DEF Kids
        <3>2. docs'[q] = [up |-> at(docs[q].up), down |-> s]
            BY <1>1, <1>6, <2>1, <2>2 DEF Retargeted
        <3> HIDE DEF s
        <3>3. at(docs[q].up) \in Paths \cup {NoPath}
            BY <1>2
        <3>4. docs'[q] \in Docs /\ docs'[q].up = at(docs[q].up) /\ docs'[q].down = s
            BY <3>1, <3>2, <3>3 DEF Docs
        <3> QED
            BY <3>1, <3>4 DEF Kids
    <2>3. CASE q \notin sources
        <3>1. docs'[q] = docs[q] /\ docs[q].up # from /\ from \notin Kids(docs, q)
            BY <1>1, <1>5, <1>6, <2>1, <2>3
        <3>2. Kids(docs', q) = Kids(docs, q) /\ {at(p) : p \in Kids(docs, q)} = Kids(docs, q)
            BY <3>1 DEF Kids
        <3> QED
            BY <1>2, <3>1, <3>2
    <2> QED
        BY <2>2, <2>3
<1>7. /\ docs'[to] = docs[from] /\ docs'[from] = NoDoc
      /\ \A q \in Paths \ Present : q # to => docs'[q] = NoDoc
    BY <1>1, <1>2, <1>3 DEF Present
<1>8. There(docs') = (There(docs) \ {from}) \cup {to}
    <2> HIDE DEF at, up
    <2>1. NoDoc \notin Docs
        BY ContainmentSentinels DEF Docs
    <2>2. docs'[to] # NoDoc /\ docs'[from] = NoDoc
        BY <1>1, <1>2, <1>7, <2>1
    <2>3. \A q \in Present : q # from => docs'[q] # NoDoc
        BY <1>6, <2>1
    <2>4. \A q \in Paths \ Present : q # to => docs'[q] = NoDoc
        BY <1>7
    <2>5. \A q \in Paths : docs'[q] # NoDoc <=> q \in (Present \ {from}) \cup {to}
        BY <1>1, <1>2, <2>2, <2>3, <2>4
    <2> QED
        BY <1>1, <1>2, <2>5 DEF There, Present
<1>9. ASSUME NEW q \in Present
      PROVE  /\ docs'[at(q)].up = at(docs[q].up) /\ IsInjective(docs'[at(q)].down)
             /\ Kids(docs', at(q)) = {at(p) : p \in Kids(docs, q)}
    <2>1. CASE q = from
        <3>1. at(docs[q].up) = docs[q].up /\ {at(p) : p \in Kids(docs, q)} = Kids(docs, q)
            BY <1>4, <2>1
        <3> QED
            BY <1>2, <1>7, <2>1, <3>1 DEF Kids
    <2>2. CASE q # from
        BY <1>6, <2>2
    <2> QED
        BY <2>1, <2>2
<1> QED
    BY <1>1, <1>2, <1>8, <1>9 DEF Relabelled

\* Wherever its children's links go, a document that moves closes no loop.
LEMMA RenameKeepsOrder ==
    ASSUME Answered, Acyclic(docs), NEW from \in Paths, NEW to \in Paths, Rename(from, to)
    PROVE  Acyclic(docs')
<1>1. /\ from \in Present /\ to \notin Present
      /\ docs' = [p \in Paths |-> IF p = to THEN docs[from]
                                  ELSE IF p = from THEN NoDoc
                                  ELSE IF p \in InboundSources(from)
                                  THEN Retargeted(docs[p], from, to) ELSE docs[p]]
    BY DEF Rename, Renamed
<1>2. /\ There(docs) = Present /\ Present \subseteq Paths /\ NoDoc \notin Docs /\ Agree(docs)
      /\ \A q \in Present : docs[q] \in Docs
    BY DocOK, ContainmentSentinels DEF Docs
<1>3. \A doc : Retargeted(doc, from, to) # NoDoc \/ doc \notin Docs
    <2> SUFFICES ASSUME NEW doc \in Docs PROVE Retargeted(doc, from, to) \in Docs
        BY <1>2
    <2>1. doc.up \in Paths \cup {NoPath} /\ doc.down \in Seq(Paths)
        BY DEF Docs
    <2>2. Retarget(doc.down, from, to) \in Seq(Paths)
        BY <2>1 DEF Retarget
    <2> QED
        BY <2>1, <2>2 DEF Retargeted, Docs
<1>4. InboundSources(from) \subseteq Present
    BY DEF InboundSources, Visited
<1>5. There(docs') = (There(docs) \ {from}) \cup {to}
    <2>1. \A q \in Paths : docs'[q] # NoDoc <=> q \in (Present \ {from}) \cup {to}
        BY <1>1, <1>2, <1>3, <1>4 DEF Present
    <2> QED
        BY <1>1, <1>2, <2>1 DEF There, Present
<1>6. docs'[to].up = docs[from].up
    BY <1>1
<1>7. ASSUME NEW q \in There(docs) \ {from}
      PROVE  docs'[q].up = docs[q].up \/ (docs[q].up = from /\ docs'[q].up = to)
    <2>1. q \in Paths /\ q # to /\ q # from
        BY <1>1, <1>2
    <2>2. docs'[q] \in {docs[q], Retargeted(docs[q], from, to)}
        BY <1>1, <2>1
    <2> QED
        BY <2>2 DEF Retargeted
<1> QED
    BY <1>1, <1>2, <1>5, <1>6, <1>7, MovedOK

-----------------------------------------------------------------------------
(* The types, in order or not.                                             *)

LEMMA WithoutType ==
    ASSUME NEW s \in Seq(Paths), NEW p
    PROVE  Without(s, p) \in Seq(Paths)
<1> SUFFICES ASSUME \E k \in DOMAIN s : s[k] = p PROVE Without(s, p) \in Seq(Paths)
    BY DEF Without
<1> DEFINE F == {1 .. k : k \in {l \in DOMAIN s : s[l] = p}}
           i == CHOOSE l \in DOMAIN s : IsFirst(l, s, p)
<1>1. DOMAIN s = 1 .. Len(s) /\ Len(s) \in Nat
    OBVIOUS
<1>2. F \subseteq FiniteSubsetsOf(Nat) /\ F # {}
    <2>1. ASSUME NEW k \in DOMAIN s PROVE 1 .. k \in SUBSET Nat /\ IsFiniteSet(1 .. k)
        <3>1. k \in Int /\ 1 \in Int /\ 1 .. k \in SUBSET Nat
            BY <1>1
        <3> QED
            BY <3>1, FS_Interval
    <2> QED
        BY <2>1 DEF FiniteSubsetsOf
<1>3. PICK X \in F : \A Y \in F : ~(<<Y, X>> \in StrictSubsetOrdering(Nat))
    BY <1>2, WFMin, FS_StrictSubsetOrderingWellFounded
<1>4. PICK k \in DOMAIN s : s[k] = p /\ X = 1 .. k
    OBVIOUS
<1>5. IsFirst(k, s, p)
    <2> SUFFICES ASSUME NEW l \in DOMAIN s, s[l] = p, ~(k <= l) PROVE FALSE
        BY <1>4 DEF IsFirst
    <2>1. 1 .. l \in F
        OBVIOUS
    <2> HIDE DEF F
    <2>2. l \in Nat /\ k \in Nat /\ l < k
        BY <1>1
    <2>3. 1 .. l \subseteq 1 .. k /\ 1 .. l # 1 .. k /\ 1 .. l \in SUBSET Nat /\ 1 .. k \in SUBSET Nat
        <3>1. k \in 1 .. k /\ k \notin 1 .. l
            BY <1>1, <2>2
        <3> QED
            BY <2>2, <3>1
    <2>4. <<1 .. l, 1 .. k>> \in StrictSubsetOrdering(Nat)
        BY <2>3 DEF StrictSubsetOrdering
    <2> QED
        BY <1>3, <1>4, <2>1, <2>4
<1> HIDE DEF F
<1>6. i \in DOMAIN s
    BY <1>5 DEF IsFirst
<1> HIDE DEF i
<1>7. SubSeq(s, 1, i - 1) \in Seq(Paths) /\ SubSeq(s, i + 1, Len(s)) \in Seq(Paths)
    BY <1>1, <1>6
<1> QED
    BY <1>7 DEF Without, RemoveAt, i

\* A document in place of another leaves the types.
LEMMA PutOK ==
    ASSUME NEW ds \in Files, NEW p \in Paths, NEW doc \in Docs \cup {NoDoc}
    PROVE  [ds EXCEPT ![p] = doc] \in Files
    BY DEF Files

\* As does another list of entries, in a document that is there.
LEMMA ListOK ==
    ASSUME NEW ds \in Files, NEW p \in Paths, ds[p] \in Docs, NEW s \in Seq(Paths)
    PROVE  [ds EXCEPT ![p].down = s] \in Files
<1>1. [ds[p] EXCEPT !.down = s] \in Docs
    BY DEF Docs
<1> QED
    BY <1>1 DEF Files

LEMMA LinkedType ==
    ASSUME NEW ds \in Files, NEW child \in Paths, NEW parent \in Paths, ds[child] \in Docs, ds[parent] \in Docs
    PROVE  /\ Linked(ds, child, parent) \in Files
           /\ \A q \in Paths : ds[q] \in Docs => Linked(ds, child, parent)[q] \in Docs
<1> DEFINE s == IF \E k \in DOMAIN ds[parent].down : ds[parent].down[k] = child
                THEN ds[parent].down ELSE Append(ds[parent].down, child)
           x == [ds[child] EXCEPT !.up = parent]
           es == [ds EXCEPT ![child] = x]
           y == [es[parent] EXCEPT !.down = s]
<1>1. s \in Seq(Paths) /\ x \in Docs /\ x.down = ds[child].down
    BY DEF Docs
<1>2. es \in Files /\ es[parent] \in Docs /\ es[parent].down = ds[parent].down
    BY <1>1 DEF Files
<1>3. Linked(ds, child, parent) = [es EXCEPT ![parent] = y]
    BY <1>1, <1>2 DEF Linked, Files
<1> HIDE DEF s, x
<1>4. y \in Docs
    BY <1>1, <1>2 DEF Docs
<1> HIDE DEF y
<1> QED
    BY <1>1, <1>2, <1>3, <1>4 DEF Files

LEMMA TypeStep == TypeOK /\ [Next]_docs => TypeOK'
<1> SUFFICES ASSUME docs \in Files, Next PROVE docs' \in Files
    BY DEF TypeOK
<1>1. /\ \A q \in Present : docs[q] \in Docs /\ docs[q].down \in Seq(Paths) /\ q \in Paths
      /\ \A q \in Present : docs[q].up \in Paths \cup {NoPath}
    BY DEF Files, Docs, Present
<1>2. ASSUME NEW p \in Paths, NEW parent \in Paths, Create(p, parent) PROVE docs' \in Files
    <2> DEFINE es == [docs EXCEPT ![p] = [up |-> parent, down |-> <<>>]]
    <2>1. parent \in Present /\ p # parent
        BY <1>2 DEF Create
    <2>2. es \in Files /\ es[parent] = docs[parent]
        <3>1. [up |-> parent, down |-> <<>>] \in Docs
            BY DEF Docs
        <3> QED
            BY <2>1, <3>1, PutOK DEF Files
    <2>3. docs' = [es EXCEPT ![parent].down = Append(docs[parent].down, p)]
        BY <1>2, <2>1, <2>2 DEF Create, Files
    <2> HIDE DEF es
    <2>4. Append(docs[parent].down, p) \in Seq(Paths)
        BY <1>1, <2>1
    <2> QED
        BY <1>1, <2>1, <2>2, <2>3, <2>4, ListOK
<1>3. ASSUME NEW child \in Paths, NEW parent \in Paths, Adopt(child, parent) PROVE docs' \in Files
    BY <1>1, <1>3, LinkedType DEF Adopt
<1>4. ASSUME NEW child \in Paths, NEW parent \in Paths, Reparent(child, parent) PROVE docs' \in Files
    <2> DEFINE old == docs[child].up
               linked == Linked(docs, child, parent)
    <2>1. child \in Present /\ parent \in Present
        BY <1>4 DEF Reparent, CheckReparent
    <2>2. linked \in Files /\ \A q \in Present : linked[q] \in Docs
        BY <1>1, <2>1, LinkedType
    <2>3. docs' = IF old \in Present \ {parent}
                  THEN [linked EXCEPT ![old].down = Without(@, child)] ELSE linked
        BY <1>4 DEF Reparent
    <2>4. CASE old \notin Present \ {parent}
        BY <2>2, <2>3, <2>4
    <2>5. CASE old \in Present \ {parent}
        <3>1. docs' = [linked EXCEPT ![old].down = Without(linked[old].down, child)]
            BY <2>3, <2>5
        <3> HIDE DEF linked, old
        <3>2. old \in Paths /\ linked[old] \in Docs
            BY <1>1, <2>2, <2>5
        <3>3. Without(linked[old].down, child) \in Seq(Paths)
            BY <3>2, WithoutType DEF Docs
        <3> QED
            BY <2>2, <3>1, <3>2, <3>3, ListOK
    <2> QED
        BY <2>4, <2>5
<1>5. ASSUME NEW source \in Paths, NEW dest \in Paths, Duplicate(source, dest) PROVE docs' \in Files
    <2> DEFINE parent == docs[source].up
               copied == [docs EXCEPT ![dest] = [up |-> parent, down |-> <<>>]]
    <2>1. /\ source \in Present /\ dest \notin Present /\ parent \in Present \cup {NoPath}
          /\ docs' = IF parent = NoPath THEN copied
                     ELSE [copied EXCEPT ![parent].down = Append(@, dest)]
        BY <1>5 DEF Duplicate
    <2>2. copied \in Files /\ \A q \in Present : copied[q] = docs[q]
        <3>1. [up |-> parent, down |-> <<>>] \in Docs
            BY <1>1, <2>1 DEF Docs
        <3> QED
            BY <1>1, <2>1, <3>1, PutOK DEF Files
    <2> HIDE DEF copied, parent
    <2>3. CASE parent = NoPath
        BY <2>1, <2>2, <2>3
    <2>4. CASE parent # NoPath
        <3>1. parent \in Present /\ copied[parent] \in Docs
            BY <1>1, <2>1, <2>2, <2>4
        <3>2. Append(copied[parent].down, dest) \in Seq(Paths)
            BY <1>1, <2>2, <3>1
        <3>3. docs' = [copied EXCEPT ![parent].down = Append(copied[parent].down, dest)]
            BY <2>1, <2>4
        <3> QED
            BY <1>1, <2>2, <3>1, <3>2, <3>3, ListOK
    <2> QED
        BY <2>3, <2>4
<1>6. ASSUME NEW from \in Paths, NEW to \in Paths, Rename(from, to) PROVE docs' \in Files
    <2>1. /\ from \in Present
          /\ docs' = [p \in Paths |-> IF p = to THEN docs[from]
                                      ELSE IF p = from THEN NoDoc
                                      ELSE IF p \in InboundSources(from)
                                      THEN Retargeted(docs[p], from, to) ELSE docs[p]]
        BY <1>6 DEF Rename, Renamed
    <2>2. ASSUME NEW q \in Present PROVE Retargeted(docs[q], from, to) \in Docs
        <3>1. Retarget(docs[q].down, from, to) \in Seq(Paths)
            BY <1>1, <2>2 DEF Retarget
        <3>2. (IF docs[q].up = from THEN to ELSE docs[q].up) \in Paths \cup {NoPath}
            BY <1>1, <2>2
        <3> QED
            BY <3>1, <3>2 DEF Retargeted, Docs
    <2>3. InboundSources(from) \subseteq Present
        BY DEF InboundSources, Visited
    <2>4. \A q \in Paths : docs[q] \in Docs \cup {NoDoc}
        BY DEF Files
    <2>5. docs'[from] \in Docs \cup {NoDoc} /\ \A q \in Paths : docs'[q] \in Docs \cup {NoDoc}
        BY <2>1, <2>2, <2>3, <2>4
    <2> QED
        BY <2>1, <2>5 DEF Files
<1>7. ASSUME NEW parent \in Paths, Reorder(parent) PROVE docs' \in Files
    <2> DEFINE s == docs[parent].down
    <2>1. PICK perm \in Bijection(DOMAIN s, DOMAIN s) :
            docs' = [docs EXCEPT ![parent].down = [k \in DOMAIN s |-> s[perm[k]]]]
        BY <1>7 DEF Reorder
    <2>2. s \in Seq(Paths) /\ docs[parent] \in Docs
        BY <1>1, <1>7 DEF Reorder
    <2>3. perm \in [DOMAIN s -> DOMAIN s]
        BY DEF Bijection, Injection
    <2>4. [k \in DOMAIN s |-> s[perm[k]]] \in Seq(Paths)
        <3>1. DOMAIN s = 1 .. Len(s) /\ Len(s) \in Nat
            BY <2>2
        <3> QED
            BY <2>2, <2>3, <3>1
    <2> QED
        BY <2>1, <2>2, <2>4, ListOK
<1>8. ASSUME NEW p \in Paths, NEW force \in BOOLEAN, Delete(p, force) PROVE docs' \in Files
    <2> DEFINE parent == docs[p].up
               removed == [docs EXCEPT ![p] = NoDoc]
    <2>1. /\ p \in Present /\ parent \in Present \cup {NoPath}
          /\ docs' = IF parent # NoPath /\ Lists(parent, p)
                     THEN [removed EXCEPT ![parent] = [docs[parent] EXCEPT !.down = Without(@, p)]]
                     ELSE removed
        BY <1>8 DEF Delete
    <2>2. removed \in Files
        BY PutOK
    <2> HIDE DEF removed, parent
    <2>3. CASE ~(parent # NoPath /\ Lists(parent, p))
        BY <2>1, <2>2, <2>3
    <2>4. CASE parent # NoPath /\ Lists(parent, p)
        <3>1. parent \in Present /\ Without(docs[parent].down, p) \in Seq(Paths)
            BY <1>1, <2>1, <2>4, WithoutType
        <3>2. [docs[parent] EXCEPT !.down = Without(docs[parent].down, p)] \in Docs
            BY <1>1, <3>1 DEF Docs
        <3>3. docs' = [removed EXCEPT ![parent] = [docs[parent] EXCEPT !.down = Without(docs[parent].down, p)]]
            BY <2>1, <2>4
        <3> QED
            BY <1>1, <2>2, <3>1, <3>2, <3>3, PutOK
    <2> QED
        BY <2>3, <2>4
<1> QED
    BY <1>2, <1>3, <1>4, <1>5, <1>6, <1>7, <1>8 DEF Next

-----------------------------------------------------------------------------
(* The steps.                                                              *)

LEMMA StayOK == UNCHANGED docs => (LinksAreAnswered' <=> LinksAreAnswered)
                               /\ (NothingContainsItself' <=> NothingContainsItself)
                               /\ ParentOf' = ParentOf
<1> SUFFICES ASSUME docs' = docs
             PROVE  /\ LinksAreAnswered' <=> LinksAreAnswered
                    /\ NothingContainsItself' <=> NothingContainsItself
                    /\ ParentOf' = ParentOf
    OBVIOUS
<1>1. Present' = Present
    BY DEF Present
<1>2. \A c, p : Lists(c, p)' <=> Lists(c, p)
    BY DEF Lists
<1>3. LinksAreAnswered' <=> LinksAreAnswered
    BY <1>1, <1>2 DEF LinksAreAnswered
<1>4. NothingContainsItself' <=> NothingContainsItself
    BY <1>1 DEF NothingContainsItself, Above, Rungs, HasAllAbove
<1> QED
    BY <1>3, <1>4 DEF ParentOf

LEMMA AnswersStep ==
    TypeOK /\ [Next]_docs => (LinksAreAnswered => LinksAreAnswered' \/ LeavesChildren \/ RenamesAsTop)
<1> SUFFICES ASSUME Answered, Next, ~LeavesChildren, ~RenamesAsTop PROVE Agree(docs')
    BY StayOK, AgreeNext DEF Answered
<1>1. Agree(docs)
    BY DocOK
<1>2. ASSUME NEW p \in Paths, NEW q \in Paths,
             Create(p, q) \/ Adopt(p, q) \/ Reparent(p, q) \/ Duplicate(p, q)
      PROVE  Agree(docs')
    BY <1>1, <1>2, CreatePlants, AdoptGrafts, ReparentGrafts, DuplicatePlants, PlantedOK, GraftedOK
<1>3. ASSUME NEW from \in Paths, NEW to \in Paths, Rename(from, to) PROVE Agree(docs')
    <2>1. ClimbEnd(from) # from \/ docs[from].down = <<>>
        BY <1>3 DEF Rename, RenamesAsTop
    <2> QED
        BY <1>1, <1>3, <2>1, RenameRelabels, RelabelledOK
<1>4. ASSUME NEW p \in Paths, NEW force \in BOOLEAN, Delete(p, force) PROVE Agree(docs')
    <2>1. docs[p].down = <<>>
        BY <1>4 DEF Delete, LeavesChildren
    <2> QED
        BY <1>1, <1>4, <2>1, DeletePrunes, PrunedOK
<1> QED
    BY <1>2, <1>3, <1>4, ReorderOK DEF Next

LEMMA LoopsStep ==
    TypeOK /\ [Next]_docs => (InOrder => NothingContainsItself' \/ AdoptsItsOwner)
<1> SUFFICES ASSUME Answered, NothingContainsItself, Next, ~AdoptsItsOwner PROVE Acyclic(docs')
    BY StayOK, AcyclicNext DEF Answered, InOrder
<1>1. Agree(docs) /\ Acyclic(docs) /\ Present \subseteq Paths
    BY DocOK, AcyclicOK DEF Answered
<1>2. ASSUME NEW p \in Paths, NEW q \in Paths, Create(p, q) \/ Duplicate(p, q) PROVE Acyclic(docs')
    BY <1>1, <1>2, CreatePlants, DuplicatePlants, PlantedOK
<1>3. ASSUME NEW p \in Paths, NEW q \in Paths, Adopt(p, q) PROVE Acyclic(docs')
    <2>1. Apart(docs, p, q)
        BY <1>3, ApartOK DEF Adopt, AdoptsItsOwner
    <2> QED
        BY <1>1, <1>3, <2>1, AdoptGrafts, GraftedOK
<1>4. ASSUME NEW p \in Paths, NEW q \in Paths, Reparent(p, q) PROVE Acyclic(docs')
    BY <1>1, <1>4, ReparentGrafts, GraftedOK
<1>5. ASSUME NEW p \in Paths, NEW q \in Paths, Rename(p, q) PROVE Acyclic(docs')
    BY <1>1, <1>5, RenameKeepsOrder
<1>6. ASSUME NEW p \in Paths, NEW force \in BOOLEAN, Delete(p, force) PROVE Acyclic(docs')
    BY <1>1, <1>6, DeleteKeepsOrder
<1>7. ASSUME NEW p \in Paths, Reorder(p) PROVE Acyclic(docs')
    BY <1>1, <1>7, ReorderOK, FewerOK
<1> QED
    BY <1>2, <1>3, <1>4, <1>5, <1>6, <1>7 DEF Next

LEMMA ForestStep ==
    TypeOK /\ [Next]_docs =>
      (InOrder => [Promise!Next]_ParentOf \/ LeavesChildren \/ RenamesAsTop \/ AdoptsItsOwner)
<1> SUFFICES ASSUME Answered, NothingContainsItself, Next,
                    ~LeavesChildren, ~RenamesAsTop, ~AdoptsItsOwner
             PROVE  Promise!Next \/ ParentOf' = ParentOf
    BY StayOK DEF Answered, InOrder
<1>1. TypeOK /\ Agree(docs) /\ Acyclic(docs) /\ Present \subseteq Paths
    BY DocOK, AcyclicOK DEF Answered
<1>2. ASSUME NEW p \in Paths, NEW q \in Paths, Create(p, q) \/ Duplicate(p, q) PROVE Promise!Next
    BY <1>1, <1>2, CreatePlants, DuplicatePlants, PlantedMaps
<1>3. ASSUME NEW p \in Paths, NEW q \in Paths, Adopt(p, q) PROVE Promise!Next
    <2>1. Apart(docs, p, q)
        BY <1>3, ApartOK DEF Adopt, AdoptsItsOwner
    <2> QED
        BY <1>1, <1>3, <2>1, AdoptGrafts, GraftedMaps
<1>4. ASSUME NEW p \in Paths, NEW q \in Paths, Reparent(p, q) PROVE Promise!Next
    BY <1>1, <1>4, ReparentGrafts, GraftedMaps
<1>5. ASSUME NEW from \in Paths, NEW to \in Paths, Rename(from, to) PROVE Promise!Next
    <2>1. ClimbEnd(from) # from \/ docs[from].down = <<>>
        BY <1>5 DEF Rename, RenamesAsTop
    <2> QED
        BY <1>1, <1>5, <2>1, RenameRelabels, RelabelledMaps
<1>6. ASSUME NEW p \in Paths, NEW force \in BOOLEAN, Delete(p, force) PROVE Promise!Next
    <2>1. docs[p].down = <<>>
        BY <1>6 DEF Delete, LeavesChildren
    <2> QED
        BY <1>1, <1>6, <2>1, DeletePrunes, PrunedMaps
<1> QED
    BY <1>2, <1>3, <1>4, <1>5, <1>6, ReorderOK DEF Next

LEMMA InitOK == Init => Answered /\ NothingContainsItself
<1> SUFFICES ASSUME Init PROVE Answered /\ NothingContainsItself
    OBVIOUS
<1>1. PICK contained \in SUBSET (Paths \ {RootPath}), loose \in SUBSET (Paths \ {RootPath}) :
        docs = [p \in Paths |->
                  IF p = RootPath THEN [up |-> NoPath, down |-> SetToSeq(contained)]
                  ELSE IF p \in contained THEN [up |-> RootPath, down |-> <<>>]
                  ELSE IF p \in loose THEN [up |-> NoPath, down |-> <<>>]
                  ELSE NoDoc]
    BY DEF Init
<1> DEFINE root == [up |-> NoPath, down |-> SetToSeq(contained)]
           kid == [up |-> RootPath, down |-> <<>>]
           lone == [up |-> NoPath, down |-> <<>>]
<1>2. /\ SetToSeq(contained) \in Seq(Paths) /\ IsInjective(SetToSeq(contained))
      /\ Range(SetToSeq(contained)) = contained
    BY SetToSeqOK
<1>3. /\ root \in Docs /\ root.up = NoPath /\ root.down = SetToSeq(contained)
      /\ kid \in Docs /\ kid.up = RootPath /\ kid.down = <<>>
      /\ lone \in Docs /\ lone.up = NoPath /\ lone.down = <<>>
    BY <1>2, ContainmentPaths DEF Docs
<1> HIDE DEF root, kid, lone
<1>4. docs = [p \in Paths |-> IF p = RootPath THEN root
                              ELSE IF p \in contained THEN kid
                              ELSE IF p \in loose THEN lone ELSE NoDoc]
    BY <1>1 DEF root, kid, lone
<1>5. docs \in Files
    BY <1>3, <1>4 DEF Files
<1>6. There(docs) = {RootPath} \cup contained \cup loose
    BY <1>3, <1>4, ContainmentPaths, ContainmentSentinels DEF There, Docs
<1>7. \A c \in There(docs) : c # RootPath => docs[c].down = <<>>
    BY <1>3, <1>4, <1>6
<1>8. /\ docs[RootPath] = root
      /\ \A c \in contained : docs[c] = kid
      /\ \A c \in There(docs) : c # RootPath /\ c \notin contained => docs[c] = lone
    BY <1>4, <1>6, ContainmentPaths
<1>9. Kids(docs, RootPath) = contained /\ IsInjective(docs[RootPath].down)
    BY <1>2, <1>3, <1>8 DEF Kids
<1>10. \A c \in There(docs) : c # RootPath => Kids(docs, c) = {} /\ IsInjective(docs[c].down)
    BY <1>7 DEF Kids, Range, IsInjective
<1>11. Agree(docs)
    BY <1>3, <1>6, <1>8, <1>9, <1>10, ContainmentPaths, ContainmentSentinels DEF Agree
<1>12. Acyclic(docs)
    <2> SUFFICES ASSUME NEW p \in There(docs), docs[p].up # NoPath PROVE Apart(docs, p, docs[p].up)
        BY DEF Acyclic
    <2>1. p # RootPath /\ docs[p].up = RootPath
        BY <1>3, <1>8
    <2>2. Climbs(docs, {RootPath})
        BY <1>3, <1>8 DEF Climbs
    <2> QED
        BY <2>1, <2>2, ContainmentPaths DEF Apart
<1>13. LinksAreAnswered
    <2>1. There(docs) = Present /\ \A c, p : Lists(c, p) <=> p \in Kids(docs, c)
        BY DEF Lists, Kids, Range, There, Present
    <2> QED
        BY <1>11, <2>1 DEF LinksAreAnswered, Agree
<1>14. NothingContainsItself
    <2> SUFFICES ASSUME NEW p \in Present, docs[p].up # NoPath PROVE ~Above(p, docs[p].up)
        BY DEF NothingContainsItself
    <2>1. p \in Paths /\ docs[p].up \in Paths /\ Apart(docs, p, docs[p].up)
        BY <1>5, <1>12 DEF Acyclic, There, Present, Files, Docs
    <2> QED
        BY <2>1, ApartOK
<1> QED
    BY <1>5, <1>13, <1>14 DEF Answered, TypeOK

\* What the documents are at first is a forest.
LEMMA ForestOK == Init => Promise!Init
<1> SUFFICES ASSUME Init PROVE Promise!Init
    OBVIOUS
<1>1. TypeOK /\ Agree(docs) /\ Acyclic(docs)
    BY InitOK, DocOK, AcyclicOK DEF Answered
<1>2. ParentOf \in [Paths -> Paths \cup {NoPath, NoDoc}] /\ Promise!There = There(docs)
    BY <1>1, MappedOK
<1>3. ASSUME NEW p \in There(docs), docs[p].up # NoPath
      PROVE  docs[p].up \in There(docs) /\ ~Promise!Within(p, docs[p].up)
    BY <1>1, <1>3, WithinOK DEF Agree, Acyclic, There
<1>4. \A p \in There(docs) : ParentOf[p] = docs[p].up
    BY <1>1, MappedOK DEF There
<1> QED
    BY <1>2, <1>3, <1>4 DEF Promise!Init

\* Where a document lists once each document that claims it, and no other, every
\* verb of prov/src/mutate leaves it so, whatever loops there are, except a forced
\* delete of a document with children and a rename of one whose climb ends where it
\* starts (maintain.rs:205).
THEOREM AnswersAreKeptHolds == Spec => AnswersAreKept
<1>1. Init => TypeOK
    BY InitOK DEF Answered
<1> QED
    BY <1>1, TypeStep, AnswersStep, PTL DEF Spec, AnswersAreKept

\* Of documents in order only adopt makes a loop, and only where it puts a document
\* under one that is beneath it: what check_reparent (reparent.rs) climbs for is
\* between every move and a loop, and nothing in adopt.rs is.
THEOREM LoopsAreAdoptedHolds == Spec => LoopsAreAdopted
<1>1. Init => TypeOK
    BY InitOK DEF Answered
<1> QED
    BY <1>1, TypeStep, LoopsStep, PTL DEF Spec, LoopsAreAdopted

\* Of documents in order each verb is a stutter or one of the four changes of a
\* forest: a leaf planted (create, duplicate), a subtree grafted (adopt, reparent), a
\* document relabelled with all that is beneath it (rename), a leaf pruned (delete);
\* or it is one of the three careless steps, which are named.
THEOREM ContainmentTendsForest == Spec => VerbsTendForest
<1>1. Init => TypeOK
    BY InitOK DEF Answered
<1> QED
    BY <1>1, ForestOK, TypeStep, ForestStep, PTL DEF Spec, VerbsTendForest
=============================================================================
