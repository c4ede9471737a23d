--------------------------- MODULE DeletionsProofs ---------------------------
(***************************************************************************)
(* Delete, restore and the deletion log lose no record, no bytes, no entry *)
(* and no live id, for every set of paths, ids and texts and however       *)
(* another session's deletes and version control come between the reading  *)
(* and the landing of a set.                                               *)
(***************************************************************************)
EXTENDS Deletions, TLAPS

Files == [Paths -> Docs \cup {NoDoc}]

TypeOK ==
  /\ docs \in Files /\ parked \in Files /\ deleted \in Files
  /\ ids \in [Ids -> Paths \cup {Fresh, Retired}]
  /\ log \in Seq(Records) \cup {NoLog}

\* The root is there and links to nothing above it; no document is above itself.
UpIsAnother ==
  /\ RootPath \in Present /\ docs[RootPath].up = NoPath
  /\ \A p \in Present : docs[p].up # p

\* What can be put back has no children: what was deleted had none, and what the
\* bin parks is a document below the root.
BackAreLeaves ==
  /\ \A p \in Paths : deleted[p] # NoDoc => deleted[p].down = {} /\ deleted[p].up # p
  /\ \A p \in Paths : parked[p] # NoDoc =>
       /\ parked[p].down = {} /\ parked[p].up = RootPath /\ p # RootPath
       /\ log # NoLog /\ \E k \in DOMAIN log : log[k].from = p /\ log[k].bin

\* A record is the only one of its path, which no document lists; whatever is at
\* the path, or can be put back there, claims the record's parent.
RecordsAgree ==
  log # NoLog =>
    /\ \A k, l \in DOMAIN log : log[k].from = log[l].from => k = l
    /\ \A k \in DOMAIN log :
         /\ log[k].from # RootPath /\ log[k].parent # log[k].from
         /\ log[k].bin => log[k].parent = RootPath
         /\ log[k].from \in Present => docs[log[k].from].up = log[k].parent
         /\ deleted[log[k].from] # NoDoc => deleted[log[k].from].up = log[k].parent
         /\ \A c \in Present : log[k].from \notin docs[c].down

\* No path has two live ids.
OneIdEach == \A i, j \in Ids : ids[i] = ids[j] /\ ids[i] \in Paths => i = j

\* A log that has grown since a plan read it does not become that log again.
Grown ==
  /\ log # NoLog
  /\ plan.read # NoLog => Len(plan.read) \in Nat /\ Len(log) > Len(plan.read)

\* The set of a delete, against the documents as they are now.
Detaches(p) ==
  LET parent == docs[p].up
  IN /\ p \in Present \ {RootPath} /\ docs[p].down = {} /\ parent \in Present
     /\ p \notin Recorded
     /\ {p, parent} \subseteq DOMAIN plan.writes
     /\ DOMAIN plan.writes \subseteq {p, parent, RootPath}
     /\ \A q \in DOMAIN plan.writes :
          plan.writes[q] = IF q = parent THEN [docs[q] EXCEPT !.down = @ \ {p}]
                           ELSE IF q = p THEN NoDoc ELSE docs[q]
     /\ plan.ids = Unregistered(p)
     /\ \E r \in Records : /\ r.from = p /\ r.parent = parent /\ ~r.bin
                           /\ plan.log = Append(IF log = NoLog THEN <<>> ELSE log, r)
     /\ plan.absent = {} /\ plan.cut = {}

\* The set of a restore, likewise.
Reattaches(p, pos) ==
  /\ log # NoLog /\ pos \in DOMAIN log /\ log[pos].from = p
  /\ plan.log = RemoveAt(log, pos) /\ plan.cut = {log[pos]}
  /\ \/ log[pos].bin /\ parked[p] # NoDoc /\ plan.absent = {p}
     \/ p \in Present /\ plan.absent = {}
  /\ plan.absent \subseteq DOMAIN plan.writes
  /\ DOMAIN plan.writes \ plan.absent \subseteq {log[pos].parent} \cap Present
  /\ \A q \in DOMAIN plan.writes :
       plan.writes[q] = IF q \in plan.absent THEN parked[q] ELSE [docs[q] EXCEPT !.down = @ \cup {p}]
  /\ \/ plan.ids = ids
     \/ \E i \in Ids : /\ plan.ids = Registered(ids, i, p)
                       /\ \A j \in Ids : ids[j] = p => j = i

\* The set that forgets the records.
Forgets ==
  /\ log # NoLog /\ DOMAIN plan.writes = {} /\ plan.ids = ids
  /\ plan.log = <<>> /\ plan.absent = {} /\ plan.cut = Range(log)

\* A set that may still land is that of one of the three verbs, against what is on
\* disk now, though files may have been put back since it was built.
PlanHolds ==
  plan # NoPlan =>
    \/ Grown
    \/ /\ log = plan.read
       /\ \/ \E p \in Paths : Detaches(p)
          \/ \E p \in Paths : \E pos \in DOMAIN log : Reattaches(p, pos)
          \/ Forgets

Core ==
  /\ TypeOK /\ UpIsAnother /\ EntriesAreAnswered /\ BackAreLeaves /\ RecordsAgree /\ OneIdEach
  /\ linked => log # NoLog

IInv == Core /\ PlanHolds

\* What the text of each document there is does in a step, and what the live ids do.
TextsStay ==
  \A q \in Present : (\E s \in Present' : docs'[s].text = docs[q].text) \/ deleted'[q] = docs[q]

IdsStay == \A i \in Ids, p \in Present : ids[i] = p /\ ids'[i] \notin Paths => docs'[p] = NoDoc
-----------------------------------------------------------------------------
(* The log as a sequence.                                                  *)

\* A record is added at the end, and is added alone.
LEMMA AppendOK ==
    ASSUME NEW R, NEW s \in Seq(R), NEW r \in R
    PROVE  /\ Append(s, r) \in Seq(R) /\ Len(Append(s, r)) = Len(s) + 1
           /\ Range(Append(s, r)) = Range(s) \cup {r}
           /\ DOMAIN Append(s, r) = DOMAIN s \cup {Len(s) + 1} /\ Len(s) + 1 \notin DOMAIN s
           /\ \A k \in DOMAIN s : Append(s, r)[k] = s[k]
           /\ Append(s, r)[Len(s) + 1] = r
<1>1. DOMAIN Append(s, r) = 1 .. Len(s) + 1 /\ DOMAIN s = 1 .. Len(s) /\ Len(s) \in Nat
   OBVIOUS
<1>2. /\ \A k \in 1 .. Len(s) : Append(s,r)[k] = s[k]
      /\ Append(s,r)[Len(s)+1] = r
   OBVIOUS
<1>3. Range(Append(s, r)) = Range(s) \cup {r}
  BY <1>1, <1>2 DEF Range
<1> QED
  BY <1>1, <1>2, <1>3

\* A record is cut, and is cut alone: those before it stay where they were, and
\* those after it move up one.
LEMMA RemoveAtOK ==
    ASSUME NEW R, NEW s \in Seq(R), NEW i \in DOMAIN s
    PROVE  /\ RemoveAt(s, i) \in Seq(R)
           /\ Range(RemoveAt(s, i)) = {s[k] : k \in DOMAIN s \ {i}}
           /\ DOMAIN RemoveAt(s, i) = 1 .. Len(s) - 1
           /\ \A k \in 1 .. Len(s) - 1 : RemoveAt(s, i)[k] = IF k < i THEN s[k] ELSE s[k + 1]
<1> DEFINE t == RemoveAt(s, i)
           a == SubSeq(s, 1, i - 1)
           b == SubSeq(s, i + 1, Len(s))
<1>1. i \in 1 .. Len(s) /\ Len(s) \in Nat /\ DOMAIN s = 1 .. Len(s)
  OBVIOUS
<1>2. t = a \o b
  BY DEF RemoveAt
<1>3. /\ a \in Seq(R) /\ Len(a) = i - 1 /\ \A k \in 1 .. i - 1 : a[k] = s[k]
      /\ b \in Seq(R) /\ Len(b) = Len(s) - i /\ \A k \in 1 .. Len(s) - i : b[k] = s[k + i]
  BY <1>1
<1> HIDE DEF t, a, b
<1>4. /\ t \in Seq(R) /\ Len(t) = Len(s) - 1 /\ DOMAIN t = 1 .. Len(s) - 1
      /\ \A k \in 1 .. Len(s) - 1 : t[k] = IF k < i THEN s[k] ELSE s[k + 1]
  <2>1. t \in Seq(R) /\ Len(t) = Len(a) + Len(b)
    BY <1>2, <1>3
  <2>2. Len(t) = Len(s) - 1
    BY <1>1, <1>3, <2>1
  <2>3. ASSUME NEW k \in 1 .. Len(s) - 1
        PROVE  t[k] = IF k < i THEN s[k] ELSE s[k + 1]
    <3>1. k \in 1 .. Len(a) + Len(b)
      BY <2>1, <2>2
    <3>2. t[k] = IF k <= Len(a) THEN a[k] ELSE b[k - Len(a)]
      BY <1>2, <1>3, <3>1
    <3>3. CASE k < i
      BY <1>1, <1>3, <3>2, <3>3
    <3>4. CASE k >= i
      <4>1. k - Len(a) \in 1 .. Len(s) - i /\ (k - Len(a)) + i = k + 1 /\ ~(k <= Len(a)) /\ ~(k < i)
        BY <1>1, <1>3, <3>4
      <4> QED
        BY <1>3, <3>2, <4>1
    <3> QED
      BY <1>1, <3>3, <3>4
  <2> QED
    BY <2>1, <2>2, <2>3
<1>5. ASSUME NEW k \in DOMAIN s \ {i} PROVE s[k] \in Range(t)
  <2>1. CASE k < i
     BY <1>1, <1>4, <2>1 DEF Range
  <2>2. CASE k > i
     <3>1. k - 1 \in DOMAIN t /\ t[k-1] = s[k]
       BY <1>1, <1>4, <2>2
     <3> QED BY <3>1 DEF Range
  <2> QED BY <1>1, <2>1, <2>2
<1>6. ASSUME NEW k \in DOMAIN t PROVE \E l \in DOMAIN s \ {i} : t[k] = s[l]
  <2>1. CASE k < i
     BY <1>1, <1>4, <2>1
  <2>2. CASE k >= i
     <3>1. k + 1 \in DOMAIN s \ {i} /\ t[k] = s[k + 1]
       BY <1>1, <1>4, <2>2
     <3> QED BY <3>1
  <2> QED BY <1>1, <1>4, <2>1, <2>2
<1>7. Range(t) = {s[k] : k \in DOMAIN s \ {i}}
  BY <1>5, <1>6 DEF Range
<1> QED
  BY <1>4, <1>7 DEF t

-----------------------------------------------------------------------------
(* The walk.                                                               *)

\* What the census visits is there, has the root in it, and has what it lists.
LEMMA VisitedOK ==
    ASSUME RootPath \in Present
    PROVE  /\ Visited \subseteq Present /\ RootPath \in Visited
           /\ \A c \in Visited : docs[c].down \cap Present \subseteq Visited
    BY DEF Visited, Closed

\* Whatever it visits but the root is listed by something it visits: without it,
\* what is visited would be closed still.
LEMMA VisitedIsListed ==
    ASSUME RootPath \in Present, NEW p \in Visited \ {RootPath}
    PROVE  \E c \in Visited : p \in docs[c].down
<1> SUFFICES ASSUME \A c \in Visited : p \notin docs[c].down PROVE FALSE
    OBVIOUS
<1> DEFINE rest == Visited \ {p}
<1>1. rest \in SUBSET Present /\ Closed(rest)
    BY VisitedOK DEF Closed
<1>2. p \in rest
    BY <1>1 DEF Visited
<1> QED
    BY <1>2

-----------------------------------------------------------------------------
(* No record is lost, whatever paths are used again.                       *)

IsLog(s) == s \in Seq(Range(s))

\* A set makes of the log it read that log and more, but for what it means to cut.
PlanKeeps ==
  plan # NoPlan =>
    /\ IsLog(plan.log)
    /\ plan.read # NoLog => Range(plan.read) \subseteq Range(plan.log) \cup plan.cut

RInv == (log = NoLog \/ IsLog(log)) /\ PlanKeeps

LEMMA GrownLog ==
    ASSUME NEW s, IsLog(s), NEW r
    PROVE  IsLog(Append(s, r)) /\ Range(Append(s, r)) = Range(s) \cup {r}
<1> DEFINE R == Range(s) \cup {r}
<1>1. s \in Seq(R)
    <2>1. s \in Seq(Range(s)) /\ Range(s) \subseteq R
        BY DEF IsLog
    <2> HIDE DEF R
    <2> QED
        BY <2>1
<1>2. Append(s, r) \in Seq(R) /\ Range(Append(s, r)) = Range(s) \cup {r}
    BY <1>1, AppendOK
<1> QED
    BY <1>2 DEF IsLog

LEMMA CutLog ==
    ASSUME NEW s, IsLog(s), NEW i \in DOMAIN s
    PROVE  IsLog(RemoveAt(s, i)) /\ Range(s) \subseteq Range(RemoveAt(s, i)) \cup {s[i]}
<1> DEFINE t == RemoveAt(s, i)
<1>1. s \in Seq(Range(s))
    BY DEF IsLog
<1>2. t \in Seq(Range(s)) /\ Range(t) = {s[k] : k \in DOMAIN s \ {i}}
    BY <1>1, RemoveAtOK
<1> HIDE DEF t
<1>3. t \in Seq(Range(t))
    <2>1. DOMAIN t = 1 .. Len(t) /\ Len(t) \in Nat /\ t = [k \in 1 .. Len(t) |-> t[k]]
        BY <1>2
    <2> QED
        BY <2>1 DEF Range
<1>4. Range(s) \subseteq Range(t) \cup {s[i]}
    BY <1>2 DEF Range
<1> QED
    BY <1>3, <1>4 DEF IsLog, t

LEMMA NoLogYet == IsLog(<<>>) /\ Range(<<>>) = {}
    BY DEF IsLog, Range

LEMMA DeleteKeeps == ASSUME RInv, NEW p \in Paths, Delete(p) PROVE RInv'
<1> DEFINE records == IF log = NoLog THEN <<>> ELSE log
<1>1. PICK r : plan'.log = Append(records, r) /\ plan'.read = log /\ log' = log
    BY DEF Delete, Plan
<1>2. IsLog(records) /\ (log # NoLog => records = log)
    BY NoLogYet DEF RInv
<1> HIDE DEF records
<1>3. IsLog(plan'.log) /\ Range(plan'.log) = Range(records) \cup {r}
    BY <1>1, <1>2, GrownLog
<1> QED
    BY <1>1, <1>2, <1>3 DEF RInv, PlanKeeps

LEMMA RestoreKeeps == ASSUME RInv, NEW p \in Paths, Restore(p) PROVE RInv'
<1>1. log # NoLog
    BY DEF Restore, Recorded
<1>2. PICK pos \in DOMAIN log : /\ plan'.log = RemoveAt(log, pos) /\ plan'.read = log
                                /\ plan'.cut = {log[pos]} /\ log' = log
    BY DEF Restore, Plan
<1>3. IsLog(plan'.log) /\ Range(log) \subseteq Range(plan'.log) \cup {log[pos]}
    BY <1>1, <1>2, CutLog DEF RInv
<1> QED
    BY <1>1, <1>2, <1>3 DEF RInv, PlanKeeps

LEMMA ClearKeeps == ASSUME RInv, Clear PROVE RInv'
<1>1. plan'.log = <<>> /\ plan'.read = log /\ plan'.cut = Range(log) /\ log' = log
    BY DEF Clear, Plan
<1> QED
    BY <1>1, NoLogYet DEF RInv, PlanKeeps

LEMMA OtherDeleteKeeps ==
    ASSUME RInv, NEW p \in Paths, OtherDelete(p)
    PROVE  RInv' /\ (log # NoLog => Range(log) \subseteq Range(log'))
<1> DEFINE records == IF log = NoLog THEN <<>> ELSE log
<1>1. PICK r : log' = Append(records, r) /\ plan' = plan
    BY DEF OtherDelete
<1>2. IsLog(records) /\ (log # NoLog => records = log)
    BY NoLogYet DEF RInv
<1> HIDE DEF records
<1>3. IsLog(log') /\ Range(log') = Range(records) \cup {r}
    BY <1>1, <1>2, GrownLog
<1> QED
    BY <1>1, <1>2, <1>3 DEF RInv, PlanKeeps

LEMMA LandKeeps ==
    ASSUME RInv, Land
    PROVE  RInv' /\ (log # NoLog => Range(log) \subseteq Range(log') \cup plan.cut)
<1>1. plan # NoPlan /\ log = plan.read /\ log' = plan.log /\ plan' = NoPlan
    BY DEF Land, Drifted
<1> QED
    BY <1>1 DEF RInv, PlanKeeps

LEMMA RNextOK ==
    ASSUME RInv, [Next]_vars
    PROVE  /\ RInv'
           /\ log # NoLog => \A r \in Range(log) : r \in Range(log') \/ (plan # NoPlan /\ r \in plan.cut)
<1>1. CASE \/ \E p, q \in Paths : Create(p, q) \/ Rename(p, q)
           \/ \E p \in Paths, i \in Ids : Earn(p, i)
           \/ \E p \in Paths : PutBack(p) \/ Arrive(p)
           \/ Refuse \/ UNCHANGED vars
    <2>1. log' = log /\ plan' \in {plan, NoPlan}
        BY <1>1 DEF Create, Rename, Earn, Idle, PutBack, Arrive, Refuse, vars
    <2> QED
        BY <2>1 DEF RInv, PlanKeeps
<1>2. ASSUME NEW p \in Paths, Delete(p) \/ Restore(p)
      PROVE  RInv' /\ log' = log
    BY <1>2, DeleteKeeps, RestoreKeeps DEF Delete, Restore, Plan
<1>3. CASE Clear
    BY <1>3, ClearKeeps DEF Clear, Plan
<1>4. ASSUME NEW p \in Paths, OtherDelete(p)
      PROVE  RInv' /\ (log # NoLog => Range(log) \subseteq Range(log'))
    BY <1>4, OtherDeleteKeeps
<1>5. CASE Land
    BY <1>5, LandKeeps DEF Land
<1> QED
    BY <1>1, <1>2, <1>3, <1>4, <1>5 DEF Next

LEMMA RInit == Init => RInv
<1> SUFFICES ASSUME Init PROVE RInv
    OBVIOUS
<1>1. log = NoLog \/ \E r : log = <<r>>
    BY DEF Init
<1>2. ASSUME NEW r, log = <<r>> PROVE IsLog(log)
    BY <1>2 DEF IsLog, Range
<1> QED
    BY <1>1, <1>2 DEF Init, RInv, PlanKeeps

\* A record leaves the deletion log by a restore or a clear_deletions that read it
\* and means to cut it: a racing delete's record is never overwritten, for the set
\* that would is refused by what it expects of the log (tombstone.rs). No
\* assumption is made of paths deleted at twice.
THEOREM RecordsAreKeptHolds == Spec => RecordsAreKept
<1>1. RInv /\ [Next]_vars => RInv'
    BY RNextOK
<1>2. RInv /\ [Next]_vars =>
        [log # NoLog => \A r \in Range(log) : r \in Range(log') \/ (plan # NoPlan /\ r \in plan.cut)]_vars
    BY RNextOK
<1> QED
    BY RInit, <1>1, <1>2, PTL DEF Spec, RecordsAreKept

-----------------------------------------------------------------------------
(* What every step keeps, where no path the log names is used again.       *)

\* An id given, moved or retired leaves each path with one.
LEMMA RegisteredOK ==
    ASSUME ids \in [Ids -> Paths \cup {Fresh, Retired}], OneIdEach, NEW p \in Paths,
           ids' = Unregistered(p) \/ \E i \in Ids : ids' = Registered(ids, i, p)
    PROVE  ids' \in [Ids -> Paths \cup {Fresh, Retired}] /\ OneIdEach'
<1>1. CASE ids' = Unregistered(p)
    BY <1>1, DeletionsSentinels DEF Unregistered, OneIdEach
<1>2. ASSUME NEW i \in Ids, ids' = Registered(ids, i, p)
      PROVE  ids' \in [Ids -> Paths \cup {Fresh, Retired}] /\ OneIdEach'
    BY <1>2, DeletionsSentinels DEF Registered, OneIdEach
<1> QED
    BY <1>1, <1>2

\* Whether it has an id, and which.
LEMMA IdAtOK ==
    ASSUME NEW p \in Paths
    PROVE  /\ IdAt(p) \in Ids \cup {NoId}
           /\ \A j \in Ids : ids[j] = p => IdAt(p) \in Ids /\ ids[IdAt(p)] = p
<1>1. CASE \E i \in Ids : ids[i] = p
    <2>1. IdAt(p) = CHOOSE i \in Ids : ids[i] = p
        BY <1>1 DEF IdAt
    <2> QED
        BY <1>1, <2>1
<1>2. CASE ~\E i \in Ids : ids[i] = p
    BY <1>2 DEF IdAt
<1> QED
    BY <1>1, <1>2

\* A document that goes with its parent's entry for it and leaves a record.
LEMMA GoneOK ==
    ASSUME Core, NEW p \in Present \ {RootPath}, p \notin Recorded,
           docs[p].down = {}, docs[p].up \in Present,
           NEW r \in Records, r.from = p, r.parent = docs[p].up, ~r.bin,
           log' = Append(IF log = NoLog THEN <<>> ELSE log, r),
           docs' \in Files, docs'[p] = NoDoc,
           docs'[docs[p].up] = [docs[docs[p].up] EXCEPT !.down = @ \ {p}],
           \A q \in Paths \ {p, docs[p].up} : docs'[q] = docs[q],
           deleted' = [deleted EXCEPT ![p] = docs[p]], parked' = parked
    PROVE  /\ deleted' \in Files /\ log' \in Seq(Records)
           /\ UpIsAnother' /\ EntriesAreAnswered' /\ BackAreLeaves' /\ RecordsAgree'
<1> DEFINE parent == docs[p].up
           records == IF log = NoLog THEN <<>> ELSE log
           n == Len(records) + 1
<1>1. /\ docs \in Files /\ deleted \in Files /\ parked \in Files
      /\ log \in Seq(Records) \cup {NoLog}
      /\ p \in Paths /\ parent \in Paths /\ parent # p /\ docs[p] \in Docs /\ docs[parent] \in Docs
      /\ Present \subseteq Paths
    BY DEF Core, TypeOK, UpIsAnother, Present, Files
<1>2. /\ docs'[parent] \in Docs /\ docs'[parent].up = docs[parent].up
      /\ docs'[parent].down = docs[parent].down \ {p}
    <2> DEFINE e == [docs[parent] EXCEPT !.down = docs[parent].down \ {p}]
    <2>1. e \in Docs /\ e.up = docs[parent].up /\ e.down = docs[parent].down \ {p}
        BY <1>1 DEF Docs
    <2>2. docs'[parent] = e
        OBVIOUS
    <2> HIDE DEF e, parent
    <2> QED
        BY <2>1, <2>2
<1>3. records \in Seq(Records) /\ (log # NoLog => records = log)
    BY <1>1
<1> HIDE DEF records
<1>4. log' = Append(records, r)
    BY DEF records
<1>5. /\ log' \in Seq(Records) /\ log' # NoLog /\ DOMAIN log' = DOMAIN records \cup {n}
      /\ \A k \in DOMAIN records : log'[k] = records[k]
      /\ log'[n] = r /\ n \notin DOMAIN records
    <2>1. log' \in Seq(Records) /\ log' # NoLog
        BY <1>3, <1>4, AppendOK, DeletionsSentinels
    <2>2. /\ DOMAIN log' = DOMAIN records \cup {n}
          /\ \A k \in DOMAIN records : log'[k] = records[k]
          /\ log'[n] = r /\ n \notin DOMAIN records
        BY <1>3, <1>4, AppendOK
    <2> QED
        BY <2>1, <2>2
<1> HIDE DEF n, parent
<1>6. /\ Present' = Present \ {p}
      /\ \A q \in Present' : /\ docs'[q].up = docs[q].up
                             /\ docs'[q].down \subseteq docs[q].down
      /\ p \notin docs'[parent].down
    <2>1. docs'[parent] # NoDoc
        BY <1>2, DeletionsSentinels
    <2>2. Present' = Present \ {p}
        BY <1>1, <2>1 DEF Present, parent
    <2> QED
        BY <1>1, <1>2, <2>2 DEF parent
<1>7. UpIsAnother'
    BY <1>6 DEF Core, UpIsAnother
<1>8. \A c \in Present' : p \notin docs'[c].down
    BY <1>6 DEF Core, EntriesAreAnswered, parent
<1>9. EntriesAreAnswered'
    BY <1>6, <1>8 DEF Core, EntriesAreAnswered
<1>10. deleted' \in Files
    BY <1>1 DEF Files
<1>11. BackAreLeaves'
    <2>1. \A q \in Paths : deleted'[q] # NoDoc => deleted'[q].down = {} /\ deleted'[q].up # q
        BY <1>1 DEF Core, BackAreLeaves, parent, Files
    <2>2. ASSUME NEW q \in Paths, parked[q] # NoDoc
          PROVE  /\ parked[q].down = {} /\ parked[q].up = RootPath /\ q # RootPath
                 /\ \E k \in DOMAIN log' : log'[k].from = q /\ log'[k].bin
        BY <1>3, <1>5, <2>2 DEF Core, BackAreLeaves
    <2> QED
        BY <1>5, <2>1, <2>2 DEF BackAreLeaves
<1>12. \A k \in DOMAIN records : records[k].from # p /\ records[k].from \in Paths /\ log # NoLog
    <2>1. CASE log = NoLog
        BY <2>1 DEF records
    <2>2. ASSUME log # NoLog, NEW k \in DOMAIN records
          PROVE  records[k].from # p /\ records[k].from \in Paths
        <3>1. records = log /\ records[k] \in Records
            BY <1>3, <2>2
        <3> QED
            BY <2>2, <3>1 DEF Recorded, Records
    <2> QED
        BY <2>1, <2>2
<1>13. RecordsAgree'
    <2>1. \A k, l \in DOMAIN log' : log'[k].from = log'[l].from => k = l
        BY <1>3, <1>5, <1>12 DEF Core, RecordsAgree
    <2>2. ASSUME NEW k \in DOMAIN records
          PROVE  /\ log'[k].from # RootPath /\ log'[k].parent # log'[k].from
                 /\ log'[k].bin => log'[k].parent = RootPath
                 /\ log'[k].from \in Present' => docs'[log'[k].from].up = log'[k].parent
                 /\ deleted'[log'[k].from] # NoDoc => deleted'[log'[k].from].up = log'[k].parent
                 /\ \A c \in Present' : log'[k].from \notin docs'[c].down
        <3>1. log'[k] = log[k] /\ k \in DOMAIN log /\ log[k].from # p /\ log[k].from \in Paths
            BY <1>3, <1>5, <1>12
        <3>2. deleted'[log[k].from] = deleted[log[k].from]
            BY <1>1, <3>1 DEF Files
        <3> QED
            BY <1>6, <1>12, <3>1, <3>2 DEF Core, RecordsAgree
    <2>3. /\ r.from # RootPath /\ r.parent # r.from
          /\ deleted'[p] = docs[p]
        BY <1>1 DEF parent, Files
    <2> QED
        BY <1>5, <1>6, <1>8, <2>1, <2>2, <2>3 DEF RecordsAgree
<1> QED
    BY <1>5, <1>7, <1>9, <1>10, <1>11, <1>13

\* A file put back where there was none: it lists nothing, and claims what the
\* record of its path, if there is one, claims.
LEMMA BackOK ==
    ASSUME Core, NEW p \in Paths \ Present, NEW doc \in Docs, doc.down = {}, doc.up # p,
           log # NoLog => \A k \in DOMAIN log : log[k].from = p => doc.up = log[k].parent,
           docs' = [docs EXCEPT ![p] = doc],
           UNCHANGED <<ids, log, linked, parked, deleted>>
    PROVE  Core' /\ Present' = Present \cup {p} /\ \A q \in Present : docs'[q] = docs[q]
<1>1. docs \in Files /\ Present \subseteq Paths /\ doc # NoDoc
    BY DeletionsSentinels DEF Core, TypeOK, Present
<1>2. /\ docs' \in Files /\ Present' = Present \cup {p} /\ docs'[p] = doc
      /\ \A q \in Present : docs'[q] = docs[q]
    BY <1>1 DEF Files, Present
<1>3. TypeOK'
    BY <1>2 DEF Core, TypeOK
<1>4. UpIsAnother'
    BY <1>2 DEF Core, UpIsAnother
<1>5. EntriesAreAnswered'
    BY <1>2 DEF Core, EntriesAreAnswered
<1>6. BackAreLeaves'
    BY DEF Core, BackAreLeaves
<1>7. RecordsAgree'
    BY <1>2 DEF Core, RecordsAgree
<1> QED
    BY <1>2, <1>3, <1>4, <1>5, <1>6, <1>7 DEF Core, OneIdEach

LEMMA PutBackCore ==
    ASSUME Core, NEW p \in Paths, PutBack(p)
    PROVE  Core' /\ p \notin Present /\ \A q \in Present : docs'[q] = docs[q] /\ q \in Present'
<1>1. /\ p \notin Present /\ deleted[p] # NoDoc /\ docs' = [docs EXCEPT ![p] = deleted[p]]
      /\ UNCHANGED <<ids, log, linked, parked, deleted>>
    BY DEF PutBack
<1>2. /\ deleted[p] \in Docs /\ deleted[p].down = {} /\ deleted[p].up # p
      /\ log # NoLog => \A k \in DOMAIN log : log[k].from = p => deleted[p].up = log[k].parent
    BY <1>1 DEF Core, TypeOK, Files, BackAreLeaves, RecordsAgree
<1> QED
    BY <1>1, <1>2, BackOK

LEMMA ArriveCore ==
    ASSUME Core, NEW p \in Paths, Arrive(p)
    PROVE  Core' /\ p \notin Present /\ \A q \in Present : docs'[q] = docs[q] /\ q \in Present'
<1>1. PICK text \in Unused :
        /\ p \notin Present /\ parked[p] # NoDoc
        /\ docs' = [docs EXCEPT ![p] = Leaf(text, NoId, RootPath)]
        /\ UNCHANGED <<ids, log, linked, parked, deleted>>
    BY DEF Arrive
<1> DEFINE doc == Leaf(text, NoId, RootPath)
<1>2. doc \in Docs /\ doc.down = {} /\ doc.up = RootPath
    BY DeletionsRoot DEF Leaf, Docs, Unused
<1>3. p # RootPath
    BY <1>1 DEF Core, UpIsAnother
<1>4. log # NoLog => \A k \in DOMAIN log : log[k].from = p => log[k].parent = RootPath
    BY <1>1 DEF Core, BackAreLeaves, RecordsAgree
<1> HIDE DEF doc
<1>5. docs' = [docs EXCEPT ![p] = doc]
    BY <1>1 DEF doc
<1> QED
    BY <1>1, <1>2, <1>3, <1>4, <1>5, BackOK

\* A new document and its parent's entry for it.
LEMMA CreateCore ==
    ASSUME Freedoms = {}, Core, NEW p \in Paths, NEW parent \in Paths, Create(p, parent)
    PROVE  Core' /\ TextsStay
<1>1. PICK text \in Unused :
        docs' = [docs EXCEPT ![p] = Leaf(text, NoId, parent), ![parent].down = @ \cup {p}]
    BY DEF Create
<1>2. /\ p \notin Present /\ p \notin Recorded /\ parent \in Present
      /\ UNCHANGED <<ids, log, linked, parked, deleted>>
      /\ docs \in Files /\ docs[parent] \in Docs
    BY DEF Create, Idle, Free, Unrecorded, Core, TypeOK, Files, Present
<1> DEFINE leaf == Leaf(text, NoId, parent)
           above == [docs[parent] EXCEPT !.down = @ \cup {p}]
<1>3. leaf \in Docs /\ leaf.up = parent /\ leaf.down = {}
    BY DEF Leaf, Docs, Unused
<1>4. above \in Docs /\ above.up = docs[parent].up /\ above.down = docs[parent].down \cup {p}
    BY <1>2 DEF Docs
<1>5. docs' = [docs EXCEPT ![p] = leaf, ![parent] = above]
    BY <1>1, <1>2 DEF Files
<1> HIDE DEF leaf, above
<1>6. /\ docs' \in Files /\ docs'[p] = leaf /\ docs'[parent] = above
      /\ \A q \in Paths \ {p, parent} : docs'[q] = docs[q]
    BY <1>2, <1>3, <1>4, <1>5 DEF Files
<1>7. Present' = Present \cup {p} /\ Present \subseteq Paths
    BY <1>2, <1>3, <1>4, <1>6, DeletionsSentinels DEF Present
<1>8. UpIsAnother'
    BY <1>2, <1>3, <1>4, <1>6, <1>7 DEF Core, UpIsAnother
<1>9. EntriesAreAnswered'
    BY <1>2, <1>3, <1>4, <1>6, <1>7 DEF Core, EntriesAreAnswered
<1>10. BackAreLeaves'
    BY <1>2 DEF Core, BackAreLeaves
<1>11. RecordsAgree'
    <2>1. \A c \in Present' : \A q \in docs'[c].down : q = p \/ (c \in Present /\ q \in docs[c].down)
        BY <1>2, <1>3, <1>4, <1>6, <1>7
    <2>2. \A q \in Present : docs'[q].up = docs[q].up
        BY <1>2, <1>4, <1>6, <1>7
    <2>3. log # NoLog => \A k \in DOMAIN log : log[k].from # p
        BY <1>2 DEF Recorded
    <2> QED
        BY <1>2, <1>7, <2>1, <2>2, <2>3 DEF Core, RecordsAgree
<1>12. TextsStay
    <2>1. above.text = docs[parent].text
        BY <1>2 DEF above, Docs
    <2> QED
        BY <1>2, <1>6, <1>7, <2>1 DEF TextsStay
<1> QED
    BY <1>2, <1>6, <1>8, <1>9, <1>10, <1>11, <1>12 DEF Core, TypeOK, OneIdEach

\* An id earned, and spelled where documents spell theirs.
LEMMA EarnCore ==
    ASSUME Core, NEW p \in Paths, NEW i \in Ids, Earn(p, i)
    PROVE  Core' /\ TextsStay
<1>1. /\ p \in Present /\ ids' = Registered(ids, i, p)
      /\ docs' = IF stamps THEN [docs EXCEPT ![p].id = i] ELSE docs
      /\ UNCHANGED <<log, linked, parked, deleted>>
      /\ docs \in Files /\ docs[p] \in Docs
    BY DEF Earn, Idle, Core, TypeOK, Files, Present
<1>2. /\ docs' \in Files /\ Present' = Present
      /\ \A q \in Present : docs'[q].up = docs[q].up /\ docs'[q].down = docs[q].down
                             /\ docs'[q].text = docs[q].text
    <2> DEFINE spelt == [docs[p] EXCEPT !.id = i]
    <2>1. spelt \in Docs /\ spelt.up = docs[p].up /\ spelt.down = docs[p].down /\ spelt.text = docs[p].text
        BY <1>1 DEF Docs
    <2>2. docs' = docs \/ docs' = [docs EXCEPT ![p] = spelt]
        BY <1>1
    <2> HIDE DEF spelt
    <2> QED
        BY <1>1, <2>1, <2>2, DeletionsSentinels DEF Files, Present
<1>3. TypeOK' /\ OneIdEach'
    BY <1>1, <1>2, RegisteredOK DEF Core, TypeOK
<1>4. UpIsAnother' /\ EntriesAreAnswered' /\ BackAreLeaves' /\ RecordsAgree'
    BY <1>1, <1>2 DEF Core, UpIsAnother, EntriesAreAnswered, BackAreLeaves, RecordsAgree
<1> QED
    BY <1>1, <1>2, <1>3, <1>4 DEF Core, TextsStay

\* A document that moves, with every link the census finds to it.
LEMMA RenameCore ==
    ASSUME Freedoms = {}, Core, NEW from \in Paths, NEW to \in Paths, Rename(from, to)
    PROVE  Core' /\ TextsStay
<1>1. /\ from \in Visited /\ from # RootPath /\ to \notin Present /\ to \notin Recorded
      /\ docs' = [q \in Paths |-> IF q = to THEN docs[from]
                                  ELSE IF q = from THEN NoDoc
                                  ELSE IF q \in Visited THEN Retargeted(docs[q], from, to)
                                  ELSE docs[q]]
      /\ ids' = IF IdAt(from) = NoId THEN ids ELSE Registered(ids, IdAt(from), to)
      /\ UNCHANGED <<log, linked, parked, deleted>>
    BY DEF Rename, Idle, Free, Unrecorded
<1>2. /\ docs \in Files /\ Present \subseteq Paths /\ \A q \in Present : docs[q] \in Docs
      /\ log \in Seq(Records) \cup {NoLog}
    BY DEF Core, TypeOK, Files, Present
<1>3. /\ RootPath \in Present /\ Visited \subseteq Present /\ RootPath \in Visited
      /\ \A c \in Visited : docs[c].down \cap Present \subseteq Visited
    BY VisitedOK DEF Core, UpIsAnother
<1>4. \A p \in Visited \ {RootPath} : \E c \in Visited : p \in docs[c].down
    BY <1>3, VisitedIsListed
<1>5. \A c \in Present : \A p \in docs[c].down : p \in Present /\ docs[p].up = c
    BY DEF Core, EntriesAreAnswered
<1>6. docs[from].up \in Visited /\ docs[from].up # from /\ from \in Present /\ from \notin docs[from].down
    BY <1>1, <1>3, <1>4, <1>5 DEF Core, UpIsAnother
<1>7. ASSUME NEW q \in Visited \ {from}
      PROVE  /\ docs'[q] \in Docs /\ docs'[q].up = Moved(docs[q].up, from, to)
             /\ docs'[q].text = docs[q].text
             /\ docs'[q].down = {Moved(d, from, to) : d \in docs[q].down}
    <2> DEFINE new == Retargeted(docs[q], from, to)
    <2>1. /\ docs[q] \in Docs /\ q \in Paths /\ q # to
        BY <1>1, <1>2, <1>3
    <2>2. /\ new \in Docs /\ new.up = Moved(docs[q].up, from, to) /\ new.text = docs[q].text
          /\ new.down = {Moved(d, from, to) : d \in docs[q].down}
        <3> DEFINE up == Moved(docs[q].up, from, to)
                   down == {Moved(d, from, to) : d \in docs[q].down}
        <3>1. up \in Paths \cup {NoPath} /\ down \in SUBSET Paths
            BY <2>1 DEF Moved, Docs
        <3>2. new = [docs[q] EXCEPT !.up = up, !.down = down]
            BY <2>1 DEF Retargeted, Docs
        <3> HIDE DEF up, down, new
        <3>3. new \in Docs /\ new.up = up /\ new.down = down /\ new.text = docs[q].text
            BY <2>1, <3>1, <3>2 DEF Docs
        <3> QED
            BY <3>3 DEF up, down
    <2>3. docs'[q] = new
        BY <1>1, <2>1
    <2> HIDE DEF new
    <2> QED
        BY <2>2, <2>3
<1>8. /\ docs'[to] = docs[from] /\ docs'[from] = NoDoc
      /\ \A q \in Paths \ Visited : q # to => docs'[q] = docs[q]
    BY <1>1, <1>2, <1>6
<1>9. docs' \in Files
    <2>1. \A q \in Paths : docs'[q] \in Docs \cup {NoDoc}
        BY <1>2, <1>6, <1>7, <1>8 DEF Files
    <2> QED
        BY <1>1, <2>1 DEF Files
<1>10. Present' = (Present \ {from}) \cup {to}
    <2>1. ASSUME NEW q \in Paths PROVE q \in Present' <=> q \in (Present \ {from}) \cup {to}
        <3>1. q \in Visited \ {from} => docs'[q] # NoDoc
            BY <1>7, DeletionsSentinels
        <3>2. docs[from] # NoDoc
            BY <1>6 DEF Present
        <3> QED
            BY <1>3, <1>6, <1>8, <3>1, <3>2 DEF Present
    <2> QED
        BY <1>2, <2>1 DEF Present
<1>11. ASSUME NEW q \in Present'
       PROVE  /\ q = to => docs'[q].up = docs[from].up /\ docs'[q].down = docs[from].down
              /\ q # to /\ q \in Visited =>
                   /\ docs'[q].up = Moved(docs[q].up, from, to)
                   /\ docs'[q].down = {Moved(d, from, to) : d \in docs[q].down}
              /\ q # to /\ q \notin Visited => docs'[q] = docs[q]
    BY <1>2, <1>7, <1>8, <1>10
<1>12. UpIsAnother'
    <2>1. RootPath \in Present' /\ docs'[RootPath].up = NoPath
        <3>1. docs[RootPath].up = NoPath /\ RootPath # to
            BY <1>1 DEF Core, UpIsAnother
        <3> QED
            BY <1>1, <1>3, <1>10, <1>11, <3>1, DeletionsSentinels DEF Moved
    <2>2. ASSUME NEW q \in Present' PROVE docs'[q].up # q
        <3>1. CASE q = to
            BY <1>1, <1>3, <1>6, <1>11, <3>1
        <3>2. CASE q # to
            <4>1. q \in Present /\ docs[q].up # q
                BY <1>10, <3>2 DEF Core, UpIsAnother
            <4> QED
                BY <1>11, <3>2, <4>1 DEF Moved
        <3> QED
            BY <3>1, <3>2
    <2> QED
        BY <2>1, <2>2 DEF UpIsAnother
<1>13. ASSUME NEW c \in Present \ {from}, NEW p \in docs[c].down
       PROVE  /\ p \in Present /\ docs[p].up = c /\ p # c
              /\ c \in Visited <=> p \in Visited
    <2>1. p \in Present /\ docs[p].up = c /\ p # c /\ p # RootPath
        BY <1>2, <1>5, DeletionsSentinels DEF Core, UpIsAnother
    <2>2. c \in Visited => p \in Visited
        BY <1>3, <2>1
    <2>3. p \in Visited => c \in Visited
        BY <1>3, <1>4, <1>5, <2>1
    <2> QED
        BY <2>1, <2>2, <2>3
<1>14. EntriesAreAnswered'
    <2> SUFFICES ASSUME NEW c \in Present', NEW p \in docs'[c].down
                 PROVE  p \in Present' /\ docs'[p].up = c
        BY DEF EntriesAreAnswered
    <2>1. CASE c = to
        <3>1. p \in docs[from].down
            BY <1>11, <2>1
        <3>2. p \in Present /\ docs[p].up = from /\ p # from /\ p \in Visited /\ p # to
            BY <1>1, <1>3, <1>5, <1>6, <3>1
        <3> QED
            BY <1>10, <1>11, <2>1, <3>2 DEF Moved
    <2>2. CASE c # to /\ c \in Visited
        <3>1. c \in Present \ {from}
            BY <1>10, <2>2
        <3>2. PICK d \in docs[c].down : p = Moved(d, from, to)
            BY <1>11, <2>2
        <3>3. d \in Present /\ docs[d].up = c /\ d \in Visited
            BY <1>13, <2>2, <3>1
        <3>4. CASE d = from
            BY <1>10, <1>11, <3>2, <3>3, <3>4 DEF Moved
        <3>5. CASE d # from
            <4>1. p = d /\ d # to /\ d \in Present'
                BY <1>1, <1>10, <3>2, <3>3, <3>5 DEF Moved
            <4> QED
                BY <1>11, <3>1, <3>3, <4>1 DEF Moved
        <3> QED
            BY <3>4, <3>5
    <2>3. CASE c # to /\ c \notin Visited
        <3>1. c \in Present \ {from} /\ p \in docs[c].down
            BY <1>10, <1>11, <2>3
        <3>2. p \in Present /\ docs[p].up = c /\ p \notin Visited /\ p # from /\ p # to
            BY <1>1, <1>13, <2>3, <3>1
        <3> QED
            BY <1>10, <1>11, <3>2
    <2> QED
        BY <2>1, <2>2, <2>3
<1>15. BackAreLeaves'
    BY <1>1 DEF Core, BackAreLeaves
<1>16. RecordsAgree'
    <2> SUFFICES ASSUME log # NoLog, NEW k \in DOMAIN log
                 PROVE  /\ log[k].from \in Present' => docs'[log[k].from].up = log[k].parent
                        /\ \A c \in Present' : log[k].from \notin docs'[c].down
        BY <1>1 DEF Core, RecordsAgree
    <2> DEFINE f == log[k].from
    <2>1. /\ f # RootPath /\ (f \in Present => docs[f].up = log[k].parent)
          /\ \A c \in Present : f \notin docs[c].down
        BY DEF Core, RecordsAgree
    <2>2. f \notin Visited /\ f # to /\ f # from
        BY <1>1, <1>3, <1>4, <2>1 DEF Recorded
    <2> HIDE DEF f
    <2>3. f \in Present' => docs'[f].up = log[k].parent
        BY <1>10, <1>11, <2>1, <2>2
    <2>4. ASSUME NEW c \in Present' PROVE f \notin docs'[c].down
        <3>1. CASE c = to
            BY <1>6, <1>11, <2>1, <3>1
        <3>2. CASE c # to
            BY <1>10, <1>11, <2>1, <2>2, <3>2 DEF Moved
        <3> QED
            BY <3>1, <3>2
    <2> QED
        BY <2>3, <2>4 DEF f
<1>17. ids' \in [Ids -> Paths \cup {Fresh, Retired}] /\ OneIdEach'
    <2>1. CASE ids' = ids
        BY <2>1 DEF Core, TypeOK, OneIdEach
    <2>2. CASE ids' # ids
        <3>1. IdAt(from) \in Ids
            BY <1>1, <2>2, IdAtOK
        <3> QED
            BY <1>1, <2>2, <3>1, RegisteredOK DEF Core, TypeOK
    <2> QED
        BY <2>1, <2>2
<1>18. TextsStay
    <2> SUFFICES ASSUME NEW q \in Present
                 PROVE  \E s \in Present' : docs'[s].text = docs[q].text
        BY DEF TextsStay
    <2>1. CASE q = from
        BY <1>8, <1>10, <2>1
    <2>2. CASE q # from
        <3>1. q \in Present' /\ q \in Paths /\ q # to
            BY <1>1, <1>2, <1>10, <2>2
        <3>2. docs'[q].text = docs[q].text
            BY <1>7, <1>8, <2>2, <3>1
        <3> QED
            BY <3>1, <3>2
    <2> QED
        BY <2>1, <2>2
<1> QED
    BY <1>1, <1>9, <1>12, <1>14, <1>15, <1>16, <1>17, <1>18 DEF Core, TypeOK

\* A delete lands: what it built still fits, so the document goes with its entry.
LEMMA LandDetaches ==
    ASSUME Core, Land, NEW p \in Paths, Detaches(p)
    PROVE  Core' /\ (\A q \in Present : q # p => q \in Present') /\ p \notin Present'
           /\ ids' = Unregistered(p) /\ parked' = parked /\ deleted' = [deleted EXCEPT ![p] = docs[p]]
           /\ \A q \in Present' : docs'[q].text = docs[q].text
<1> DEFINE parent == docs[p].up
           W == plan.writes
<1>1. /\ docs' = [q \in Paths |-> IF q \in DOMAIN W THEN W[q] ELSE docs[q]]
      /\ deleted' = [q \in Paths |-> IF q \in Present /\ docs'[q] = NoDoc THEN docs[q] ELSE deleted[q]]
      /\ parked' = [q \in Paths |-> IF \E r \in {} : r.from = q /\ r.bin THEN NoDoc ELSE parked[q]]
      /\ ids' = Unregistered(p) /\ log' = plan.log /\ linked' = TRUE
    BY DEF Land, ParkedAfter, Detaches
<1>2. /\ docs \in Files /\ parked \in Files /\ deleted \in Files
      /\ Present \subseteq Paths /\ \A q \in Present : docs[q] \in Docs
    BY DEF Core, TypeOK, Files, Present
<1>3. /\ p \in Present /\ p # RootPath /\ docs[p].down = {} /\ parent \in Present /\ p \notin Recorded
      /\ {p, parent} \subseteq DOMAIN W /\ DOMAIN W \subseteq {p, parent, RootPath}
      /\ \A q \in DOMAIN W : W[q] = IF q = parent THEN [docs[q] EXCEPT !.down = @ \ {p}]
                                    ELSE IF q = p THEN NoDoc ELSE docs[q]
      /\ parent # p
    BY DEF Detaches, Core, UpIsAnother
<1>4. PICK r \in Records : /\ r.from = p /\ r.parent = parent /\ ~r.bin
                           /\ plan.log = Append(IF log = NoLog THEN <<>> ELSE log, r)
    BY DEF Detaches
<1> DEFINE above == [docs[parent] EXCEPT !.down = @ \ {p}]
<1>5. above \in Docs /\ above # NoDoc /\ above.text = docs[parent].text
    BY <1>2, <1>3, DeletionsSentinels DEF Docs
<1>6. /\ docs'[p] = NoDoc /\ docs'[parent] = above
      /\ \A q \in Paths \ {p, parent} : docs'[q] = docs[q]
    BY <1>1, <1>2, <1>3
<1> HIDE DEF above, W, parent
<1>7. docs' \in Files
    BY <1>1, <1>2, <1>3, <1>5, <1>6 DEF Files
<1>8. \A q \in Present : docs'[q] = NoDoc <=> q = p
    BY <1>2, <1>5, <1>6 DEF Present
<1>9. deleted' = [deleted EXCEPT ![p] = docs[p]]
    <2>1. \A q \in Paths : deleted'[q] = IF q = p THEN docs[p] ELSE deleted[q]
        BY <1>1, <1>3, <1>8
    <2> QED
        BY <1>1, <1>2, <2>1 DEF Files
<1>10. parked' = parked
    BY <1>1, <1>2 DEF Files
<1>11. Present' = Present \ {p}
    <2>1. \A q \in Paths \ Present : docs'[q] = NoDoc
        BY <1>3, <1>6 DEF Present
    <2>2. \A q \in Paths : docs'[q] # NoDoc <=> q \in Present \ {p}
        BY <1>2, <1>8, <2>1
    <2> QED
        BY <1>2, <2>2 DEF Present
<1>12. \A q \in Present' : docs'[q].text = docs[q].text
    BY <1>2, <1>5, <1>6, <1>11
<1>13. /\ deleted' \in Files /\ log' \in Seq(Records)
       /\ UpIsAnother' /\ EntriesAreAnswered' /\ BackAreLeaves' /\ RecordsAgree'
    <2>1. log' = Append(IF log = NoLog THEN <<>> ELSE log, r)
        BY <1>1, <1>4
    <2>2. docs'[docs[p].up] = [docs[docs[p].up] EXCEPT !.down = @ \ {p}]
        BY <1>6 DEF above, parent
    <2>3. \A q \in Paths \ {p, docs[p].up} : docs'[q] = docs[q]
        BY <1>6 DEF parent
    <2>4. docs[p].up \in Present /\ r.parent = docs[p].up
        BY <1>3, <1>4 DEF parent
    <2> QED
        BY <1>3, <1>4, <1>6, <1>7, <1>9, <1>10, <2>1, <2>2, <2>3, <2>4, GoneOK
<1>14. ids' \in [Ids -> Paths \cup {Fresh, Retired}] /\ OneIdEach'
    BY <1>1, RegisteredOK DEF Core, TypeOK
<1>15. Core'
    BY <1>2, <1>7, <1>10, <1>13, <1>14, DeletionsSentinels DEF Core, TypeOK
<1> QED
    BY <1>1, <1>9, <1>10, <1>11, <1>12, <1>15

\* A restore lands: the document is there, its parent lists it, its record is cut.
LEMMA LandReattaches ==
    ASSUME Core, Land, NEW p \in Paths, NEW pos \in DOMAIN log, Reattaches(p, pos)
    PROVE  Core' /\ Present' = Present \cup {p} /\ deleted' = deleted
           /\ (\A q \in Present : docs'[q].text = docs[q].text)
           /\ \A q \in Paths : parked'[q] # parked[q] => docs'[q] = parked[q] \/ plan.absent = {}
<1> DEFINE W == plan.writes
           parent == log[pos].parent
<1>1. /\ docs' = [q \in Paths |-> IF q \in DOMAIN W THEN W[q] ELSE docs[q]]
      /\ deleted' = [q \in Paths |-> IF q \in Present /\ docs'[q] = NoDoc THEN docs[q] ELSE deleted[q]]
      /\ parked' = [q \in Paths |-> IF \E r \in {log[pos]} : r.from = q /\ r.bin THEN NoDoc ELSE parked[q]]
      /\ ids' = plan.ids /\ log' = RemoveAt(log, pos) /\ linked' = TRUE
      /\ plan.absent \cap Present = {}
    BY DEF Land, ParkedAfter, Reattaches, Drifted
<1>2. /\ docs \in Files /\ parked \in Files /\ deleted \in Files
      /\ Present \subseteq Paths /\ \A q \in Present : docs[q] \in Docs
    BY DEF Core, TypeOK, Files, Present
<1>3. /\ log \in Seq(Records) /\ log[pos].from = p /\ p # RootPath /\ parent # p
      /\ log[pos].bin => parent = RootPath
      /\ p \in Present => docs[p].up = parent
    BY DEF Core, TypeOK, RecordsAgree, Reattaches
<1>4. /\ \/ log[pos].bin /\ parked[p] # NoDoc /\ plan.absent = {p}
         \/ p \in Present /\ plan.absent = {}
      /\ plan.absent \subseteq DOMAIN W
      /\ DOMAIN W \ plan.absent \subseteq {parent} \cap Present
      /\ \A q \in DOMAIN W :
           W[q] = IF q \in plan.absent THEN parked[q] ELSE [docs[q] EXCEPT !.down = @ \cup {p}]
    BY DEF Reattaches
<1> HIDE DEF W, parent
<1>5. /\ docs'[p] \in Docs /\ docs'[p].up = parent
      /\ p \in Present => docs'[p] = docs[p]
      /\ p \notin Present => docs'[p].down = {}
      /\ plan.absent = {p} => docs'[p] = parked[p]
    <2>1. CASE plan.absent = {p}
        <3>1. docs'[p] = parked[p] /\ p \notin Present /\ parked[p] # NoDoc /\ log[pos].bin
            BY <1>1, <1>4, <2>1
        <3>2. parked[p] \in Docs /\ parked[p].up = RootPath /\ parked[p].down = {}
            BY <1>2, <3>1 DEF Core, BackAreLeaves, Files
        <3> QED
            BY <1>3, <3>1, <3>2
    <2>2. CASE p \in Present /\ plan.absent = {}
        <3>1. docs'[p] = docs[p]
            BY <1>1, <1>3, <1>4, <2>2
        <3> QED
            BY <1>2, <1>3, <2>2, <3>1
    <2> QED
        BY <1>4, <2>1, <2>2
<1>6. ASSUME NEW q \in Present
      PROVE  /\ docs'[q] \in Docs /\ docs'[q].up = docs[q].up /\ docs'[q].text = docs[q].text
             /\ docs'[q].down = docs[q].down \/ (q = parent /\ docs'[q].down = docs[q].down \cup {p})
    <2>1. CASE q \notin DOMAIN W
        BY <1>1, <1>2, <2>1
    <2>2. CASE q \in DOMAIN W
        <3> DEFINE above == [docs[q] EXCEPT !.down = docs[q].down \cup {p}]
        <3>1. q \notin plan.absent /\ q = parent /\ docs'[q] = above
            BY <1>1, <1>2, <1>4, <2>2
        <3>2. /\ above \in Docs /\ above.up = docs[q].up /\ above.text = docs[q].text
              /\ above.down = docs[q].down \cup {p}
            BY <1>2 DEF Docs
        <3> HIDE DEF above
        <3> QED
            BY <3>1, <3>2
    <2> QED
        BY <2>1, <2>2
<1>7. \A q \in Paths \ Present : q # p => docs'[q] = NoDoc
    <2>1. \A q \in Paths \ Present : q # p => q \notin DOMAIN W
        BY <1>4
    <2> QED
        BY <1>1, <2>1 DEF Present
<1>8. docs' \in Files /\ Present' = Present \cup {p}
    <2>1. docs' \in Files
        BY <1>1, <1>2, <1>5, <1>6, <1>7 DEF Files
    <2>2. \A q \in Paths : docs'[q] # NoDoc <=> q \in Present \cup {p}
        BY <1>2, <1>5, <1>6, <1>7, DeletionsSentinels
    <2> QED
        BY <1>2, <2>1, <2>2 DEF Present
<1>9. deleted' = deleted
    <2>1. \A q \in Paths : deleted'[q] = deleted[q]
        BY <1>1, <1>6, DeletionsSentinels
    <2> QED
        BY <1>1, <1>2, <2>1 DEF Files
<1>10. /\ parked' \in Files
       /\ \A q \in Paths : parked'[q] = IF p = q /\ log[pos].bin THEN NoDoc ELSE parked[q]
    <2>1. \A q \in Paths : parked'[q] = IF p = q /\ log[pos].bin THEN NoDoc ELSE parked[q]
        BY <1>1, <1>3
    <2> QED
        BY <1>1, <1>2, <2>1 DEF Files
<1> DEFINE m(k) == IF k < pos THEN k ELSE k + 1
<1>11. /\ log' \in Seq(Records) /\ log' # NoLog
       /\ Range(log') = {log[k] : k \in DOMAIN log \ {pos}}
       /\ DOMAIN log' = 1 .. Len(log) - 1
       /\ \A k \in DOMAIN log' : log'[k] = log[m(k)]
    <2>1. /\ RemoveAt(log, pos) \in Seq(Records)
          /\ Range(RemoveAt(log, pos)) = {log[k] : k \in DOMAIN log \ {pos}}
          /\ DOMAIN RemoveAt(log, pos) = 1 .. Len(log) - 1
          /\ \A k \in 1 .. Len(log) - 1 : RemoveAt(log, pos)[k] = IF k < pos THEN log[k] ELSE log[k + 1]
        BY <1>3, RemoveAtOK
    <2> QED
        BY <1>1, <2>1, DeletionsSentinels
<1>12. /\ \A k \in DOMAIN log' : m(k) \in DOMAIN log \ {pos}
       /\ \A k, l \in DOMAIN log' : m(k) = m(l) => k = l
    <2>1. DOMAIN log = 1 .. Len(log) /\ Len(log) \in Nat /\ pos \in 1 .. Len(log)
        BY <1>3
    <2> QED
        BY <1>11, <2>1
<1> HIDE DEF m
<1>13. UpIsAnother'
    <2>1. docs'[RootPath].up = NoPath /\ RootPath \in Present'
        BY <1>6, <1>8 DEF Core, UpIsAnother
    <2>2. \A q \in Present' : docs'[q].up # q
        BY <1>3, <1>5, <1>6, <1>8 DEF Core, UpIsAnother
    <2> QED
        BY <2>1, <2>2 DEF UpIsAnother
<1>14. EntriesAreAnswered'
    BY <1>5, <1>6, <1>8 DEF Core, EntriesAreAnswered
<1>15. BackAreLeaves'
    <2>1. ASSUME NEW q \in Paths, parked'[q] # NoDoc
          PROVE  /\ parked[q] # NoDoc /\ parked'[q] = parked[q]
                 /\ \E k \in DOMAIN log' : log'[k].from = q /\ log'[k].bin
        <3>1. parked'[q] = parked[q] /\ parked[q] # NoDoc /\ ~(p = q /\ log[pos].bin)
            BY <1>10, <2>1
        <3>2. PICK k \in DOMAIN log : log[k].from = q /\ log[k].bin
            BY <3>1 DEF Core, BackAreLeaves
        <3>3. k # pos
            BY <1>3, <3>1, <3>2
        <3>4. log[k] \in Range(log')
            BY <1>11, <3>3
        <3> QED
            BY <3>1, <3>2, <3>4 DEF Range
    <2> QED
        BY <1>9, <1>11, <2>1 DEF Core, BackAreLeaves
<1>16. RecordsAgree'
    <2>1. \A k, l \in DOMAIN log' : log'[k].from = log'[l].from => k = l
        BY <1>3, <1>11, <1>12, DeletionsSentinels DEF Core, RecordsAgree
    <2>2. ASSUME NEW k \in DOMAIN log'
          PROVE  /\ log'[k].from # RootPath /\ log'[k].parent # log'[k].from
                 /\ log'[k].bin => log'[k].parent = RootPath
                 /\ log'[k].from \in Present' => docs'[log'[k].from].up = log'[k].parent
                 /\ deleted'[log'[k].from] # NoDoc => deleted'[log'[k].from].up = log'[k].parent
                 /\ \A c \in Present' : log'[k].from \notin docs'[c].down
        <3>1. PICK l \in DOMAIN log \ {pos} : log'[k] = log[l]
            BY <1>11, <1>12
        <3>2. log # NoLog
            BY <1>3, DeletionsSentinels
        <3>3. log[l].from # p
            BY <1>3, <3>1, <3>2 DEF Core, RecordsAgree
        <3>4. /\ log[l].from # RootPath /\ log[l].parent # log[l].from
              /\ log[l].bin => log[l].parent = RootPath
              /\ log[l].from \in Present => docs[log[l].from].up = log[l].parent
              /\ deleted[log[l].from] # NoDoc => deleted[log[l].from].up = log[l].parent
              /\ \A c \in Present : log[l].from \notin docs[c].down
            BY <3>1, <3>2 DEF Core, RecordsAgree
        <3>5. \A c \in Present' : log[l].from \notin docs'[c].down
            <4>1. ASSUME NEW c \in Present PROVE log[l].from \notin docs'[c].down
                BY <1>6, <3>3, <3>4
            <4>2. p \notin Present => docs'[p].down = {}
                BY <1>5
            <4> QED
                BY <1>8, <4>1, <4>2
        <3>6. log[l].from \in Present' => docs'[log[l].from].up = log[l].parent
            BY <1>6, <1>8, <3>3, <3>4
        <3> QED
            BY <1>9, <3>1, <3>4, <3>5, <3>6
    <2> QED
        BY <2>1, <2>2 DEF RecordsAgree
<1>17. ids' \in [Ids -> Paths \cup {Fresh, Retired}] /\ OneIdEach'
    <2>1. ids' = ids \/ \E i \in Ids : ids' = Registered(ids, i, p)
        BY <1>1 DEF Reattaches
    <2>2. CASE ids' = ids
        BY <2>2 DEF Core, TypeOK, OneIdEach
    <2> QED
        BY <2>1, <2>2, RegisteredOK DEF Core, TypeOK
<1>18. Core'
    BY <1>2, <1>8, <1>9, <1>10, <1>11, <1>13, <1>14, <1>15, <1>16, <1>17 DEF Core, TypeOK
<1> QED
    BY <1>4, <1>5, <1>6, <1>8, <1>9, <1>10, <1>18

\* A clear_deletions lands: no record is left, nor anything in the bin.
LEMMA LandForgets ==
    ASSUME Core, Land, Forgets
    PROVE  Core' /\ docs' = docs /\ ids' = ids /\ deleted' = deleted /\ plan.absent = {}
<1>1. /\ docs' = [q \in Paths |-> docs[q]]
      /\ deleted' = [q \in Paths |-> IF q \in Present /\ docs'[q] = NoDoc THEN docs[q] ELSE deleted[q]]
      /\ parked' = [q \in Paths |-> IF \E r \in Range(log) : r.from = q /\ r.bin THEN NoDoc ELSE parked[q]]
      /\ ids' = ids /\ log' = <<>> /\ log # NoLog
    BY DEF Land, ParkedAfter, Forgets
<1>2. docs \in Files /\ parked \in Files /\ deleted \in Files
    BY DEF Core, TypeOK
<1>3. docs' = docs
    BY <1>1, <1>2 DEF Files
<1>4. deleted' = deleted
    BY <1>1, <1>2, <1>3 DEF Files, Present
<1>5. \A q \in Paths : parked'[q] = NoDoc
    <2> SUFFICES ASSUME NEW q \in Paths, parked[q] # NoDoc
                 PROVE  \E r \in Range(log) : r.from = q /\ r.bin
        BY <1>1
    <2> QED
        BY DEF Core, BackAreLeaves, Range
<1>6. parked' \in Files /\ log' \in Seq(Records) /\ log' # NoLog /\ DOMAIN log' = {}
    <2>1. <<>> \in Seq(Records) /\ DOMAIN <<>> = {}
        OBVIOUS
    <2> QED
        BY <1>1, <1>5, <2>1, DeletionsSentinels DEF Files
<1>7. Core'
    BY <1>1, <1>3, <1>4, <1>5, <1>6 DEF Core, TypeOK, UpIsAnother, EntriesAreAnswered, BackAreLeaves,
        RecordsAgree, OneIdEach, Present
<1> QED
    BY <1>1, <1>3, <1>4, <1>7 DEF Forgets

-----------------------------------------------------------------------------
(* What a set that waits to land was built from stays as it was, or the    *)
(* log does not.                                                           *)

LEMMA DeletePlans ==
    ASSUME Freedoms = {}, Core, NEW p \in Paths, Delete(p)
    PROVE  PlanHolds'
<1> DEFINE parent == docs[p].up
           records == IF log = NoLog THEN <<>> ELSE log
           record == [from |-> p, parent |-> parent, id |-> IdAt(p), bin |-> FALSE]
           pointer == IF linked THEN {} ELSE {RootPath}
           writes == [q \in {p, parent} \cup pointer |->
                        IF q = parent THEN [docs[q] EXCEPT !.down = @ \ {p}]
                        ELSE IF q = p THEN NoDoc ELSE docs[q]]
<1>1. /\ p \in Present \ {RootPath} /\ docs[p].down = {} /\ parent \in Present /\ p \notin Recorded
      /\ plan'.writes = writes /\ plan'.ids = Unregistered(p) /\ plan'.log = Append(records, record)
      /\ plan'.absent = {} /\ plan'.cut = {} /\ plan'.read = log
      /\ UNCHANGED <<docs, ids, log>>
    BY DEF Delete, Plan, Unrecorded
<1>2. record \in Records /\ record.from = p /\ record.parent = parent /\ ~record.bin
    BY <1>1, IdAtOK DEF Records, Present
<1> HIDE DEF record
<1>3. \E r \in Records : /\ r.from = p /\ r.parent = parent /\ ~r.bin
                         /\ plan'.log = Append(IF log = NoLog THEN <<>> ELSE log, r)
    BY <1>1, <1>2
<1>4. /\ {p, parent} \subseteq DOMAIN writes /\ DOMAIN writes \subseteq {p, parent, RootPath}
      /\ \A q \in DOMAIN writes :
           writes[q] = IF q = parent THEN [docs[q] EXCEPT !.down = @ \ {p}]
                       ELSE IF q = p THEN NoDoc ELSE docs[q]
    OBVIOUS
<1> HIDE DEF writes
<1>5. Detaches(p)'
    BY <1>1, <1>3, <1>4 DEF Detaches, Present, Recorded, Unregistered
<1> QED
    BY <1>1, <1>5 DEF PlanHolds

LEMMA RestorePlans ==
    ASSUME Core, NEW p \in Paths, Restore(p)
    PROVE  PlanHolds'
<1>1. log # NoLog /\ UNCHANGED <<docs, ids, log, parked>>
    BY DEF Restore, Plan, Recorded
<1>2. PICK pos \in DOMAIN log :
        LET record == log[pos]
            home == record.bin /\ parked[p] # NoDoc
            back == IF home THEN parked[p] ELSE docs[p]
            parent == {record.parent} \cap Present
            writes == [q \in parent \cup (IF home THEN {p} ELSE {}) |->
                         IF q \in parent THEN [docs[q] EXCEPT !.down = @ \cup {p}] ELSE back]
        IN /\ First(pos, p)
           /\ home <=> p \notin Present
           /\ record.id # NoId => back.id \in {NoId, record.id} /\ ~Conflict(record.id, p)
           /\ Plan(writes,
                   IF record.id = NoId THEN ids ELSE Registered(ids, record.id, p),
                   RemoveAt(log, pos),
                   IF home THEN {p} ELSE {},
                   {record})
    BY DEF Restore
<1> DEFINE id == log[pos].id
           home == log[pos].bin /\ parked[p] # NoDoc
           parent == {log[pos].parent} \cap Present
           absent == IF home THEN {p} ELSE {}
           writes == [q \in parent \cup absent |->
                        IF q \in parent THEN [docs[q] EXCEPT !.down = @ \cup {p}]
                        ELSE IF home THEN parked[p] ELSE docs[p]]
<1>3. /\ log[pos].from = p /\ (home <=> p \notin Present)
      /\ id # NoId => ~Conflict(id, p)
      /\ plan'.writes = writes /\ plan'.log = RemoveAt(log, pos) /\ plan'.absent = absent
      /\ plan'.cut = {log[pos]} /\ plan'.read = log
      /\ plan'.ids = IF id = NoId THEN ids ELSE Registered(ids, id, p)
    BY <1>2 DEF Plan, First
<1>4. /\ \/ log[pos].bin /\ parked[p] # NoDoc /\ absent = {p}
         \/ p \in Present /\ absent = {}
      /\ DOMAIN writes = parent \cup absent
      /\ \A q \in DOMAIN writes :
           writes[q] = IF q \in absent THEN parked[q] ELSE [docs[q] EXCEPT !.down = @ \cup {p}]
    BY <1>3
<1>5. \/ plan'.ids = ids
      \/ \E i \in Ids : /\ plan'.ids = Registered(ids, i, p)
                        /\ \A j \in Ids : ids[j] = p => j = i
    <2> SUFFICES ASSUME id # NoId
                 PROVE  id \in Ids /\ \A j \in Ids : ids[j] = p => j = id
        BY <1>3
    <2>1. log \in Seq(Records)
        BY <1>1 DEF Core, TypeOK
    <2>2. log[pos] \in Records
        BY <2>1
    <2>3. id \in Ids
        BY <2>2 DEF Records
    <2>4. IdAt(p) \in {NoId, id}
        BY <1>3 DEF Conflict
    <2>5. ASSUME NEW j \in Ids, ids[j] = p PROVE j = id
        <3>1. IdAt(p) \in Ids /\ ids[IdAt(p)] = p
            BY <2>5, IdAtOK
        <3> QED
            BY <2>4, <2>5, <3>1, DeletionsSentinels DEF Core, OneIdEach
    <2> QED
        BY <2>3, <2>5
<1> HIDE DEF writes, absent, home, id
<1>6. Reattaches(p, pos)'
    BY <1>1, <1>3, <1>4, <1>5 DEF Reattaches, Present, Registered
<1> QED
    BY <1>1, <1>3, <1>6 DEF PlanHolds

LEMMA ClearPlans ==
    ASSUME Core, Clear
    PROVE  PlanHolds'
<1>1. /\ log # NoLog /\ UNCHANGED <<docs, ids, log>>
      /\ plan'.writes = [q \in {} |-> NoDoc] /\ plan'.ids = ids /\ plan'.log = <<>>
      /\ plan'.absent = {} /\ plan'.cut = Range(log) /\ plan'.read = log
    BY DEF Clear, Plan, Core
<1>2. Forgets'
    BY <1>1 DEF Forgets
<1> QED
    BY <1>1, <1>2 DEF PlanHolds

\* A file put back, or brought, takes nothing from under a plan.
LEMMA BackPlans ==
    ASSUME IInv, \A q \in Present : docs'[q] = docs[q] /\ q \in Present',
           UNCHANGED <<ids, log, parked, plan>>
    PROVE  PlanHolds'
<1>1. RootPath \in Present
    BY DEF IInv, Core, UpIsAnother
<1>2. ASSUME NEW p \in Paths, Detaches(p) PROVE Detaches(p)'
    <2>1. docs'[p] = docs[p] /\ p \in Present' /\ p # RootPath /\ docs[p].up \in Present'
        BY <1>2 DEF Detaches
    <2>2. \A q \in DOMAIN plan.writes : docs'[q] = docs[q]
        BY <1>1, <1>2 DEF Detaches
    <2>3. \A q \in DOMAIN plan.writes :
            plan.writes[q] = IF q = docs[p].up THEN [docs'[q] EXCEPT !.down = @ \ {p}]
                             ELSE IF q = p THEN NoDoc ELSE docs'[q]
        BY <1>2, <2>2 DEF Detaches
    <2>4. log' = log /\ ids' = ids /\ plan' = plan
        OBVIOUS
    <2>5. p \notin Recorded' /\ plan.ids = Unregistered(p)'
        BY <1>2, <2>4 DEF Detaches, Recorded, Unregistered
    <2> QED
        BY <1>2, <2>1, <2>3, <2>4, <2>5 DEF Detaches
<1>3. ASSUME NEW p \in Paths, NEW pos \in DOMAIN log, Reattaches(p, pos) PROVE Reattaches(p, pos)'
    <2>1. \A q \in DOMAIN plan.writes : q \notin plan.absent => docs'[q] = docs[q] /\ q \in Present'
        BY <1>3 DEF Reattaches
    <2>2. p \in Present => p \in Present'
        OBVIOUS
    <2>3. DOMAIN plan.writes \ plan.absent \subseteq {log[pos].parent} \cap Present'
        BY <1>3, <2>1 DEF Reattaches
    <2>4. \A q \in DOMAIN plan.writes :
            plan.writes[q] = IF q \in plan.absent THEN parked[q]
                             ELSE [docs'[q] EXCEPT !.down = @ \cup {p}]
        BY <1>3, <2>1 DEF Reattaches
    <2>5. log' = log /\ ids' = ids /\ plan' = plan /\ parked' = parked
        OBVIOUS
    <2>6. \/ plan.ids = ids
          \/ \E i \in Ids : /\ plan.ids = Registered(ids, i, p)
                            /\ \A j \in Ids : ids[j] = p => j = i
        BY <1>3 DEF Reattaches
    <2>7. \/ plan'.ids = ids'
          \/ \E i \in Ids : /\ plan'.ids = Registered(ids', i, p)
                            /\ \A j \in Ids : ids'[j] = p => j = i
        BY <2>5, <2>6
    <2> QED
        BY <1>3, <2>2, <2>3, <2>4, <2>5, <2>7 DEF Reattaches
<1>4. ASSUME Forgets PROVE Forgets'
    BY <1>4 DEF Forgets
<1>5. Grown => Grown'
    BY DEF Grown
<1> QED
    BY <1>2, <1>3, <1>4, <1>5 DEF IInv, PlanHolds

\* A racing delete makes the log longer than a plan has read it, for good.
LEMMA OtherDeletePlans ==
    ASSUME IInv, NEW p \in Paths, OtherDelete(p)
    PROVE  PlanHolds'
<1> DEFINE records == IF log = NoLog THEN <<>> ELSE log
           record == [from |-> p, parent |-> docs[p].up, id |-> NoId, bin |-> FALSE]
<1>1. p \in Present /\ docs[p].up \in Present /\ log' = Append(records, record) /\ plan' = plan
    BY DEF OtherDelete
<1>2. records \in Seq(Records) /\ (log # NoLog => records = log)
    BY DEF IInv, Core, TypeOK
<1>3. record \in Records
    BY <1>1 DEF Records, Present
<1> HIDE DEF record, records
<1>4. log' \in Seq(Records) /\ Len(log') = Len(records) + 1 /\ Len(records) \in Nat
    BY <1>1, <1>2, <1>3, AppendOK
<1>5. log' # NoLog
    BY <1>4, DeletionsSentinels
<1>6. plan # NoPlan => Grown \/ log = plan.read
    BY DEF IInv, PlanHolds
<1>7. ASSUME plan # NoPlan PROVE Grown'
    <2> SUFFICES ASSUME plan.read # NoLog PROVE Len(plan.read) \in Nat /\ Len(log') > Len(plan.read)
        BY <1>1, <1>5 DEF Grown
    <2>1. CASE log = plan.read
        BY <1>2, <1>4, <2>1
    <2>2. CASE Grown
        BY <1>2, <1>4, <2>2 DEF Grown
    <2> QED
        BY <1>6, <1>7, <2>1, <2>2
<1> QED
    BY <1>1, <1>7 DEF PlanHolds

LEMMA OtherDeleteCore ==
    ASSUME Freedoms = {}, Core, NEW p \in Paths, OtherDelete(p)
    PROVE  Core' /\ TextsStay
<1> DEFINE parent == docs[p].up
           record == [from |-> p, parent |-> parent, id |-> NoId, bin |-> FALSE]
           above == [docs[parent] EXCEPT !.down = @ \ {p}]
<1>1. /\ p \in Present \ {RootPath} /\ docs[p].down = {} /\ parent \in Present /\ p \notin Recorded
      /\ docs' = [docs EXCEPT ![p] = NoDoc, ![parent].down = @ \ {p}]
      /\ log' = Append(IF log = NoLog THEN <<>> ELSE log, record)
      /\ linked' = TRUE /\ deleted' = [deleted EXCEPT ![p] = docs[p]]
      /\ UNCHANGED <<ids, parked>>
    BY DEF OtherDelete, Unrecorded
<1>2. /\ docs \in Files /\ deleted \in Files /\ Present \subseteq Paths
      /\ \A q \in Present : docs[q] \in Docs
      /\ parent # p
    BY <1>1 DEF Core, TypeOK, Files, Present, UpIsAnother
<1>3. record \in Records /\ record.from = p /\ record.parent = parent /\ ~record.bin
    BY <1>1, <1>2 DEF Records
<1>4. above \in Docs /\ above.text = docs[parent].text
    BY <1>1, <1>2 DEF Docs
<1>5. docs' = [docs EXCEPT ![p] = NoDoc, ![parent] = above]
    BY <1>1, <1>2 DEF Files
<1> HIDE DEF record, above
<1>6. /\ docs' \in Files /\ docs'[p] = NoDoc /\ docs'[parent] = above
      /\ \A q \in Paths \ {p, parent} : docs'[q] = docs[q]
    BY <1>1, <1>2, <1>4, <1>5 DEF Files
<1>7. docs'[parent] = [docs[parent] EXCEPT !.down = @ \ {p}]
    BY <1>6 DEF above
<1>8. /\ deleted' \in Files /\ log' \in Seq(Records)
      /\ UpIsAnother' /\ EntriesAreAnswered' /\ BackAreLeaves' /\ RecordsAgree'
    BY <1>1, <1>3, <1>6, <1>7, GoneOK
<1>9. Core'
    BY <1>1, <1>6, <1>8, DeletionsSentinels DEF Core, TypeOK, OneIdEach
<1>10. TextsStay
    <2>1. deleted'[p] = docs[p]
        BY <1>1, <1>2 DEF Files
    <2>2. above # NoDoc
        BY <1>4, DeletionsSentinels
    <2>3. ASSUME NEW q \in Present, q # p PROVE q \in Present' /\ docs'[q].text = docs[q].text
        BY <1>2, <1>4, <1>6, <2>2, <2>3 DEF Present
    <2> QED
        BY <2>1, <2>3 DEF TextsStay
<1> QED
    BY <1>9, <1>10

-----------------------------------------------------------------------------
(* The steps together.                                                     *)

\* What the bin keeps of a path goes home, or with the records of a clear.
BinStays ==
  \A p \in Paths : parked'[p] # parked[p] => docs'[p] = parked[p] \/ plan.absent = {}

Good == IInv' /\ TextsStay /\ IdsStay /\ BinStays

\* What does not touch documents, ids, the bin, or what was deleted.
LEMMA StillOK ==
    ASSUME UNCHANGED <<docs, parked, deleted, ids>>, IInv
    PROVE  TextsStay /\ IdsStay /\ BinStays
<1>1. TextsStay
    BY DEF TextsStay, Present
<1>2. IdsStay
    BY DEF IdsStay, Present
<1> QED
    BY <1>1, <1>2 DEF BinStays

LEMMA EarnOK == ASSUME IInv, NEW p \in Paths, NEW i \in Ids, Earn(p, i) PROVE Good
<1>1. Core' /\ TextsStay /\ plan = NoPlan /\ plan' = plan /\ parked' = parked
    BY EarnCore DEF IInv, Earn, Idle
<1>2. ids' = Registered(ids, i, p) /\ \A j \in Ids : ids[j] # p
    BY IdAtOK, DeletionsSentinels DEF Earn
<1>3. IdsStay
    BY <1>2 DEF IdsStay, Registered, Present
<1> QED
    BY <1>1, <1>3 DEF Good, IInv, PlanHolds, BinStays

LEMMA RenameOK ==
    ASSUME Freedoms = {}, IInv, NEW from \in Paths, NEW to \in Paths, Rename(from, to)
    PROVE  Good
<1>1. Core' /\ TextsStay /\ plan = NoPlan /\ plan' = plan /\ parked' = parked
    BY RenameCore DEF IInv, Rename, Idle
<1>2. ASSUME IdAt(from) # NoId
      PROVE  ids' = Registered(ids, IdAt(from), to) /\ \A j \in Ids : ids[j] # to
    BY <1>2, IdAtOK, DeletionsSentinels DEF Rename
<1>3. IdAt(from) = NoId => ids' = ids
    BY DEF Rename
<1>4. IdsStay
    BY <1>2, <1>3 DEF IdsStay, Registered, Present
<1> QED
    BY <1>1, <1>4 DEF Good, IInv, PlanHolds, BinStays

LEMMA CreateOK ==
    ASSUME Freedoms = {}, IInv, NEW p \in Paths, NEW parent \in Paths, Create(p, parent)
    PROVE  Good
<1>1. Core' /\ TextsStay /\ plan = NoPlan /\ plan' = plan /\ parked' = parked /\ ids' = ids
    BY CreateCore DEF IInv, Create, Idle
<1> QED
    BY <1>1 DEF Good, IInv, PlanHolds, BinStays, IdsStay, Present

LEMMA BackStepOK == ASSUME IInv, NEW p \in Paths, PutBack(p) \/ Arrive(p) PROVE Good
<1>1. /\ Core' /\ \A q \in Present : docs'[q] = docs[q] /\ q \in Present'
      /\ UNCHANGED <<ids, log, parked, plan>>
    BY PutBackCore, ArriveCore DEF IInv, PutBack, Arrive
<1>2. PlanHolds'
    BY <1>1, BackPlans
<1>3. TextsStay
    BY <1>1 DEF TextsStay
<1>4. IdsStay /\ BinStays
    BY <1>1 DEF IdsStay, BinStays, Present
<1> QED
    BY <1>1, <1>2, <1>3, <1>4 DEF Good, IInv

LEMMA OtherDeleteOK == ASSUME Freedoms = {}, IInv, NEW p \in Paths, OtherDelete(p) PROVE Good
<1>1. Core' /\ TextsStay /\ PlanHolds' /\ parked' = parked /\ ids' = ids
    BY OtherDeleteCore, OtherDeletePlans DEF IInv, OtherDelete
<1> QED
    BY <1>1 DEF Good, IInv, BinStays, IdsStay, Present

LEMMA PlannersOK ==
    ASSUME Freedoms = {}, IInv, Clear \/ \E p \in Paths : Delete(p) \/ Restore(p)
    PROVE  Good
<1>1. PlanHolds'
    BY DeletePlans, RestorePlans, ClearPlans DEF IInv
<1>2. UNCHANGED <<stamps, docs, ids, log, linked, parked, deleted>>
    BY DEF Clear, Delete, Restore, Plan
<1>3. Core'
    BY <1>2 DEF IInv, Core, TypeOK, UpIsAnother, EntriesAreAnswered, BackAreLeaves, RecordsAgree,
        OneIdEach, Present
<1>4. TextsStay /\ IdsStay /\ BinStays
    BY <1>2, StillOK
<1> QED
    BY <1>1, <1>3, <1>4 DEF Good, IInv

LEMMA LandOK == ASSUME IInv, Land PROVE Good
<1>1. plan # NoPlan /\ log = plan.read /\ plan' = NoPlan
    BY DEF Land, Drifted
<1>2. Core /\ ids \in [Ids -> Paths \cup {Fresh, Retired}] /\ Present \subseteq Paths
    BY DEF IInv, Core, TypeOK, Present
<1>3. PlanHolds'
    BY <1>1 DEF PlanHolds
<1>4. ~Grown
    <2> SUFFICES ASSUME Grown PROVE FALSE
        OBVIOUS
    <2>1. log # NoLog /\ Len(log) \in Nat /\ Len(log) > Len(log)
        BY <1>1 DEF Grown
    <2> QED
        BY <2>1
<1>5. ASSUME NEW p \in Paths, Detaches(p) PROVE Good
    <2>1. /\ Core' /\ (\A q \in Present : q # p => q \in Present') /\ p \notin Present'
          /\ ids' = Unregistered(p) /\ parked' = parked /\ deleted' = [deleted EXCEPT ![p] = docs[p]]
          /\ \A q \in Present' : docs'[q].text = docs[q].text
        BY <1>2, <1>5, LandDetaches
    <2>2. TextsStay
        <3>1. deleted'[p] = docs[p]
            BY <1>2, <2>1 DEF Core, TypeOK, Files
        <3> QED
            BY <2>1, <3>1 DEF TextsStay
    <2>3. IdsStay
        <3>1. docs'[p] = NoDoc
            BY <2>1 DEF Present
        <3> QED
            BY <1>2, <2>1, <3>1 DEF IdsStay, Unregistered
    <2> QED
        BY <1>3, <2>1, <2>2, <2>3 DEF Good, IInv, BinStays
<1>6. ASSUME NEW p \in Paths, NEW pos \in DOMAIN log, Reattaches(p, pos) PROVE Good
    <2>1. /\ Core' /\ Present' = Present \cup {p} /\ deleted' = deleted
          /\ \A q \in Present : docs'[q].text = docs[q].text
          /\ \A q \in Paths : parked'[q] # parked[q] => docs'[q] = parked[q] \/ plan.absent = {}
        BY <1>2, <1>6, LandReattaches
    <2>2. TextsStay
        BY <2>1 DEF TextsStay
    <2>3. IdsStay
        <3>1. ids' = plan.ids
            BY DEF Land
        <3>2. ids' = ids \/ \E i \in Ids : /\ ids' = Registered(ids, i, p)
                                           /\ \A j \in Ids : ids[j] = p => j = i
            BY <1>6, <3>1 DEF Reattaches
        <3> QED
            BY <1>2, <3>2 DEF IdsStay, Registered
    <2> QED
        BY <1>3, <2>1, <2>2, <2>3 DEF Good, IInv, BinStays
<1>7. ASSUME Forgets PROVE Good
    <2>1. Core' /\ docs' = docs /\ ids' = ids /\ deleted' = deleted /\ plan.absent = {}
        BY <1>2, <1>7, LandForgets
    <2> QED
        BY <1>2, <1>3, <2>1 DEF Good, IInv, BinStays, TextsStay, IdsStay, Present
<1> QED
    BY <1>1, <1>4, <1>5, <1>6, <1>7 DEF IInv, PlanHolds

LEMMA NextOK == ASSUME Freedoms = {}, IInv, [Next]_vars PROVE Good
<1>1. CASE Refuse \/ UNCHANGED vars
    <2>1. /\ UNCHANGED <<stamps, docs, ids, log, linked, parked, deleted>>
          /\ plan' \in {plan, NoPlan}
        BY <1>1 DEF Refuse, vars
    <2>2. Core'
        BY <2>1 DEF IInv, Core, TypeOK, UpIsAnother, EntriesAreAnswered, BackAreLeaves, RecordsAgree,
            OneIdEach, Present
    <2>3. PlanHolds'
        <3>1. CASE plan' = NoPlan
            BY <3>1 DEF PlanHolds
        <3>2. CASE plan' = plan
            BY <2>1, <3>2, BackPlans DEF Present
        <3> QED
            BY <2>1, <3>1, <3>2
    <2> QED
        BY <2>1, <2>2, <2>3, StillOK DEF Good, IInv
<1>2. CASE \E p, q \in Paths : Create(p, q) \/ Rename(p, q)
    BY <1>2, CreateOK, RenameOK
<1>3. CASE \E p \in Paths, i \in Ids : Earn(p, i)
    BY <1>3, EarnOK
<1>4. CASE \E p \in Paths : OtherDelete(p) \/ PutBack(p) \/ Arrive(p)
    BY <1>4, OtherDeleteOK, BackStepOK
<1>5. CASE Clear \/ \E p \in Paths : Delete(p) \/ Restore(p)
    BY <1>5, PlannersOK
<1> QED
    BY <1>1, <1>2, <1>3, <1>4, <1>5, LandOK DEF Next

LEMMA InitOK == Init => IInv
<1> SUFFICES ASSUME Init PROVE IInv
    OBVIOUS
<1>1. PICK text \in Texts :
        docs = [p \in Paths |-> IF p = RootPath THEN Leaf(text, NoId, NoPath) ELSE NoDoc]
    BY DEF Init
<1>2. plan = NoPlan /\ deleted = [p \in Paths |-> NoDoc]
    BY DEF Init
<1> DEFINE root == Leaf(text, NoId, NoPath)
<1>3. root \in Docs /\ root # NoDoc /\ root.up = NoPath /\ root.down = {}
    BY DeletionsSentinels DEF Leaf, Docs
<1> HIDE DEF root
<1>4. docs \in Files /\ deleted \in Files /\ Present = {RootPath} /\ docs[RootPath] = root
    BY <1>1, <1>2, <1>3, DeletionsRoot DEF root, Files, Present
<1>5. UpIsAnother /\ EntriesAreAnswered
    BY <1>3, <1>4, DeletionsRoot, DeletionsSentinels DEF UpIsAnother, EntriesAreAnswered
<1>6. CASE log = NoLog /\ linked = FALSE /\ parked = deleted /\ ids = [i \in Ids |-> Fresh]
    <2>1. TypeOK /\ OneIdEach
        BY <1>2, <1>4, <1>6, DeletionsSentinels DEF TypeOK, OneIdEach
    <2>2. BackAreLeaves /\ RecordsAgree
        BY <1>2, <1>6 DEF BackAreLeaves, RecordsAgree
    <2> QED
        BY <1>2, <1>5, <1>6, <2>1, <2>2 DEF IInv, Core, PlanHolds
<1>7. ASSUME NEW p \in Paths \ {RootPath}, NEW i \in Ids, NEW t \in Texts,
             log = <<[from |-> p, parent |-> RootPath, id |-> i, bin |-> TRUE]>>,
             parked = [deleted EXCEPT ![p] = Leaf(t, Spelled(i), RootPath)],
             ids = [j \in Ids |-> IF j = i THEN Retired ELSE Fresh]
      PROVE  IInv
    <2> DEFINE record == [from |-> p, parent |-> RootPath, id |-> i, bin |-> TRUE]
               doc == Leaf(t, Spelled(i), RootPath)
    <2>1. record \in Records /\ record.from = p /\ record.parent = RootPath /\ record.bin
        BY DeletionsRoot DEF Records
    <2>2. doc \in Docs /\ doc.up = RootPath /\ doc.down = {}
        BY DeletionsRoot DEF Leaf, Docs, Spelled
    <2> HIDE DEF record, doc
    <2>3. log = <<record>> /\ parked = [deleted EXCEPT ![p] = doc]
        BY <1>7 DEF record, doc
    <2>4. log \in Seq(Records) /\ DOMAIN log = {1} /\ log[1] = record
        BY <2>1, <2>3
    <2>5. log # NoLog
        BY <2>4, DeletionsSentinels
    <2>6. parked \in Files /\ \A q \in Paths : parked[q] = IF q = p THEN doc ELSE NoDoc
        BY <1>2, <2>2, <2>3 DEF Files
    <2>7. TypeOK /\ OneIdEach
        BY <1>4, <1>7, <2>4, <2>6, DeletionsSentinels DEF TypeOK, OneIdEach
    <2>8. BackAreLeaves
        BY <1>2, <2>1, <2>2, <2>4, <2>5, <2>6 DEF BackAreLeaves
    <2>9. RecordsAgree
        BY <1>2, <1>3, <1>4, <2>1, <2>4 DEF RecordsAgree
    <2> QED
        BY <1>2, <1>5, <2>5, <2>7, <2>8, <2>9 DEF IInv, Core, PlanHolds
<1>8. CASE \E p \in Paths \ {RootPath}, i \in Ids, t \in Texts \ {docs[RootPath].text} :
             /\ log = <<[from |-> p, parent |-> RootPath, id |-> i, bin |-> TRUE]>>
             /\ linked = TRUE
             /\ parked = [deleted EXCEPT ![p] = Leaf(t, Spelled(i), RootPath)]
             /\ ids = [j \in Ids |-> IF j = i THEN Retired ELSE Fresh]
    <2>1. PICK p \in Paths \ {RootPath}, i \in Ids, t \in Texts :
             /\ log = <<[from |-> p, parent |-> RootPath, id |-> i, bin |-> TRUE]>>
             /\ parked = [deleted EXCEPT ![p] = Leaf(t, Spelled(i), RootPath)]
             /\ ids = [j \in Ids |-> IF j = i THEN Retired ELSE Fresh]
        BY <1>8, Zenon
    <2> QED
        BY <2>1, <1>7
<1> QED
    BY <1>6, <1>8, Zenon DEF Init

\* Where no path the log names is used again, each entry names a document that is
\* there and claims the one that lists it, whatever deletes race and whatever
\* version control puts back between the reading and the landing of a set
\* (delete.rs, tombstone.rs): the log a set expects to find is what refuses a set
\* built before another session's delete.
THEOREM EntriesAreAnsweredHolds ==
    ASSUME Freedoms = {}
    PROVE  Spec => []EntriesAreAnswered
<1>1. IInv /\ [Next]_vars => IInv'
    BY NextOK DEF Good
<1>2. IInv => EntriesAreAnswered
    BY DEF IInv, Core
<1> QED
    BY InitOK, <1>1, <1>2, PTL DEF Spec

\* Under the same assumption a live id is given up by nothing but the delete that
\* takes its document: a restore or a rename registers an id only where no other
\* holds the path (registration_conflict, registry.rs).
THEOREM LiveIdsStayHolds ==
    ASSUME Freedoms = {}
    PROVE  Spec => LiveIdsStay
<1>1. IInv /\ [Next]_vars => IInv'
    BY NextOK DEF Good
<1>2. IInv /\ [Next]_vars =>
        [\A i \in Ids, p \in Present : ids[i] = p /\ ids'[i] \notin Paths => docs'[p] = NoDoc]_vars
    BY NextOK DEF Good, IdsStay
<1> QED
    BY InitOK, <1>1, <1>2, PTL DEF Spec, LiveIdsStay

\* A text in the tree is after each step in the tree, in the bin or among what was
\* deleted, and what the bin keeps leaves it for its path or by a
\* clear_deletions: the emptiness a restore expects of the path (tombstone.rs)
\* keeps it from landing on a file that has come since.
THEOREM BytesAreKeptHolds ==
    ASSUME Freedoms = {}
    PROVE  Spec => BytesAreKept
<1> DEFINE Kept ==
      /\ TextsOf(docs) \subseteq (TextsOf(docs) \cup TextsOf(parked) \cup TextsOf(deleted))'
      /\ \A p \in Paths : parked[p] # NoDoc /\ parked'[p] = NoDoc =>
           docs'[p] = parked[p] \/ plan.absent = {}
<1>1. IInv /\ [Next]_vars => IInv'
    BY NextOK DEF Good
<1>2. ASSUME IInv, [Next]_vars PROVE Kept
    <2>1. TextsStay /\ BinStays /\ IInv'
        BY <1>2, NextOK DEF Good
    <2>2. /\ docs \in Files /\ docs' \in Files /\ deleted' \in Files
          /\ \A q \in Present : docs[q] # NoDoc /\ q \in Paths
          /\ \A q \in Present' : docs'[q] # NoDoc /\ q \in Paths
        BY <1>2, <2>1 DEF IInv, Core, TypeOK, Present
    <2>3. ASSUME NEW t \in TextsOf(docs) PROVE t \in TextsOf(docs)' \cup TextsOf(deleted)'
        <3>1. PICK q \in Present : t = docs[q].text
            BY <2>2 DEF TextsOf, Range, Files, Present
        <3>2. ASSUME NEW s \in Present', docs'[s].text = t PROVE t \in TextsOf(docs)'
            BY <2>2, <3>2 DEF TextsOf, Range, Files
        <3>3. ASSUME deleted'[q] = docs[q] PROVE t \in TextsOf(deleted)'
            BY <2>2, <3>1, <3>3 DEF TextsOf, Range, Files
        <3> QED
            BY <2>1, <3>1, <3>2, <3>3 DEF TextsStay
    <2>4. \A p \in Paths : parked[p] # NoDoc /\ parked'[p] = NoDoc =>
            docs'[p] = parked[p] \/ plan.absent = {}
        BY <2>1 DEF BinStays
    <2> QED
        BY <2>3, <2>4
<1>3. IInv /\ [Next]_vars => [Kept]_vars
    BY <1>2
<1> QED
    BY InitOK, <1>1, <1>3, PTL DEF Spec, BytesAreKept
=============================================================================
