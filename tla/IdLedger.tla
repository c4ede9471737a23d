------------------------------ MODULE IdLedger ------------------------------
(***************************************************************************)
(* What the id registry promises, without maps, texts or files: a ledger   *)
(* in which every id is fresh, bound to one path, or retired, and ids are  *)
(* forever (docs/DESIGN.md section 10, "IDs are never reissued").          *)
(*                                                                         *)
(* status is what the running program believes, undo what a failed         *)
(* operation goes back to, durable what the next run will read.            *)
(***************************************************************************)
CONSTANTS Ids, Paths, Fresh, Retired, NoUndo

States == [Ids -> Paths \cup {Fresh, Retired}]

VARIABLES status, undo, durable,
          homed    \* there is a document to make the ledger durable in

vars == <<status, undo, durable, homed>>

\* Every id is fresh, bound or retired, in memory, in the undo and on disk.
TypeOK ==
  /\ status \in States
  /\ undo \in States \cup {NoUndo}
  /\ durable \in States
  /\ homed \in BOOLEAN

Init ==
  /\ durable \in States
  /\ \A i, j \in Ids : durable[i] = durable[j] /\ durable[i] \in Paths => i = j
  /\ status = durable
  /\ undo = NoUndo
  /\ homed \in BOOLEAN

\* An operation starts; one that never finished is taken back first.
Open ==
  /\ status' = IF undo = NoUndo THEN status ELSE undo
  /\ undo' = status'
  /\ UNCHANGED <<durable, homed>>

\* An id takes a path; the id that had it is retired.
Bind(id, p) ==
  /\ status' = [i \in Ids |-> IF i = id THEN p
                              ELSE IF status[i] = p THEN Retired ELSE status[i]]
  /\ UNCHANGED <<undo, durable, homed>>

Retire(id) ==
  /\ status' = [status EXCEPT ![id] = Retired]
  /\ UNCHANGED <<undo, durable, homed>>

Land ==
  /\ undo # NoUndo
  /\ undo' = NoUndo
  /\ durable' = IF homed THEN status ELSE durable
  /\ UNCHANGED <<status, homed>>

Fail ==
  /\ undo # NoUndo
  /\ status' = undo
  /\ undo' = NoUndo
  /\ UNCHANGED <<durable, homed>>

Save ==
  /\ durable' = status
  /\ undo' = NoUndo
  /\ homed' = TRUE
  /\ UNCHANGED status

FindHome ==
  /\ homed' = TRUE
  /\ UNCHANGED <<status, undo, durable>>

Restart ==
  /\ status' = durable
  /\ undo' = NoUndo
  /\ homed' \in BOOLEAN
  /\ UNCHANGED durable

Next ==
  \/ Open \/ Land \/ Fail \/ Save \/ FindHome \/ Restart
  \/ \E id \in Ids, p \in Paths : Bind(id, p)
  \/ \E id \in Ids : Retire(id)

Spec == Init /\ [][Next]_vars

-----------------------------------------------------------------------------
\* No two ids are bound to one path, now or after an undo or a restart.
Injective(s) == \A i, j \in Ids : s[i] = s[j] /\ s[i] \in Paths => i = j

OneIdPerPath ==
  Injective(status) /\ Injective(durable) /\ (undo # NoUndo => Injective(undo))

\* Nothing the ledger has made durable is fresh to the running program, not
\* even after the operation under way is taken back: it can not be minted.
DurableIsKnown ==
  \A i \in Ids : durable[i] # Fresh =>
    status[i] # Fresh /\ (undo # NoUndo => undo[i] # Fresh)

\* A durable id is never forgotten.
IdsAreForever ==
  [][\A i \in Ids : durable[i] # Fresh => durable'[i] # Fresh]_vars
=============================================================================
