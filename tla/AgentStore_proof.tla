-------------------------- MODULE AgentStore_proof --------------------------
(***************************************************************************)
(* Proofs about AgentStore, for any number of clients, fields, values and  *)
(* transactions.  The inductive invariant IInv adds to the properties what *)
(* makes them inductive: which stamps are still unused, what holding the   *)
(* row lock means, and what each request has prepared so far.              *)
(***************************************************************************)
EXTENDS AgentStore, TLAPS

Pending(c) == req[c].pc \in {"execute", "written"}

Prepared(c) == req[c].pc \in {"begin", "execute", "written"}

\* now() of a running transaction has never been anybody's updated_at.
StampsFresh ==
  /\ row # NoRow => row.stamp <= clock
  /\ \A c \in Clients : req[c].seen # NoRow => req[c].seen.stamp <= clock
  /\ \A c \in Clients : Pending(c) =>
       /\ req[c].stamp <= clock
       /\ row # NoRow => row.stamp # req[c].stamp
       /\ \A d \in Clients : req[d].seen # NoRow => req[d].seen.stamp # req[c].stamp
       /\ \A d \in Clients \ {c} : Pending(d) => req[d].stamp # req[c].stamp

\* Whoever has written the row holds its lock, and nobody else changes the row.
LockHeld ==
  \A c \in Clients :
    /\ req[c].pc = "written" <=> lock = c
    /\ req[c].pc = "written" =>
         /\ req[c].op \in {"create", "edit", "rollback"}
         /\ Matches(req[c])
         /\ req[c].version = IF row = NoRow THEN 1 ELSE row.version + 1

\* What a request carries at each pc.
RequestsOK ==
  \A c \in Clients :
    /\ req[c].pc = "idle" => req[c] = Idle
    /\ req[c].pc # "idle" => req[c].op # "none"
    /\ req[c].pc = "read" => req[c].op \in {"edit", "rollback"}
    /\ req[c].op = "edit" => req[c].seen # NoRow
    /\ req[c].op = "create" => req[c].draft = req[c].body
    /\ (req[c].op = "rollback" /\ Prepared(c)) =>
         req[c].target \in DOMAIN snaps /\ req[c].draft = snaps[req[c].target]

IInv == /\ TypeOK
        /\ StampsFresh
        /\ LockHeld
        /\ RequestsOK
        /\ SnapshotsContiguous
        /\ RowIsNewestSnapshot
        /\ EtagNamesState

-----------------------------------------------------------------------------
(***************************************************************************)
(* Lemmas on the operators.                                                *)
(***************************************************************************)

\* Laying a body over a complete entry gives a complete entry.
LEMMA OverlayType ==
  ASSUME NEW e \in Entry, NEW b \in Body
  PROVE  Overlay(e, b) \in Entry
  BY DEF Overlay, Entry, Body, Status

\* A complete entry is also a body, one that mentions every column.
LEMMA EntryIsBody == Entry \subseteq Body
  BY DEF Entry, Body

\* A body without Keep, as POST requires it, is an entry.
LEMMA CreatedEntry ==
  ASSUME NEW f \in [Fields -> Values]
  PROVE  [fields |-> f, status |-> "active"] \in Entry
  BY DEF Entry, Status

\* The idle request is well typed.
LEMMA IdleType == Idle \in Request /\ KeepAll \in Body
  BY DEF Idle, Request, KeepAll, Body, Row

-----------------------------------------------------------------------------
(***************************************************************************)
(* Type correctness.                                                       *)
(***************************************************************************)

\* The initial states are well typed.
LEMMA TypeInit == Init => TypeOK
  BY IdleType DEF Init, TypeOK, Idle

\* A request whose draft is complete unless it still has a read to do.
LEMMA AcceptType ==
  ASSUME TypeOK, NEW c \in Clients, NEW r \in Request, Accept(c, r),
         r.pc = "read" \/ (r.pc = "begin" /\ r.op = "delete") \/ r.draft \in Entry
  PROVE  TypeOK'
<1>1. req' \in [Clients -> Request]
  BY DEF Accept, TypeOK
<1>2. \A d \in Clients : req'[d] = IF d = c THEN r ELSE req[d]
  BY DEF Accept, TypeOK
<1>3. r.pc = "written" => r.draft \in Entry
  OBVIOUS
<1> QED
  BY <1>1, <1>2, <1>3 DEF Accept, TypeOK

\* Every step keeps the types.
LEMMA TypeStep == TypeOK /\ [Next]_vars => TypeOK'
<1> SUFFICES ASSUME TypeOK, [Next]_vars PROVE TypeOK'
  OBVIOUS
<1> USE ConstantsAssumption, IdleType, EntryIsBody
<1>1. ASSUME NEW c \in Clients, RequestCreate(c) PROVE TypeOK'
  <2>1. PICK f \in [Fields -> Values] :
          LET e == [fields |-> f, status |-> "active"]
          IN  Accept(c, [Idle EXCEPT !.pc = "begin", !.op = "create", !.body = e, !.draft = e])
    BY <1>1 DEF RequestCreate
  <2>2. [fields |-> f, status |-> "active"] \in Entry
    BY CreatedEntry
  <2> DEFINE e == [fields |-> f, status |-> "active"]
             r == [Idle EXCEPT !.pc = "begin", !.op = "create", !.body = e, !.draft = e]
  <2>3. r \in Request /\ r.draft = e
    BY <2>2 DEF Request, Idle
  <2> QED
    BY <2>1, <2>2, <2>3, AcceptType
<1>2. ASSUME NEW c \in Clients, NEW b \in Body, RequestEdit(c, b) PROVE TypeOK'
  BY <1>2, AcceptType DEF RequestEdit, TypeOK, Request, Idle
<1>3. ASSUME NEW c \in Clients, RequestRollback(c) PROVE TypeOK'
  <2>1. PICK v \in 1..MaxTx :
          Accept(c, [Idle EXCEPT !.pc = "read", !.op = "rollback", !.target = v])
    BY <1>3 DEF RequestRollback
  <2>2. [Idle EXCEPT !.pc = "read", !.op = "rollback", !.target = v] \in Request
    BY v \in Nat DEF Request, Idle
  <2> QED
    BY <2>1, <2>2, AcceptType DEF Request, Idle
<1>4. ASSUME NEW c \in Clients, RequestDelete(c) PROVE TypeOK'
  BY <1>4, AcceptType DEF RequestDelete, Request, Idle
<1>5. ASSUME NEW c \in Clients, GetByID(c) PROVE TypeOK'
  <2>1. CASE row = NoRow
    BY <1>5, <2>1 DEF GetByID, TypeOK, Request, Idle
  <2>2. CASE row # NoRow
    <3>1. Overlay(row.entry, req[c].body) \in Entry
      BY <2>2, OverlayType DEF TypeOK, Request, Row
    <3>2. req' = [req EXCEPT ![c] = [req[c] EXCEPT !.pc = "begin",
                                                   !.draft = Overlay(row.entry, req[c].body)]]
      BY <1>5, <2>2 DEF GetByID, TypeOK
    <3>3. [req[c] EXCEPT !.pc = "begin", !.draft = Overlay(row.entry, req[c].body)] \in Request
      BY <3>1 DEF TypeOK, Request
    <3> QED
      BY <1>5, <2>2, <3>1, <3>2, <3>3 DEF GetByID, TypeOK
  <2> QED
    BY <2>1, <2>2
<1>6. ASSUME NEW c \in Clients, GetVersion(c) PROVE TypeOK'
  <2>1. CASE req[c].target \notin DOMAIN snaps
    BY <1>6, <2>1 DEF GetVersion, TypeOK, Request, Idle
  <2>2. CASE req[c].target \in DOMAIN snaps
    <3>1. req' = [req EXCEPT ![c] = [req[c] EXCEPT !.pc = "begin",
                                                   !.draft = snaps[req[c].target]]]
      BY <1>6, <2>2 DEF GetVersion, TypeOK
    <3> QED
      BY <1>6, <2>2, <3>1 DEF GetVersion, TypeOK, Request
  <2> QED
    BY <2>1, <2>2
<1>7. ASSUME NEW c \in Clients, BeginTx(c) PROVE TypeOK'
  <2>1. req' = [req EXCEPT ![c] = [req[c] EXCEPT !.pc = "execute", !.stamp = clock + 1]]
    BY <1>7 DEF BeginTx, TypeOK
  <2> QED
    BY <1>7, <2>1 DEF BeginTx, TypeOK, Request
<1>8. ASSUME NEW c \in Clients, ExecWrite(c) PROVE TypeOK'
  <2>1. (IF row = NoRow THEN 1 ELSE row.version + 1) \in Nat
    BY DEF TypeOK, Row
  <2> QED
    BY <1>8, <2>1 DEF ExecWrite, TypeOK, Request, Idle
<1>9. ASSUME NEW c \in Clients, Commit(c) PROVE TypeOK'
  <2>1. req[c].draft \in Entry /\ req[c].version \in Nat /\ req[c].stamp \in Nat
    BY <1>9 DEF Commit, TypeOK, Request
  <2>2. row' \in Row
    BY <1>9, <2>1 DEF Commit, Row
  <2>3. /\ DOMAIN snaps' \subseteq Nat
        /\ \A v \in DOMAIN snaps' : snaps'[v] \in Entry
    BY <1>9, <2>1 DEF Commit, TypeOK
  <2> QED
    BY <1>9, <2>2, <2>3 DEF Commit, TypeOK, Idle
<1>10. ASSUME NEW c \in Clients, ExecDelete(c) PROVE TypeOK'
  BY <1>10 DEF ExecDelete, Matches, TypeOK, Request, Idle, Row, Entry, Status
<1>11. ASSUME NEW c \in Clients, Abort(c) PROVE TypeOK'
  BY <1>11 DEF Abort, TypeOK, Request, Idle
<1>12. CASE Crash
  BY <1>12 DEF Crash, TypeOK, Request, Idle
<1>13. CASE UNCHANGED vars
  BY <1>13 DEF vars, TypeOK
<1> QED
  BY <1>1, <1>2, <1>3, <1>4, <1>5, <1>6, <1>7, <1>8, <1>9, <1>10, <1>11, <1>12, <1>13
  DEF Next, RequestUpdate, RequestPatch, PutBody

\* Committed rows and every request in flight keep their types; in particular
\* no column of a committed row is ever "not mentioned".
THEOREM TypeCorrect == Spec => []TypeOK
  BY TypeInit, TypeStep, PTL DEF Spec

-----------------------------------------------------------------------------
(***************************************************************************)
(* The inductive invariant, part by part.                                  *)
(***************************************************************************)

\* The invariant holds in every initial state.
LEMMA IInvInit == Init => IInv
  BY TypeInit, ConstantsAssumption
  DEF Init, IInv, StampsFresh, Pending, LockHeld, RequestsOK, Prepared, Idle,
      SnapshotsContiguous, RowIsNewestSnapshot, EtagNamesState

\* Every step keeps the stamps of running transactions unused.
LEMMA FreshStep == IInv /\ [Next]_vars => StampsFresh'
<1> SUFFICES ASSUME TypeOK, StampsFresh, LockHeld, RequestsOK, [Next]_vars PROVE StampsFresh'
  BY DEF IInv
<1> USE DEF TypeOK, Request, Row, StampsFresh, Pending
<1>1. ASSUME NEW c \in Clients, RequestCreate(c) PROVE StampsFresh'
  BY <1>1 DEF RequestCreate, Accept, Idle
<1>2. ASSUME NEW c \in Clients, NEW b \in Body, RequestEdit(c, b) PROVE StampsFresh'
  BY <1>2 DEF RequestEdit, Accept, Idle
<1>3. ASSUME NEW c \in Clients, RequestRollback(c) PROVE StampsFresh'
  BY <1>3 DEF RequestRollback, Accept, Idle
<1>4. ASSUME NEW c \in Clients, RequestDelete(c) PROVE StampsFresh'
  BY <1>4 DEF RequestDelete, Accept, Idle
<1>5. ASSUME NEW c \in Clients, GetByID(c) PROVE StampsFresh'
  BY <1>5 DEF GetByID, Idle
<1>6. ASSUME NEW c \in Clients, GetVersion(c) PROVE StampsFresh'
  BY <1>6 DEF GetVersion, Idle
<1>7. ASSUME NEW c \in Clients, BeginTx(c) PROVE StampsFresh'
  BY <1>7 DEF BeginTx
<1>8. ASSUME NEW c \in Clients, ExecWrite(c) PROVE StampsFresh'
  BY <1>8 DEF ExecWrite, Idle
<1>9. ASSUME NEW c \in Clients, Commit(c) PROVE StampsFresh'
  BY <1>9 DEF Commit, Idle
<1>10. ASSUME NEW c \in Clients, ExecDelete(c) PROVE StampsFresh'
  BY <1>10 DEF ExecDelete, Matches, Idle
<1>11. ASSUME NEW c \in Clients, Abort(c) PROVE StampsFresh'
  BY <1>11 DEF Abort, Idle
<1>12. CASE Crash
  BY <1>12 DEF Crash, Idle
<1>13. CASE UNCHANGED vars
  BY <1>13 DEF vars
<1> QED
  BY <1>1, <1>2, <1>3, <1>4, <1>5, <1>6, <1>7, <1>8, <1>9, <1>10, <1>11, <1>12, <1>13
  DEF Next, RequestUpdate, RequestPatch, PutBody

\* Every step keeps the row with the holder of its lock.
LEMMA LockStep == IInv /\ [Next]_vars => LockHeld'
<1> SUFFICES ASSUME IInv, [Next]_vars PROVE LockHeld'
  OBVIOUS
<1> USE ConstantsAssumption DEF IInv, TypeOK, Request, Row, LockHeld, RequestsOK, Matches
<1>1. ASSUME NEW c \in Clients, RequestCreate(c) PROVE LockHeld'
  BY <1>1 DEF RequestCreate, Accept, Idle
<1>2. ASSUME NEW c \in Clients, NEW b \in Body, RequestEdit(c, b) PROVE LockHeld'
  BY <1>2 DEF RequestEdit, Accept, Idle
<1>3. ASSUME NEW c \in Clients, RequestRollback(c) PROVE LockHeld'
  BY <1>3 DEF RequestRollback, Accept, Idle
<1>4. ASSUME NEW c \in Clients, RequestDelete(c) PROVE LockHeld'
  BY <1>4 DEF RequestDelete, Accept, Idle
<1>5. ASSUME NEW c \in Clients, GetByID(c) PROVE LockHeld'
  BY <1>5 DEF GetByID, Idle
<1>6. ASSUME NEW c \in Clients, GetVersion(c) PROVE LockHeld'
  BY <1>6 DEF GetVersion, Idle
<1>7. ASSUME NEW c \in Clients, BeginTx(c) PROVE LockHeld'
  BY <1>7 DEF BeginTx
<1>8. ASSUME NEW c \in Clients, ExecWrite(c) PROVE LockHeld'
  BY <1>8 DEF ExecWrite, Idle
<1>9. ASSUME NEW c \in Clients, Commit(c) PROVE LockHeld'
  BY <1>9 DEF Commit, Idle
<1>10. ASSUME NEW c \in Clients, ExecDelete(c) PROVE LockHeld'
  BY <1>10 DEF ExecDelete, Idle
<1>11. ASSUME NEW c \in Clients, Abort(c) PROVE LockHeld'
  BY <1>11 DEF Abort, Idle
<1>12. CASE Crash
  BY <1>12 DEF Crash, Idle
<1>13. CASE UNCHANGED vars
  BY <1>13 DEF vars
<1> QED
  BY <1>1, <1>2, <1>3, <1>4, <1>5, <1>6, <1>7, <1>8, <1>9, <1>10, <1>11, <1>12, <1>13
  DEF Next, RequestUpdate, RequestPatch, PutBody

\* Every step leaves each request with what its pc calls for.
LEMMA RequestsStep == IInv /\ [Next]_vars => RequestsOK'
<1> SUFFICES ASSUME IInv, [Next]_vars PROVE RequestsOK'
  OBVIOUS
<1> USE ConstantsAssumption DEF IInv, TypeOK, Request, Row, LockHeld, RequestsOK, Prepared
<1>1. ASSUME NEW c \in Clients, RequestCreate(c) PROVE RequestsOK'
  BY <1>1 DEF RequestCreate, Accept, Idle
<1>2. ASSUME NEW c \in Clients, NEW b \in Body, RequestEdit(c, b) PROVE RequestsOK'
  BY <1>2 DEF RequestEdit, Accept, Idle
<1>3. ASSUME NEW c \in Clients, RequestRollback(c) PROVE RequestsOK'
  BY <1>3 DEF RequestRollback, Accept, Idle
<1>4. ASSUME NEW c \in Clients, RequestDelete(c) PROVE RequestsOK'
  BY <1>4 DEF RequestDelete, Accept, Idle
<1>5. ASSUME NEW c \in Clients, GetByID(c) PROVE RequestsOK'
  BY <1>5 DEF GetByID, Idle
<1>6. ASSUME NEW c \in Clients, GetVersion(c) PROVE RequestsOK'
  BY <1>6 DEF GetVersion, Idle
<1>7. ASSUME NEW c \in Clients, BeginTx(c) PROVE RequestsOK'
  BY <1>7 DEF BeginTx
<1>8. ASSUME NEW c \in Clients, ExecWrite(c) PROVE RequestsOK'
  BY <1>8 DEF ExecWrite, Idle
<1>9. ASSUME NEW c \in Clients, Commit(c) PROVE RequestsOK'
  BY <1>9 DEF Commit, Idle
<1>10. ASSUME NEW c \in Clients, ExecDelete(c) PROVE RequestsOK'
  BY <1>10 DEF ExecDelete, Idle
<1>11. ASSUME NEW c \in Clients, Abort(c) PROVE RequestsOK'
  BY <1>11 DEF Abort, Idle
<1>12. CASE Crash
  BY <1>12 DEF Crash, Idle
<1>13. CASE UNCHANGED vars
  BY <1>13 DEF vars
<1> QED
  BY <1>1, <1>2, <1>3, <1>4, <1>5, <1>6, <1>7, <1>8, <1>9, <1>10, <1>11, <1>12, <1>13
  DEF Next, RequestUpdate, RequestPatch, PutBody

\* A commit adds the next version, and no other step touches the versions.
LEMMA LineageStep == IInv /\ [Next]_vars => (SnapshotsContiguous /\ RowIsNewestSnapshot)'
<1> SUFFICES ASSUME IInv, [Next]_vars PROVE (SnapshotsContiguous /\ RowIsNewestSnapshot)'
  OBVIOUS
<1> USE ConstantsAssumption DEF IInv, TypeOK, Row, LockHeld, SnapshotsContiguous, RowIsNewestSnapshot
<1>1. ASSUME NEW c \in Clients, RequestCreate(c) PROVE (SnapshotsContiguous /\ RowIsNewestSnapshot)'
  BY <1>1 DEF RequestCreate, Accept, Idle
<1>2. ASSUME NEW c \in Clients, NEW b \in Body, RequestEdit(c, b) PROVE (SnapshotsContiguous /\ RowIsNewestSnapshot)'
  BY <1>2 DEF RequestEdit, Accept, Idle
<1>3. ASSUME NEW c \in Clients, RequestRollback(c) PROVE (SnapshotsContiguous /\ RowIsNewestSnapshot)'
  BY <1>3 DEF RequestRollback, Accept, Idle
<1>4. ASSUME NEW c \in Clients, RequestDelete(c) PROVE (SnapshotsContiguous /\ RowIsNewestSnapshot)'
  BY <1>4 DEF RequestDelete, Accept, Idle
<1>5. ASSUME NEW c \in Clients, GetByID(c) PROVE (SnapshotsContiguous /\ RowIsNewestSnapshot)'
  BY <1>5 DEF GetByID, Idle
<1>6. ASSUME NEW c \in Clients, GetVersion(c) PROVE (SnapshotsContiguous /\ RowIsNewestSnapshot)'
  BY <1>6 DEF GetVersion, Idle
<1>7. ASSUME NEW c \in Clients, BeginTx(c) PROVE (SnapshotsContiguous /\ RowIsNewestSnapshot)'
  BY <1>7 DEF BeginTx
<1>8. ASSUME NEW c \in Clients, ExecWrite(c) PROVE (SnapshotsContiguous /\ RowIsNewestSnapshot)'
  BY <1>8 DEF ExecWrite, Idle
<1>9. ASSUME NEW c \in Clients, Commit(c) PROVE (SnapshotsContiguous /\ RowIsNewestSnapshot)'
  <2> DEFINE n == req[c].version
  <2>1. /\ n = IF row = NoRow THEN 1 ELSE row.version + 1
        /\ row'.version = n /\ row'.entry = req[c].draft /\ row' # NoRow
    BY <1>9, TypeStep DEF Commit, Request
  <2>2. /\ DOMAIN snaps' = DOMAIN snaps \cup {n}
        /\ snaps'[n] = req[c].draft
    BY <1>9 DEF Commit
  <2>3. DOMAIN snaps' = 1..n
    BY <2>1, <2>2
  <2> QED
    BY <2>1, <2>2, <2>3
<1>10. ASSUME NEW c \in Clients, ExecDelete(c) PROVE (SnapshotsContiguous /\ RowIsNewestSnapshot)'
  <2>1. CASE row = NoRow
    BY <1>10, <2>1 DEF ExecDelete, Matches
  <2>2. CASE row # NoRow
    <3>1. row' = row \/ row' = [row EXCEPT !.entry.status = "inactive", !.stamp = req[c].stamp]
      BY <1>10 DEF ExecDelete
    <3>2. /\ row'.version = row.version /\ row' # NoRow
          /\ row'.entry \in {row.entry, [row.entry EXCEPT !.status = "inactive"]}
      <4>1. row \in Row
        BY <2>2
      <4>2. CASE row' = row
        BY <2>2, <4>2
      <4>3. CASE row' = [row EXCEPT !.entry.status = "inactive", !.stamp = req[c].stamp]
        <5>1. row' = [version |-> row.version,
                      entry |-> [row.entry EXCEPT !.status = "inactive"],
                      stamp |-> req[c].stamp]
          BY <4>1, <4>3
        <5>2. row' \in Row
          BY <4>1, <5>1 DEF Request, Entry, Status
        <5> QED
          BY <5>1, <5>2
      <4> QED
        BY <3>1, <4>2, <4>3
    <3>3. [[snaps[row.version] EXCEPT !.status = "inactive"] EXCEPT !.status = "inactive"]
            = [snaps[row.version] EXCEPT !.status = "inactive"]
      BY <2>2 DEF Entry
    <3>4. row'.entry \in {snaps[row.version], [snaps[row.version] EXCEPT !.status = "inactive"]}
      BY <2>2, <3>2, <3>3
    <3>5. snaps' = snaps
      BY <1>10 DEF ExecDelete
    <3> QED
      BY <2>2, <3>2, <3>4, <3>5
  <2> QED
    BY <2>1, <2>2
<1>11. ASSUME NEW c \in Clients, Abort(c) PROVE (SnapshotsContiguous /\ RowIsNewestSnapshot)'
  BY <1>11 DEF Abort, Idle
<1>12. CASE Crash
  BY <1>12 DEF Crash, Idle
<1>13. CASE UNCHANGED vars
  BY <1>13 DEF vars
<1> QED
  BY <1>1, <1>2, <1>3, <1>4, <1>5, <1>6, <1>7, <1>8, <1>9, <1>10, <1>11, <1>12, <1>13
  DEF Next, RequestUpdate, RequestPatch, PutBody

\* An edit whose If-Match still matches was built from the row as it is.
LEMMA EtagStep == IInv /\ [Next]_vars => EtagNamesState'
<1> SUFFICES ASSUME IInv, [Next]_vars PROVE EtagNamesState'
  OBVIOUS
<1> USE ConstantsAssumption DEF IInv, TypeOK, Row, Request, StampsFresh, Pending, LockHeld, RequestsOK, Matches, EtagNamesState
<1>1. ASSUME NEW c \in Clients, RequestCreate(c) PROVE EtagNamesState'
  BY <1>1 DEF RequestCreate, Accept, Idle
<1>2. ASSUME NEW c \in Clients, NEW b \in Body, RequestEdit(c, b) PROVE EtagNamesState'
  BY <1>2 DEF RequestEdit, Accept, Idle
<1>3. ASSUME NEW c \in Clients, RequestRollback(c) PROVE EtagNamesState'
  BY <1>3 DEF RequestRollback, Accept, Idle
<1>4. ASSUME NEW c \in Clients, RequestDelete(c) PROVE EtagNamesState'
  BY <1>4 DEF RequestDelete, Accept, Idle
<1>5. ASSUME NEW c \in Clients, GetByID(c) PROVE EtagNamesState'
  BY <1>5 DEF GetByID, Idle
<1>6. ASSUME NEW c \in Clients, GetVersion(c) PROVE EtagNamesState'
  BY <1>6 DEF GetVersion, Idle
<1>7. ASSUME NEW c \in Clients, BeginTx(c) PROVE EtagNamesState'
  BY <1>7 DEF BeginTx
<1>8. ASSUME NEW c \in Clients, ExecWrite(c) PROVE EtagNamesState'
  BY <1>8 DEF ExecWrite, Idle
<1>9. ASSUME NEW c \in Clients, Commit(c) PROVE EtagNamesState'
  BY <1>9 DEF Commit, Idle
<1>10. ASSUME NEW c \in Clients, ExecDelete(c) PROVE EtagNamesState'
  BY <1>10 DEF ExecDelete, Idle
<1>11. ASSUME NEW c \in Clients, Abort(c) PROVE EtagNamesState'
  BY <1>11 DEF Abort, Idle
<1>12. CASE Crash
  BY <1>12 DEF Crash, Idle
<1>13. CASE UNCHANGED vars
  BY <1>13 DEF vars
<1> QED
  BY <1>1, <1>2, <1>3, <1>4, <1>5, <1>6, <1>7, <1>8, <1>9, <1>10, <1>11, <1>12, <1>13
  DEF Next, RequestUpdate, RequestPatch, PutBody

\* Every step keeps the invariant.
LEMMA IInvStep == IInv /\ [Next]_vars => IInv'
  BY TypeStep, FreshStep, LockStep, RequestsStep, LineageStep, EtagStep DEF IInv

\* The invariant holds in every reachable state.
LEMMA Invariance == Spec => []IInv
  BY IInvInit, IInvStep, PTL DEF Spec

-----------------------------------------------------------------------------
(***************************************************************************)
(* The theorems.                                                           *)
(***************************************************************************)

\* At every moment the versions recorded for an agent are 1, 2, ..., up to the
\* version in its row, and the row is the last of them or that one deleted.
THEOREM Lineage == Spec => [](SnapshotsContiguous /\ RowIsNewestSnapshot)
<1>1. IInv => SnapshotsContiguous /\ RowIsNewestSnapshot
  BY DEF IInv
<1> QED
  BY <1>1, Invariance, PTL

\* A matching If-Match names exactly the row the client had read.
THEOREM EtagNamesTheState == Spec => []EtagNamesState
<1>1. IInv => EtagNamesState
  BY DEF IInv
<1> QED
  BY <1>1, Invariance, PTL

\* A recorded version never changes.
THEOREM Immutability == Spec => SnapshotsImmutable
<1>1. [Next]_vars => (\A v \in DOMAIN snaps : v \in DOMAIN snaps' /\ snaps'[v] = snaps[v])
  <2> SUFFICES ASSUME [Next]_vars, NEW v \in DOMAIN snaps
               PROVE  v \in DOMAIN snaps' /\ snaps'[v] = snaps[v]
    OBVIOUS
  <2>1. ASSUME NEW c \in Clients, Commit(c) PROVE v \in DOMAIN snaps' /\ snaps'[v] = snaps[v]
    BY <2>1 DEF Commit
  <2>2. CASE snaps' = snaps
    BY <2>2
  <2> QED
    BY <2>1, <2>2
    DEF Next, RequestCreate, RequestUpdate, RequestPatch, RequestEdit, RequestRollback,
        RequestDelete, Accept, GetByID, GetVersion, BeginTx, ExecWrite, ExecDelete, Abort,
        Crash, vars
<1> QED
  BY <1>1, PTL DEF Spec, SnapshotsImmutable

\* What revives a deleted agent is a rollback, or an edit that saw it deleted.
THEOREM Revival == Spec => NoAccidentalRevival
<1> DEFINE A == (row # NoRow /\ row.entry.status = "inactive" /\ row'.entry.status = "active") =>
                  \E c \in Clients :
                    /\ req[c].pc = "written"
                    /\ \/ req[c].op = "rollback"
                       \/ /\ req[c].op = "edit"
                          /\ req[c].seen.entry.status = "inactive"
                          /\ req[c].body.status = "active"
<1>1. IInv /\ [Next]_vars => A
  <2> SUFFICES ASSUME IInv, [Next]_vars, row # NoRow,
                      row.entry.status = "inactive", row'.entry.status = "active"
               PROVE  A
    OBVIOUS
  <2>1. PICK c \in Clients : Commit(c) \/ ExecDelete(c)
    BY DEF Next, RequestCreate, RequestUpdate, RequestPatch, RequestEdit, RequestRollback,
           RequestDelete, Accept, GetByID, GetVersion, BeginTx, ExecWrite, Abort, Crash, vars
  <2>2. CASE ExecDelete(c)
    BY <2>2 DEF ExecDelete, IInv, TypeOK, Row, Entry
  <2>3. CASE Commit(c)
    <3>1. req[c].pc = "written" /\ req[c].draft.status = "active"
      BY <2>3 DEF Commit
    <3>2. req[c].op = "rollback" \/ (req[c].op = "edit" /\ row.stamp = req[c].seen.stamp)
      BY <2>1, <3>1 DEF IInv, LockHeld, Matches
    <3>3. CASE req[c].op = "edit"
      <4>1. req[c].seen = row /\ req[c].draft = Overlay(row.entry, req[c].body)
        BY <3>1, <3>2, <3>3 DEF IInv, EtagNamesState
      <4> QED
        BY <3>1, <3>3, <4>1 DEF Overlay
    <3> QED
      BY <3>1, <3>2, <3>3
  <2> QED
    BY <2>1, <2>2, <2>3
<1> QED
  BY <1>1, Invariance, PTL DEF Spec, NoAccidentalRevival

-----------------------------------------------------------------------------
(***************************************************************************)
(* AgentStore implements VersionedRecord.                                  *)
(***************************************************************************)

pend == [c \in Clients |-> [op |-> req[c].op, body |-> req[c].body,
                            target |-> req[c].target, seen |-> View(req[c].seen)]]

\* An idle client has no request pending, and what a step leaves alone in req
\* it leaves alone in pend.
LEMMA PendIdle ==
  ASSUME NEW c \in Clients, req[c] = Idle
  PROVE  pend[c] = Abstract!NoRequest
  BY DEF pend, Idle, View, Abstract!NoRequest, KeepAll, Abstract!KeepAll

\* A request that is over is no request of the abstract record.
LEMMA PendDone ==
  ASSUME NEW c \in Clients, TypeOK, req' = [req EXCEPT ![c] = Idle]
  PROVE  pend' = [pend EXCEPT ![c] = Abstract!NoRequest]
  BY DEF pend, TypeOK, Idle, View, Abstract!NoRequest, KeepAll, Abstract!KeepAll

\* A request that goes on is the same request of the abstract record.
LEMMA PendSame ==
  ASSUME NEW c \in Clients, TypeOK, NEW r, req' = [req EXCEPT ![c] = r],
         r.op = req[c].op, r.body = req[c].body, r.target = req[c].target,
         r.seen = req[c].seen
  PROVE  pend' = pend
  BY DEF pend, TypeOK

\* The arrival of a request is its submission to the abstract record.
LEMMA PendAccept ==
  ASSUME NEW c \in Clients, TypeOK, RequestsOK, NEW r, Accept(c, r)
  PROVE  Abstract!Submit(c, r.op, r.body, r.target, View(r.seen))
<1>1. pend[c] = Abstract!NoRequest
  BY PendIdle DEF Accept, RequestsOK
<1>2. pend' = [pend EXCEPT ![c] = [op |-> r.op, body |-> r.body, target |-> r.target,
                                   seen |-> View(r.seen)]]
  BY DEF pend, Accept, TypeOK
<1>3. View(row)' = View(row) /\ snaps' = snaps
  BY DEF Accept, View
<1> QED
  BY <1>1, <1>2, <1>3 DEF Abstract!Submit, pend

\* A request that ends without writing is dropped.
LEMMA PendDrop ==
  ASSUME NEW c \in Clients, TypeOK, req' = [req EXCEPT ![c] = Idle], UNCHANGED <<row, snaps>>
  PROVE  Abstract!Drop({c})
<1>1. pend' = [pend EXCEPT ![c] = Abstract!NoRequest]
  BY PendDone
<1>2. pend' = [d \in Clients |-> IF d \in {c} THEN Abstract!NoRequest ELSE pend[d]]
  BY <1>1 DEF pend
<1>3. View(row)' = View(row) /\ snaps' = snaps
  BY DEF View
<1> QED
  BY <1>2, <1>3 DEF Abstract!Drop, pend

\* An initial state is one of the abstract record.
LEMMA AbstractInit == Init => Abstract!Init
  BY DEF Init, Abstract!Init, View, Idle, Abstract!NoRequest, KeepAll, Abstract!KeepAll

\* Every step is one of the abstract record, or a stutter.
LEMMA AbstractStep == IInv /\ [Next]_vars => [Abstract!Next]_Abstract!vars
<1> SUFFICES ASSUME IInv, [Next]_vars PROVE [Abstract!Next]_Abstract!vars
  OBVIOUS
<1> USE ConstantsAssumption
<1>t. TypeOK /\ RequestsOK /\ LockHeld /\ TypeOK'
  BY TypeStep DEF IInv
<1>1. ASSUME NEW c \in Clients, RequestCreate(c) PROVE Abstract!SubmitCreate(c)
  <2>1. PICK f \in [Fields -> Values] :
          LET e == [fields |-> f, status |-> "active"]
          IN  Accept(c, [Idle EXCEPT !.pc = "begin", !.op = "create", !.body = e, !.draft = e])
    BY <1>1 DEF RequestCreate
  <2> DEFINE e == [fields |-> f, status |-> "active"]
             r == [Idle EXCEPT !.pc = "begin", !.op = "create", !.body = e, !.draft = e]
  <2>2. r.op = "create" /\ r.body = e /\ r.target = 0 /\ View(r.seen) = NoRow
    BY DEF Idle, View
  <2>3. Abstract!Submit(c, "create", e, 0, NoRow)
    <3>1. Accept(c, r)
      BY <2>1
    <3> HIDE DEF r
    <3> QED
      BY <1>t, <3>1, <2>2, PendAccept
  <2> QED
    BY <2>3 DEF Abstract!SubmitCreate
<1>2. ASSUME NEW c \in Clients, NEW b \in Body, RequestEdit(c, b) PROVE Abstract!SubmitEdit(c)
  <2>1. row \in Row /\ View(row) # NoRow
    BY <1>2, <1>t DEF RequestEdit, TypeOK, View, Row
  <2>4. PICK s : s = row
    OBVIOUS
  <2> DEFINE r == [Idle EXCEPT !.pc = "read", !.op = "edit", !.body = b, !.seen = s]
  <2>5. Accept(c, r)
    BY <1>2, <2>4 DEF RequestEdit
  <2>6. r.op = "edit" /\ r.body = b /\ r.target = 0 /\ View(r.seen) = View(row)
    BY <2>4 DEF Idle
  <2>2. Abstract!Submit(c, "edit", b, 0, View(row))
    <3> HIDE DEF r
    <3> QED
      BY <1>t, <2>5, <2>6, PendAccept DEF Abstract!Submit
  <2>3. b \in Abstract!Body
    BY DEF Body, Abstract!Body, Status, Abstract!Status
  <2> QED
    BY <2>1, <2>2, <2>3 DEF Abstract!SubmitEdit
<1>3. ASSUME NEW c \in Clients, RequestRollback(c) PROVE Abstract!SubmitRollback(c)
  <2>1. PICK v \in 1..MaxTx :
          Accept(c, [Idle EXCEPT !.pc = "read", !.op = "rollback", !.target = v])
    BY <1>3 DEF RequestRollback
  <2> DEFINE r == [Idle EXCEPT !.pc = "read", !.op = "rollback", !.target = v]
  <2>2. r.op = "rollback" /\ r.body = Abstract!KeepAll /\ r.target = v /\ View(r.seen) = NoRow
    BY DEF Idle, View, KeepAll, Abstract!KeepAll
  <2>3. Abstract!Submit(c, "rollback", Abstract!KeepAll, v, NoRow)
    <3>1. Accept(c, r)
      BY <2>1
    <3> HIDE DEF r
    <3> QED
      BY <1>t, <3>1, <2>2, PendAccept
  <2> QED
    BY <2>3 DEF Abstract!SubmitRollback
<1>4. ASSUME NEW c \in Clients, RequestDelete(c) PROVE Abstract!SubmitDelete(c)
  <2> DEFINE r == [Idle EXCEPT !.pc = "begin", !.op = "delete"]
  <2>1. /\ r.op = "delete" /\ r.body = Abstract!KeepAll /\ r.target = 0
        /\ View(r.seen) = NoRow /\ Accept(c, r)
    BY <1>4 DEF RequestDelete, Idle, View, KeepAll, Abstract!KeepAll
  <2>2. Abstract!Submit(c, "delete", Abstract!KeepAll, 0, NoRow)
    <3> HIDE DEF r
    <3> QED
      BY <1>t, <2>1, PendAccept
  <2> QED
    BY <2>2 DEF Abstract!SubmitDelete
<1>5. ASSUME NEW c \in Clients, GetByID(c)
      PROVE  Abstract!Drop({c}) \/ UNCHANGED <<pend, View(row), snaps>>
  <2>1. CASE row = NoRow
    BY <1>5, <1>t, <2>1, PendDrop DEF GetByID
  <2>2. CASE row # NoRow
    <3>1. req' = [req EXCEPT ![c] = [req[c] EXCEPT !.pc = "begin",
                                                   !.draft = Overlay(row.entry, req[c].body)]]
      BY <1>5, <1>t, <2>2 DEF GetByID, TypeOK
    <3>2. pend' = pend
      <4> DEFINE r == [req[c] EXCEPT !.pc = "begin", !.draft = Overlay(row.entry, req[c].body)]
      <4>1. r.op = req[c].op /\ r.body = req[c].body /\ r.target = req[c].target
              /\ r.seen = req[c].seen
        BY <1>t DEF TypeOK, Request
      <4>2. req' = [req EXCEPT ![c] = r]
        BY <3>1
      <4> HIDE DEF r
      <4> QED
        BY <1>t, <4>1, <4>2, PendSame
    <3> QED
      BY <1>5, <3>2 DEF GetByID, View
  <2> QED
    BY <2>1, <2>2
<1>6. ASSUME NEW c \in Clients, GetVersion(c)
      PROVE  Abstract!Drop({c}) \/ UNCHANGED <<pend, View(row), snaps>>
  <2>1. CASE req[c].target \notin DOMAIN snaps
    BY <1>6, <1>t, <2>1, PendDrop DEF GetVersion
  <2>2. CASE req[c].target \in DOMAIN snaps
    <3>1. req' = [req EXCEPT ![c] = [req[c] EXCEPT !.pc = "begin",
                                                   !.draft = snaps[req[c].target]]]
      BY <1>6, <1>t, <2>2 DEF GetVersion, TypeOK
    <3> QED
      BY <1>6, <1>t, <3>1, PendSame DEF GetVersion, View, TypeOK, Request
  <2> QED
    BY <2>1, <2>2
<1>7. ASSUME NEW c \in Clients, BeginTx(c) PROVE UNCHANGED <<pend, View(row), snaps>>
  <2>1. req' = [req EXCEPT ![c] = [req[c] EXCEPT !.pc = "execute", !.stamp = clock + 1]]
    BY <1>7, <1>t DEF BeginTx, TypeOK
  <2> QED
    BY <1>7, <1>t, <2>1, PendSame DEF BeginTx, View, TypeOK, Request
<1>8. ASSUME NEW c \in Clients, ExecWrite(c)
      PROVE  Abstract!Drop({c}) \/ UNCHANGED <<pend, View(row), snaps>>
  <2>1. CASE ~ Matches(req[c])
    BY <1>8, <1>t, <2>1, PendDrop DEF ExecWrite
  <2>2. CASE Matches(req[c])
    <3> DEFINE n == IF row = NoRow THEN 1 ELSE row.version + 1
    <3>1. req' = [req EXCEPT ![c] = [req[c] EXCEPT !.pc = "written", !.version = n]]
      BY <1>8, <1>t, <2>2 DEF ExecWrite, TypeOK
    <3>2. pend' = pend
      <4> DEFINE r == [req[c] EXCEPT !.pc = "written", !.version = n]
      <4>1. r.op = req[c].op /\ r.body = req[c].body /\ r.target = req[c].target
              /\ r.seen = req[c].seen
        BY <1>t DEF TypeOK, Request
      <4>2. req' = [req EXCEPT ![c] = r]
        BY <3>1
      <4> HIDE DEF r, n
      <4> QED
        BY <1>t, <4>1, <4>2, PendSame
    <3> QED
      BY <1>8, <3>2 DEF ExecWrite, View
  <2> QED
    BY <2>1, <2>2
<1>9. ASSUME NEW c \in Clients, Commit(c)
      PROVE  Abstract!ApplyCreate(c) \/ Abstract!ApplyEdit(c) \/ Abstract!ApplyRollback(c)
  <2> DEFINE n == req[c].version
  <2>1. /\ n = IF row = NoRow THEN 1 ELSE row.version + 1
        /\ req[c].op \in {"create", "edit", "rollback"}
        /\ Matches(req[c])
    BY <1>9, <1>t DEF Commit, LockHeld
  <2>2. pend' = [pend EXCEPT ![c] = Abstract!NoRequest]
    BY <1>9, <1>t, PendDone DEF Commit
  <2>3. Abstract!Done(c)
    BY <2>2 DEF Abstract!Done, pend
  <2>4. row' # NoRow /\ View(row') = [version |-> n, entry |-> req[c].draft]
    BY <1>9, <1>t DEF Commit, TypeOK, Request, Row, View
  <2>5. Abstract!Record(n, req[c].draft)
    BY <1>9, <2>4 DEF Commit, Abstract!Record, View
  <2>6. CASE req[c].op = "create"
    <3>1. row = NoRow /\ n = 1 /\ req[c].draft = req[c].body
      BY <1>t, <2>1, <2>6 DEF Matches, RequestsOK
    <3> QED
      BY <2>3, <2>5, <2>6, <3>1 DEF Abstract!ApplyCreate, View
  <2>7. CASE req[c].op = "edit"
    <3>1. row \in Row /\ row # NoRow /\ row.stamp = req[c].seen.stamp /\ req[c].pc = "written"
      BY <1>9, <1>t, <2>1, <2>7 DEF Matches, TypeOK, Commit
    <3>2. req[c].seen = row /\ req[c].draft = Overlay(row.entry, req[c].body)
      BY <2>7, <3>1 DEF IInv, EtagNamesState
    <3>3. View(row).version + 1 = n /\ View(row).entry = row.entry
      BY <2>1, <3>1 DEF View
    <3>4. Overlay(row.entry, req[c].body) = Abstract!Overlay(row.entry, req[c].body)
      BY DEF Overlay, Abstract!Overlay
    <3> QED
      BY <2>3, <2>5, <2>7, <3>2, <3>3, <3>4 DEF Abstract!ApplyEdit
  <2>8. CASE req[c].op = "rollback"
    <3>1. row # NoRow /\ n = row.version + 1 /\ req[c].pc = "written"
      BY <1>9, <2>1, <2>8 DEF Matches, Commit
    <3>2. req[c].target \in DOMAIN snaps /\ req[c].draft = snaps[req[c].target]
      BY <1>t, <2>8, <3>1 DEF RequestsOK, Prepared
    <3>3. View(row).version + 1 = n
      BY <3>1 DEF View
    <3> QED
      BY <2>3, <2>5, <2>8, <3>2, <3>3 DEF Abstract!ApplyRollback
  <2> QED
    BY <2>1, <2>6, <2>7, <2>8
<1>10. ASSUME NEW c \in Clients, ExecDelete(c) PROVE Abstract!Drop({c}) \/ Abstract!ApplyDelete(c)
  <2>1. CASE row = NoRow
    BY <1>10, <1>t, <2>1, PendDrop DEF ExecDelete, Matches
  <2>2. CASE row # NoRow
    <3>1. row \in Row
      BY <1>t, <2>2 DEF TypeOK
    <3>2. row' = [version |-> row.version,
                  entry |-> [row.entry EXCEPT !.status = "inactive"],
                  stamp |-> req[c].stamp]
      BY <1>10, <2>2, <3>1 DEF ExecDelete, Matches, Row
    <3>3. row' # NoRow
      BY <1>t, <3>1, <3>2 DEF TypeOK, Request, Row, Entry, Status
    <3>4. View(row') = [View(row) EXCEPT !.entry.status = "inactive"]
      BY <2>2, <3>2, <3>3 DEF View
    <3>5. View(row) # NoRow
      BY <2>2, <3>1 DEF View, Row
    <3>6. Abstract!Done(c)
      BY <1>10, <1>t, PendDone DEF ExecDelete, Abstract!Done, pend
    <3> QED
      BY <1>10, <3>4, <3>5, <3>6 DEF ExecDelete, Abstract!ApplyDelete, View
  <2> QED
    BY <2>1, <2>2
<1>11. ASSUME NEW c \in Clients, Abort(c) PROVE Abstract!Drop({c})
  BY <1>11, <1>t, PendDrop DEF Abort
<1>12. CASE Crash
  <2>1. pend' = [d \in Clients |-> Abstract!NoRequest]
    BY <1>12 DEF Crash, pend, Idle, View, Abstract!NoRequest, KeepAll, Abstract!KeepAll
  <2>2. Abstract!Drop(Clients)
    BY <1>12, <2>1 DEF Crash, Abstract!Drop, pend, View
  <2> QED
    BY <2>2 DEF Abstract!Next
<1>13. CASE UNCHANGED vars
  BY <1>13 DEF vars, Abstract!vars, View
<1> QED
  BY <1>1, <1>2, <1>3, <1>4, <1>5, <1>6, <1>7, <1>8, <1>9, <1>10, <1>11, <1>12, <1>13
  DEF Next, RequestUpdate, RequestPatch, PutBody, Abstract!Next, Abstract!vars, pend

\* Every behaviour of the store is, seen from outside, one in which requests
\* are atomic and an edit only ever replaces the record its client had read.
THEOREM Implementation == Spec => Promise
  BY AbstractInit, AbstractStep, Invariance, PTL DEF Spec, Promise, Abstract!Spec
=============================================================================
