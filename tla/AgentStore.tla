----------------------------- MODULE AgentStore -----------------------------
(***************************************************************************)
(* One agent of the registry: its row of table agents, its rows of table   *)
(* agent_versions, and the requests that read and write them at the same   *)
(* time (internal/store/agents.go, called by internal/api/agents.go).      *)
(* Agents share no row and no lock, so one agent is the whole story.       *)
(*                                                                         *)
(* PostgreSQL runs each transaction READ COMMITTED: a statement sees what  *)
(* is committed when it runs, a written row stays locked until the writer  *)
(* commits or aborts, and a writer that waited for the lock re-reads the   *)
(* row.  now() is the time the transaction STARTED, so updated_at need not *)
(* grow from one commit to the next.  Two transactions never start in the  *)
(* same microsecond (an assumption: see README).                           *)
(***************************************************************************)
EXTENDS Naturals

CONSTANTS Clients, Fields, Values, Keep, NoRow,
          TextFields,   \* columns a PUT always writes (name, description, system_prompt)
          Nobody,       \* the row is not locked
          MaxTx         \* bound: transactions started in a behaviour

VARIABLES row,          \* committed row of agents, or NoRow
          snaps,        \* committed rows of agent_versions: version -> entry
          lock,         \* the client whose transaction has written the row
          req,          \* req[c]: the request client c has in flight
          clock         \* number of transactions started; source of now()

vars == <<row, snaps, lock, req, clock>>

Status == {"active", "inactive"}

Entry == [fields : [Fields -> Values], status : Status]

Body == [fields : [Fields -> Values \cup {Keep}], status : Status \cup {"keep"}]

PutBody == {b \in Body : \A f \in TextFields : b.fields[f] # Keep}

Row == [version : Nat, entry : Entry, stamp : Nat]

ASSUME ConstantsAssumption ==
  /\ MaxTx \in Nat
  /\ TextFields \subseteq Fields
  /\ Keep \notin Values
  /\ Nobody \notin Clients
  /\ NoRow \notin Row \cup [version : Nat, entry : Entry]

\* What a handler builds from the row it read and the body it was sent.
Overlay(e, b) ==
  [fields |-> [f \in Fields |-> IF b.fields[f] = Keep THEN e.fields[f] ELSE b.fields[f]],
   status |-> IF b.status = "keep" THEN e.status ELSE b.status]

KeepAll == [fields |-> [f \in Fields |-> Keep], status |-> "keep"]

\* pc: "idle", "read" (accepted), "begin" (read done), "execute" (transaction
\* started at time stamp), "written" (row written as version, lock held).
\* draft is the entry to write, seen the row whose updated_at is the If-Match.
Idle == [pc |-> "idle", op |-> "none", body |-> KeepAll, target |-> 0, seen |-> NoRow,
         draft |-> KeepAll, stamp |-> 0, version |-> 0]

-----------------------------------------------------------------------------
Init == /\ row = NoRow
        /\ snaps = [v \in {} |-> 0]
        /\ lock = Nobody
        /\ req = [c \in Clients |-> Idle]
        /\ clock = 0

Accept(c, r) == /\ req[c].pc = "idle"
                /\ clock < MaxTx
                /\ req' = [req EXCEPT ![c] = r]
                /\ UNCHANGED <<row, snaps, lock, clock>>

\* POST /agents: no read before the transaction, is_active is always true.
RequestCreate(c) ==
  \E f \in [Fields -> Values] :
    LET e == [fields |-> f, status |-> "active"]
    IN  Accept(c, [Idle EXCEPT !.pc = "begin", !.op = "create", !.body = e, !.draft = e])

\* The client has read the row and sends its updated_at back as If-Match.
RequestEdit(c, b) ==
  /\ row # NoRow
  /\ Accept(c, [Idle EXCEPT !.pc = "read", !.op = "edit", !.body = b, !.seen = row])

RequestUpdate(c) == \E b \in PutBody : RequestEdit(c, b)

RequestPatch(c) == \E b \in Body : RequestEdit(c, b)

RequestRollback(c) ==
  \E v \in 1..MaxTx :
    Accept(c, [Idle EXCEPT !.pc = "read", !.op = "rollback", !.target = v])

RequestDelete(c) == Accept(c, [Idle EXCEPT !.pc = "begin", !.op = "delete"])

\* GetByID of the PUT and PATCH paths: reads outside the transaction.
GetByID(c) ==
  /\ req[c].pc = "read" /\ req[c].op = "edit"
  /\ req' = IF row = NoRow
            THEN [req EXCEPT ![c] = Idle]
            ELSE [req EXCEPT ![c].pc = "begin", ![c].draft = Overlay(row.entry, req[c].body)]
  /\ UNCHANGED <<row, snaps, lock, clock>>

\* GetVersion of the rollback path: also outside the transaction.
GetVersion(c) ==
  /\ req[c].pc = "read" /\ req[c].op = "rollback"
  /\ req' = IF req[c].target \notin DOMAIN snaps
            THEN [req EXCEPT ![c] = Idle]
            ELSE [req EXCEPT ![c].pc = "begin", ![c].draft = snaps[req[c].target]]
  /\ UNCHANGED <<row, snaps, lock, clock>>

\* BEGIN fixes now() for the whole transaction.
BeginTx(c) ==
  /\ req[c].pc = "begin"
  /\ clock < MaxTx
  /\ clock' = clock + 1
  /\ req' = [req EXCEPT ![c].pc = "execute", ![c].stamp = clock + 1]
  /\ UNCHANGED <<row, snaps, lock>>

\* Fault: the UPDATE lost its "AND updated_at = $9".
MatchesById(r) == IF r.op = "create" THEN row = NoRow ELSE row # NoRow

\* Which committed rows the statement of request r finds (INSERT: a free key).
Matches(r) ==
  IF r.op = "create"
  THEN row = NoRow
  ELSE row # NoRow /\ (r.op = "edit" => row.stamp = r.seen.stamp)

\* INSERT INTO agents, or UPDATE agents ... RETURNING version: waits for the
\* lock, then finds the row and locks it, or answers 404 or 409.
ExecWrite(c) ==
  /\ req[c].pc = "execute" /\ req[c].op # "delete"
  /\ lock = Nobody
  /\ IF Matches(req[c])
     THEN /\ lock' = c
          /\ req' = [req EXCEPT ![c].pc = "written",
                                ![c].version = IF row = NoRow THEN 1 ELSE row.version + 1]
     ELSE /\ req' = [req EXCEPT ![c] = Idle]
          /\ UNCHANGED lock
  /\ UNCHANGED <<row, snaps, clock>>

\* Fault: the UPDATE leaves updated_at alone.
CommitOldStamp(c) ==
  /\ req[c].pc = "written"
  /\ req[c].version \notin DOMAIN snaps
  /\ row' = [version |-> req[c].version, entry |-> req[c].draft,
             stamp |-> IF row = NoRow THEN req[c].stamp ELSE row.stamp]
  /\ snaps' = [v \in DOMAIN snaps \cup {req[c].version} |->
                 IF v = req[c].version THEN req[c].draft ELSE snaps[v]]
  /\ lock' = Nobody
  /\ req' = [req EXCEPT ![c] = Idle]
  /\ UNCHANGED clock

\* INSERT INTO agent_versions, whose key (agent_id, version) is UNIQUE, and COMMIT.
Commit(c) ==
  /\ req[c].pc = "written"
  /\ req[c].version \notin DOMAIN snaps
  /\ row' = [version |-> req[c].version, entry |-> req[c].draft, stamp |-> req[c].stamp]
  /\ snaps' = [v \in DOMAIN snaps \cup {req[c].version} |->
                 IF v = req[c].version THEN req[c].draft ELSE snaps[v]]
  /\ lock' = Nobody
  /\ req' = [req EXCEPT ![c] = Idle]
  /\ UNCHANGED clock

\* Fault: the soft delete does not set updated_at.
ExecDeleteOldStamp(c) ==
  /\ req[c].pc = "execute" /\ req[c].op = "delete"
  /\ lock = Nobody
  /\ row' = IF Matches(req[c]) THEN [row EXCEPT !.entry.status = "inactive"] ELSE row
  /\ req' = [req EXCEPT ![c] = Idle]
  /\ UNCHANGED <<snaps, lock, clock>>

\* DELETE is one UPDATE statement in a transaction of its own: no new version,
\* no snapshot, no If-Match.
ExecDelete(c) ==
  /\ req[c].pc = "execute" /\ req[c].op = "delete"
  /\ lock = Nobody
  /\ row' = IF Matches(req[c])
            THEN [row EXCEPT !.entry.status = "inactive", !.stamp = req[c].stamp]
            ELSE row
  /\ req' = [req EXCEPT ![c] = Idle]
  /\ UNCHANGED <<snaps, lock, clock>>

\* Fault: UPDATE and INSERT run outside a transaction, so the row stays written.
AbortKeepsRow(c) ==
  /\ req[c].pc # "idle"
  /\ row' = IF req[c].pc = "written"
            THEN [version |-> req[c].version, entry |-> req[c].draft, stamp |-> req[c].stamp]
            ELSE row
  /\ req' = [req EXCEPT ![c] = Idle]
  /\ lock' = IF lock = c THEN Nobody ELSE lock
  /\ UNCHANGED <<snaps, clock>>

\* A cancelled context, a lost connection, a failed statement: the deferred
\* tx.Rollback undoes what the transaction wrote.
Abort(c) ==
  /\ req[c].pc # "idle"
  /\ req' = [req EXCEPT ![c] = Idle]
  /\ lock' = IF lock = c THEN Nobody ELSE lock
  /\ UNCHANGED <<row, snaps, clock>>

\* The server process dies; PostgreSQL rolls its transactions back.
Crash ==
  /\ \E c \in Clients : req[c].pc # "idle"
  /\ req' = [c \in Clients |-> Idle]
  /\ lock' = Nobody
  /\ UNCHANGED <<row, snaps, clock>>

Next ==
  \/ \E c \in Clients :
       \/ RequestCreate(c) \/ RequestUpdate(c) \/ RequestPatch(c)
       \/ RequestRollback(c) \/ RequestDelete(c)
       \/ GetByID(c) \/ GetVersion(c)
       \/ BeginTx(c) \/ ExecWrite(c) \/ Commit(c) \/ ExecDelete(c)
       \/ Abort(c)
  \/ Crash

Spec == Init /\ [][Next]_vars

-----------------------------------------------------------------------------
(***************************************************************************)
(* Properties.                                                             *)
(***************************************************************************)

Request ==
  [pc : {"idle", "read", "begin", "execute", "written"},
   op : {"none", "create", "edit", "rollback", "delete"},
   body : Body, target : Nat, seen : Row \cup {NoRow},
   draft : Body, stamp : Nat, version : Nat]

\* The type invariant: committed rows hold complete entries, never a draft
\* with an unmentioned column.
TypeOK ==
  /\ row \in Row \cup {NoRow}
  /\ DOMAIN snaps \subseteq Nat
  /\ \A v \in DOMAIN snaps : snaps[v] \in Entry
  /\ lock \in Clients \cup {Nobody}
  /\ req \in [Clients -> Request]
  /\ clock \in Nat
  /\ \A c \in Clients :
       \/ req[c].pc \in {"begin", "execute"} /\ req[c].op # "delete"
       \/ req[c].pc = "written"
       => req[c].draft \in Entry

\* The version numbers of an agent have no gap and end at the version in its
\* row: whatever transactions abort or interleave, every version a rollback
\* may name is there (UPDATE and INSERT of store/agents.go share a transaction).
SnapshotsContiguous ==
  DOMAIN snaps = IF row = NoRow THEN {} ELSE 1..row.version

\* The row is the newest snapshot, but for a soft delete after it.
RowIsNewestSnapshot ==
  row # NoRow =>
    /\ row.version \in DOMAIN snaps
    /\ row.entry \in {snaps[row.version], [snaps[row.version] EXCEPT !.status = "inactive"]}

\* updated_at names a state: while the row carries the updated_at an edit sent
\* as If-Match, the row is the one its client read, and what the handler is
\* about to write was built from that row and no other.  Every writer must
\* change updated_at for this, and no value may come back.
EtagNamesState ==
  \A c \in Clients :
    (req[c].op = "edit" /\ row # NoRow /\ row.stamp = req[c].seen.stamp) =>
      /\ req[c].seen = row
      /\ req[c].pc \in {"begin", "execute", "written"} =>
           req[c].draft = Overlay(row.entry, req[c].body)

\* Version snapshots are immutable: no step changes or removes one.
SnapshotsImmutable ==
  [][\A v \in DOMAIN snaps : v \in DOMAIN snaps' /\ snaps'[v] = snaps[v]]_vars

\* A deleted agent comes back only by a rollback, or by an edit of a client
\* that had seen it deleted and sent is_active = true: an edit made of the
\* agent as it was before the delete never revives it.
NoAccidentalRevival ==
  [][(row # NoRow /\ row.entry.status = "inactive" /\ row'.entry.status = "active") =>
       \E c \in Clients :
         /\ req[c].pc = "written"
         /\ \/ req[c].op = "rollback"
            \/ /\ req[c].op = "edit"
               /\ req[c].seen.entry.status = "inactive"
               /\ req[c].body.status = "active"]_vars

\* The promise of VersionedRecord: seen from outside, requests are atomic, and
\* an edit applies to exactly the record its client read (no lost update).
View(r) == IF r = NoRow THEN NoRow ELSE [version |-> r.version, entry |-> r.entry]

Abstract == INSTANCE VersionedRecord WITH
  Targets <- 1..MaxTx,
  cur  <- View(row),
  log  <- snaps,
  pend <- [c \in Clients |-> [op |-> req[c].op, body |-> req[c].body,
                              target |-> req[c].target, seen |-> View(req[c].seen)]]

Promise == Abstract!Spec
=============================================================================
