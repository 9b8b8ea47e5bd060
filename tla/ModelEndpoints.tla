--------------------------- MODULE ModelEndpoints ---------------------------
(***************************************************************************)
(* One model endpoint, by its slug: its row of model_endpoints, edited     *)
(* with If-Match, and its rows of model_endpoint_versions, added inactive  *)
(* and activated one by one (internal/store/model_endpoints.go, called by  *)
(* internal/api/model_endpoints.go).  Transactions are READ COMMITTED, as  *)
(* in PromptStore, and updated_at is the time the writer started, as in    *)
(* AgentStore.  A statement that is a transaction of its own, or the last  *)
(* of one, is one step with the commit: nobody sees the row in between.    *)
(* A DELETE only clears is_active; no code removes an endpoint or version. *)
(***************************************************************************)
EXTENDS Naturals, FiniteSets, FiniteSetsExt

CONSTANTS Clients,
          Values,       \* of the columns a PUT may write, but is_active
          Keep,         \* "this request does not mention the column"
          NoRow,        \* the slug is free
          MaxTx,        \* bound: transactions that write the row
          MaxVersion    \* bound: versions created

VARIABLES row,          \* committed row: [meta, active, stamp], or NoRow
          versions,     \* committed versions: number -> [active, by]
          req,          \* req[c]: the request client c has in flight
          clock         \* transactions started that write the row

vars == <<row, versions, req, clock>>

ASSUME EndpointsAssumption ==
  /\ MaxTx \in Nat /\ MaxVersion \in Nat \ {0}
  /\ Keep \notin Values \cup BOOLEAN
  /\ NoRow \notin [meta : Values, active : BOOLEAN, stamp : Nat]

Row == [meta : Values, active : BOOLEAN, stamp : Nat]

Body == [meta : Values \cup {Keep}, active : BOOLEAN \cup {Keep}]

Active == {v \in DOMAIN versions : versions[v].active}

KeepAll == [meta |-> Keep, active |-> Keep]

\* pc: "idle", "find" (the endpoint is to be read), "begin", "execute" (writes
\* the row at time stamp), "insert" (a version, as target), "deactivate",
\* "sweep", "commit".  todo, held and alone are those of PromptStore.
Idle == [pc |-> "idle", op |-> "none", body |-> KeepAll, seen |-> NoRow,
         draft |-> KeepAll, stamp |-> 0, target |-> 0,
         todo |-> {}, held |-> {}, alone |-> TRUE]

LockedByOther(c, v) == \E d \in Clients \ {c} : v \in req[d].held

Overlay(r, b) == [meta   |-> IF b.meta = Keep THEN r.meta ELSE b.meta,
                  active |-> IF b.active = Keep THEN r.active ELSE b.active]

-----------------------------------------------------------------------------
Init == /\ row = NoRow
        /\ versions = [v \in {} |-> 0]
        /\ req = [c \in Clients |-> Idle]
        /\ clock = 0

Goto(c, r) == /\ req' = [req EXCEPT ![c] = r]
              /\ UNCHANGED <<row, versions, clock>>

Accept(c, r) == req[c].pc = "idle" /\ Goto(c, r)

\* POST, also for a workspace: is_active is always true.
RequestCreate(c) ==
  \E m \in Values :
    Accept(c, [Idle EXCEPT !.pc = "begin", !.op = "create",
                           !.draft = [meta |-> m, active |-> TRUE]])

\* PUT: the client has read the row and sends its updated_at as If-Match.
RequestUpdate(c) ==
  /\ row # NoRow
  /\ \E b \in Body :
       Accept(c, [Idle EXCEPT !.pc = "find", !.op = "update", !.body = b, !.seen = row])

RequestDelete(c) == Accept(c, [Idle EXCEPT !.pc = "begin", !.op = "delete"])

RequestVersion(c) == Accept(c, [Idle EXCEPT !.pc = "find", !.op = "version"])

RequestActivate(c) ==
  \E v \in 1..MaxVersion :
    Accept(c, [Idle EXCEPT !.pc = "find", !.op = "activate", !.target = v])

\* Fault: the columns a PUT leaves out are cleared.
GetBySlugNoOverlay(c) ==
  /\ req[c].pc = "find" /\ req[c].op = "update"
  /\ Goto(c, [req[c] EXCEPT !.pc = "begin", !.draft = req[c].body])

\* GetBySlug of the PUT path: reads outside the transaction that writes.
GetBySlug(c) ==
  /\ req[c].pc = "find" /\ req[c].op = "update"
  /\ Goto(c, IF row = NoRow THEN Idle
             ELSE [req[c] EXCEPT !.pc = "begin", !.draft = Overlay(row, req[c].body)])

\* GetBySlug and SELECT COALESCE(MAX(version), 0): the version to insert.
ReadMax(c) ==
  /\ req[c].pc = "find" /\ req[c].op = "version"
  /\ LET n == Max(DOMAIN versions \cup {0})
     IN  /\ n < MaxVersion
         /\ Goto(c, IF row = NoRow THEN Idle
                    ELSE [req[c] EXCEPT !.pc = "insert", !.target = n + 1])

\* GetBySlug and GetVersion of an activation, both before its transaction.
GetVersion(c) ==
  /\ req[c].pc = "find" /\ req[c].op = "activate"
  /\ Goto(c, IF req[c].target \notin DOMAIN versions THEN Idle
             ELSE [req[c] EXCEPT !.pc = "deactivate"])

-----------------------------------------------------------------------------
(* The row. *)

\* A transaction that writes the row starts: its now().
BeginTx(c) ==
  /\ req[c].pc = "begin"
  /\ clock < MaxTx
  /\ clock' = clock + 1
  /\ req' = [req EXCEPT ![c].pc = "execute", ![c].stamp = clock + 1]
  /\ UNCHANGED <<row, versions>>

Finish(c) == req' = [req EXCEPT ![c] = Idle] /\ UNCHANGED clock

\* The row and version 1, active, in one transaction; slug is UNIQUE.
CreateEndpoint(c) ==
  /\ req[c].pc = "execute" /\ req[c].op = "create"
  /\ IF row = NoRow
     THEN /\ row' = [meta |-> req[c].draft.meta, active |-> req[c].draft.active,
                     stamp |-> req[c].stamp]
          /\ versions' = [v \in {1} |-> [active |-> TRUE, by |-> c]]
     ELSE UNCHANGED <<row, versions>>
  /\ Finish(c)

\* UPDATE model_endpoints ... WHERE slug = $1 AND updated_at = $10.
Update(c) ==
  /\ req[c].pc = "execute" /\ req[c].op = "update"
  /\ row' = IF row # NoRow /\ row.stamp = req[c].seen.stamp
            THEN [meta |-> req[c].draft.meta, active |-> req[c].draft.active,
                  stamp |-> req[c].stamp]
            ELSE row
  /\ UNCHANGED versions
  /\ Finish(c)

\* Fault: a deletion does not set updated_at.
DeleteOldStamp(c) ==
  /\ req[c].pc = "execute" /\ req[c].op = "delete"
  /\ row' = IF row = NoRow THEN row ELSE [row EXCEPT !.active = FALSE]
  /\ UNCHANGED versions
  /\ Finish(c)

Delete(c) ==
  /\ req[c].pc = "execute" /\ req[c].op = "delete"
  /\ row' = IF row = NoRow THEN row
            ELSE [row EXCEPT !.active = FALSE, !.stamp = req[c].stamp]
  /\ UNCHANGED versions
  /\ Finish(c)

-----------------------------------------------------------------------------
(* The versions. *)

\* INSERT INTO model_endpoint_versions, inactive; (endpoint_id, version) is
\* UNIQUE, and a second insert of a version fails.
InsertVersion(c) ==
  /\ req[c].pc = "insert"
  /\ versions' = IF req[c].target \in DOMAIN versions THEN versions
                 ELSE [v \in DOMAIN versions \cup {req[c].target} |->
                         IF v = req[c].target THEN [active |-> FALSE, by |-> c]
                                              ELSE versions[v]]
  /\ UNCHANGED row
  /\ Finish(c)

\* Fault: only the version GetActiveVersion returns (LIMIT 1) is deactivated.
StartDeactivateOne(c) ==
  /\ req[c].pc = "deactivate"
  /\ \E S \in SUBSET Active :
       /\ Cardinality(S) = 1
       /\ Goto(c, [req[c] EXCEPT !.pc = "sweep", !.todo = S, !.alone = TRUE])

\* The deactivating UPDATE takes its snapshot ...
StartDeactivate(c) ==
  /\ req[c].pc = "deactivate"
  /\ Goto(c, [req[c] EXCEPT !.pc = "sweep", !.todo = Active, !.alone = TRUE])

\* ... and visits a row of it: locks it, unless it is no longer active.
DeactivateRow(c) ==
  /\ req[c].pc = "sweep"
  /\ \E v \in req[c].todo :
       /\ ~LockedByOther(c, v)
       /\ Goto(c, [req[c] EXCEPT !.todo = @ \ {v},
                                 !.held = IF v \in Active THEN @ \cup {v} ELSE @])

\* UPDATE ... SET is_active = true WHERE endpoint_id = $1 AND version = $2.
ActivateRow(c) ==
  /\ req[c].pc = "sweep" /\ req[c].todo = {}
  /\ ~LockedByOther(c, req[c].target)
  /\ Goto(c, [req[c] EXCEPT !.pc = "commit", !.held = @ \cup {req[c].target}])

\* Fault: the two UPDATEs of an activation are transactions of their own.
CommitSweepFirst(c) ==
  /\ req[c].pc = "commit"
  /\ versions' = [v \in DOMAIN versions |->
                    [versions[v] EXCEPT !.active = @ /\ v \notin req[c].held]]
  /\ req' = [req EXCEPT ![c] = Idle]
  /\ UNCHANGED <<row, clock>>

Commit(c) ==
  /\ req[c].pc = "commit"
  /\ versions' = [v \in DOMAIN versions |->
                    [versions[v] EXCEPT !.active = v = req[c].target \/ (@ /\ v \notin req[c].held)]]
  /\ req' = [d \in Clients |-> IF d = c THEN Idle
                               ELSE [req[d] EXCEPT !.alone = req[d].pc \notin {"sweep", "commit"}]]
  /\ UNCHANGED <<row, clock>>

\* A failed statement, a lost connection, a deadlock broken by PostgreSQL.
Abort(c) == req[c].pc # "idle" /\ Goto(c, Idle)

\* The server process dies; PostgreSQL rolls its transactions back.
Crash ==
  /\ \E c \in Clients : req[c].pc # "idle"
  /\ req' = [c \in Clients |-> Idle]
  /\ UNCHANGED <<row, versions, clock>>

Next ==
  \/ \E c \in Clients :
       \/ RequestCreate(c) \/ RequestUpdate(c) \/ RequestDelete(c)
       \/ RequestVersion(c) \/ RequestActivate(c)
       \/ GetBySlug(c) \/ ReadMax(c) \/ GetVersion(c)
       \/ BeginTx(c) \/ CreateEndpoint(c) \/ Update(c) \/ Delete(c)
       \/ InsertVersion(c)
       \/ StartDeactivate(c) \/ DeactivateRow(c) \/ ActivateRow(c) \/ Commit(c)
       \/ Abort(c)
  \/ Crash

Spec == Init /\ [][Next]_vars

-----------------------------------------------------------------------------
(***************************************************************************)
(* Properties.                                                             *)
(***************************************************************************)

Request ==
  [pc : {"idle", "find", "begin", "execute", "insert", "deactivate", "sweep", "commit"},
   op : {"none", "create", "update", "delete", "version", "activate"},
   body : Body, seen : Row \cup {NoRow}, draft : Body, stamp : Nat,
   target : 0..MaxVersion, todo : SUBSET DOMAIN versions,
   held : SUBSET DOMAIN versions, alone : BOOLEAN]

\* The type invariant: the row holds values, never a column left out, and an
\* endpoint exists exactly if its first version does.
TypeOK ==
  /\ row \in Row \cup {NoRow}
  /\ DOMAIN versions \subseteq 1..MaxVersion
  /\ \A v \in DOMAIN versions : versions[v] \in [active : BOOLEAN, by : Clients]
  /\ row = NoRow <=> 1 \notin DOMAIN versions
  /\ req \in [Clients -> Request]
  /\ clock \in 0..MaxTx

\* No PUT overwrites what its client has not seen: while the row carries the
\* updated_at sent as If-Match, it is the row the client read, and what is to
\* be written was built from it and no other, though the handler read the row
\* again in between.
EtagNamesState ==
  \A c \in Clients :
    (req[c].op = "update" /\ row # NoRow /\ row.stamp = req[c].seen.stamp) =>
      /\ req[c].seen = row
      /\ req[c].pc \in {"begin", "execute"} => req[c].draft = Overlay(row, req[c].body)

\* An activation during whose sweep no other one committed leaves its version
\* active and no other, even where earlier ones had left several.
AloneIsExact ==
  [][\A c \in Clients : Commit(c) /\ req[c].alone => Active' = {req[c].target}]_vars

\* An endpoint is never without an active version: the deactivation is never
\* visible, or kept, without the activation that follows it, and what an
\* insertion adds inactive is never all there is.
SomeActive == versions # <<>> => Active # {}

\* The promise of VersionHistory: versions are 1..n, none is replaced, a new
\* one changes nothing until it is activated, and there is always an active one.
History == INSTANCE VersionHistory

Promise == History!Spec
=============================================================================
