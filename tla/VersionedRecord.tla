-------------------------- MODULE VersionedRecord --------------------------
(***************************************************************************)
(* What the registry promises of one agent, with no database in sight: a   *)
(* current record and the log of every version it has had.  A request is   *)
(* either applied in one step or dropped; an edit is applied only to the   *)
(* very record its client had read, and keeps what it does not mention.    *)
(*                                                                         *)
(* AgentStore implements this specification (AgentStore!Promise).          *)
(***************************************************************************)
EXTENDS Naturals

CONSTANTS Clients,      \* requests in flight at the same time
          Fields,       \* the columns a client may write, but is_active
          Values,       \* what a column may hold
          Keep,         \* "this request does not mention the column"
          NoRow,        \* the agent does not exist
          Targets       \* the version numbers a rollback may name

VARIABLES cur,          \* the current record, or NoRow
          log,          \* version number -> the entry recorded for it
          pend          \* pend[c]: the request client c is waiting for

vars == <<cur, log, pend>>

Status == {"active", "inactive"}

Entry == [fields : [Fields -> Values], status : Status]

Body == [fields : [Fields -> Values \cup {Keep}], status : Status \cup {"keep"}]

\* The entry that results from laying a request's body over an entry.
Overlay(e, b) ==
  [fields |-> [f \in Fields |-> IF b.fields[f] = Keep THEN e.fields[f] ELSE b.fields[f]],
   status |-> IF b.status = "keep" THEN e.status ELSE b.status]

KeepAll == [fields |-> [f \in Fields |-> Keep], status |-> "keep"]

NoRequest == [op |-> "none", body |-> KeepAll, target |-> 0, seen |-> NoRow]

-----------------------------------------------------------------------------
Init == /\ cur = NoRow
        /\ log = [v \in {} |-> 0]
        /\ pend = [c \in Clients |-> NoRequest]

Submit(c, op, body, target, seen) ==
  /\ pend[c] = NoRequest
  /\ pend' = [pend EXCEPT ![c] = [op |-> op, body |-> body, target |-> target, seen |-> seen]]
  /\ UNCHANGED <<cur, log>>

SubmitCreate(c) ==
  \E f \in [Fields -> Values] :
    Submit(c, "create", [fields |-> f, status |-> "active"], 0, NoRow)

SubmitEdit(c) == /\ cur # NoRow
                 /\ \E b \in Body : Submit(c, "edit", b, 0, cur)

SubmitRollback(c) == \E v \in Targets : Submit(c, "rollback", KeepAll, v, NoRow)

SubmitDelete(c) == Submit(c, "delete", KeepAll, 0, NoRow)

\* Entry e becomes version n: the current record and a new line of the log.
Record(n, e) ==
  /\ cur' = [version |-> n, entry |-> e]
  /\ log' = [v \in DOMAIN log \cup {n} |-> IF v = n THEN e ELSE log[v]]

Done(c) == pend' = [pend EXCEPT ![c] = NoRequest]

ApplyCreate(c) ==
  /\ pend[c].op = "create"
  /\ cur = NoRow
  /\ Record(1, pend[c].body)
  /\ Done(c)

ApplyEdit(c) ==
  /\ pend[c].op = "edit"
  /\ cur = pend[c].seen
  /\ Record(cur.version + 1, Overlay(cur.entry, pend[c].body))
  /\ Done(c)

ApplyRollback(c) ==
  /\ pend[c].op = "rollback"
  /\ pend[c].target \in DOMAIN log
  /\ Record(cur.version + 1, log[pend[c].target])
  /\ Done(c)

ApplyDelete(c) ==
  /\ pend[c].op = "delete"
  /\ cur # NoRow
  /\ cur' = [cur EXCEPT !.entry.status = "inactive"]
  /\ UNCHANGED log
  /\ Done(c)

\* Requests refused, failed, or lost in a crash leave no trace.
Drop(S) == /\ pend' = [c \in Clients |-> IF c \in S THEN NoRequest ELSE pend[c]]
           /\ UNCHANGED <<cur, log>>

Next ==
  \/ \E c \in Clients :
       \/ SubmitCreate(c) \/ SubmitEdit(c) \/ SubmitRollback(c) \/ SubmitDelete(c)
       \/ ApplyCreate(c) \/ ApplyEdit(c) \/ ApplyRollback(c) \/ ApplyDelete(c)
  \/ \E S \in SUBSET Clients : Drop(S)

Spec == Init /\ [][Next]_vars
=============================================================================
