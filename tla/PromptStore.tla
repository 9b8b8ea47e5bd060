---------------------------- MODULE PromptStore ----------------------------
(***************************************************************************)
(* The prompts of one agent and the requests that create, roll back and    *)
(* activate them at the same time (internal/store/prompts.go, called by    *)
(* internal/api/prompts.go).  The transactions are READ COMMITTED, so what *)
(* is atomic is a statement's reading of the table, not the transaction:   *)
(* "UPDATE prompts SET is_active = false WHERE ... is_active = true" picks *)
(* its rows from what was committed when it started, then locks them one   *)
(* by one, waiting for whoever holds a row and looking at it again.        *)
(* No code deletes a prompt or an agent, so the agent exists throughout.   *)
(***************************************************************************)
EXTENDS Naturals, FiniteSets, FiniteSetsExt

CONSTANTS Clients,
          MaxVersion    \* bound: prompts created in a behaviour

VARIABLES prompts,      \* committed rows: version -> [active, by]
          req,          \* req[c]: the request client c has in flight
          activated     \* history: a client has asked for an activation

vars == <<prompts, req, activated>>

ASSUME MaxVersionAssumption == MaxVersion \in Nat

Active == {v \in DOMAIN prompts : prompts[v].active}

\* pc: "idle", "find" (the target is to be read), "begin" (the new version is
\* to be chosen), "deactivate", "sweep" (its statement runs), "commit".
\* target: version to roll back to or activate, then the version to be active;
\* todo: rows the sweep has yet to visit; held: rows written, hence locked;
\* alone: no other request has committed since the sweep started.
Idle == [pc |-> "idle", op |-> "none", target |-> 0, todo |-> {}, held |-> {}, alone |-> TRUE]

LockedByOther(c, v) == \E d \in Clients \ {c} : v \in req[d].held

-----------------------------------------------------------------------------
Init == /\ prompts = [v \in {} |-> 0]
        /\ req = [c \in Clients |-> Idle]
        /\ activated = FALSE

Accept(c, pc, op, v) ==
  /\ req[c].pc = "idle"
  /\ req' = [req EXCEPT ![c] = [Idle EXCEPT !.pc = pc, !.op = op, !.target = v]]
  /\ activated' = (activated \/ op = "activate")
  /\ UNCHANGED prompts

RequestCreate(c) == Accept(c, "begin", "create", 0)

RequestRollback(c) == \E v \in 1..MaxVersion : Accept(c, "find", "rollback", v)

RequestActivate(c) == \E v \in 1..MaxVersion : Accept(c, "find", "activate", v)

\* GetByID of Activate and the target query of Rollback, before the transaction.
Find(c) ==
  /\ req[c].pc = "find"
  /\ req' = IF req[c].target \notin DOMAIN prompts
            THEN [req EXCEPT ![c] = Idle]
            ELSE [req EXCEPT ![c].pc = IF req[c].op = "activate" THEN "deactivate" ELSE "begin"]
  /\ UNCHANGED <<prompts, activated>>

\* SELECT COALESCE(MAX(version), 0): the version the prompt will have.
ReadMax(c) ==
  /\ req[c].pc = "begin"
  /\ LET n == Max(DOMAIN prompts \cup {0})
     IN  /\ n < MaxVersion
         /\ req' = [req EXCEPT ![c].pc = "deactivate", ![c].target = n + 1]
  /\ UNCHANGED <<prompts, activated>>

\* Fault: only the prompt GetActive returns (LIMIT 1) is deactivated.
StartDeactivateOne(c) ==
  /\ req[c].pc = "deactivate"
  /\ \E S \in SUBSET Active :
       /\ Cardinality(S) = Min({1, Cardinality(Active)})
       /\ req' = [req EXCEPT ![c].pc = "sweep", ![c].todo = S, ![c].alone = TRUE]
  /\ UNCHANGED <<prompts, activated>>

\* The deactivating UPDATE takes its snapshot ...
StartDeactivate(c) ==
  /\ req[c].pc = "deactivate"
  /\ req' = [req EXCEPT ![c].pc = "sweep", ![c].todo = Active, ![c].alone = TRUE]
  /\ UNCHANGED <<prompts, activated>>

\* ... and visits a row of it: locks it, unless it is no longer active.
DeactivateRow(c) ==
  /\ req[c].pc = "sweep"
  /\ \E v \in req[c].todo :
       /\ ~LockedByOther(c, v)
       /\ req' = [req EXCEPT ![c].todo = @ \ {v},
                             ![c].held = IF v \in Active THEN @ \cup {v} ELSE @]
  /\ UNCHANGED <<prompts, activated>>

\* Fault: MAX(version) is read after the deactivation, in the INSERT.
InsertLateMax(c) ==
  /\ req[c].pc = "sweep" /\ req[c].op # "activate" /\ req[c].todo = {}
  /\ LET n == Max(DOMAIN prompts \cup {0}) + 1
     IN  /\ n <= MaxVersion
         /\ \A d \in Clients \ {c} : ~(req[d].pc = "commit" /\ req[d].target = n)
         /\ req' = [req EXCEPT ![c].pc = "commit", ![c].target = n]
  /\ UNCHANGED <<prompts, activated>>

\* INSERT INTO prompts: the key (agent_id, version) is UNIQUE.  A second
\* insert of a key waits for the first one's transaction.
Insert(c) ==
  /\ req[c].pc = "sweep" /\ req[c].op # "activate" /\ req[c].todo = {}
  /\ \A d \in Clients \ {c} :
       ~(req[d].pc = "commit" /\ req[d].op # "activate" /\ req[d].target = req[c].target)
  /\ req' = IF req[c].target \in DOMAIN prompts
            THEN [req EXCEPT ![c] = Idle]
            ELSE [req EXCEPT ![c].pc = "commit"]
  /\ UNCHANGED <<prompts, activated>>

\* UPDATE prompts SET is_active = true WHERE id = $1.
ActivateRow(c) ==
  /\ req[c].pc = "sweep" /\ req[c].op = "activate" /\ req[c].todo = {}
  /\ ~LockedByOther(c, req[c].target)
  /\ req' = [req EXCEPT ![c].pc = "commit", ![c].held = @ \cup {req[c].target}]
  /\ UNCHANGED <<prompts, activated>>

Commit(c) ==
  /\ req[c].pc = "commit"
  /\ LET t == req[c].target
     IN  prompts' =
           [v \in DOMAIN prompts \cup {t} |->
              [active |-> v = t \/ (prompts[v].active /\ v \notin req[c].held),
               by     |-> IF v = t /\ req[c].op # "activate" THEN c ELSE prompts[v].by]]
  /\ req' = [d \in Clients |-> IF d = c THEN Idle
                               ELSE [req[d] EXCEPT !.alone = req[d].pc \notin {"sweep", "commit"}]]
  /\ UNCHANGED activated

\* Fault: the deactivation is committed on its own.
AbortKeepsSweep(c) ==
  /\ req[c].pc # "idle"
  /\ prompts' = [v \in DOMAIN prompts |->
                   [prompts[v] EXCEPT !.active = @ /\ v \notin req[c].held]]
  /\ req' = [req EXCEPT ![c] = Idle]
  /\ UNCHANGED activated

\* A failed statement, a lost connection, or PostgreSQL choosing this
\* transaction to break a deadlock: everything it wrote is undone.
Abort(c) ==
  /\ req[c].pc # "idle"
  /\ req' = [req EXCEPT ![c] = Idle]
  /\ UNCHANGED <<prompts, activated>>

\* The server process dies; PostgreSQL rolls its transactions back.
Crash ==
  /\ \E c \in Clients : req[c].pc # "idle"
  /\ req' = [c \in Clients |-> Idle]
  /\ UNCHANGED <<prompts, activated>>

Next ==
  \/ \E c \in Clients :
       \/ RequestCreate(c) \/ RequestRollback(c) \/ RequestActivate(c)
       \/ Find(c) \/ ReadMax(c) \/ StartDeactivate(c) \/ DeactivateRow(c)
       \/ Insert(c) \/ ActivateRow(c) \/ Commit(c) \/ Abort(c)
  \/ Crash

Spec == Init /\ [][Next]_vars

-----------------------------------------------------------------------------
(***************************************************************************)
(* Properties.                                                             *)
(***************************************************************************)

\* The type invariant.
TypeOK ==
  /\ DOMAIN prompts \subseteq 1..MaxVersion
  /\ \A v \in DOMAIN prompts : prompts[v] \in [active : BOOLEAN, by : Clients]
  /\ req \in [Clients -> [pc : {"idle", "find", "begin", "deactivate", "sweep", "commit"},
                          op : {"none", "create", "rollback", "activate"},
                          target : 0..MaxVersion,
                          todo : SUBSET DOMAIN prompts,
                          held : SUBSET DOMAIN prompts,
                          alone : BOOLEAN]]
  /\ activated \in BOOLEAN

\* The versions of an agent's prompts are 1..n: a version chosen from MAX in
\* one statement and inserted in a later one is never skipped, whoever aborts.
VersionsContiguous == DOMAIN prompts = 1..Cardinality(DOMAIN prompts)

\* An agent that has prompts is never without an active one: the deactivation
\* is never visible, or kept, without the activation that follows it.
SomeActive == DOMAIN prompts # {} => Active # {}

\* Two creations that chose the same version do not overwrite each other: a
\* committed prompt stays the prompt of the client that made it.
PromptsKept ==
  [][\A v \in DOMAIN prompts : v \in DOMAIN prompts' /\ prompts'[v].by = prompts[v].by]_vars

\* A request during whose sweep no other one committed leaves its own prompt
\* active and no other, even where earlier requests had left several.
AloneIsExact ==
  [][\A c \in Clients : Commit(c) /\ req[c].alone => Active' = {req[c].target}]_vars

\* While prompts are only created and rolled back, never activated, the active
\* prompt is the newest one and the only one, however requests interleave.
\* It needs the order of Create: MAX(version) is read before the deactivation.
ActiveIsNewest ==
  ~activated /\ DOMAIN prompts # {} => Active = {Max(DOMAIN prompts)}

\* The promise of VersionHistory: whatever requests overlap, a request adds the
\* next version or activates an old one, replaces none, and activates no other.
History == INSTANCE VersionHistory WITH versions <- prompts

Promise == History!Spec

\* docs/api-reference.md:262: each agent has "zero or more prompts, with
\* exactly one marked as active".
ExactlyOneActive == DOMAIN prompts # {} => Cardinality(Active) = 1
=============================================================================
