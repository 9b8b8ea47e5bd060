------------------------------ MODULE Startup ------------------------------
(***************************************************************************)
(* Processes of the registry on one database (cmd/server/main.go run):     *)
(* each seeds the default admin and the default agents when it finds none, *)
(* warns and goes on when that fails, and then serves.  A process may      *)
(* crash at any point.  Once one serves, administrators create, change and *)
(* deactivate accounts (api/users.go) and editors create agents.  Of the   *)
(* middleware there is what tells who is an administrator: a session looks *)
(* at the role of its user only, and none is ended when its user is        *)
(* deactivated; a key demands an active user too.  Credentials are the     *)
(* business of Accounts, versions of agents that of AgentStore.            *)
(***************************************************************************)
EXTENDS Naturals, FiniteSetsExt

CONSTANTS Processes,
          Names,          \* usernames; "admin" is one
          NumSeeds,       \* 16 in the code
          MaxStarts, MaxFaults, MaxEdits    \* bounds

ASSUME ServerAssumption ==
  /\ "admin" \in Names
  /\ NumSeeds \in Nat \ {0}
  /\ MaxStarts \in Nat /\ MaxFaults \in Nat /\ MaxEdits \in Nat

VARIABLES
  users,      \* users[n]: the row of this username: role, is_active, updated_at
  agents,     \* agents[i]: "none", or who made the agent with the id of seed i
  proc,       \* proc[p]: where p is, the seeds it has still to create
  signedIn,   \* the users that have a session
  edit,       \* edit[n]: the request of n that changes a user
  starts, faults, edits,    \* counters for the bounds
  cutShort,   \* history: a process crashed while it created the seeds
  orphaned    \* history: the last change left no administrator, and was made by the
              \* last one with a PUT of itself, or by one who was none any more

startup == <<proc, starts, faults, cutShort>>
accounts == <<users, signedIn, edit, edits, orphaned>>
vars == <<startup, accounts, agents>>

Seeds == 1..NumSeeds
NoUser == [role |-> "none", active |-> FALSE, at |-> 0]
Down == [pc |-> "down", todo |-> {}]
Idle == [pc |-> "idle"]

\* CountAdmins counts active ones.
IsAdmin(n) == users[n].role = "admin" /\ users[n].active
AdminLeft == \E n \in Names : IsAdmin(n)

\* RequireRole("admin"): the role of the user of a session, deactivated or not, or
\* of an active user with a key.
LetIn(n) == users[n].role = "admin" /\ (n \in signedIn \/ users[n].active)
Serving(p) == proc[p].pc = "serving"

Init == /\ users = [n \in Names |-> NoUser]
        /\ agents = [i \in Seeds |-> "none"]
        /\ proc = [p \in Processes |-> Down]
        /\ signedIn = {}
        /\ edit = [n \in Names |-> Idle]
        /\ starts = 0 /\ faults = 0 /\ edits = 0
        /\ cutShort = FALSE /\ orphaned = FALSE

-----------------------------------------------------------------------------
(***************************************************************************)
(* Start-up.                                                               *)
(***************************************************************************)

Goto(p, pc, todo) == proc' = [proc EXCEPT ![p] = [pc |-> pc, todo |-> todo]]

\* Configuration, pool, migrations, stores, dispatcher: done or the process ends.
Start(p) ==
  /\ proc[p] = Down /\ starts < MaxStarts
  /\ starts' = starts + 1
  /\ Goto(p, "countAdmins", {})
  /\ UNCHANGED <<faults, cutShort, accounts, agents>>

CountAdmins(p) ==
  /\ proc[p].pc = "countAdmins"
  /\ Goto(p, IF AdminLeft THEN "countAgents" ELSE "createAdmin", {})
  /\ UNCHANGED <<starts, faults, cutShort, accounts, agents>>

\* The username is unique, whatever the role and is_active of the row that has it.
CreateAdmin(p) ==
  /\ proc[p].pc = "createAdmin"
  /\ users' = IF users["admin"] = NoUser
              THEN [users EXCEPT !["admin"] = [role |-> "admin", active |-> TRUE, at |-> 0]]
              ELSE users
  /\ Goto(p, "countAgents", {})
  /\ UNCHANGED <<starts, faults, cutShort, signedIn, edit, edits, orphaned, agents>>

CountAll(p) ==
  /\ proc[p].pc = "countAgents"
  /\ IF \E i \in Seeds : agents[i] # "none"
     THEN Goto(p, "serving", {})
     ELSE Goto(p, "createAgent", Seeds)
  /\ UNCHANGED <<starts, faults, cutShort, accounts, agents>>

\* One INSERT per seed; the first error, a duplicate id too, ends the seeding.
CreateSeed(p, i) ==
  /\ IF agents[i] # "none"
     THEN Goto(p, "serving", {}) /\ UNCHANGED agents
     ELSE /\ agents' = [agents EXCEPT ![i] = "seed"]
          /\ LET rest == proc[p].todo \ {i}
             IN Goto(p, IF rest = {} THEN "serving" ELSE "createAgent", rest)
  /\ UNCHANGED <<starts, faults, cutShort, accounts>>

\* Fault: the seeds are in a map and come in any order.
CreateAgentAnyOrder(p) ==
  proc[p].pc = "createAgent" /\ \E i \in proc[p].todo : CreateSeed(p, i)

CreateAgent(p) == proc[p].pc = "createAgent" /\ CreateSeed(p, Min(proc[p].todo))

\* A statement of the seeding fails: a warning, and the next thing.
SeedFails(p) ==
  /\ faults < MaxFaults
  /\ faults' = faults + 1
  /\ \/ proc[p].pc \in {"countAdmins", "createAdmin"} /\ Goto(p, "countAgents", {})
     \/ proc[p].pc \in {"countAgents", "createAgent"} /\ Goto(p, "serving", {})
  /\ UNCHANGED <<starts, cutShort, accounts, agents>>

\* The process ends, and with it what only its memory held: the requests too, once
\* no other process serves.
Crash(p) ==
  /\ proc[p] # Down
  /\ proc' = [proc EXCEPT ![p] = Down]
  /\ cutShort' = (cutShort \/ proc[p].pc = "createAgent")
  /\ edit' = IF \E q \in Processes \ {p} : Serving(q) THEN edit ELSE [n \in Names |-> Idle]
  /\ UNCHANGED <<starts, faults, users, signedIn, edits, orphaned, agents>>

-----------------------------------------------------------------------------
(***************************************************************************)
(* What the API changes meanwhile: agents, and who is an administrator.    *)
(***************************************************************************)

SomeoneServes == \E p \in Processes : Serving(p)

CreateByEditor(i) ==
  /\ SomeoneServes /\ agents[i] = "none" /\ edits < MaxEdits
  /\ agents' = [agents EXCEPT ![i] = "editor"]
  /\ edits' = edits + 1
  /\ UNCHANGED <<startup, users, signedIn, edit, orphaned>>

\* A sign-in needs an active user.  It moves updated_at: see Refused.
SignIn(n) ==
  /\ SomeoneServes /\ users[n].active /\ n \notin signedIn
  /\ signedIn' = signedIn \cup {n}
  /\ UNCHANGED <<startup, users, edit, edits, orphaned, agents>>

\* The sessions of n end: logout, expiry, a change of password.
SignOut(n) ==
  /\ n \in signedIn
  /\ signedIn' = signedIn \ {n}
  /\ UNCHANGED <<startup, users, edit, edits, orphaned, agents>>

\* A request is let in by the middleware.
Admit(a, n, verb) ==
  /\ SomeoneServes /\ edits < MaxEdits
  /\ edit[a] = Idle /\ LetIn(a)
  /\ edit' = [edit EXCEPT ![a] = [pc |-> "admitted", name |-> n, verb |-> verb, row |-> NoUser]]
  /\ UNCHANGED <<startup, users, signedIn, edits, orphaned, agents>>

\* Fault: one may deactivate oneself.
DeleteUserSelf(a, n) == Admit(a, n, "delete")

\* DELETE refuses one's own account; PUT does not.
DeleteUser(a, n) == a # n /\ Admit(a, n, "delete")

UpdateUser(a, n) == Admit(a, n, "put")

CreateUser(a, n) == Admit(a, n, "post")

\* The INSERT of a POST.  A username that is taken is refused.
Create(a) ==
  /\ edit[a].pc = "admitted" /\ edit[a].verb = "post" /\ users[edit[a].name] = NoUser
  /\ \E role \in {"admin", "viewer"} :
       users' = [users EXCEPT ![edit[a].name] = [role |-> role, active |-> TRUE, at |-> 0]]
  /\ edit' = [edit EXCEPT ![a] = Idle]
  /\ UNCHANGED <<startup, signedIn, edits, orphaned, agents>>

\* The row is read, and what the request makes of it.
GetByID(a) ==
  /\ edit[a].pc = "admitted" /\ edit[a].verb # "post" /\ users[edit[a].name] # NoUser
  /\ \E role \in {"admin", "viewer"}, active \in BOOLEAN :
       LET n == edit[a].name
           row == IF edit[a].verb = "put" THEN [users[n] EXCEPT !.role = role, !.active = active]
                  ELSE [users[n] EXCEPT !.active = FALSE]
       IN edit' = [edit EXCEPT ![a].pc = "loaded", ![a].row = row]
  /\ UNCHANGED <<startup, users, signedIn, edits, orphaned, agents>>

\* The UPDATE compares updated_at: of the row read, or of If-Match, which is that
\* of the row read or is refused.  Nobody asks again who may make the change.
Update(a) ==
  /\ edit[a].pc = "loaded" /\ edits < MaxEdits
  /\ users[edit[a].name].at = edit[a].row.at
  /\ users' = [users EXCEPT ![edit[a].name] = [edit[a].row EXCEPT !.at = @ + 1]]
  /\ edit' = [edit EXCEPT ![a] = Idle]
  /\ edits' = edits + 1
  /\ orphaned' = (~AdminLeft' /\ (~IsAdmin(a) \/ (edit[a].name = a /\ edit[a].verb # "delete")))
  /\ UNCHANGED <<startup, signedIn, agents>>

\* No such user, 409, a username taken, or an error: a change of the row, or a sign-in of its user,
\* has moved updated_at, the If-Match was not the row's, or a statement failed.
Refused(a) ==
  /\ edit[a] # Idle
  /\ edit' = [edit EXCEPT ![a] = Idle]
  /\ UNCHANGED <<startup, users, signedIn, edits, orphaned, agents>>

-----------------------------------------------------------------------------

Boot(p) == CountAdmins(p) \/ CreateAdmin(p) \/ CountAll(p) \/ CreateAgent(p) \/ SeedFails(p)

Next ==
  \/ \E p \in Processes :
       Start(p) \/ Boot(p) \/ Crash(p)
  \/ \E i \in Seeds : CreateByEditor(i)
  \/ \E a \in Names :
       \/ SignIn(a) \/ SignOut(a)
       \/ Create(a) \/ GetByID(a) \/ Update(a) \/ Refused(a)
       \/ \E n \in Names : CreateUser(a, n) \/ DeleteUser(a, n) \/ UpdateUser(a, n)

Spec == Init /\ [][Next]_vars

-----------------------------------------------------------------------------
(***************************************************************************)
(* Properties.                                                             *)
(***************************************************************************)

User == [role : {"none", "admin", "viewer"}, active : BOOLEAN, at : 0..MaxEdits]

Change == [pc : {"admitted", "loaded"}, name : Names, verb : {"post", "put", "delete"}, row : User]

\* The type invariant.
TypeOK ==
  /\ users \in [Names -> User]
  /\ agents \in [Seeds -> {"none", "seed", "editor"}]
  /\ proc \in [Processes ->
       [pc : {"down", "countAdmins", "createAdmin", "countAgents", "createAgent", "serving"},
        todo : SUBSET Seeds]]
  /\ \A p \in Processes : proc[p].todo # {} <=> proc[p].pc = "createAgent"
  /\ signedIn \subseteq Names
  /\ edit \in [Names -> {Idle} \cup Change]
  /\ starts \in 0..MaxStarts /\ faults \in 0..MaxFaults /\ edits \in 0..MaxEdits
  /\ cutShort \in BOOLEAN /\ orphaned \in BOOLEAN

\* However many processes start, race and crash, from the first account on, and
\* from the first process that serves if the seeding of the admin did not fail,
\* there is an administrator.  The last one goes only with a PUT of itself, or with
\* a change made by one who was removed before: by a request that had been let in,
\* or by a session, which outlives the deactivation of its user.
AdminKept ==
  ~orphaned /\ ((\E n \in Names : users[n] # NoUser) \/ (SomeoneServes /\ faults = 0))
    => AdminLeft

\* However many processes race for it, the seeding is complete once none is still
\* at it, unless a statement failed, a process crashed between two inserts (none
\* ever goes on with what it left), or an editor took the id of a seed meanwhile.
SeedComplete ==
  SomeoneServes /\ faults = 0 /\ ~cutShort
    /\ (\A p \in Processes : proc[p].pc \in {"down", "serving"})
    /\ (\A i \in Seeds : agents[i] # "editor")
    => \A i \in Seeds : agents[i] = "seed"
=============================================================================
