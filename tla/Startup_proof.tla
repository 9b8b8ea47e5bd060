---------------------------- MODULE Startup_proof ----------------------------
(***************************************************************************)
(* Proofs about Startup, for any number of processes, accounts, seeds and  *)
(* starts.                                                                 *)
(***************************************************************************)
EXTENDS Startup, TLAPS

\* updated_at counts changes, nobody deactivates itself with DELETE, and whoever was
\* let in has an account.
ChangesOK ==
  /\ \A n \in Names : users[n].at <= edits
  /\ \A a \in Names : edit[a] # Idle => users[a] # NoUser
  /\ \A a \in Names : edit[a] # Idle /\ edit[a].verb = "delete" => edit[a].name # a

Counted(p) == proc[p].pc \in {"countAgents", "createAgent", "serving"}

\* There is an administrator once a process is past the admin's seeding: not only
\* once it serves.
AdminInv ==
  ~orphaned
    /\ \/ \E n \in Names : users[n] # NoUser
       \/ faults = 0 /\ \E p \in Processes : Counted(p)
    => \E n \in Names : IsAdmin(n)

ToDo(p, m) == proc[p].pc = "createAgent" /\ proc[p].todo = m..NumSeeds

Todos == \A p \in Processes : proc[p].pc = "createAgent" => \E m \in Seeds : ToDo(p, m)

\* The seeds that are there are the first k; every process that creates some has
\* got no further than the next; and unless k is none or all, one is at the next.
Prefix(k) ==
  /\ \A i \in Seeds : agents[i] # "none" <=> i <= k
  /\ \A p \in Processes, m \in Seeds : ToDo(p, m) => m <= k + 1
  /\ k # 0 /\ k # NumSeeds => \E p \in Processes : ToDo(p, k + 1)
  /\ SomeoneServes => k # 0

Unedited == \A i \in Seeds : agents[i] # "editor"

SeedInv == faults = 0 /\ ~cutShort /\ Unedited => \E k \in 0..NumSeeds : Prefix(k)

IInv == TypeOK /\ ChangesOK /\ AdminInv /\ Todos /\ SeedInv

-----------------------------------------------------------------------------

\* Of the seeds from m on the least is m, and the others are from m + 1 on.
LEMMA MinOfRest ==
  ASSUME NEW m \in Seeds
  PROVE  /\ Min(m..NumSeeds) = m
         /\ (m..NumSeeds) \ {m} = (m + 1)..NumSeeds
         /\ (m + 1)..NumSeeds = {} <=> m = NumSeeds
         /\ m # NumSeeds => m + 1 \in Seeds
<1> USE ServerAssumption DEF Seeds
<1>1. m \in m..NumSeeds
  OBVIOUS
<1>2. \A x \in m..NumSeeds : (\A y \in m..NumSeeds : x <= y) <=> x = m
  BY <1>1
<1>3. Min(m..NumSeeds) = m
  BY <1>1, <1>2 DEF Min
<1>4. (m + 1)..NumSeeds = {} <=> m = NumSeeds
  <2>1. m # NumSeeds => m + 1 \in (m + 1)..NumSeeds
    OBVIOUS
  <2> QED
    BY <2>1
<1> QED
  BY <1>3, <1>4

\* The invariant holds in every initial state.
LEMMA InvInit == Init => IInv
<1> SUFFICES ASSUME Init PROVE IInv
  OBVIOUS
<1> USE ServerAssumption DEF Init, Down, NoUser, Idle
<1>1. TypeOK
  <2>1. proc \in [Processes ->
          [pc : {"down", "countAdmins", "createAdmin", "countAgents", "createAgent", "serving"},
           todo : SUBSET Seeds]]
    OBVIOUS
  <2>2. \A p \in Processes : proc[p].todo # {} <=> proc[p].pc = "createAgent"
    OBVIOUS
  <2>3. users \in [Names -> User]
    BY DEF User
  <2>4. edit \in [Names -> {Idle} \cup Change]
    OBVIOUS
  <2>5. agents \in [Seeds -> {"none", "seed", "editor"}] /\ signedIn \subseteq Names
    OBVIOUS
  <2>6. /\ starts \in 0..MaxStarts /\ faults \in 0..MaxFaults /\ edits \in 0..MaxEdits
    BY SMT
  <2>7. cutShort \in BOOLEAN /\ orphaned \in BOOLEAN
    BY Zenon
  <2> QED
    BY <2>1, <2>2, <2>3, <2>4, <2>5, <2>6, <2>7, Zenon DEF TypeOK
<1>2. ChangesOK
  BY DEF ChangesOK
<1>3. AdminInv
  BY DEF AdminInv, Counted
<1>4. Todos
  BY DEF Todos
<1>5. Prefix(0)
  BY DEF Prefix, ToDo, SomeoneServes, Serving, Seeds
<1> QED
  BY <1>1, <1>2, <1>3, <1>4, <1>5 DEF IInv, SeedInv

-----------------------------------------------------------------------------
(* The type invariant. *)

\* A request that is in hand names a user.
LEMMA InHand ==
  ASSUME TypeOK, NEW a \in Names, edit[a].pc \in {"admitted", "loaded"}
  PROVE  edit[a] \in Change /\ edit[a].name \in Names /\ edit[a].row \in User
<1>1. edit[a] # Idle
  BY DEF Idle
<1> QED
  BY <1>1 DEF TypeOK, Change

\* The request in hand goes on with the row, and for the user and the verb it had.
LEMMA ReadStep ==
  ASSUME TypeOK, NEW a \in Names, GetByID(a)
  PROVE  /\ edit' \in [Names -> {Idle} \cup Change]
         /\ \A b \in Names \ {a} : edit'[b] = edit[b]
         /\ edit'[a].name = edit[a].name /\ edit'[a].verb = edit[a].verb
<1>1. edit[a] \in Change /\ edit[a].name \in Names /\ users[edit[a].name] \in User
  BY InHand DEF GetByID, TypeOK
<1>2. PICK row \in User : edit' = [edit EXCEPT ![a] = [@ EXCEPT !.pc = "loaded", !.row = row]]
  BY <1>1 DEF GetByID, TypeOK, User
<1>3. [edit[a] EXCEPT !.pc = "loaded", !.row = row] \in Change
  BY <1>1 DEF Change
<1> QED
  BY <1>1, <1>2, <1>3 DEF TypeOK, Change

\* Every step keeps the types.
LEMMA TypeStep == IInv /\ [Next]_vars => TypeOK'
<1> SUFFICES ASSUME IInv, [Next]_vars PROVE TypeOK'
  OBVIOUS
<1> USE ServerAssumption DEF IInv, TypeOK
<1>1. ASSUME NEW p \in Processes, Start(p) PROVE TypeOK'
  BY <1>1 DEF Start, Goto, accounts, Down
<1>2. ASSUME NEW p \in Processes, CountAdmins(p) PROVE TypeOK'
  BY <1>2 DEF CountAdmins, Goto, accounts
<1>3. ASSUME NEW p \in Processes, CreateAdmin(p) PROVE TypeOK'
  BY <1>3 DEF CreateAdmin, Goto, User
<1>4. ASSUME NEW p \in Processes, CountAll(p) PROVE TypeOK'
  <2>1. 1 \in Seeds
    BY DEF Seeds
  <2> QED
    BY <1>4, <2>1 DEF CountAll, Goto, accounts
<1>5. ASSUME NEW p \in Processes, CreateAgent(p) PROVE TypeOK'
  <2>1. PICK m \in Seeds : ToDo(p, m) /\ Min(proc[p].todo) = m
    BY <1>5, MinOfRest DEF CreateAgent, Todos, ToDo
  <2> QED
    BY <1>5, <2>1 DEF CreateAgent, CreateSeed, Goto, accounts
<1>6. ASSUME NEW p \in Processes, SeedFails(p) PROVE TypeOK'
  BY <1>6 DEF SeedFails, Goto, accounts
<1>7. ASSUME NEW p \in Processes, Crash(p) PROVE TypeOK'
  BY <1>7 DEF Crash, Down
<1>8. ASSUME NEW i \in Seeds, CreateByEditor(i) PROVE TypeOK'
  BY <1>8 DEF CreateByEditor, startup
<1>9. ASSUME NEW a \in Names, Create(a) PROVE TypeOK'
  BY <1>9, InHand DEF Create, startup, User
<1>10. ASSUME NEW a \in Names, Update(a) PROVE TypeOK'
  <2>1. /\ edits < MaxEdits /\ edits' = edits + 1
        /\ edit[a] \in Change /\ users[edit[a].name].at = edit[a].row.at
        /\ users' = [users EXCEPT ![edit[a].name] = [edit[a].row EXCEPT !.at = @ + 1]]
        /\ edit[a].row.at <= edits
    BY <1>10, InHand DEF Update, ChangesOK, Change
  <2>2. [edit[a].row EXCEPT !.at = @ + 1] \in User
    BY <2>1 DEF Change, User
  <2>3. users' \in [Names -> User]
    BY <2>1, <2>2 DEF Change
  <2>4. orphaned' \in BOOLEAN
    BY <1>10, Zenon DEF Update
  <2> QED
    BY <1>10, <2>1, <2>3, <2>4 DEF Update, startup
<1>11. ASSUME NEW a \in Names, NEW n \in Names, NEW verb \in {"post", "put", "delete"},
              Admit(a, n, verb)
       PROVE  TypeOK'
  BY <1>11 DEF Admit, startup, Change, User, NoUser
<1>12. ASSUME NEW a \in Names, NEW n \in Names,
              CreateUser(a, n) \/ DeleteUser(a, n) \/ UpdateUser(a, n)
       PROVE  TypeOK'
  BY <1>11, <1>12 DEF CreateUser, DeleteUser, UpdateUser
<1>14. ASSUME NEW a \in Names, GetByID(a) PROVE TypeOK'
  <2>1. edit' \in [Names -> {Idle} \cup Change]
    BY <1>14, ReadStep
  <2> QED
    BY <1>14, <2>1 DEF GetByID, startup
<1>15. ASSUME NEW a \in Names, SignIn(a) \/ SignOut(a) PROVE TypeOK'
  BY <1>15 DEF SignIn, SignOut, startup
<1>16. ASSUME NEW a \in Names, Refused(a) PROVE TypeOK'
  BY <1>16 DEF Refused, startup
<1>13. CASE UNCHANGED vars
  BY <1>13 DEF vars, startup, accounts
<1> QED
  BY <1>1, <1>2, <1>3, <1>4, <1>5, <1>6, <1>7, <1>8, <1>9, <1>10, <1>12, <1>13,
     <1>14, <1>15, <1>16 DEF Next, Boot

-----------------------------------------------------------------------------
(* Accounts. *)

\* What a step other than Update does to the accounts: at most, it makes one.
LEMMA OtherSteps ==
  ASSUME IInv, [Next]_vars, \A a \in Names : ~Update(a)
  PROVE  /\ edits <= edits' /\ edits' \in Nat
         /\ \A n \in Names : users'[n] = users[n] \/ (users[n] = NoUser /\ users'[n].at = 0)
         /\ \A a \in Names :
              \/ edit'[a] \in {edit[a], Idle}
              \/ users[a] # NoUser /\ (edit'[a].verb = "delete" => edit'[a].name # a)
<1> USE ServerAssumption DEF IInv, TypeOK
<1>1. ASSUME NEW p \in Processes, Start(p) \/ Boot(p) PROVE UNCHANGED <<edits, edit>>
  BY <1>1 DEF Boot, Start, CountAdmins, CreateAdmin, CountAll, CreateAgent, CreateSeed,
              SeedFails, accounts
<1>2. ASSUME NEW p \in Processes, Start(p) \/ Boot(p)
      PROVE  \A n \in Names : users'[n] = users[n] \/ (users[n] = NoUser /\ users'[n].at = 0)
  BY <1>2 DEF Boot, Start, CountAdmins, CreateAdmin, CountAll, CreateAgent, CreateSeed,
              SeedFails, accounts
<1>3. ASSUME NEW p \in Processes, Crash(p)
      PROVE  UNCHANGED <<edits, users>> /\ \A a \in Names : edit'[a] \in {edit[a], Idle}
  BY <1>3 DEF Crash
<1>4. ASSUME NEW i \in Seeds, CreateByEditor(i)
      PROVE  UNCHANGED <<users, edit>> /\ edits' = edits + 1
  BY <1>4 DEF CreateByEditor
<1>5. ASSUME NEW a \in Names, Create(a)
      PROVE  /\ UNCHANGED edits
             /\ \A b \in Names : users'[b] = users[b] \/ (users[b] = NoUser /\ users'[b].at = 0)
             /\ \A b \in Names : edit'[b] \in {edit[b], Idle}
  BY <1>5, InHand DEF Create
<1>6. ASSUME NEW a \in Names, NEW n \in Names,
             CreateUser(a, n) \/ DeleteUser(a, n) \/ UpdateUser(a, n)
      PROVE  /\ UNCHANGED <<edits, users>>
             /\ \A b \in Names :
                  \/ edit'[b] = edit[b]
                  \/ users[b] # NoUser /\ (edit'[b].verb = "delete" => edit'[b].name # b)
  <2>1. ASSUME NEW verb, Admit(a, n, verb), verb = "delete" => a # n
        PROVE  /\ UNCHANGED <<edits, users>>
               /\ \A b \in Names :
                    \/ edit'[b] = edit[b]
                    \/ users[b] # NoUser /\ (edit'[b].verb = "delete" => edit'[b].name # b)
    BY <2>1 DEF Admit, LetIn, NoUser
  <2>2. CASE CreateUser(a, n)
    BY <2>1, <2>2 DEF CreateUser
  <2>3. CASE DeleteUser(a, n)
    BY <2>1, <2>3 DEF DeleteUser
  <2>4. CASE UpdateUser(a, n)
    BY <2>1, <2>4 DEF UpdateUser
  <2> QED
    BY <1>6, <2>2, <2>3, <2>4
<1>7. CASE UNCHANGED vars
  BY <1>7 DEF vars, accounts
<1>8. ASSUME NEW a \in Names, SignIn(a) \/ SignOut(a) \/ Refused(a)
      PROVE  UNCHANGED <<edits, users>> /\ \A b \in Names : edit'[b] \in {edit[b], Idle}
  BY <1>8 DEF SignIn, SignOut, Refused
<1>9. ASSUME NEW a \in Names, GetByID(a)
      PROVE  /\ UNCHANGED <<edits, users>>
             /\ \A b \in Names :
                  \/ edit'[b] = edit[b]
                  \/ users[b] # NoUser /\ (edit'[b].verb = "delete" => edit'[b].name # b)
  <2>1. edit[a] # Idle
    BY <1>9 DEF GetByID, Idle
  <2>2. /\ \A b \in Names \ {a} : edit'[b] = edit[b]
        /\ edit'[a].name = edit[a].name /\ edit'[a].verb = edit[a].verb
    BY <1>9, ReadStep
  <2>3. users[a] # NoUser /\ (edit[a].verb = "delete" => edit[a].name # a)
    BY <2>1 DEF ChangesOK
  <2>4. UNCHANGED <<edits, users>>
    BY <1>9 DEF GetByID
  <2> QED
    BY <2>2, <2>3, <2>4, Zenon
<1> QED
  BY <1>1, <1>2, <1>3, <1>4, <1>5, <1>6, <1>7, <1>8, <1>9 DEF Next

\* An Update writes the one row it was prepared for.
LEMMA UpdateStep ==
  ASSUME IInv, NEW a \in Names, Update(a)
  PROVE  /\ edit[a] \in Change /\ edit' = [edit EXCEPT ![a] = Idle]
         /\ edits' = edits + 1 /\ edit[a].row.at <= edits
         /\ \A n \in Names \ {edit[a].name} : users'[n] = users[n]
         /\ users'[edit[a].name].at = edit[a].row.at + 1
         /\ edit[a].verb = "delete" => edit[a].name # a
         /\ edit[a].row.at = users[edit[a].name].at
<1> USE DEF IInv, TypeOK
<1>1. edit[a] \in Change /\ edit[a].name \in Names /\ edit[a].row \in User /\ edit[a] # Idle
  BY InHand DEF Update, Idle
<1> QED
  BY <1>1 DEF Update, ChangesOK, User

\* Every step keeps the changes in preparation true to the rows they read.
LEMMA ChangesStep == IInv /\ [Next]_vars => ChangesOK'
<1> SUFFICES ASSUME IInv, [Next]_vars PROVE ChangesOK'
  OBVIOUS
<1> USE DEF ChangesOK, User
<1>1. ASSUME NEW a \in Names, Update(a) PROVE ChangesOK'
  <2>1. edit' = [edit EXCEPT ![a] = Idle]
    BY <1>1, UpdateStep
  <2>2. \A n \in Names : users'[n].at <= edits'
    BY <1>1, UpdateStep DEF IInv, TypeOK, Change
  <2>3. users'[edit[a].name] # NoUser
    <3>1. users'[edit[a].name].at = edit[a].row.at + 1 /\ edit[a].row.at \in Nat
      BY <1>1, UpdateStep DEF Change
    <3> QED
      BY <3>1 DEF NoUser
  <2>4. \A n \in Names : users[n] # NoUser => users'[n] # NoUser
    BY <1>1, <2>3, UpdateStep
  <2> QED
    BY <2>1, <2>2, <2>4 DEF IInv, TypeOK
<1>2. CASE \A a \in Names : ~Update(a)
  BY <1>2, OtherSteps DEF IInv, TypeOK
<1> QED
  BY <1>1, <1>2

\* Every step leaves an administrator.
LEMMA AdminStep == IInv /\ [Next]_vars => AdminInv'
<1> SUFFICES ASSUME IInv, [Next]_vars, ~orphaned',
                    \/ \E n \in Names : users'[n] # NoUser
                    \/ faults' = 0 /\ \E p \in Processes : Counted(p)'
             PROVE  \E n \in Names : IsAdmin(n)'
  BY DEF AdminInv
<1> USE ServerAssumption DEF IInv, TypeOK, IsAdmin, NoUser
<1> DEFINE Anyone == \/ \E n \in Names : users[n] # NoUser
                     \/ faults = 0 /\ \E p \in Processes : Counted(p)
           Kept == \E n \in Names : IsAdmin(n)'
<1>1. ASSUME Anyone, UNCHANGED <<orphaned, users>> PROVE Kept
  BY <1>1 DEF AdminInv
<1>2. ASSUME NEW p \in Processes, Start(p) PROVE Kept
  BY <1>1, <1>2 DEF Start, Goto, Counted, accounts
<1>3. ASSUME NEW p \in Processes, CountAdmins(p) PROVE Kept
  BY <1>1, <1>3 DEF CountAdmins, AdminLeft, Goto, Counted, accounts
<1>4. ASSUME NEW p \in Processes, CreateAdmin(p) PROVE Kept
  <2>1. CASE users["admin"] = NoUser
    BY <1>4, <2>1 DEF CreateAdmin
  <2>2. CASE users["admin"] # NoUser
    BY <1>1, <1>4, <2>2 DEF CreateAdmin
  <2> QED
    BY <2>1, <2>2
<1>5. ASSUME NEW p \in Processes, CountAll(p) PROVE Kept
  BY <1>1, <1>5 DEF CountAll, Counted, accounts
<1>6. ASSUME NEW p \in Processes, CreateAgent(p) PROVE Kept
  BY <1>1, <1>6 DEF CreateAgent, CreateSeed, Counted, accounts
<1>7. ASSUME NEW p \in Processes, SeedFails(p) PROVE Kept
  BY <1>1, <1>7 DEF SeedFails, accounts
<1>8. ASSUME NEW p \in Processes, Crash(p) PROVE Kept
  BY <1>1, <1>8 DEF Crash, Down, Counted
<1>9. ASSUME NEW i \in Seeds, CreateByEditor(i) PROVE Kept
  BY <1>1, <1>9 DEF CreateByEditor, startup, Counted
<1>10. ASSUME NEW a \in Names, Create(a) PROVE Kept
  <2> DEFINE n == edit[a].name
  <2>1. users[n] = NoUser /\ UNCHANGED orphaned /\ users[a] # NoUser
    BY <1>10 DEF Create, ChangesOK, Idle
  <2>2. PICK b \in Names : IsAdmin(b)
    BY <2>1 DEF AdminInv
  <2>3. b # n
    BY <2>1, <2>2
  <2>4. users'[b] = users[b]
    BY <1>10, <2>3 DEF Create
  <2> QED
    BY <2>2, <2>4
<1>11. ASSUME NEW a \in Names, Update(a) PROVE Kept
  <2>1. CASE AdminLeft'
    BY <2>1 DEF AdminLeft
  <2>2. CASE ~AdminLeft'
    <3>1. IsAdmin(a) /\ edit[a].name # a
      BY <1>11, <2>2, UpdateStep DEF Update, Change
    <3>2. users'[a] = users[a]
      BY <1>11, <3>1, UpdateStep
    <3> QED
      BY <3>1, <3>2
  <2> QED
    BY <2>1, <2>2
<1>12. ASSUME NEW a \in Names, NEW n \in Names,
              CreateUser(a, n) \/ DeleteUser(a, n) \/ UpdateUser(a, n)
       PROVE  Kept
  BY <1>1, <1>12 DEF CreateUser, DeleteUser, UpdateUser, Admit, startup, Counted
<1>14. ASSUME NEW a \in Names, SignIn(a) \/ SignOut(a) \/ GetByID(a) \/ Refused(a)
       PROVE  Kept
  BY <1>1, <1>14 DEF SignIn, SignOut, GetByID, Refused, startup, Counted
<1>13. CASE UNCHANGED vars
  BY <1>1, <1>13 DEF vars, startup, accounts, Counted
<1> QED
  BY <1>2, <1>3, <1>4, <1>5, <1>6, <1>7, <1>8, <1>9, <1>10, <1>11, <1>12, <1>13,
     <1>14 DEF Next, Boot

-----------------------------------------------------------------------------
(* Seeding. *)

\* An interval of what is left tells where it begins.
LEMMA OneBeginning ==
  ASSUME NEW p \in Processes, NEW m \in Seeds, NEW n \in Nat, ToDo(p, m), ToDo(p, n)
  PROVE  m = n
<1> USE ServerAssumption DEF Seeds
<1>1. m \in m..NumSeeds /\ m..NumSeeds = n..NumSeeds
  BY DEF ToDo
<1>2. n <= m /\ n \in n..NumSeeds
  BY <1>1
<1> QED
  BY <1>1, <1>2

\* A process that creates a seed creates the first of what it has left, and goes on
\* with the rest.
LEMMA CreateAgentStep ==
  ASSUME IInv, NEW p \in Processes, CreateAgent(p), NEW m \in Seeds, ToDo(p, m)
  PROVE  /\ agents[m] # "none" =>
              proc' = [proc EXCEPT ![p] = [pc |-> "serving", todo |-> {}]] /\ UNCHANGED agents
         /\ agents[m] = "none" =>
              /\ agents' = [agents EXCEPT ![m] = "seed"]
              /\ m = NumSeeds => proc' = [proc EXCEPT ![p] = [pc |-> "serving", todo |-> {}]]
              /\ m # NumSeeds =>
                   proc' = [proc EXCEPT ![p] =
                              [pc |-> "createAgent", todo |-> (m + 1)..NumSeeds]]
         /\ UNCHANGED <<faults, cutShort>>
<1>1. proc[p].todo = m..NumSeeds
  BY DEF ToDo
<1> QED
  BY <1>1, MinOfRest DEF CreateAgent, CreateSeed, Goto

\* A process that is not at the seeds afterwards, or has not moved.
LEMMA TodosStep == IInv /\ [Next]_vars => Todos'
<1> SUFFICES ASSUME IInv, [Next]_vars PROVE Todos'
  OBVIOUS
<1> USE ServerAssumption DEF IInv, TypeOK
<1>1. ASSUME NEW p \in Processes, NEW q \in Processes, CreateAgent(p),
             proc'[q].pc = "createAgent"
      PROVE  \E m \in Seeds : ToDo(q, m)'
  <2>1. PICK m \in Seeds : ToDo(p, m)
    BY <1>1 DEF CreateAgent, Todos
  <2>2. CASE q # p
    BY <1>1, <2>1, <2>2, CreateAgentStep DEF Todos, ToDo
  <2>3. CASE q = p
    BY <1>1, <2>1, <2>3, CreateAgentStep, MinOfRest DEF ToDo
  <2> QED
    BY <2>2, <2>3
<1>2. ASSUME NEW p \in Processes, NEW q \in Processes, CountAll(p),
             proc'[q].pc = "createAgent"
      PROVE  \E m \in Seeds : ToDo(q, m)'
  <2>1. 1 \in Seeds /\ Seeds = 1..NumSeeds
    BY DEF Seeds
  <2>2. CASE q # p
    BY <1>2, <2>2 DEF CountAll, Goto, Todos, ToDo
  <2>3. CASE q = p
    <3>1. ToDo(q, 1)'
      BY <1>2, <2>1, <2>3 DEF CountAll, Goto, ToDo
    <3> QED
      BY <2>1, <3>1
  <2> QED
    BY <2>2, <2>3
<1>3. ASSUME NEW p \in Processes,
             Start(p) \/ CountAdmins(p) \/ CreateAdmin(p) \/ SeedFails(p) \/ Crash(p)
      PROVE  Todos'
  BY <1>3 DEF Start, CountAdmins, CreateAdmin, SeedFails, Crash, Goto, Down, Todos, ToDo
<1>4. CASE UNCHANGED proc
  BY <1>4 DEF Todos, ToDo
<1>5. ASSUME NEW i \in Seeds, CreateByEditor(i) PROVE UNCHANGED proc
  BY <1>5 DEF CreateByEditor, startup
<1>6. ASSUME NEW a \in Names, NEW n \in Names,
             \/ SignIn(a) \/ SignOut(a) \/ Create(a) \/ GetByID(a) \/ Update(a) \/ Refused(a)
             \/ CreateUser(a, n) \/ DeleteUser(a, n) \/ UpdateUser(a, n)
      PROVE  UNCHANGED proc
  BY <1>6 DEF SignIn, SignOut, Create, GetByID, Update, Refused, CreateUser, DeleteUser, UpdateUser,
              Admit, startup
<1>7. UNCHANGED vars => UNCHANGED proc
  BY DEF vars, startup
<1> QED
  BY <1>1, <1>2, <1>3, <1>4, <1>5, <1>6, <1>7 DEF Next, Boot, Todos

\* What the seeding amounts to, told of one k, in the next state as in this one.
LEMMA PrefixKept ==
  ASSUME NEW k \in 0..NumSeeds, Prefix(k), UNCHANGED agents,
         \A p \in Processes, m \in Seeds : ToDo(p, m)' => ToDo(p, m) \/ m = 1,
         \A p \in Processes : k # 0 /\ k # NumSeeds /\ ToDo(p, k + 1) => ToDo(p, k + 1)',
         SomeoneServes' => k # 0
  PROVE  Prefix(k)'
BY ServerAssumption DEF Prefix, Seeds

\* A process that creates a seed it finds absent moves k on; one that finds it
\* there leaves k to the process that is at the next.
LEMMA CreateAgentPrefix ==
  ASSUME IInv, NEW p \in Processes, CreateAgent(p), NEW k \in 0..NumSeeds, Prefix(k)
  PROVE  \E n \in 0..NumSeeds : Prefix(n)'
<1> USE ServerAssumption DEF IInv, TypeOK
<1>1. PICK m \in Seeds : ToDo(p, m)
  BY DEF CreateAgent, Todos
<1>2. m \in 1..NumSeeds /\ NumSeeds \in Nat
  BY DEF Seeds
<1>3. ASSUME agents[m] # "none" PROVE Prefix(k)'
  <2>1. proc' = [proc EXCEPT ![p] = [pc |-> "serving", todo |-> {}]] /\ UNCHANGED agents
    BY <1>1, <1>3, CreateAgentStep
  <2>2. m <= k
    BY <1>3 DEF Prefix
  <2>3. ~ToDo(p, k + 1)
    BY <1>1, <1>2, <2>2, OneBeginning
  <2>4. \A q \in Processes, n \in Seeds : ToDo(q, n)' => ToDo(q, n)
    BY <2>1 DEF ToDo
  <2>5. \A q \in Processes : ToDo(q, k + 1) => ToDo(q, k + 1)'
    BY <2>1, <2>3 DEF ToDo
  <2>6. k # 0
    BY <1>2, <2>2
  <2> QED
    BY <2>1, <2>4, <2>5, <2>6, PrefixKept
<1>4. ASSUME agents[m] = "none" PROVE Prefix(m)'
  <2>1. m = k + 1
    <3>1. ~(m <= k) /\ m <= k + 1
      BY <1>1, <1>4 DEF Prefix
    <3> QED
      BY <1>2, <3>1
  <2>2. agents' = [agents EXCEPT ![m] = "seed"]
    BY <1>1, <1>4, CreateAgentStep
  <2>3. \A i \in Seeds : agents'[i] # "none" <=> i <= m
    <3>1. \A i \in Seeds : agents[i] # "none" <=> i <= k
      BY DEF Prefix
    <3>2. \A i \in Seeds : agents'[i] # "none" <=> agents[i] # "none" \/ i = m
      BY <2>2
    <3>3. \A i \in Seeds : i <= m <=> i <= k \/ i = m
      BY <1>2, <2>1 DEF Seeds
    <3> QED
      BY <3>1, <3>2, <3>3
  <2>4. \A q \in Processes : q # p => proc'[q] = proc[q]
    BY <1>1, <1>4, CreateAgentStep
  <2>5. m # NumSeeds => ToDo(p, m + 1)'
    BY <1>1, <1>4, CreateAgentStep DEF ToDo
  <2>6. m = NumSeeds => proc'[p].pc = "serving"
    BY <1>1, <1>4, CreateAgentStep
  <2>7. ASSUME NEW q \in Processes, NEW n \in Seeds, ToDo(q, n)' PROVE n <= m + 1
    <3>1. CASE q # p
      <4>1. ToDo(q, n)
        BY <2>4, <2>7, <3>1 DEF ToDo
      <4>2. n <= k + 1
        BY <4>1 DEF Prefix
      <4> QED
        BY <1>2, <2>1, <4>2 DEF Seeds
    <3>2. CASE q = p
      <4>1. m # NumSeeds
        BY <2>6, <2>7, <3>2 DEF ToDo
      <4>2. n..NumSeeds = (m + 1)..NumSeeds
        BY <2>5, <2>7, <3>2, <4>1 DEF ToDo
      <4>3. m + 1 \in (m + 1)..NumSeeds
        BY <1>2, <4>1
      <4> QED
        BY <4>2, <4>3, <1>2 DEF Seeds
    <3> QED
      BY <3>1, <3>2
  <2> QED
    BY <1>2, <2>3, <2>5, <2>7 DEF Prefix
<1> QED
  BY <1>2, <1>3, <1>4

\* Every step keeps the seeds a prefix, with a process at the next one.
LEMMA SeedStep == IInv /\ [Next]_vars => SeedInv'
<1> SUFFICES ASSUME IInv, [Next]_vars, faults' = 0, ~cutShort', Unedited'
             PROVE  \E k \in 0..NumSeeds : Prefix(k)'
  BY DEF SeedInv
<1> USE ServerAssumption DEF IInv, TypeOK
<1> DEFINE Goal == \E k \in 0..NumSeeds : Prefix(k)'
<1>1. ASSUME UNCHANGED <<agents, proc, faults, cutShort>> PROVE Goal
  BY <1>1 DEF SeedInv, Unedited, Prefix, ToDo, SomeoneServes, Serving
<1>2. ASSUME UNCHANGED <<agents, faults>>, ~cutShort
      PROVE  \E k \in 0..NumSeeds : Prefix(k)
  BY <1>2 DEF SeedInv, Unedited
<1>3. ASSUME NEW p \in Processes, Start(p) \/ CountAdmins(p) \/ CreateAdmin(p) PROVE Goal
  <2>1. /\ UNCHANGED <<agents, faults, cutShort>>
        /\ proc[p].pc \in {"down", "countAdmins", "createAdmin"}
        /\ \E pc \in {"countAdmins", "createAdmin", "countAgents"} : Goto(p, pc, {})
    BY <1>3 DEF Start, CountAdmins, CreateAdmin, accounts, Down
  <2>2. PICK k \in 0..NumSeeds : Prefix(k)
    BY <1>2, <2>1
  <2>3. \A q \in Processes, m \in Nat : ToDo(q, m)' <=> ToDo(q, m)
    BY <2>1 DEF Goto, ToDo
  <2>4. SomeoneServes' => SomeoneServes
    BY <2>1 DEF Goto, SomeoneServes, Serving
  <2>5. Prefix(k)'
    BY <2>1, <2>2, <2>3, <2>4 DEF Prefix, Seeds
  <2> QED
    BY <2>5
<1>4. ASSUME NEW p \in Processes, CountAll(p) PROVE Goal
  <2>1. UNCHANGED <<agents, faults, cutShort>> /\ proc[p].pc = "countAgents"
    BY <1>4 DEF CountAll, accounts
  <2>2. PICK k \in 0..NumSeeds : Prefix(k)
    BY <1>2, <2>1
  <2>3. \A q \in Processes : q # p => proc'[q] = proc[q]
    BY <1>4 DEF CountAll, Goto
  <2>4. CASE \E i \in Seeds : agents[i] # "none"
    <3>1. Goto(p, "serving", {})
      BY <1>4, <2>4 DEF CountAll
    <3>2. k # 0
      BY <2>2, <2>4 DEF Prefix, Seeds
    <3>3. \A q \in Processes, m \in Nat : ToDo(q, m)' <=> ToDo(q, m)
      BY <2>1, <3>1 DEF Goto, ToDo
    <3>4. Prefix(k)'
      BY <2>1, <2>2, <3>2, <3>3 DEF Prefix, Seeds
    <3> QED
      BY <3>4
  <2>5. CASE \A i \in Seeds : agents[i] = "none"
    <3>1. Goto(p, "createAgent", 1..NumSeeds)
      BY <1>4, <2>5 DEF CountAll, Seeds
    <3>2. k = 0
      <4>1. 1 \in Seeds
        BY DEF Seeds
      <4> QED
        BY <2>2, <2>5, <4>1 DEF Prefix
    <3>3. SomeoneServes' => SomeoneServes
      BY <3>1 DEF Goto, SomeoneServes, Serving
    <3>4. ASSUME NEW q \in Processes, NEW m \in Seeds, ToDo(q, m)' PROVE m <= 1
      <4>1. CASE q # p
        BY <2>2, <2>3, <3>2, <3>4, <4>1 DEF ToDo, Prefix
      <4>2. CASE q = p
        <5>1. m..NumSeeds = 1..NumSeeds
          BY <3>1, <3>4, <4>2 DEF Goto, ToDo
        <5>2. 1 \in 1..NumSeeds /\ m \in 1..NumSeeds
          BY DEF Seeds
        <5> QED
          BY <5>1, <5>2
      <4> QED
        BY <4>1, <4>2
    <3>5. Prefix(0)'
      BY <2>1, <2>2, <3>2, <3>3, <3>4 DEF Prefix
    <3> QED
      BY <3>5
  <2> QED
    BY <2>4, <2>5
<1>5. ASSUME NEW p \in Processes, CreateAgent(p) PROVE Goal
  <2>1. UNCHANGED <<faults, cutShort>>
    BY <1>5 DEF CreateAgent, CreateSeed
  <2>2. Unedited
    BY <1>5 DEF CreateAgent, CreateSeed, Unedited
  <2> QED
    BY <1>5, <2>1, <2>2, CreateAgentPrefix DEF SeedInv
<1>6. ASSUME NEW p \in Processes, SeedFails(p) PROVE Goal
  BY <1>6 DEF SeedFails
<1>7. ASSUME NEW p \in Processes, Crash(p) PROVE Goal
  <2>1. UNCHANGED <<agents, faults>> /\ ~cutShort /\ proc[p].pc # "createAgent"
    BY <1>7 DEF Crash
  <2>2. PICK k \in 0..NumSeeds : Prefix(k)
    BY <1>2, <2>1
  <2>3. \A q \in Processes, m \in Nat : ToDo(q, m)' <=> ToDo(q, m)
    BY <1>7, <2>1 DEF Crash, Down, ToDo
  <2>4. SomeoneServes' => SomeoneServes
    BY <1>7 DEF Crash, Down, SomeoneServes, Serving
  <2>5. Prefix(k)'
    BY <2>1, <2>2, <2>3, <2>4 DEF Prefix, Seeds
  <2> QED
    BY <2>5
<1>8. ASSUME NEW i \in Seeds, CreateByEditor(i) PROVE Goal
  BY <1>8 DEF CreateByEditor, Unedited
<1>9. ASSUME NEW a \in Names, NEW n \in Names,
             \/ SignIn(a) \/ SignOut(a) \/ Create(a) \/ GetByID(a) \/ Update(a) \/ Refused(a)
             \/ CreateUser(a, n) \/ DeleteUser(a, n) \/ UpdateUser(a, n)
      PROVE  UNCHANGED <<agents, proc, faults, cutShort>>
  BY <1>9 DEF SignIn, SignOut, Create, GetByID, Update, Refused, CreateUser, DeleteUser, UpdateUser,
              Admit, startup
<1>10. UNCHANGED vars => UNCHANGED <<agents, proc, faults, cutShort>>
  BY DEF vars, startup
<1> QED
  BY <1>1, <1>3, <1>4, <1>5, <1>6, <1>7, <1>8, <1>9, <1>10 DEF Next, Boot

-----------------------------------------------------------------------------
(* The theorems. *)

\* The invariant holds in every reachable state.
LEMMA Invariance == Spec => []IInv
<1>1. Init => IInv
  BY InvInit
<1>2. IInv /\ [Next]_vars => IInv'
  BY TypeStep, ChangesStep, AdminStep, TodosStep, SeedStep DEF IInv
<1> QED
  BY <1>1, <1>2, PTL DEF Spec

\* Every reachable state of the start-up is of its types: a process has seeds left
\* to create exactly while it creates them.
THEOREM TypeCorrect == Spec => []TypeOK
BY Invariance, PTL DEF IInv

\* However many processes start, race and crash, and whoever has been deactivated
\* with a session that goes on, there is an active administrator from the first
\* account on, and on any process that serves after its seedDefaultAdmin succeeded;
\* the last one goes with a PUT of itself or by the hand of one removed before it.
THEOREM AdminStays == Spec => []AdminKept
<1>1. IInv => AdminKept
  BY DEF IInv, AdminInv, AdminKept, AdminLeft, SomeoneServes, Serving, Counted
<1> QED
  BY <1>1, Invariance, PTL

\* However many processes seed the agents at once, all are there once none is at it
\* and one serves: SeedAgents, but for what SeedComplete excepts.
THEOREM Seeded == Spec => []SeedComplete
<1>1. ASSUME IInv, SomeoneServes, faults = 0, ~cutShort, Unedited,
             \A p \in Processes : proc[p].pc \in {"down", "serving"}
      PROVE  \A i \in Seeds : agents[i] = "seed"
  <2>1. PICK k \in 0..NumSeeds : Prefix(k)
    BY <1>1 DEF IInv, SeedInv
  <2>2. k # 0
    BY <1>1, <2>1 DEF Prefix
  <2>3. k = NumSeeds
    BY <1>1, <2>1, <2>2 DEF Prefix, ToDo
  <2>4. \A i \in Seeds : i <= k
    BY <2>3, ServerAssumption DEF Seeds
  <2> QED
    BY <1>1, <2>1, <2>4 DEF Prefix, Unedited, IInv, TypeOK
<1>2. IInv => SeedComplete
  BY <1>1 DEF SeedComplete, Unedited
<1> QED
  BY <1>2, Invariance, PTL
=============================================================================
