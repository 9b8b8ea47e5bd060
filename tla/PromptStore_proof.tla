-------------------------- MODULE PromptStore_proof --------------------------
(***************************************************************************)
(* Proofs about PromptStore, for any number of clients and prompts.  A     *)
(* prompt's version is chosen long before it is inserted; the inductive    *)
(* invariant says what is still true of it, and of the deactivation, when  *)
(* the transaction commits.                                                *)
(***************************************************************************)
EXTENDS PromptStore, FiniteSetTheorems, SequenceTheorems, TLAPS

Count == Cardinality(DOMAIN prompts)

Chosen(c) == req[c].pc \in {"deactivate", "sweep", "commit"}

Requests ==
  [pc : {"idle", "find", "begin", "deactivate", "sweep", "commit"},
   op : {"none", "create", "rollback", "activate"},
   target : 0..MaxVersion, todo : SUBSET DOMAIN prompts,
   held : SUBSET DOMAIN prompts, alone : BOOLEAN]

Sweeping(c) == req[c].pc \in {"sweep", "commit"}

\* A chosen version is the next one, or has been taken meanwhile; an
\* activation chooses none, and its target exists.
TargetsInReach ==
  \A c \in Clients :
    /\ req[c].pc = "begin" => req[c].op # "activate"
    /\ Chosen(c) => IF req[c].op = "activate" THEN req[c].target \in DOMAIN prompts
                                              ELSE req[c].target \in 1..(Count + 1)

\* UNIQUE(agent_id, version): of the inserted versions none is committed, and
\* no two are the same.
KeysFree ==
  \A c \in Clients : req[c].pc = "commit" /\ req[c].op # "activate" =>
    /\ req[c].target \notin DOMAIN prompts
    /\ \A d \in Clients \ {c} : req[d].pc = "commit" /\ req[d].op # "activate" =>
         req[d].target # req[c].target

\* While nobody else commits, a sweep leaves no active row out.
SweepComplete ==
  \A c \in Clients : Sweeping(c) =>
    /\ req[c].alone => Active \subseteq req[c].todo \cup req[c].held
    /\ req[c].pc = "commit" => req[c].todo = {}

\* Without activations every commit takes a version, so whoever still has the
\* next one has seen no commit since its sweep started.
NextIsAlone ==
  ~activated =>
    \A c \in Clients :
      /\ req[c].op # "activate"
      /\ Sweeping(c) /\ req[c].target = Count + 1 => req[c].alone

IInv == /\ TypeOK
        /\ VersionsContiguous
        /\ TargetsInReach
        /\ KeysFree
        /\ SweepComplete
        /\ NextIsAlone
        /\ ActiveIsNewest

-----------------------------------------------------------------------------
(***************************************************************************)
(* What the invariant says of the versions.                                *)
(***************************************************************************)

\* The largest of the numbers up to n is n.
LEMMA MaxOfInterval ==
  ASSUME NEW n \in Nat
  PROVE  /\ Max(1..n \cup {0}) = n
         /\ 1..n # {} => Max(1..n) = n
<1>1. \A S \in {1..n, 1..n \cup {0}} : n \in S => Max(S) = n
  <2> SUFFICES ASSUME NEW S \in {1..n, 1..n \cup {0}}, n \in S PROVE Max(S) = n
    OBVIOUS
  <2>1. S \subseteq 0..n
    OBVIOUS
  <2>2. \A x \in S : (\A y \in S : x >= y) <=> x = n
    BY <2>1
  <2> QED
    BY <2>2 DEF Max
<1>2. n \in 1..n \cup {0}
  OBVIOUS
<1>3. 1..n # {} => n \in 1..n
  OBVIOUS
<1> QED
  BY <1>1, <1>2, <1>3

\* The versions are those up to their number, which is the largest.
LEMMA CountIsMax ==
  ASSUME TypeOK, VersionsContiguous
  PROVE  /\ Count \in Nat
         /\ DOMAIN prompts = 1..Count
         /\ Max(DOMAIN prompts \cup {0}) = Count
         /\ DOMAIN prompts # {} => Max(DOMAIN prompts) = Count
<1>1. IsFiniteSet(1..MaxVersion)
  BY MaxVersionAssumption, FS_Interval
<1>2. IsFiniteSet(DOMAIN prompts)
  BY <1>1, FS_Subset DEF TypeOK
<1>3. Count \in Nat /\ DOMAIN prompts = 1..Count
  BY <1>2, FS_CardinalityType DEF Count, VersionsContiguous
<1> QED
  BY <1>3, MaxOfInterval

\* What a commit does to the versions: an insertion takes the next one, an
\* activation takes none.
LEMMA CommitTakesNext ==
  ASSUME IInv, NEW c \in Clients, Commit(c)
  PROVE  /\ DOMAIN prompts' = DOMAIN prompts \cup {req[c].target}
         /\ req[c].target \in 1..Count'
         /\ Count <= Count' /\ 1..(Count + 1) \subseteq 1..(Count' + 1)
         /\ req[c].op = "activate" =>
              req[c].target \in DOMAIN prompts /\ Count' = Count
         /\ req[c].op # "activate" =>
              /\ req[c].target = Count + 1
              /\ Count' = Count + 1
         /\ Count' \in Nat
         /\ DOMAIN prompts' = 1..Count'
<1>1. DOMAIN prompts' = DOMAIN prompts \cup {req[c].target}
  BY DEF Commit
<1>2. Count \in Nat /\ DOMAIN prompts = 1..Count
  BY CountIsMax DEF IInv
<1>3. CASE req[c].op = "activate"
  <2>1. req[c].target \in DOMAIN prompts
    BY <1>3 DEF IInv, TargetsInReach, Chosen, Commit
  <2>2. DOMAIN prompts' = DOMAIN prompts
    BY <1>1, <2>1
  <2>3. Count' = Count
    BY <2>2 DEF Count
  <2>4. Count <= Count' /\ 1..(Count + 1) \subseteq 1..(Count' + 1)
    BY <1>2, <2>3
  <2> QED
    BY <1>1, <1>2, <1>3, <2>1, <2>2, <2>3, <2>4
<1>4. CASE req[c].op # "activate"
  <2>1. req[c].target \in 1..(Count + 1) /\ req[c].target \notin 1..Count
    BY <1>2, <1>4 DEF IInv, TargetsInReach, KeysFree, Chosen, Commit
  <2>2. req[c].target = Count + 1
    BY <1>2, <2>1
  <2>3. DOMAIN prompts' = 1..(Count + 1)
    BY <1>1, <1>2, <2>2
  <2>4. Cardinality(1..(Count + 1)) = Count + 1
    BY <1>2, FS_Interval
  <2>5. Count' = Count + 1
    BY <2>3, <2>4 DEF Count
  <2>6. Count <= Count' /\ 1..(Count + 1) \subseteq 1..(Count' + 1)
    BY <1>2, <2>5
  <2>7. req[c].target \in 1..Count'
    BY <1>2, <2>2, <2>5
  <2> QED
    BY <1>1, <1>2, <1>4, <2>2, <2>3, <2>5, <2>6, <2>7
<1> QED
  BY <1>3, <1>4

\* Only Commit changes the prompts, and with them the count.
LEMMA OnlyCommits == [Next]_vars => (\E c \in Clients : Commit(c)) \/ prompts' = prompts
  BY DEF Next, vars, RequestCreate, RequestRollback, RequestActivate, Accept,
         Find, ReadMax, StartDeactivate, DeactivateRow, Insert, ActivateRow,
         Abort, Crash

\* What changes no prompt changes neither their number nor the active ones.
LEMMA CountKept == prompts' = prompts => Count' = Count /\ Active' = Active
  BY DEF Count, Active

-----------------------------------------------------------------------------
(***************************************************************************)
(* The invariant holds initially.                                          *)
(***************************************************************************)

\* The invariant holds in every initial state.
LEMMA InvInit == Init => IInv
<1> SUFFICES ASSUME Init PROVE IInv
  OBVIOUS
<1>1. DOMAIN prompts = {}
  BY DEF Init
<1>2. VersionsContiguous
  BY <1>1, FS_EmptySet DEF VersionsContiguous
<1>3. TypeOK
  <2>1. Idle \in Requests
    BY MaxVersionAssumption DEF Idle, Requests
  <2>2. req \in [Clients -> Requests]
    BY <2>1 DEF Init
  <2> QED
    BY <1>1, <2>2 DEF Init, TypeOK, Requests
<1>4. TargetsInReach /\ KeysFree /\ SweepComplete /\ NextIsAlone /\ ActiveIsNewest
  BY <1>1 DEF Init, Idle, TargetsInReach, KeysFree, SweepComplete, NextIsAlone,
              ActiveIsNewest, Chosen, Sweeping
<1> QED
  BY <1>2, <1>3, <1>4 DEF IInv

-----------------------------------------------------------------------------
(***************************************************************************)
(* Type correctness.                                                       *)
(***************************************************************************)

\* A step that replaces one request by another well-typed one.
LEMMA OneRequestType ==
  ASSUME TypeOK, NEW c \in Clients, NEW r \in Requests, req' = [req EXCEPT ![c] = r],
         prompts' = prompts, activated' \in BOOLEAN
  PROVE  TypeOK'
<1>1. req' \in [Clients -> Requests]
  BY DEF TypeOK, Requests
<1> QED
  BY <1>1 DEF TypeOK, Requests

\* A request that arrives is well typed.
LEMMA AcceptType ==
  ASSUME TypeOK, NEW c \in Clients, NEW pc \in {"begin", "find"},
         NEW op \in {"create", "rollback", "activate"}, NEW v \in 0..MaxVersion,
         Accept(c, pc, op, v)
  PROVE  TypeOK'
<1>1. [Idle EXCEPT !.pc = pc, !.op = op, !.target = v] \in Requests
  BY DEF Idle, Requests
<1> QED
  BY <1>1, OneRequestType DEF Accept, TypeOK

\* Every step keeps the types.
LEMMA TypeStep == IInv /\ [Next]_vars => TypeOK'
<1> SUFFICES ASSUME IInv, [Next]_vars PROVE TypeOK'
  OBVIOUS
<1> USE MaxVersionAssumption
<1>t. TypeOK
  BY DEF IInv
<1>1. ASSUME NEW c \in Clients, RequestCreate(c) PROVE TypeOK'
  BY <1>t, <1>1, AcceptType DEF RequestCreate
<1>2. ASSUME NEW c \in Clients, RequestRollback(c) PROVE TypeOK'
  BY <1>t, <1>2, AcceptType DEF RequestRollback
<1>3. ASSUME NEW c \in Clients, RequestActivate(c) PROVE TypeOK'
  BY <1>t, <1>3, AcceptType DEF RequestActivate
<1>i. Idle \in Requests /\ req \in [Clients -> Requests]
  BY <1>t DEF Idle, Requests, TypeOK
<1>4. ASSUME NEW c \in Clients, Find(c) PROVE TypeOK'
  <2>1. \A pc \in {"deactivate", "begin"} : [req[c] EXCEPT !.pc = pc] \in Requests
    BY <1>i DEF Requests
  <2> QED
    BY <1>t, <1>i, <1>4, <2>1, OneRequestType DEF Find, TypeOK
<1>5. ASSUME NEW c \in Clients, ReadMax(c) PROVE TypeOK'
  <2>1. Count < MaxVersion /\ Count \in Nat
    BY <1>5, CountIsMax DEF IInv, ReadMax
  <2>2. /\ req' = [req EXCEPT ![c].pc = "deactivate", ![c].target = Count + 1]
        /\ UNCHANGED <<prompts, activated>>
    BY <1>5, CountIsMax DEF IInv, ReadMax
  <2>3. Count + 1 \in 0..MaxVersion
    BY <2>1
  <2> DEFINE r == [req[c] EXCEPT !.pc = "deactivate", !.target = Count + 1]
  <2>4. r \in Requests
    BY <1>i, <2>3 DEF Requests
  <2>5. req' = [req EXCEPT ![c] = r]
    BY <1>i, <2>2
  <2> QED
    BY <1>t, <2>2, <2>4, <2>5, OneRequestType DEF TypeOK
<1>6. ASSUME NEW c \in Clients, StartDeactivate(c) PROVE TypeOK'
  <2> DEFINE r == [req[c] EXCEPT !.pc = "sweep", !.todo = Active, !.alone = TRUE]
  <2>1. r \in Requests
    BY <1>i DEF Requests, Active
  <2>2. req' = [req EXCEPT ![c] = r]
    BY <1>i, <1>6 DEF StartDeactivate
  <2> QED
    BY <1>t, <1>6, <2>1, <2>2, OneRequestType DEF StartDeactivate, TypeOK
<1>7. ASSUME NEW c \in Clients, DeactivateRow(c) PROVE TypeOK'
  <2>1. PICK v \in req[c].todo :
          req' = [req EXCEPT ![c].todo = @ \ {v},
                             ![c].held = IF v \in Active THEN @ \cup {v} ELSE @]
    BY <1>7 DEF DeactivateRow
  <2> DEFINE r == [req[c] EXCEPT !.todo = @ \ {v},
                                 !.held = IF v \in Active THEN @ \cup {v} ELSE @]
  <2>2. r \in Requests
    BY <1>i DEF Requests, Active
  <2>3. req' = [req EXCEPT ![c] = r]
    BY <1>i, <2>1
  <2> QED
    BY <1>t, <1>7, <2>2, <2>3, OneRequestType DEF DeactivateRow, TypeOK
<1>8. ASSUME NEW c \in Clients, Insert(c) PROVE TypeOK'
  <2>1. [req[c] EXCEPT !.pc = "commit"] \in Requests
    BY <1>i DEF Requests
  <2> QED
    BY <1>t, <1>i, <1>8, <2>1, OneRequestType DEF Insert, TypeOK
<1>9. ASSUME NEW c \in Clients, ActivateRow(c) PROVE TypeOK'
  <2>1. req[c].target \in DOMAIN prompts
    BY <1>9 DEF IInv, ActivateRow, TargetsInReach, Chosen
  <2> DEFINE r == [req[c] EXCEPT !.pc = "commit", !.held = @ \cup {req[c].target}]
  <2>2. r \in Requests
    BY <1>i, <2>1 DEF Requests
  <2>3. req' = [req EXCEPT ![c] = r]
    BY <1>i, <1>9 DEF ActivateRow
  <2> QED
    BY <1>t, <1>9, <2>2, <2>3, OneRequestType DEF ActivateRow, TypeOK
<1>10. ASSUME NEW c \in Clients, Commit(c) PROVE TypeOK'
  <2>1. req[c].target \in 1..MaxVersion
    <3>1. req[c].target \in 1..Count' /\ Count' \in Nat /\ req[c].target \in 0..MaxVersion
      BY <1>t, <1>10, CommitTakesNext DEF TypeOK
    <3> QED
      BY <3>1
  <2>2. DOMAIN prompts' = DOMAIN prompts \cup {req[c].target}
    BY <1>10, CommitTakesNext
  <2>3. \A v \in DOMAIN prompts' : prompts'[v] \in [active : BOOLEAN, by : Clients]
    <3> SUFFICES ASSUME NEW v \in DOMAIN prompts'
                 PROVE  prompts'[v] \in [active : BOOLEAN, by : Clients]
      OBVIOUS
    <3>1. req[c].op = "activate" => req[c].target \in DOMAIN prompts
      BY <1>10, CommitTakesNext
    <3>2. v # req[c].target => v \in DOMAIN prompts
      BY <2>2
    <3>3. /\ prompts'[v].active \in BOOLEAN
          /\ prompts'[v].by = IF v = req[c].target /\ req[c].op # "activate"
                              THEN c ELSE prompts[v].by
          /\ prompts'[v] = [active |-> prompts'[v].active, by |-> prompts'[v].by]
      BY <1>t, <1>10, <2>2, <3>2 DEF Commit, TypeOK
    <3> QED
      BY <1>t, <3>1, <3>2, <3>3 DEF TypeOK
  <2> DEFINE T == [pc : {"idle", "find", "begin", "deactivate", "sweep", "commit"},
                   op : {"none", "create", "rollback", "activate"},
                   target : 0..MaxVersion, todo : SUBSET DOMAIN prompts',
                   held : SUBSET DOMAIN prompts', alone : BOOLEAN]
  <2>4. Idle \in T /\ req \in [Clients -> T]
    BY <1>t, <2>2 DEF TypeOK, Idle
  <2>5. \A d \in Clients :
          [req[d] EXCEPT !.alone = req[d].pc \notin {"sweep", "commit"}] \in T
    BY <2>4
  <2>6. req' \in [Clients -> T]
    <3> HIDE DEF T
    <3> QED
      BY <1>10, <2>4, <2>5 DEF Commit
  <2>7. DOMAIN prompts' \subseteq 1..MaxVersion
    BY <1>t, <2>1, <2>2 DEF TypeOK
  <2> QED
    BY <1>t, <1>10, <2>3, <2>6, <2>7 DEF Commit, TypeOK
<1>11. ASSUME NEW c \in Clients, Abort(c) PROVE TypeOK'
  BY <1>t, <1>i, <1>11, OneRequestType DEF Abort, TypeOK
<1>12. ASSUME Crash PROVE TypeOK'
  BY <1>t, <1>12 DEF Crash, TypeOK, Idle
<1>13. ASSUME UNCHANGED vars PROVE TypeOK'
  BY <1>t, <1>13 DEF vars, TypeOK
<1> QED
  BY <1>1, <1>2, <1>3, <1>4, <1>5, <1>6, <1>7, <1>8, <1>9, <1>10, <1>11, <1>12, <1>13 DEF Next

-----------------------------------------------------------------------------
(***************************************************************************)
(* Versions: contiguous, and every chosen one in reach.                    *)
(***************************************************************************)

\* Every step keeps the versions contiguous.
LEMMA ContiguousStep == IInv /\ [Next]_vars => VersionsContiguous'
<1> SUFFICES ASSUME IInv, [Next]_vars PROVE VersionsContiguous'
  OBVIOUS
<1>1. ASSUME NEW c \in Clients, Commit(c) PROVE VersionsContiguous'
  BY <1>1, CommitTakesNext DEF VersionsContiguous, Count
<1>2. CASE prompts' = prompts
  BY <1>2 DEF IInv, VersionsContiguous
<1> QED
  BY <1>1, <1>2, OnlyCommits

\* Every step keeps the versions that requests have chosen in reach.
LEMMA TargetsStep == IInv /\ [Next]_vars => TargetsInReach'
<1> SUFFICES ASSUME IInv, [Next]_vars PROVE TargetsInReach'
  OBVIOUS
<1>t. TypeOK /\ TargetsInReach
  BY DEF IInv
<1>n. Count \in Nat /\ DOMAIN prompts = 1..Count
  BY CountIsMax DEF IInv
<1> USE DEF TargetsInReach, Chosen
<1>1. ASSUME NEW c \in Clients, NEW pc \in {"begin", "find"}, NEW op, NEW v,
             Accept(c, pc, op, v), pc = "begin" => op # "activate"
      PROVE  TargetsInReach'
  BY <1>t, <1>1, CountKept DEF Accept, TypeOK, Idle
<1>2. ASSUME NEW c \in Clients, Find(c) PROVE TargetsInReach'
  BY <1>t, <1>2, CountKept DEF Find, TypeOK, Idle
<1>3. ASSUME NEW c \in Clients, ReadMax(c) PROVE TargetsInReach'
  <2>1. /\ req' = [req EXCEPT ![c].pc = "deactivate", ![c].target = Count + 1]
        /\ prompts' = prompts
        /\ req[c].op # "activate"
    BY <1>t, <1>3, CountIsMax DEF IInv, ReadMax
  <2>2. Count + 1 \in 1..(Count + 1)
    BY <1>n
  <2> QED
    BY <1>t, <2>1, <2>2, CountKept DEF TypeOK
<1>4. ASSUME NEW c \in Clients, StartDeactivate(c) PROVE TargetsInReach'
  BY <1>t, <1>4, CountKept DEF StartDeactivate, TypeOK
<1>5. ASSUME NEW c \in Clients, DeactivateRow(c) PROVE TargetsInReach'
  BY <1>t, <1>5, CountKept DEF DeactivateRow, TypeOK
<1>6. ASSUME NEW c \in Clients, Insert(c) PROVE TargetsInReach'
  BY <1>t, <1>6, CountKept DEF Insert, TypeOK, Idle
<1>7. ASSUME NEW c \in Clients, ActivateRow(c) PROVE TargetsInReach'
  BY <1>t, <1>7, CountKept DEF ActivateRow, TypeOK
<1>8. ASSUME NEW c \in Clients, Commit(c) PROVE TargetsInReach'
  <2>1. /\ DOMAIN prompts \subseteq DOMAIN prompts'
        /\ 1..(Count + 1) \subseteq 1..(Count' + 1)
    BY <1>8, CommitTakesNext
  <2>2. \A d \in Clients :
          IF d = c THEN req'[d] = Idle
          ELSE /\ req'[d].pc = req[d].pc /\ req'[d].op = req[d].op
               /\ req'[d].target = req[d].target
    BY <1>t, <1>8 DEF Commit, TypeOK
  <2> QED
    BY <1>t, <2>1, <2>2 DEF Idle
<1>9. ASSUME NEW c \in Clients, Abort(c) PROVE TargetsInReach'
  BY <1>t, <1>9, CountKept DEF Abort, TypeOK, Idle
<1>10. ASSUME Crash PROVE TargetsInReach'
  BY <1>t, <1>10 DEF Crash, Idle
<1>11. ASSUME UNCHANGED vars PROVE TargetsInReach'
  BY <1>t, <1>11, CountKept DEF vars
<1> QED
  BY <1>1, <1>2, <1>3, <1>4, <1>5, <1>6, <1>7, <1>8, <1>9, <1>10, <1>11
     DEF Next, RequestCreate, RequestRollback, RequestActivate

\* Every step keeps the key of a creation about to commit free, and its own.
LEMMA KeysStep == IInv /\ [Next]_vars => KeysFree'
<1> SUFFICES ASSUME IInv, [Next]_vars PROVE KeysFree'
  OBVIOUS
<1>t. TypeOK /\ KeysFree
  BY DEF IInv
<1> USE DEF KeysFree
<1>1. ASSUME NEW c \in Clients, NEW pc \in {"begin", "find"}, NEW op, NEW v, Accept(c, pc, op, v)
      PROVE  KeysFree'
  BY <1>t, <1>1 DEF Accept, TypeOK, Idle
<1>2. ASSUME NEW c \in Clients, Find(c) PROVE KeysFree'
  BY <1>t, <1>2 DEF Find, TypeOK, Idle
<1>3. ASSUME NEW c \in Clients, ReadMax(c) PROVE KeysFree'
  BY <1>t, <1>3 DEF ReadMax, TypeOK
<1>4. ASSUME NEW c \in Clients, StartDeactivate(c) PROVE KeysFree'
  BY <1>t, <1>4 DEF StartDeactivate, TypeOK
<1>5. ASSUME NEW c \in Clients, DeactivateRow(c) PROVE KeysFree'
  BY <1>t, <1>5 DEF DeactivateRow, TypeOK
<1>6. ASSUME NEW c \in Clients, Insert(c) PROVE KeysFree'
  BY <1>t, <1>6 DEF Insert, TypeOK, Idle
<1>7. ASSUME NEW c \in Clients, ActivateRow(c) PROVE KeysFree'
  BY <1>t, <1>7 DEF ActivateRow, TypeOK
<1>8. ASSUME NEW c \in Clients, Commit(c) PROVE KeysFree'
  <2>1. DOMAIN prompts' = DOMAIN prompts \cup {req[c].target}
    BY <1>8, CommitTakesNext
  <2>2. req[c].op = "activate" => req[c].target \in DOMAIN prompts
    BY <1>8, CommitTakesNext
  <2>3. \A d \in Clients :
          IF d = c THEN req'[d] = Idle
          ELSE /\ req'[d].pc = req[d].pc /\ req'[d].op = req[d].op
               /\ req'[d].target = req[d].target
    BY <1>t, <1>8 DEF Commit, TypeOK
  <2>4. req[c].pc = "commit"
    BY <1>8 DEF Commit
  <2> QED
    BY <1>t, <2>1, <2>2, <2>3, <2>4 DEF Idle
<1>9. ASSUME NEW c \in Clients, Abort(c) PROVE KeysFree'
  BY <1>t, <1>9 DEF Abort, TypeOK, Idle
<1>10. ASSUME Crash PROVE KeysFree'
  BY <1>t, <1>10 DEF Crash, Idle
<1>11. ASSUME UNCHANGED vars PROVE KeysFree'
  BY <1>t, <1>11 DEF vars
<1> QED
  BY <1>1, <1>2, <1>3, <1>4, <1>5, <1>6, <1>7, <1>8, <1>9, <1>10, <1>11
     DEF Next, RequestCreate, RequestRollback, RequestActivate

-----------------------------------------------------------------------------
(***************************************************************************)
(* The deactivation: complete while nobody else commits.                   *)
(***************************************************************************)

\* Every step keeps a sweep that nobody committed beside complete.
LEMMA SweepStep == IInv /\ [Next]_vars => SweepComplete'
<1> SUFFICES ASSUME IInv, [Next]_vars PROVE SweepComplete'
  OBVIOUS
<1>t. TypeOK /\ SweepComplete
  BY DEF IInv
<1> USE DEF SweepComplete, Sweeping
<1>1. ASSUME NEW c \in Clients, NEW pc \in {"begin", "find"}, NEW op, NEW v, Accept(c, pc, op, v)
      PROVE  SweepComplete'
  BY <1>t, <1>1, CountKept DEF Accept, TypeOK, Idle
<1>2. ASSUME NEW c \in Clients, Find(c) PROVE SweepComplete'
  BY <1>t, <1>2, CountKept DEF Find, TypeOK, Idle
<1>3. ASSUME NEW c \in Clients, ReadMax(c) PROVE SweepComplete'
  BY <1>t, <1>3, CountKept DEF ReadMax, TypeOK
<1>4. ASSUME NEW c \in Clients, StartDeactivate(c) PROVE SweepComplete'
  BY <1>t, <1>4, CountKept DEF StartDeactivate, TypeOK
<1>5. ASSUME NEW c \in Clients, DeactivateRow(c) PROVE SweepComplete'
  <2>1. PICK v \in req[c].todo :
          req' = [req EXCEPT ![c].todo = @ \ {v},
                             ![c].held = IF v \in Active THEN @ \cup {v} ELSE @]
    BY <1>5 DEF DeactivateRow
  <2>2. Active' = Active /\ req[c].pc = "sweep"
    BY <1>5, CountKept DEF DeactivateRow
  <2>3. \A d \in Clients :
          /\ req'[d].pc = req[d].pc /\ req'[d].alone = req[d].alone
          /\ IF d = c
             THEN /\ req'[d].todo = req[d].todo \ {v}
                  /\ req'[d].held = IF v \in Active THEN req[d].held \cup {v} ELSE req[d].held
             ELSE req'[d].todo = req[d].todo /\ req'[d].held = req[d].held
    BY <1>t, <2>1 DEF TypeOK
  <2> QED
    BY <1>t, <2>2, <2>3
<1>6. ASSUME NEW c \in Clients, Insert(c) PROVE SweepComplete'
  BY <1>t, <1>6, CountKept DEF Insert, TypeOK, Idle
<1>7. ASSUME NEW c \in Clients, ActivateRow(c) PROVE SweepComplete'
  BY <1>t, <1>7, CountKept DEF ActivateRow, TypeOK
<1>8. ASSUME NEW c \in Clients, Commit(c) PROVE SweepComplete'
  <2>1. \A d \in Clients :
          IF d = c THEN req'[d] = Idle
          ELSE /\ req'[d].pc = req[d].pc /\ req'[d].todo = req[d].todo
               /\ req[d].pc \in {"sweep", "commit"} => ~req'[d].alone
    BY <1>t, <1>8 DEF Commit, TypeOK
  <2>2. \A d \in Clients : Sweeping(d)' => Sweeping(d) /\ ~req'[d].alone
    BY <2>1 DEF Idle
  <2>3. \A d \in Clients : req'[d].pc = "commit" => req'[d].todo = {}
    BY <1>t, <2>1 DEF Idle
  <2> QED
    BY <2>2, <2>3
<1>9. ASSUME NEW c \in Clients, Abort(c) PROVE SweepComplete'
  BY <1>t, <1>9, CountKept DEF Abort, TypeOK, Idle
<1>10. ASSUME Crash PROVE SweepComplete'
  BY <1>t, <1>10 DEF Crash, Idle
<1>11. ASSUME UNCHANGED vars PROVE SweepComplete'
  BY <1>t, <1>11, CountKept DEF vars
<1> QED
  BY <1>1, <1>2, <1>3, <1>4, <1>5, <1>6, <1>7, <1>8, <1>9, <1>10, <1>11
     DEF Next, RequestCreate, RequestRollback, RequestActivate

\* Without activations, who holds the next version has seen no commit.
LEMMA AloneStep == IInv /\ [Next]_vars => NextIsAlone'
<1> SUFFICES ASSUME IInv, [Next]_vars PROVE NextIsAlone'
  OBVIOUS
<1>t. TypeOK /\ NextIsAlone
  BY DEF IInv
<1> USE DEF NextIsAlone, Sweeping
<1>1. ASSUME NEW c \in Clients, NEW pc \in {"begin", "find"}, NEW op, NEW v, Accept(c, pc, op, v)
      PROVE  NextIsAlone'
  BY <1>t, <1>1, CountKept DEF Accept, TypeOK, Idle
<1>2. ASSUME NEW c \in Clients, Find(c) PROVE NextIsAlone'
  BY <1>t, <1>2, CountKept DEF Find, TypeOK, Idle
<1>3. ASSUME NEW c \in Clients, ReadMax(c) PROVE NextIsAlone'
  BY <1>t, <1>3, CountKept DEF ReadMax, TypeOK
<1>4. ASSUME NEW c \in Clients, StartDeactivate(c) PROVE NextIsAlone'
  BY <1>t, <1>4, CountKept DEF StartDeactivate, TypeOK
<1>5. ASSUME NEW c \in Clients, DeactivateRow(c) PROVE NextIsAlone'
  BY <1>t, <1>5, CountKept DEF DeactivateRow, TypeOK
<1>6. ASSUME NEW c \in Clients, Insert(c) PROVE NextIsAlone'
  BY <1>t, <1>6, CountKept DEF Insert, TypeOK, Idle
<1>7. ASSUME NEW c \in Clients, ActivateRow(c) PROVE NextIsAlone'
  BY <1>t, <1>7, CountKept DEF ActivateRow, TypeOK
<1>8. ASSUME NEW c \in Clients, Commit(c) PROVE NextIsAlone'
  <2> SUFFICES ASSUME ~activated' PROVE NextIsAlone'
    OBVIOUS
  <2>1. ~activated
    BY <1>8 DEF Commit
  <2>2. req[c].op # "activate"
    BY <1>t, <2>1
  <2>3. Count' = Count + 1 /\ Count \in Nat
    BY <1>8, <2>2, CommitTakesNext, CountIsMax DEF IInv
  <2>4. \A d \in Clients :
          IF d = c THEN req'[d] = Idle
          ELSE /\ req'[d].pc = req[d].pc /\ req'[d].op = req[d].op
               /\ req'[d].target = req[d].target
    BY <1>t, <1>8 DEF Commit, TypeOK
  <2>5. \A d \in Clients : Sweeping(d) => req[d].target # Count + 2
    BY <1>t, <2>1, <2>3 DEF IInv, TargetsInReach, Chosen
  <2>6. \A d \in Clients : req'[d].op # "activate"
    BY <1>t, <2>1, <2>4 DEF Idle
  <2>7. \A d \in Clients : ~(Sweeping(d)' /\ req'[d].target = Count' + 1)
    BY <2>3, <2>4, <2>5 DEF Idle
  <2> QED
    BY <2>6, <2>7
<1>9. ASSUME NEW c \in Clients, Abort(c) PROVE NextIsAlone'
  BY <1>t, <1>9, CountKept DEF Abort, TypeOK, Idle
<1>10. ASSUME Crash PROVE NextIsAlone'
  BY <1>t, <1>10 DEF Crash, Idle
<1>11. ASSUME UNCHANGED vars PROVE NextIsAlone'
  BY <1>t, <1>11, CountKept DEF vars
<1> QED
  BY <1>1, <1>2, <1>3, <1>4, <1>5, <1>6, <1>7, <1>8, <1>9, <1>10, <1>11
     DEF Next, RequestCreate, RequestRollback, RequestActivate

\* A sweep nobody committed beside leaves the commit's own prompt active alone.
LEMMA AloneCommit ==
  ASSUME IInv, NEW c \in Clients, Commit(c), req[c].alone
  PROVE  Active' = {req[c].target}
<1>1. Active \subseteq req[c].held
  BY DEF IInv, SweepComplete, Sweeping, Commit
<1>2. \A v \in DOMAIN prompts' :
        prompts'[v].active <=> (v = req[c].target \/ (prompts[v].active /\ v \notin req[c].held))
  BY DEF Commit
<1>3. DOMAIN prompts' = DOMAIN prompts \cup {req[c].target}
  BY CommitTakesNext
<1> QED
  BY <1>1, <1>2, <1>3 DEF Active

\* Without activations, every commit leaves the newest prompt active alone.
LEMMA NewestStep == IInv /\ [Next]_vars => ActiveIsNewest'
<1> SUFFICES ASSUME IInv, [Next]_vars PROVE ActiveIsNewest'
  OBVIOUS
<1>1. ASSUME NEW c \in Clients, Commit(c) PROVE ActiveIsNewest'
  <2> SUFFICES ASSUME ~activated' PROVE Active' = {Max(DOMAIN prompts')}
    BY DEF ActiveIsNewest
  <2>1. ~activated
    BY <1>1 DEF Commit
  <2>2. req[c].op # "activate"
    BY <2>1 DEF IInv, NextIsAlone
  <2>3. req[c].target = Count' /\ Count' \in Nat /\ DOMAIN prompts' = 1..Count'
        /\ req[c].target \in 1..Count' /\ req[c].target = Count + 1
    BY <1>1, <2>2, CommitTakesNext
  <2>4. Max(1..Count') = Count'
    BY <2>3, MaxOfInterval
  <2>5. req[c].alone
    BY <1>1, <2>1, <2>3 DEF IInv, NextIsAlone, Sweeping, Commit
  <2> QED
    BY <1>1, <2>3, <2>4, <2>5, AloneCommit
<1>2. CASE prompts' = prompts
  <2>1. activated => activated'
    BY DEF Next, vars, RequestCreate, RequestRollback, RequestActivate, Accept,
           Find, ReadMax, StartDeactivate, DeactivateRow, Insert, ActivateRow,
           Commit, Abort, Crash
  <2> QED
    BY <1>2, <2>1, CountKept DEF IInv, ActiveIsNewest
<1> QED
  BY <1>1, <1>2, OnlyCommits

-----------------------------------------------------------------------------
(***************************************************************************)
(* The theorems.                                                           *)
(***************************************************************************)

\* Every step keeps the invariant.
LEMMA InvStep == IInv /\ [Next]_vars => IInv'
  BY TypeStep, ContiguousStep, TargetsStep, KeysStep, SweepStep, AloneStep, NewestStep
     DEF IInv

\* The invariant holds in every reachable state.
LEMMA Invariance == Spec => []IInv
  BY InvInit, InvStep, PTL DEF Spec

\* Every reachable state is well typed.
THEOREM TypeCorrect == Spec => []TypeOK
<1>1. IInv => TypeOK
  BY DEF IInv
<1> QED
  BY <1>1, Invariance, PTL

\* The versions of the prompts are 1..n, for any number of concurrent requests
\* of Create, Activate and Rollback, aborted or not.
THEOREM Contiguity == Spec => []VersionsContiguous
<1>1. IInv => VersionsContiguous
  BY DEF IInv
<1> QED
  BY <1>1, Invariance, PTL

\* Created and rolled back, but never activated, the newest prompt is the only
\* active one.
THEOREM NewestIsActive == Spec => []ActiveIsNewest
<1>1. IInv => ActiveIsNewest
  BY DEF IInv
<1> QED
  BY <1>1, Invariance, PTL

\* No step replaces or removes a committed prompt.
THEOREM Kept == Spec => PromptsKept
<1> DEFINE A == \A v \in DOMAIN prompts : v \in DOMAIN prompts' /\ prompts'[v].by = prompts[v].by
<1>1. IInv /\ [Next]_vars => [A]_vars
  <2> SUFFICES ASSUME IInv, [Next]_vars PROVE A
    OBVIOUS
  <2>1. ASSUME NEW c \in Clients, Commit(c) PROVE A
    <3>1. req[c].op # "activate" => req[c].target \notin DOMAIN prompts
      BY <2>1 DEF IInv, KeysFree, Commit
    <3> QED
      BY <2>1, <3>1 DEF Commit
  <2>2. CASE prompts' = prompts
    BY <2>2
  <2> QED
    BY <2>1, <2>2, OnlyCommits
<1> QED
  BY <1>1, Invariance, PTL DEF Spec, PromptsKept

\* A request nobody committed beside leaves its prompt active, and no other.
THEOREM Alone == Spec => AloneIsExact
<1> DEFINE A == \A c \in Clients : Commit(c) /\ req[c].alone => Active' = {req[c].target}
<1>1. IInv => A
  BY AloneCommit
<1> QED
  BY <1>1, Invariance, PTL DEF Spec, AloneIsExact

\* An agent that has prompts has an active one.
THEOREM ActiveExists == Spec => []SomeActive
<1>1. Init => SomeActive
  BY DEF Init, SomeActive
<1>2. SomeActive /\ IInv /\ [Next]_vars => SomeActive'
  <2> SUFFICES ASSUME SomeActive, IInv, [Next]_vars PROVE SomeActive'
    OBVIOUS
  <2>1. ASSUME NEW c \in Clients, Commit(c) PROVE SomeActive'
    <3>1. req[c].target \in DOMAIN prompts' /\ prompts'[req[c].target].active
      BY <2>1 DEF Commit
    <3> QED
      BY <3>1 DEF SomeActive, Active
  <2>2. CASE prompts' = prompts
    BY <2>2 DEF SomeActive, Active
  <2> QED
    BY <2>1, <2>2, OnlyCommits
<1> QED
  BY <1>1, <1>2, Invariance, PTL DEF Spec

\* A function on 1..n+1 that agrees with a sequence and ends in x is the
\* sequence with x appended.
LEMMA AppendIs ==
  ASSUME NEW D, NEW s \in Seq(D), NEW x \in D, NEW n \in Nat, Len(s) = n, NEW f,
         f = [v \in 1..(n + 1) |-> f[v]],
         \A v \in 1..n : f[v] = s[v],
         f[n + 1] = x
  PROVE  f = Append(s, x)
<1> DEFINE a == Append(s, x)
<1>1. a \in Seq(D) /\ Len(a) = n + 1 /\ (\A i \in 1..n : a[i] = s[i]) /\ a[n + 1] = x
  BY AppendProperties
<1>2. a = [v \in 1..(n + 1) |-> a[v]]
  BY <1>1, LenProperties
<1>3. \A v \in 1..(n + 1) : v \in 1..n \/ v = n + 1
  OBVIOUS
<1> HIDE DEF a
<1>4. \A v \in 1..(n + 1) : f[v] = a[v]
  BY <1>1, <1>3
<1>5. f = a
  BY <1>2, <1>4
<1> QED
  BY <1>5 DEF a

\* What a commit does to the rows, in the words of VersionHistory: the versions
\* there were keep their owner, and are active as the sweep has left them.
LEMMA CommitKeeps ==
  ASSUME IInv, NEW c \in Clients, Commit(c)
  PROVE  LET S == (Active \ req[c].held) \cup ({req[c].target} \cap DOMAIN prompts)
         IN  \A v \in DOMAIN prompts : prompts'[v] = History!WithActive(S)[v]
<1> DEFINE t == req[c].target
           S == (Active \ req[c].held) \cup ({t} \cap DOMAIN prompts)
<1> SUFFICES ASSUME NEW v \in DOMAIN prompts PROVE prompts'[v] = History!WithActive(S)[v]
  OBVIOUS
<1>1. req[c].op # "activate" => t \notin DOMAIN prompts
  BY DEF IInv, KeysFree, Commit
<1>2. prompts'[v] = [active |-> v = t \/ (prompts[v].active /\ v \notin req[c].held),
                     by |-> prompts[v].by]
  BY <1>1 DEF Commit
<1>3. prompts[v].active \in BOOLEAN
  BY DEF IInv, TypeOK
<1>4. (v = t \/ (prompts[v].active /\ v \notin req[c].held)) = (v \in S)
  BY <1>3 DEF Active
<1> QED
  BY <1>2, <1>4 DEF History!WithActive

\* PromptStore implements VersionHistory: a commit is an addition or an
\* activation, every other step a stutter.
THEOREM Implementation == Spec => Promise
<1>1. Init => History!Init
  BY DEF Init, History!Init
<1>2. IInv /\ [Next]_vars => [History!Next]_prompts
  <2> SUFFICES ASSUME IInv, [Next]_vars PROVE History!Next \/ prompts' = prompts
    OBVIOUS
  <2>1. ASSUME NEW c \in Clients, Commit(c) PROVE History!Next
    <3> DEFINE t == req[c].target
               kept == Active \ req[c].held
    <3>1. kept \in SUBSET History!Active
      BY DEF Active, History!Active
    <3>2. CASE req[c].op = "activate"
      <4>1. t \in DOMAIN prompts /\ DOMAIN prompts' = DOMAIN prompts
        BY <2>1, <3>2, CommitTakesNext
      <4>2. prompts' = History!WithActive(kept \cup {t})
        BY <2>1, <4>1, CommitKeeps DEF History!WithActive, Commit
      <4> QED
        BY <3>1, <4>1, <4>2 DEF History!Next, History!Activate
    <3>3. CASE req[c].op # "activate"
      <4> DEFINE old == History!WithActive(kept)
                 new == [active |-> TRUE, by |-> c]
      <4>1. t = Count + 1 /\ DOMAIN prompts' = 1..(Count + 1)
            /\ Count \in Nat /\ DOMAIN prompts = 1..Count
        BY <2>1, <3>3, CommitTakesNext, CountIsMax DEF IInv
      <4>2. \A v \in 1..Count : prompts'[v] = old[v]
        BY <2>1, <4>1, CommitKeeps
      <4>3. prompts'[Count + 1] = new
        BY <2>1, <3>3, <4>1 DEF Commit
      <4>4. prompts' = Append(old, new)
        <5>1. old \in Seq([active : BOOLEAN, by : Clients]) /\ Len(old) = Count
          BY <4>1 DEF History!WithActive, IInv, TypeOK
        <5>2. prompts' = [v \in 1..(Count + 1) |-> prompts'[v]]
          BY <2>1, <4>1 DEF Commit
        <5>3. new \in [active : BOOLEAN, by : Clients]
          OBVIOUS
        <5> HIDE DEF old, new
        <5> QED
          BY <4>1, <4>2, <4>3, <5>1, <5>2, <5>3, AppendIs
      <4> QED
        BY <3>1, <4>4 DEF History!Next, History!AddActive
    <3> QED
      BY <3>2, <3>3
  <2> QED
    BY <2>1, OnlyCommits
<1> QED
  BY <1>1, <1>2, Invariance, PTL DEF Spec, Promise, History!Spec
=============================================================================
