------------------------ MODULE ModelEndpoints_proof ------------------------
(***************************************************************************)
(* Proofs about ModelEndpoints, for any number of clients, values, writers *)
(* of the row and versions.  The invariant adds to the properties which    *)
(* stamps are still unused, what a request carries, and that a sweep       *)
(* nobody has committed beside leaves no active version out.               *)
(***************************************************************************)
EXTENDS ModelEndpoints, SequenceTheorems, TLAPS

Version == [active : BOOLEAN, by : Clients]

Columns == [meta : Values, active : BOOLEAN]

\* now() of a running transaction has never been anybody's updated_at.
StampsFresh ==
  /\ row # NoRow => row.stamp <= clock
  /\ \A c \in Clients : req[c].seen # NoRow => req[c].seen.stamp <= clock
  /\ \A c \in Clients : req[c].pc = "execute" =>
       /\ req[c].stamp <= clock
       /\ row # NoRow => row.stamp # req[c].stamp
       /\ \A d \in Clients : req[d].seen # NoRow => req[d].seen.stamp # req[c].stamp
       /\ \A d \in Clients \ {c} : req[d].pc = "execute" => req[d].stamp # req[c].stamp

\* What a request carries at each pc: a complete row to write, a version that is
\* the next one or has been taken meanwhile, or one to activate that exists.
RequestsOK ==
  \A c \in Clients :
    /\ req[c].pc = "find" => req[c].op \in {"update", "version", "activate"}
    /\ req[c].pc \in {"begin", "execute"} =>
         /\ req[c].op \in {"create", "update", "delete"}
         /\ req[c].op # "delete" => req[c].draft \in Columns
    /\ req[c].op = "update" => req[c].seen # NoRow /\ req[c].pc \in {"find", "begin", "execute"}
    /\ req[c].pc = "insert" => row # NoRow /\ req[c].target \in 1..(Len(versions) + 1)
    /\ req[c].pc \in {"deactivate", "sweep", "commit"} => req[c].target \in DOMAIN versions

\* While nobody else commits, a sweep leaves no active version out.
SweepComplete ==
  \A c \in Clients : req[c].pc \in {"sweep", "commit"} =>
    /\ req[c].alone => Active \subseteq req[c].todo \cup req[c].held
    /\ req[c].pc = "commit" => req[c].todo = {}

IInv == /\ TypeOK
        /\ versions \in Seq(Version)
        /\ StampsFresh
        /\ RequestsOK
        /\ EtagNamesState
        /\ SweepComplete

-----------------------------------------------------------------------------
(***************************************************************************)
(* The numbers of the versions.                                            *)
(***************************************************************************)

\* The largest of some numbers is one of them.
LEMMA MaxOfNumbers ==
  ASSUME NEW n \in Nat
  PROVE  Max(1..n \cup {0}) = n
<1>1. n \in 1..n \cup {0} /\ 1..n \cup {0} \subseteq 0..n
  OBVIOUS
<1>2. \A x \in 1..n \cup {0} : (\A y \in 1..n \cup {0} : x >= y) <=> x = n
  BY <1>1
<1> QED
  BY <1>1, <1>2 DEF Max

\* The numbers of n versions are those up to n.
LEMMA Numbers ==
  ASSUME IInv
  PROVE  /\ Len(versions) \in 0..MaxVersion
         /\ DOMAIN versions = 1..Len(versions)
         /\ Max(DOMAIN versions \cup {0}) = Len(versions)
         /\ row = NoRow <=> Len(versions) = 0
<1>1. Len(versions) \in Nat /\ DOMAIN versions = 1..Len(versions)
  BY LenProperties DEF IInv
<1>2. 1..Len(versions) \subseteq 1..MaxVersion /\ (row = NoRow <=> 1 \notin 1..Len(versions))
  BY <1>1 DEF IInv, TypeOK
<1>3. Len(versions) <= MaxVersion
  BY <1>1, <1>2, EndpointsAssumption
<1> QED
  BY <1>1, <1>2, <1>3, MaxOfNumbers, EndpointsAssumption

\* A function on 1..n+1 that continues a sequence of length n with x appends x.
LEMMA Continued ==
  ASSUME NEW D, NEW s \in Seq(D), NEW x \in D, NEW f,
         f = [v \in 1..(Len(s) + 1) |-> IF v = Len(s) + 1 THEN x ELSE s[v]]
  PROVE  f = Append(s, x) /\ f \in Seq(D)
<1> DEFINE n == Len(s)
           a == Append(s, x)
<1>1. n \in Nat /\ a \in Seq(D) /\ Len(a) = n + 1 /\ (\A i \in 1..n : a[i] = s[i]) /\ a[n + 1] = x
  BY AppendProperties, LenProperties
<1>2. a = [v \in 1..(n + 1) |-> a[v]]
  BY <1>1, LenProperties
<1>3. \A v \in 1..(n + 1) : v \in 1..n \/ v = n + 1
  BY <1>1
<1> HIDE DEF a
<1>4. \A v \in 1..(n + 1) : (IF v = n + 1 THEN x ELSE s[v]) = a[v]
  BY <1>1, <1>3
<1>5. f = a
  BY <1>2, <1>4
<1> QED
  BY <1>1, <1>5 DEF a

\* Three steps change the versions.
LEMMA OnlyThree ==
  [Next]_vars => \/ versions' = versions
                 \/ \E c \in Clients : CreateEndpoint(c) \/ InsertVersion(c) \/ Commit(c)
  BY DEF Next, vars, Accept, Goto, Finish, RequestCreate, RequestUpdate, RequestDelete,
         RequestVersion, RequestActivate, GetBySlug, ReadMax, GetVersion, BeginTx, Update,
         Delete, StartDeactivate, DeactivateRow, ActivateRow, Abort, Crash

\* A creation makes version 1, an insertion the next one, or neither anything.
LEMMA Created ==
  ASSUME IInv, NEW c \in Clients, CreateEndpoint(c), row = NoRow
  PROVE  /\ versions' = Append(versions, [active |-> TRUE, by |-> c])
         /\ versions' \in Seq(Version) /\ Len(versions') = 1 /\ Len(versions) = 0
         /\ versions = << >> /\ row' # NoRow
<1> DEFINE x == [active |-> TRUE, by |-> c]
<1>1. Len(versions) = 0 /\ versions \in Seq(Version)
  BY Numbers DEF IInv
<1>2. versions' = [v \in 1..(Len(versions) + 1) |-> IF v = Len(versions) + 1 THEN x ELSE versions[v]]
  <2>1. 1..(Len(versions) + 1) = {1}
    BY <1>1
  <2>2. versions' = [v \in {1} |-> x]
    BY DEF CreateEndpoint
  <2> QED
    BY <1>1, <2>1, <2>2
<1>3. x \in Version
  BY DEF Version
<1> HIDE DEF x
<1>4. versions' = Append(versions, x) /\ versions' \in Seq(Version)
  BY <1>1, <1>2, <1>3, Continued
<1>5. Len(versions') = 1 /\ versions = << >>
  BY <1>1, <1>3, <1>4, AppendProperties, EmptySeq
<1>6. row' \in Row
  BY DEF CreateEndpoint, IInv, RequestsOK, Columns, TypeOK, Request, Row
<1> QED
  BY <1>1, <1>4, <1>5, <1>6, EndpointsAssumption DEF Row, x

\* The insertion of a version.
LEMMA Inserted ==
  ASSUME IInv, NEW c \in Clients, InsertVersion(c), versions' # versions
  PROVE  /\ versions' = Append(versions, [active |-> FALSE, by |-> c])
         /\ versions' \in Seq(Version) /\ Len(versions') = Len(versions) + 1
         /\ versions # << >> /\ req[c].target = Len(versions) + 1
<1> DEFINE x == [active |-> FALSE, by |-> c]
           n == Len(versions)
<1>1. n \in Nat /\ DOMAIN versions = 1..n /\ versions \in Seq(Version) /\ row # NoRow /\ n # 0
  BY Numbers DEF IInv, RequestsOK, InsertVersion
<1>2. req[c].target \notin 1..n /\ req[c].target \in 1..(n + 1)
  BY <1>1 DEF IInv, RequestsOK, InsertVersion
<1>3. req[c].target = n + 1 /\ 1..n \cup {n + 1} = 1..(n + 1)
  BY <1>1, <1>2
<1>4. versions' = [v \in 1..(n + 1) |-> IF v = n + 1 THEN x ELSE versions[v]]
  BY <1>1, <1>3 DEF InsertVersion
<1>5. x \in Version
  BY DEF Version
<1> HIDE DEF x
<1>6. versions' = Append(versions, x) /\ versions' \in Seq(Version)
  BY <1>1, <1>4, <1>5, Continued
<1>7. Len(versions') = n + 1 /\ versions # << >>
  BY <1>1, <1>5, <1>6, AppendProperties, EmptySeq
<1> QED
  BY <1>3, <1>6, <1>7 DEF x

\* The commit of an activation.
LEMMA Committed ==
  ASSUME IInv, NEW c \in Clients, Commit(c)
  PROVE  /\ DOMAIN versions' = DOMAIN versions
         /\ \A v \in DOMAIN versions : versions'[v] =
              [active |-> v = req[c].target \/ (versions[v].active /\ v \notin req[c].held),
               by |-> versions[v].by]
         /\ \A v \in DOMAIN versions : versions'[v] \in Version
         /\ versions' \in Seq(Version) /\ Len(versions') = Len(versions)
<1>1. \A v \in DOMAIN versions : versions[v] \in Version
  BY DEF IInv, TypeOK, Version
<1>2. DOMAIN versions' = DOMAIN versions
  BY DEF Commit
<1>3. \A v \in DOMAIN versions : versions'[v] =
        [active |-> v = req[c].target \/ (versions[v].active /\ v \notin req[c].held),
         by |-> versions[v].by]
  BY <1>1 DEF Commit, Version
<1>4. \A v \in DOMAIN versions : versions'[v] \in Version
  <2> SUFFICES ASSUME NEW v \in DOMAIN versions PROVE versions'[v] \in Version
    OBVIOUS
  <2>1. (v = req[c].target \/ (versions[v].active /\ v \notin req[c].held)) \in BOOLEAN
    BY <1>1 DEF Version
  <2>2. versions[v].by \in Clients
    BY <1>1 DEF Version
  <2>3. \E a \in BOOLEAN, d \in Clients : versions'[v] = [active |-> a, by |-> d]
    BY <1>3, <2>1, <2>2, Zenon
  <2> QED
    BY <2>3 DEF Version
<1>5. versions' = [v \in DOMAIN versions |-> versions'[v]]
  BY DEF Commit
<1>6. Len(versions) \in Nat /\ DOMAIN versions = 1..Len(versions)
  BY Numbers
<1>7. versions' \in [1..Len(versions) -> Version]
  BY <1>4, <1>5, <1>6
<1>8. versions' \in Seq(Version) /\ Len(versions') = Len(versions)
  BY <1>2, <1>6, <1>7, SeqDef, LenProperties
<1> QED
  BY <1>2, <1>3, <1>4, <1>8

\* A version that exists goes on existing, and so does the endpoint.
LEMMA Lasting ==
  ASSUME IInv, [Next]_vars
  PROVE  /\ versions' \in Seq(Version)
         /\ DOMAIN versions \subseteq DOMAIN versions'
         /\ Len(versions) \in Nat /\ Len(versions') \in Nat /\ Len(versions) <= Len(versions')
<1>1. versions \in Seq(Version) /\ Len(versions) \in Nat
  BY Numbers DEF IInv
<1> DEFINE P == /\ versions' \in Seq(Version)
                /\ Len(versions') = Len(versions) \/ Len(versions') = Len(versions) + 1
<1>2. CASE versions' = versions
  BY <1>1, <1>2
<1>3. ASSUME NEW c \in Clients, CreateEndpoint(c), versions' # versions PROVE P
  <2>1. row = NoRow
    BY <1>3 DEF CreateEndpoint
  <2>2. versions' \in Seq(Version) /\ Len(versions') = 1 /\ Len(versions) = 0
    BY <1>3, <2>1, Created
  <2> QED
    BY <2>2
<1>4. ASSUME NEW c \in Clients, InsertVersion(c), versions' # versions PROVE P
  BY <1>4, Inserted
<1>5. ASSUME NEW c \in Clients, Commit(c) PROVE P
  BY <1>5, Committed
<1>6. P
  BY <1>2, <1>3, <1>4, <1>5, OnlyThree
<1>7. DOMAIN versions = 1..Len(versions) /\ DOMAIN versions' = 1..Len(versions')
  BY <1>1, <1>6, LenProperties
<1>8. \A m, n \in Nat : n = m \/ n = m + 1 => m <= n /\ 1..m \subseteq 1..n
  OBVIOUS
<1>9. Len(versions') \in Nat
  BY <1>1, <1>6
<1> QED
  BY <1>1, <1>6, <1>7, <1>8, <1>9

-----------------------------------------------------------------------------
(***************************************************************************)
(* The invariant holds initially.                                          *)
(***************************************************************************)

\* A client without a request is well typed.
LEMMA IdleType == Idle \in Request
  BY EndpointsAssumption DEF Idle, Request, KeepAll, Body

\* The invariant holds at the start.
LEMMA InvInit == Init => IInv
<1> SUFFICES ASSUME Init PROVE IInv
  OBVIOUS
<1>1. versions = << >>
  BY DEF Init
<1>2. versions \in Seq(Version) /\ Active = {}
  BY <1>1, EmptySeq DEF Active
<1>3. TypeOK
  BY <1>1, IdleType, EndpointsAssumption DEF Init, TypeOK
<1>4. StampsFresh /\ RequestsOK /\ EtagNamesState /\ SweepComplete
  BY DEF Init, Idle, StampsFresh, RequestsOK, EtagNamesState, SweepComplete
<1> QED
  BY <1>2, <1>3, <1>4 DEF IInv

-----------------------------------------------------------------------------
(***************************************************************************)
(* Type correctness.                                                       *)
(***************************************************************************)

\* A step that replaces one request by another well-typed one.
LEMMA OneRequestType ==
  ASSUME TypeOK, NEW c \in Clients, NEW r \in Request, req' = [req EXCEPT ![c] = r],
         versions' = versions, row' \in Row \cup {NoRow}, row' = NoRow <=> row = NoRow,
         clock' \in 0..MaxTx
  PROVE  TypeOK'
<1>1. req' \in [Clients -> Request]
  BY DEF TypeOK
<1>2. req' \in [Clients -> Request']
  BY <1>1 DEF Request
<1> QED
  BY <1>2 DEF TypeOK

\* The same, for a step that only moves one.
LEMMA GotoType ==
  ASSUME TypeOK, NEW c \in Clients, NEW r \in Request, Goto(c, r)
  PROVE  TypeOK'
  BY OneRequestType DEF Goto, TypeOK

\* A step that adds versions.
LEMMA GrownType ==
  ASSUME TypeOK, DOMAIN versions \subseteq DOMAIN versions'
  PROVE  Request \subseteq Request'
  BY DEF Request

\* What a PUT makes of the row it read is a body.
LEMMA OverlayType ==
  ASSUME NEW r \in Row, NEW b \in Body
  PROVE  Overlay(r, b) \in Columns
  BY DEF Overlay, Row, Body, Columns

\* A row's columns leave nothing out.
LEMMA ColumnsAreBodies == Columns \subseteq Body
  BY DEF Columns, Body

\* The row a transaction writes.
LEMMA WrittenRow ==
  ASSUME IInv, NEW c \in Clients, req[c].pc = "execute", req[c].op # "delete"
  PROVE  LET r == [meta |-> req[c].draft.meta, active |-> req[c].draft.active,
                   stamp |-> req[c].stamp]
         IN  r \in Row /\ r # NoRow /\ [meta |-> r.meta, active |-> r.active] = req[c].draft
<1>1. req[c].draft \in Columns /\ req[c].stamp \in Nat
  BY DEF IInv, RequestsOK, TypeOK, Request
<1> QED
  BY <1>1, EndpointsAssumption DEF Columns, Row

\* Every step keeps the types.
LEMMA TypeStep == IInv /\ [Next]_vars => TypeOK'
<1> SUFFICES ASSUME IInv, [Next]_vars PROVE TypeOK'
  OBVIOUS
<1> USE EndpointsAssumption
<1>t. TypeOK
  BY DEF IInv
<1>i. /\ Idle \in Request /\ req \in [Clients -> Request]
      /\ row \in Row \cup {NoRow} /\ clock \in 0..MaxTx
  BY <1>t, IdleType DEF TypeOK
<1>1. ASSUME NEW c \in Clients, RequestCreate(c) PROVE TypeOK'
  <2>1. PICK m \in Values :
          Accept(c, [Idle EXCEPT !.pc = "begin", !.op = "create",
                                 !.draft = [meta |-> m, active |-> TRUE]])
    BY <1>1 DEF RequestCreate
  <2>2. [Idle EXCEPT !.pc = "begin", !.op = "create",
                     !.draft = [meta |-> m, active |-> TRUE]] \in Request
    BY <1>i DEF Idle, Request, Body
  <2> QED
    BY <1>t, <2>1, <2>2, GotoType DEF Accept
<1>2. ASSUME NEW c \in Clients, RequestUpdate(c) PROVE TypeOK'
  <2>1. PICK b \in Body :
          Accept(c, [Idle EXCEPT !.pc = "find", !.op = "update", !.body = b, !.seen = row])
    BY <1>2 DEF RequestUpdate
  <2>2. [Idle EXCEPT !.pc = "find", !.op = "update", !.body = b, !.seen = row] \in Request
    BY <1>i DEF Idle, Request
  <2> QED
    BY <1>t, <2>1, <2>2, GotoType DEF Accept
<1>3. ASSUME NEW c \in Clients, RequestDelete(c) PROVE TypeOK'
  <2>1. [Idle EXCEPT !.pc = "begin", !.op = "delete"] \in Request
    BY <1>i DEF Idle, Request
  <2> QED
    BY <1>t, <1>3, <2>1, GotoType DEF Accept, RequestDelete
<1>4. ASSUME NEW c \in Clients, RequestVersion(c) PROVE TypeOK'
  <2>1. [Idle EXCEPT !.pc = "find", !.op = "version"] \in Request
    BY <1>i DEF Idle, Request
  <2> QED
    BY <1>t, <1>4, <2>1, GotoType DEF Accept, RequestVersion
<1>5. ASSUME NEW c \in Clients, RequestActivate(c) PROVE TypeOK'
  <2>1. PICK v \in 1..MaxVersion :
          Accept(c, [Idle EXCEPT !.pc = "find", !.op = "activate", !.target = v])
    BY <1>5 DEF RequestActivate
  <2>2. v \in 0..MaxVersion
    OBVIOUS
  <2>3. [Idle EXCEPT !.pc = "find", !.op = "activate", !.target = v] \in Request
    BY <1>i, <2>2 DEF Idle, Request
  <2> QED
    BY <1>t, <2>1, <2>3, GotoType DEF Accept
<1>6. ASSUME NEW c \in Clients, GetBySlug(c) PROVE TypeOK'
  <2>1. CASE row = NoRow
    BY <1>t, <1>i, <1>6, <2>1, GotoType DEF GetBySlug
  <2>2. CASE row # NoRow
    <3>1. Overlay(row, req[c].body) \in Body
      BY <1>i, <2>2, OverlayType, ColumnsAreBodies DEF Request
    <3>2. [req[c] EXCEPT !.pc = "begin", !.draft = Overlay(row, req[c].body)] \in Request
      BY <1>i, <3>1 DEF Request
    <3> QED
      BY <1>t, <1>6, <2>2, <3>2, GotoType DEF GetBySlug
  <2> QED
    BY <2>1, <2>2
<1>7. ASSUME NEW c \in Clients, ReadMax(c) PROVE TypeOK'
  <2> DEFINE n == Len(versions)
  <2>0. Max(DOMAIN versions \cup {0}) = n /\ n \in Nat
    BY Numbers
  <2>1. /\ n < MaxVersion /\ n \in Nat
        /\ Goto(c, IF row = NoRow THEN Idle
                   ELSE [req[c] EXCEPT !.pc = "insert", !.target = n + 1])
    BY <1>7, <2>0 DEF ReadMax
  <2>2. n + 1 \in 0..MaxVersion
    BY <2>1
  <2>3. [req[c] EXCEPT !.pc = "insert", !.target = n + 1] \in Request
    BY <1>i, <2>2 DEF Request
  <2> HIDE DEF n
  <2> QED
    BY <1>t, <1>i, <2>1, <2>3, GotoType
<1>8. ASSUME NEW c \in Clients, GetVersion(c) PROVE TypeOK'
  <2>1. [req[c] EXCEPT !.pc = "deactivate"] \in Request
    BY <1>i DEF Request
  <2> QED
    BY <1>t, <1>i, <1>8, <2>1, GotoType DEF GetVersion
<1>9. ASSUME NEW c \in Clients, BeginTx(c) PROVE TypeOK'
  <2>0. clock + 1 \in 0..MaxTx /\ clock + 1 \in Nat
    BY <1>i, <1>9 DEF BeginTx
  <2>1. [req[c] EXCEPT !.pc = "execute", !.stamp = clock + 1] \in Request
    BY <1>i, <2>0 DEF Request
  <2>2. req' = [req EXCEPT ![c] = [req[c] EXCEPT !.pc = "execute", !.stamp = clock + 1]]
    BY <1>i, <1>9 DEF BeginTx
  <2> QED
    BY <1>t, <1>i, <1>9, <2>0, <2>1, <2>2, OneRequestType DEF BeginTx
<1>10. ASSUME NEW c \in Clients, CreateEndpoint(c) PROVE TypeOK'
  <2>1. CASE row = NoRow
    <3>1. /\ versions' = [v \in {1} |-> [active |-> TRUE, by |-> c]]
          /\ versions = << >> /\ row' # NoRow
      BY <1>10, <2>1, Created DEF CreateEndpoint
    <3>2. req' \in [Clients -> Request]
      BY <1>i, <1>10 DEF CreateEndpoint, Finish
    <3>3. req' \in [Clients -> Request']
      BY <1>t, <3>1, <3>2, GrownType
    <3>4. row' \in Row
      BY <1>10, <2>1, WrittenRow DEF CreateEndpoint
    <3>5. DOMAIN versions' \subseteq 1..MaxVersion
      BY <3>1
    <3>6. \A v \in DOMAIN versions' : versions'[v] \in [active : BOOLEAN, by : Clients]
      BY <3>1
    <3>7. 1 \in DOMAIN versions' /\ clock' \in 0..MaxTx
      BY <1>i, <1>10, <3>1 DEF CreateEndpoint, Finish
    <3> QED
      BY <3>1, <3>3, <3>4, <3>5, <3>6, <3>7 DEF TypeOK
  <2>2. CASE row # NoRow
    BY <1>t, <1>i, <1>10, <2>2, OneRequestType DEF CreateEndpoint, Finish
  <2> QED
    BY <2>1, <2>2
<1>11. ASSUME NEW c \in Clients, Update(c) PROVE TypeOK'
  <2>1. row' \in Row \cup {NoRow} /\ (row' = NoRow <=> row = NoRow)
    BY <1>i, <1>11, WrittenRow DEF Update
  <2> QED
    BY <1>t, <1>i, <1>11, <2>1, OneRequestType DEF Update, Finish
<1>12. ASSUME NEW c \in Clients, Delete(c) PROVE TypeOK'
  <2>1. row' \in Row \cup {NoRow} /\ (row' = NoRow <=> row = NoRow)
    <3>1. CASE row = NoRow
      BY <1>12, <3>1 DEF Delete
    <3>2. CASE row # NoRow
      <4>1. req[c].stamp \in Nat
        BY <1>i DEF Request
      <4>2. row' \in Row
        BY <1>i, <1>12, <3>2, <4>1 DEF Delete, Row
      <4> QED
        BY <3>2, <4>2 DEF Row
    <3> QED
      BY <3>1, <3>2
  <2> QED
    BY <1>t, <1>i, <1>12, <2>1, OneRequestType DEF Delete, Finish
<1>13. ASSUME NEW c \in Clients, InsertVersion(c) PROVE TypeOK'
  <2>1. CASE versions' = versions
    BY <1>t, <1>i, <1>13, <2>1, OneRequestType DEF InsertVersion, Finish
  <2>2. CASE versions' # versions
    <3>1. DOMAIN versions' = DOMAIN versions \cup {req[c].target} /\ req[c].target \in 1..MaxVersion
      <4>1. req[c].target \in 0..MaxVersion
        BY <1>i DEF Request
      <4>2. req[c].target \in 1..(Len(versions) + 1)
        BY <1>13 DEF IInv, RequestsOK, InsertVersion
      <4>3. req[c].target \in 1..MaxVersion
        BY <4>1, <4>2
      <4> QED
        BY <1>13, <2>2, <4>3 DEF InsertVersion
    <3>2. req' \in [Clients -> Request]
      BY <1>i, <1>13 DEF InsertVersion, Finish
    <3>3. req' \in [Clients -> Request']
      BY <1>t, <3>1, <3>2, GrownType
    <3>4. \A v \in DOMAIN versions' : versions'[v] \in [active : BOOLEAN, by : Clients]
      BY <1>t, <1>13, <2>2 DEF InsertVersion, TypeOK
    <3>5. 1 \in DOMAIN versions /\ row' = row /\ row # NoRow
      <4>1. row # NoRow
        BY <1>13 DEF IInv, RequestsOK, InsertVersion
      <4> QED
        BY <1>t, <1>13, <4>1 DEF InsertVersion, TypeOK
    <3>6. DOMAIN versions' \subseteq 1..MaxVersion
      BY <1>t, <3>1 DEF TypeOK
    <3>7. clock' = clock
      BY <1>13 DEF InsertVersion, Finish
    <3> QED
      BY <1>i, <3>1, <3>3, <3>4, <3>5, <3>6, <3>7 DEF TypeOK
  <2> QED
    BY <2>1, <2>2
<1>14. ASSUME NEW c \in Clients, StartDeactivate(c) PROVE TypeOK'
  <2>1. [req[c] EXCEPT !.pc = "sweep", !.todo = Active, !.alone = TRUE] \in Request
    BY <1>i DEF Request, Active
  <2> QED
    BY <1>t, <1>14, <2>1, GotoType DEF StartDeactivate
<1>15. ASSUME NEW c \in Clients, DeactivateRow(c) PROVE TypeOK'
  <2>1. PICK v \in req[c].todo :
          Goto(c, [req[c] EXCEPT !.todo = @ \ {v},
                                 !.held = IF v \in Active THEN @ \cup {v} ELSE @])
    BY <1>15 DEF DeactivateRow
  <2>2. [req[c] EXCEPT !.todo = @ \ {v},
                       !.held = IF v \in Active THEN @ \cup {v} ELSE @] \in Request
    BY <1>i DEF Request, Active
  <2> QED
    BY <1>t, <2>1, <2>2, GotoType
<1>16. ASSUME NEW c \in Clients, ActivateRow(c) PROVE TypeOK'
  <2>1. req[c].target \in DOMAIN versions
    BY <1>16 DEF IInv, RequestsOK, ActivateRow
  <2>2. [req[c] EXCEPT !.pc = "commit", !.held = @ \cup {req[c].target}] \in Request
    BY <1>i, <2>1 DEF Request
  <2> QED
    BY <1>t, <1>16, <2>2, GotoType DEF ActivateRow
<1>17. ASSUME NEW c \in Clients, Commit(c) PROVE TypeOK'
  <2>1. DOMAIN versions' = DOMAIN versions /\ \A v \in DOMAIN versions : versions'[v] \in Version
    BY <1>17, Committed
  <2>2. \A v \in DOMAIN versions' : versions'[v] \in [active : BOOLEAN, by : Clients]
    BY <2>1 DEF Version
  <2>3. \A d \in Clients :
          [req[d] EXCEPT !.alone = req[d].pc \notin {"sweep", "commit"}] \in Request
    BY <1>i DEF Request
  <2>4. req' \in [Clients -> Request]
    BY <1>i, <1>17, <2>3, Zenon DEF Commit
  <2>5. req' \in [Clients -> Request']
    BY <1>t, <2>1, <2>4, GrownType
  <2> QED
    BY <1>t, <1>17, <2>1, <2>2, <2>5 DEF Commit, TypeOK
<1>18. ASSUME NEW c \in Clients, Abort(c) PROVE TypeOK'
  BY <1>t, <1>i, <1>18, GotoType DEF Abort
<1>19. ASSUME Crash PROVE TypeOK'
  <2>1. req' \in [Clients -> Request]
    BY <1>i, <1>19 DEF Crash
  <2> QED
    BY <1>t, <1>19, <2>1 DEF Crash, TypeOK, Request
<1>20. ASSUME UNCHANGED vars PROVE TypeOK'
  BY <1>t, <1>20 DEF vars, TypeOK, Request
<1> QED
  BY <1>1, <1>2, <1>3, <1>4, <1>5, <1>6, <1>7, <1>8, <1>9, <1>10, <1>11, <1>12, <1>13,
     <1>14, <1>15, <1>16, <1>17, <1>18, <1>19, <1>20 DEF Next

-----------------------------------------------------------------------------
(***************************************************************************)
(* The other parts of the invariant.                                       *)
(***************************************************************************)

\* The number a creation reads is at most the newest.
LEMMA ReadMaxStep ==
  ASSUME IInv, NEW c \in Clients, ReadMax(c), row # NoRow
  PROVE  /\ req'[c].pc = "insert" /\ req'[c].op = req[c].op /\ req[c].op = "version"
         /\ req'[c].target = Len(versions) + 1
         /\ row' = row /\ versions' = versions
<1>1. Max(DOMAIN versions \cup {0}) = Len(versions)
  BY Numbers
<1>2. req[c].op = "version" /\ req[c] \in Request
  BY DEF ReadMax, IInv, TypeOK
<1>3. Goto(c, [req[c] EXCEPT !.pc = "insert", !.target = Len(versions) + 1])
  BY <1>1 DEF ReadMax
<1>4. row' = row /\ versions' = versions
  BY <1>3 DEF Goto
<1>5. req'[c] = [req[c] EXCEPT !.pc = "insert", !.target = Len(versions) + 1]
  BY <1>3 DEF Goto, IInv, TypeOK
<1> QED
  BY <1>2, <1>4, <1>5 DEF Request

\* A commit leaves the other requests as they are.
LEMMA CommitRequests ==
  ASSUME TypeOK, NEW c \in Clients, Commit(c), NEW d \in Clients
  PROVE  /\ d = c => req'[d] = Idle
         /\ d # c => /\ req'[d].pc = req[d].pc /\ req'[d].todo = req[d].todo
                     /\ req[d].pc \in {"sweep", "commit"} => ~req'[d].alone
<1>1. req'[d] = IF d = c THEN Idle
                ELSE [req[d] EXCEPT !.alone = req[d].pc \notin {"sweep", "commit"}]
  BY DEF Commit
<1>2. req[d] \in Request
  BY DEF TypeOK
<1>3. CASE d # c /\ req[d].pc \in {"sweep", "commit"}
  <2>1. req'[d] = [req[d] EXCEPT !.alone = FALSE]
    BY <1>1, <1>3
  <2> QED
    BY <1>2, <1>3, <2>1 DEF Request
<1>4. CASE d # c /\ req[d].pc \notin {"sweep", "commit"}
  <2>1. req'[d] = [req[d] EXCEPT !.alone = TRUE]
    BY <1>1, <1>4
  <2> QED
    BY <1>2, <1>4, <2>1 DEF Request
<1> QED
  BY <1>1, <1>3, <1>4

\* Timestamps of writes are new, and stay newer than what clients have read.
LEMMA FreshStep == IInv /\ [Next]_vars => StampsFresh'
<1> SUFFICES ASSUME IInv, [Next]_vars PROVE StampsFresh'
  OBVIOUS
<1>t. TypeOK /\ StampsFresh /\ RequestsOK
  BY DEF IInv
<1> USE <1>t DEF TypeOK, Request, Row, StampsFresh, RequestsOK
<1>1. ASSUME NEW c \in Clients, RequestCreate(c) PROVE StampsFresh'
  BY <1>1 DEF RequestCreate, Accept, Goto, Idle
<1>2. ASSUME NEW c \in Clients, RequestUpdate(c) PROVE StampsFresh'
  BY <1>2 DEF RequestUpdate, Accept, Goto, Idle
<1>3. ASSUME NEW c \in Clients, RequestDelete(c) PROVE StampsFresh'
  BY <1>3 DEF RequestDelete, Accept, Goto, Idle
<1>4. ASSUME NEW c \in Clients, RequestVersion(c) PROVE StampsFresh'
  BY <1>4 DEF RequestVersion, Accept, Goto, Idle
<1>5. ASSUME NEW c \in Clients, RequestActivate(c) PROVE StampsFresh'
  BY <1>5 DEF RequestActivate, Accept, Goto, Idle
<1>6. ASSUME NEW c \in Clients, GetBySlug(c) PROVE StampsFresh'
  BY <1>6 DEF GetBySlug, Goto, Idle
<1>7. ASSUME NEW c \in Clients, ReadMax(c) PROVE StampsFresh'
  BY <1>7 DEF ReadMax, Goto, Idle
<1>8. ASSUME NEW c \in Clients, GetVersion(c) PROVE StampsFresh'
  BY <1>8 DEF GetVersion, Goto, Idle
<1>9. ASSUME NEW c \in Clients, BeginTx(c) PROVE StampsFresh'
  BY <1>9 DEF BeginTx, Idle
<1>10. ASSUME NEW c \in Clients, CreateEndpoint(c) PROVE StampsFresh'
  BY <1>10 DEF CreateEndpoint, Finish, Idle
<1>11. ASSUME NEW c \in Clients, Update(c) PROVE StampsFresh'
  BY <1>11 DEF Update, Finish, Idle
<1>12. ASSUME NEW c \in Clients, Delete(c) PROVE StampsFresh'
  BY <1>12 DEF Delete, Finish, Idle
<1>13. ASSUME NEW c \in Clients, InsertVersion(c) PROVE StampsFresh'
  BY <1>13 DEF InsertVersion, Finish, Idle
<1>14. ASSUME NEW c \in Clients, StartDeactivate(c) PROVE StampsFresh'
  BY <1>14 DEF StartDeactivate, Goto, Idle
<1>15. ASSUME NEW c \in Clients, DeactivateRow(c) PROVE StampsFresh'
  BY <1>15 DEF DeactivateRow, Goto, Idle
<1>16. ASSUME NEW c \in Clients, ActivateRow(c) PROVE StampsFresh'
  BY <1>16 DEF ActivateRow, Goto, Idle
<1>17. ASSUME NEW c \in Clients, Commit(c) PROVE StampsFresh'
  BY <1>17 DEF Commit, Idle
<1>18. ASSUME NEW c \in Clients, Abort(c) PROVE StampsFresh'
  BY <1>18 DEF Abort, Goto, Idle
<1>19. ASSUME Crash PROVE StampsFresh'
  BY <1>19 DEF Crash, Idle
<1>20. ASSUME UNCHANGED vars PROVE StampsFresh'
  BY <1>20 DEF vars
<1> QED
  BY <1>1, <1>2, <1>3, <1>4, <1>5, <1>6, <1>7, <1>8, <1>9, <1>10, <1>11, <1>12, <1>13, <1>14,
     <1>15, <1>16, <1>17, <1>18, <1>19, <1>20 DEF Next

\* Every step keeps what its request knows.
LEMMA RequestsStep == IInv /\ [Next]_vars => RequestsOK'
<1> SUFFICES ASSUME IInv, [Next]_vars PROVE RequestsOK'
  OBVIOUS
<1>t. TypeOK /\ RequestsOK
  BY DEF IInv
<1>n. /\ DOMAIN versions \subseteq DOMAIN versions'
      /\ Len(versions) \in Nat /\ Len(versions') \in Nat /\ Len(versions) <= Len(versions')
  BY Lasting
<1>i. row \in Row \cup {NoRow} /\ req \in [Clients -> Request]
  BY <1>t DEF TypeOK
<1> USE <1>t, <1>n DEF TypeOK, RequestsOK
<1>1. ASSUME NEW c \in Clients, RequestCreate(c) PROVE RequestsOK'
  <2>1. PICK m \in Values :
          Goto(c, [Idle EXCEPT !.pc = "begin", !.op = "create",
                               !.draft = [meta |-> m, active |-> TRUE]])
    BY <1>1 DEF RequestCreate, Accept
  <2>2. [meta |-> m, active |-> TRUE] \in Columns
    BY DEF Columns
  <2> QED
    BY <2>1, <2>2 DEF Goto, Idle
<1>2. ASSUME NEW c \in Clients, RequestUpdate(c) PROVE RequestsOK'
  BY <1>2 DEF RequestUpdate, Accept, Goto, Idle
<1>3. ASSUME NEW c \in Clients, RequestDelete(c) PROVE RequestsOK'
  BY <1>3 DEF RequestDelete, Accept, Goto, Idle
<1>4. ASSUME NEW c \in Clients, RequestVersion(c) PROVE RequestsOK'
  BY <1>4 DEF RequestVersion, Accept, Goto, Idle
<1>5. ASSUME NEW c \in Clients, RequestActivate(c) PROVE RequestsOK'
  BY <1>5 DEF RequestActivate, Accept, Goto, Idle
<1>6. ASSUME NEW c \in Clients, GetBySlug(c) PROVE RequestsOK'
  <2>1. row # NoRow => Overlay(row, req[c].body) \in Columns
    BY <1>i, OverlayType DEF Request
  <2> QED
    BY <1>6, <2>1 DEF GetBySlug, Goto, Idle
<1>7. ASSUME NEW c \in Clients, ReadMax(c) PROVE RequestsOK'
  <2>1. Max(DOMAIN versions \cup {0}) = Len(versions)
    BY Numbers
  <2>2. Len(versions) + 1 \in 1..(Len(versions) + 1)
    OBVIOUS
  <2>3. Goto(c, IF row = NoRow THEN Idle
                ELSE [req[c] EXCEPT !.pc = "insert", !.target = Len(versions) + 1])
    BY <1>7, <2>1 DEF ReadMax
  <2>4. CASE row = NoRow
    BY <2>3, <2>4 DEF Goto, Idle
  <2>5. CASE row # NoRow
    <3>1. /\ req'[c].pc = "insert" /\ req'[c].op = req[c].op /\ req[c].op = "version"
          /\ req'[c].target = Len(versions) + 1
          /\ row' = row /\ versions' = versions
      BY <1>7, <2>5, ReadMaxStep
    <3>2. \A d \in Clients \ {c} : req'[d] = req[d]
      BY <2>3 DEF Goto
    <3> QED
      BY <2>2, <2>5, <3>1, <3>2
  <2> QED
    BY <2>4, <2>5
<1>8. ASSUME NEW c \in Clients, GetVersion(c) PROVE RequestsOK'
  BY <1>8 DEF GetVersion, Goto, Idle
<1>9. ASSUME NEW c \in Clients, BeginTx(c) PROVE RequestsOK'
  BY <1>9 DEF BeginTx, Idle
<1>10. ASSUME NEW c \in Clients, CreateEndpoint(c) PROVE RequestsOK'
  BY <1>10 DEF CreateEndpoint, Finish, Idle
<1>11. ASSUME NEW c \in Clients, Update(c) PROVE RequestsOK'
  <2>1. row # NoRow => row' # NoRow
    BY <1>11, WrittenRow DEF Update
  <2> QED
    BY <1>11, <2>1 DEF Update, Finish, Idle
<1>12. ASSUME NEW c \in Clients, Delete(c) PROVE RequestsOK'
  <2>1. row # NoRow => [row EXCEPT !.active = FALSE, !.stamp = req[c].stamp] \in Row
    BY <1>i DEF Row, Request
  <2>2. row # NoRow => row' # NoRow
    BY <1>12, <2>1, EndpointsAssumption DEF Delete, Row
  <2> QED
    BY <1>12, <2>2 DEF Delete, Finish, Idle
<1>13. ASSUME NEW c \in Clients, InsertVersion(c) PROVE RequestsOK'
  BY <1>13 DEF InsertVersion, Finish, Idle
<1>14. ASSUME NEW c \in Clients, StartDeactivate(c) PROVE RequestsOK'
  BY <1>14 DEF StartDeactivate, Goto, Idle
<1>15. ASSUME NEW c \in Clients, DeactivateRow(c) PROVE RequestsOK'
  BY <1>15 DEF DeactivateRow, Goto, Idle
<1>16. ASSUME NEW c \in Clients, ActivateRow(c) PROVE RequestsOK'
  BY <1>16 DEF ActivateRow, Goto, Idle
<1>17. ASSUME NEW c \in Clients, Commit(c) PROVE RequestsOK'
  BY <1>17 DEF Commit, Idle
<1>18. ASSUME NEW c \in Clients, Abort(c) PROVE RequestsOK'
  BY <1>18 DEF Abort, Goto, Idle
<1>19. ASSUME Crash PROVE RequestsOK'
  BY <1>19 DEF Crash, Idle
<1>20. ASSUME UNCHANGED vars PROVE RequestsOK'
  BY <1>20 DEF vars
<1> QED
  BY <1>1, <1>2, <1>3, <1>4, <1>5, <1>6, <1>7, <1>8, <1>9, <1>10, <1>11, <1>12, <1>13, <1>14,
     <1>15, <1>16, <1>17, <1>18, <1>19, <1>20 DEF Next

\* Every step keeps the promise of an If-Match.
LEMMA EtagStep == IInv /\ [Next]_vars => EtagNamesState'
<1> SUFFICES ASSUME IInv, [Next]_vars PROVE EtagNamesState'
  OBVIOUS
<1>t. TypeOK /\ StampsFresh /\ RequestsOK /\ EtagNamesState
  BY DEF IInv
<1> USE <1>t DEF TypeOK, StampsFresh, RequestsOK, EtagNamesState
<1>1. ASSUME NEW c \in Clients, RequestCreate(c) PROVE EtagNamesState'
  BY <1>1 DEF RequestCreate, Accept, Goto, Idle
<1>2. ASSUME NEW c \in Clients, RequestUpdate(c) PROVE EtagNamesState'
  BY <1>2 DEF RequestUpdate, Accept, Goto, Idle
<1>3. ASSUME NEW c \in Clients, RequestDelete(c) PROVE EtagNamesState'
  BY <1>3 DEF RequestDelete, Accept, Goto, Idle
<1>4. ASSUME NEW c \in Clients, RequestVersion(c) PROVE EtagNamesState'
  BY <1>4 DEF RequestVersion, Accept, Goto, Idle
<1>5. ASSUME NEW c \in Clients, RequestActivate(c) PROVE EtagNamesState'
  BY <1>5 DEF RequestActivate, Accept, Goto, Idle
<1>6. ASSUME NEW c \in Clients, GetBySlug(c) PROVE EtagNamesState'
  BY <1>6 DEF GetBySlug, Goto, Idle
<1>7. ASSUME NEW c \in Clients, ReadMax(c) PROVE EtagNamesState'
  BY <1>7 DEF ReadMax, Goto, Idle
<1>8. ASSUME NEW c \in Clients, GetVersion(c) PROVE EtagNamesState'
  BY <1>8 DEF GetVersion, Goto, Idle
<1>9. ASSUME NEW c \in Clients, BeginTx(c) PROVE EtagNamesState'
  BY <1>9 DEF BeginTx, Idle
<1>10. ASSUME NEW c \in Clients, CreateEndpoint(c) PROVE EtagNamesState'
  BY <1>10 DEF CreateEndpoint, Finish, Idle
<1>11. ASSUME NEW c \in Clients, Update(c) PROVE EtagNamesState'
  BY <1>11 DEF Update, Finish, Idle
<1>12. ASSUME NEW c \in Clients, Delete(c) PROVE EtagNamesState'
  BY <1>12 DEF Delete, Finish, Idle
<1>13. ASSUME NEW c \in Clients, InsertVersion(c) PROVE EtagNamesState'
  BY <1>13 DEF InsertVersion, Finish, Idle
<1>14. ASSUME NEW c \in Clients, StartDeactivate(c) PROVE EtagNamesState'
  BY <1>14 DEF StartDeactivate, Goto, Idle
<1>15. ASSUME NEW c \in Clients, DeactivateRow(c) PROVE EtagNamesState'
  BY <1>15 DEF DeactivateRow, Goto, Idle
<1>16. ASSUME NEW c \in Clients, ActivateRow(c) PROVE EtagNamesState'
  BY <1>16 DEF ActivateRow, Goto, Idle
<1>17. ASSUME NEW c \in Clients, Commit(c) PROVE EtagNamesState'
  BY <1>17 DEF Commit, Idle
<1>18. ASSUME NEW c \in Clients, Abort(c) PROVE EtagNamesState'
  BY <1>18 DEF Abort, Goto, Idle
<1>19. ASSUME Crash PROVE EtagNamesState'
  BY <1>19 DEF Crash, Idle
<1>20. ASSUME UNCHANGED vars PROVE EtagNamesState'
  BY <1>20 DEF vars
<1> QED
  BY <1>1, <1>2, <1>3, <1>4, <1>5, <1>6, <1>7, <1>8, <1>9, <1>10, <1>11, <1>12, <1>13, <1>14,
     <1>15, <1>16, <1>17, <1>18, <1>19, <1>20 DEF Next

\* Every step keeps what a sweep has done so far.
LEMMA SweepStep == IInv /\ [Next]_vars => SweepComplete'
<1> SUFFICES ASSUME IInv, [Next]_vars PROVE SweepComplete'
  OBVIOUS
<1>t. TypeOK /\ SweepComplete
  BY DEF IInv
<1>k. versions' = versions => Active' = Active
  BY DEF Active
<1> USE <1>t, <1>k DEF TypeOK, SweepComplete
<1>1. ASSUME NEW c \in Clients, RequestCreate(c) PROVE SweepComplete'
  BY <1>1 DEF RequestCreate, Accept, Goto, Idle
<1>2. ASSUME NEW c \in Clients, RequestUpdate(c) PROVE SweepComplete'
  BY <1>2 DEF RequestUpdate, Accept, Goto, Idle
<1>3. ASSUME NEW c \in Clients, RequestDelete(c) PROVE SweepComplete'
  BY <1>3 DEF RequestDelete, Accept, Goto, Idle
<1>4. ASSUME NEW c \in Clients, RequestVersion(c) PROVE SweepComplete'
  BY <1>4 DEF RequestVersion, Accept, Goto, Idle
<1>5. ASSUME NEW c \in Clients, RequestActivate(c) PROVE SweepComplete'
  BY <1>5 DEF RequestActivate, Accept, Goto, Idle
<1>6. ASSUME NEW c \in Clients, GetBySlug(c) PROVE SweepComplete'
  BY <1>6 DEF GetBySlug, Goto, Idle
<1>7. ASSUME NEW c \in Clients, ReadMax(c) PROVE SweepComplete'
  BY <1>7 DEF ReadMax, Goto, Idle
<1>8. ASSUME NEW c \in Clients, GetVersion(c) PROVE SweepComplete'
  BY <1>8 DEF GetVersion, Goto, Idle
<1>9. ASSUME NEW c \in Clients, BeginTx(c) PROVE SweepComplete'
  BY <1>9 DEF BeginTx, Idle
<1>10. ASSUME NEW c \in Clients, CreateEndpoint(c) PROVE SweepComplete'
  <2>1. CASE row = NoRow
    <3>1. versions = << >>
      BY <1>10, <2>1, Created
    <3>2. \A d \in Clients : req[d].pc \notin {"sweep", "commit"}
      BY <3>1 DEF IInv, RequestsOK
    <3>3. \A d \in Clients : req'[d].pc \notin {"sweep", "commit"}
      BY <1>10, <3>2 DEF CreateEndpoint, Finish, Idle
    <3> QED
      BY <3>3
  <2>2. CASE row # NoRow
    BY <1>10, <2>2 DEF CreateEndpoint, Finish, Idle
  <2> QED
    BY <2>1, <2>2
<1>11. ASSUME NEW c \in Clients, Update(c) PROVE SweepComplete'
  BY <1>11 DEF Update, Finish, Idle
<1>12. ASSUME NEW c \in Clients, Delete(c) PROVE SweepComplete'
  BY <1>12 DEF Delete, Finish, Idle
<1>13. ASSUME NEW c \in Clients, InsertVersion(c) PROVE SweepComplete'
  <2>1. Active' = Active
    <3>1. CASE versions' # versions
      BY <1>13, <3>1 DEF InsertVersion, Active
    <3> QED
      BY <3>1
  <2> QED
    BY <1>13, <2>1 DEF InsertVersion, Finish, Idle
<1>14. ASSUME NEW c \in Clients, StartDeactivate(c) PROVE SweepComplete'
  BY <1>14 DEF StartDeactivate, Goto, Idle
<1>15. ASSUME NEW c \in Clients, DeactivateRow(c) PROVE SweepComplete'
  BY <1>15 DEF DeactivateRow, Goto, Idle
<1>16. ASSUME NEW c \in Clients, ActivateRow(c) PROVE SweepComplete'
  BY <1>16 DEF ActivateRow, Goto, Idle
<1>17. ASSUME NEW c \in Clients, Commit(c) PROVE SweepComplete'
  <2>1. \A d \in Clients :
          IF d = c THEN req'[d] = Idle
          ELSE /\ req'[d].pc = req[d].pc /\ req'[d].todo = req[d].todo
               /\ req[d].pc \in {"sweep", "commit"} => ~req'[d].alone
    BY <1>17, CommitRequests
  <2>2. \A d \in Clients :
          req'[d].pc \in {"sweep", "commit"} => req[d].pc = req'[d].pc /\ ~req'[d].alone
    BY <2>1 DEF Idle
  <2>3. \A d \in Clients : req'[d].pc = "commit" => req'[d].todo = {}
    BY <2>1 DEF Idle
  <2> QED
    BY <2>2, <2>3
<1>18. ASSUME NEW c \in Clients, Abort(c) PROVE SweepComplete'
  BY <1>18 DEF Abort, Goto, Idle
<1>19. ASSUME Crash PROVE SweepComplete'
  BY <1>19 DEF Crash, Idle
<1>20. ASSUME UNCHANGED vars PROVE SweepComplete'
  BY <1>20 DEF vars
<1> QED
  BY <1>1, <1>2, <1>3, <1>4, <1>5, <1>6, <1>7, <1>8, <1>9, <1>10, <1>11, <1>12, <1>13, <1>14,
     <1>15, <1>16, <1>17, <1>18, <1>19, <1>20 DEF Next

\* Every step keeps the invariant.
LEMMA InvStep == IInv /\ [Next]_vars => IInv'
  BY TypeStep, FreshStep, RequestsStep, EtagStep, SweepStep, Lasting DEF IInv

\* The invariant holds in every reachable state.
LEMMA Invariance == Spec => []IInv
  BY InvInit, InvStep, PTL DEF Spec

-----------------------------------------------------------------------------
(***************************************************************************)
(* The theorems.                                                           *)
(***************************************************************************)

\* Every reachable state is well typed: no column of the row is ever one that a
\* PUT left out, and an endpoint never loses its first version.
THEOREM TypeCorrect == Spec => []TypeOK
<1>1. IInv => TypeOK
  BY DEF IInv
<1> QED
  BY <1>1, Invariance, PTL

\* However many PUTs and DELETEs overlap, an If-Match that ModelEndpointStore's
\* Update finds in the row is that of the row its client read.
THEOREM EtagNamesTheState == Spec => []EtagNamesState
<1>1. IInv => EtagNamesState
  BY DEF IInv
<1> QED
  BY <1>1, Invariance, PTL

\* ActivateVersion leaves its version active and no other, whatever was active
\* before, if nobody committed an activation during its sweep.
THEOREM Alone == Spec => AloneIsExact
<1> DEFINE A == \A c \in Clients : Commit(c) /\ req[c].alone => Active' = {req[c].target}
<1>1. IInv => A
  <2> SUFFICES ASSUME IInv, NEW c \in Clients, Commit(c), req[c].alone
               PROVE  Active' = {req[c].target}
    OBVIOUS
  <2>1. Active \subseteq req[c].held
    BY DEF IInv, SweepComplete, Commit
  <2>2. /\ DOMAIN versions' = DOMAIN versions
        /\ \A v \in DOMAIN versions :
             versions'[v].active <=> (v = req[c].target \/ (versions[v].active /\ v \notin req[c].held))
    <3>1. SUFFICES ASSUME NEW v \in DOMAIN versions
                   PROVE  versions'[v].active
                            <=> (v = req[c].target \/ (versions[v].active /\ v \notin req[c].held))
      BY Committed
    <3>2. versions[v].active \in BOOLEAN
      BY DEF IInv, TypeOK
    <3>3. PICK a \in BOOLEAN : a = (v = req[c].target \/ (versions[v].active /\ v \notin req[c].held))
      BY <3>2
    <3>4. versions'[v] = [active |-> a, by |-> versions[v].by]
      BY <3>3, Committed, Zenon
    <3>5. versions'[v].active = a
      BY <3>4
    <3> QED
      BY <3>3, <3>5
  <2>3. req[c].target \in DOMAIN versions
    BY DEF IInv, RequestsOK, Commit
  <2> QED
    BY <2>1, <2>2, <2>3 DEF Active
<1> QED
  BY <1>1, Invariance, PTL DEF Spec, AloneIsExact

\* An endpoint has an active version from its creation on, however activations
\* and insertions overlap and wherever a request fails.
THEOREM ActiveExists == Spec => []SomeActive
<1>1. Init => SomeActive
  BY DEF Init, SomeActive
<1>2. SomeActive /\ IInv /\ [Next]_vars => SomeActive'
  <2> SUFFICES ASSUME SomeActive, IInv, [Next]_vars, versions' # versions PROVE SomeActive'
    BY DEF SomeActive, Active
  <2>1. ASSUME NEW c \in Clients, CreateEndpoint(c) PROVE SomeActive'
    <3> DEFINE x == [active |-> TRUE, by |-> c]
    <3>1. row = NoRow
      BY <2>1 DEF CreateEndpoint
    <3>2. versions = << >> /\ versions' = Append(versions, x)
      BY <2>1, <3>1, Created
    <3>3. 1 \in DOMAIN versions' /\ versions'[1] = x
      BY <3>2
    <3>4. versions'[1].active
      BY <3>3
    <3> QED
      BY <3>3, <3>4 DEF SomeActive, Active
  <2>2. ASSUME NEW c \in Clients, InsertVersion(c) PROVE SomeActive'
    <3>1. versions # << >> /\ versions' = Append(versions, [active |-> FALSE, by |-> c])
      BY <2>2, Inserted
    <3>2. PICK v \in DOMAIN versions : versions[v].active
      BY <3>1 DEF SomeActive, Active
    <3>3. v \in DOMAIN versions' /\ versions'[v] = versions[v]
      BY <3>1, <3>2 DEF IInv
    <3> QED
      BY <3>2, <3>3 DEF SomeActive, Active
  <2>3. ASSUME NEW c \in Clients, Commit(c) PROVE SomeActive'
    <3> DEFINE t == req[c].target
    <3>1. t \in DOMAIN versions /\ t \in DOMAIN versions'
      BY <2>3, Committed DEF IInv, RequestsOK, Commit
    <3>2. PICK a \in BOOLEAN : a = (t = t \/ (versions[t].active /\ t \notin req[c].held)) /\ a
      OBVIOUS
    <3>3. versions'[t] = [active |-> a, by |-> versions[t].by]
      BY <2>3, <3>1, <3>2, Committed, Zenon
    <3>4. versions'[t].active = a
      BY <3>3
    <3>5. versions'[t].active
      BY <3>2, <3>4
    <3> QED
      BY <3>1, <3>5 DEF SomeActive, Active
  <2> QED
    BY <2>1, <2>2, <2>3, OnlyThree
<1> QED
  BY <1>1, <1>2, Invariance, PTL DEF Spec

\* ModelEndpoints implements VersionHistory: the creation of the endpoint adds an
\* active version, an insertion an inactive one, a commit activates one, and every
\* other step is a stutter.
THEOREM Implementation == Spec => Promise
<1>1. Init => History!Init
  <2> SUFFICES ASSUME Init PROVE versions = << >>
    BY DEF History!Init
  <2> QED
    BY DEF Init
<1>2. IInv /\ [Next]_vars => [History!Next]_versions
  <2> SUFFICES ASSUME IInv, [Next]_vars, versions' # versions PROVE History!Next
    OBVIOUS
  <2>1. ASSUME NEW c \in Clients, CreateEndpoint(c) PROVE History!Next
    <3>1. row = NoRow
      BY <2>1 DEF CreateEndpoint
    <3>2. versions = << >> /\ versions' = Append(versions, [active |-> TRUE, by |-> c])
      BY <2>1, <3>1, Created
    <3>3. History!WithActive({}) = versions
      <4>1. History!WithActive({}) = [v \in {} |-> [active |-> v \in {}, by |-> versions[v].by]]
        BY <3>2 DEF History!WithActive
      <4> QED
        BY <3>2, <4>1
    <3>4. History!AddActive(c)
      BY <3>2, <3>3 DEF History!AddActive
    <3> QED
      BY <3>4 DEF History!Next
  <2>2. ASSUME NEW c \in Clients, InsertVersion(c) PROVE History!Next
    <3>1. History!AddInactive(c)
      BY <2>2, Inserted DEF History!AddInactive
    <3> QED
      BY <3>1 DEF History!Next
  <2>3. ASSUME NEW c \in Clients, Commit(c) PROVE History!Next
    <3> DEFINE t == req[c].target
               kept == Active \ req[c].held
    <3>1. kept \in SUBSET History!Active
      BY DEF Active, History!Active
    <3>2. t \in DOMAIN versions
      BY <2>3 DEF IInv, RequestsOK, Commit
    <3>3. \A v \in DOMAIN versions :
            (v = t \/ (versions[v].active /\ v \notin req[c].held)) <=> v \in kept \cup {t}
      BY DEF Active
    <3>4. \A v \in DOMAIN versions :
            versions'[v] = [active |-> v \in kept \cup {t}, by |-> versions[v].by]
      <4> SUFFICES ASSUME NEW v \in DOMAIN versions
                   PROVE  versions'[v] = [active |-> v \in kept \cup {t}, by |-> versions[v].by]
        OBVIOUS
      <4>1. versions[v].active \in BOOLEAN
        BY DEF IInv, TypeOK
      <4>2. (v = t \/ (versions[v].active /\ v \notin req[c].held)) = (v \in kept \cup {t})
        BY <3>3, <4>1
      <4> HIDE DEF kept, t
      <4> QED
        BY <2>3, <4>2, Committed DEF t
    <3>5. versions' = [v \in DOMAIN versions |-> versions'[v]]
      BY <2>3 DEF Commit
    <3>6. versions' = History!WithActive(kept \cup {t})
      BY <3>4, <3>5, Zenon DEF History!WithActive
    <3> QED
      BY <3>1, <3>2, <3>6 DEF History!Next, History!Activate
  <2> QED
    BY <2>1, <2>2, <2>3, OnlyThree
<1> QED
  BY <1>1, <1>2, Invariance, PTL DEF Spec, Promise, History!Spec
=============================================================================
