-------------------------- MODULE AgentCards_proof --------------------------
(***************************************************************************)
(* Proofs about AgentCards, for any agents, retries and transactions.      *)
(* That a set of timestamps has a latest one, which the ETag is, is itself *)
(* proved along the behaviour: each transaction adds one timestamp, later  *)
(* than all before.                                                        *)
(***************************************************************************)
EXTENDS AgentCards, FiniteSetTheorems, TLAPS

\* An agent has a version for each transaction that committed to it: those open
\* may all come to it yet.
VersionsBounded ==
  /\ IsFiniteSet(txs) /\ Cardinality(txs) <= clock
  /\ \A a \in Agents : agents[a] # NoAgent => agents[a].version + Cardinality(txs) <= clock

\* No two transactions share an updated_at, and only a creation may find no row.
TransactionsDiffer ==
  /\ \A t, u \in txs : t.stamp = u.stamp => t = u
  /\ \A t \in txs, a \in Agents : agents[a] # NoAgent => agents[a].stamp # t.stamp
  /\ \A t \in txs : t.op # "create" => agents[t.agent] # NoAgent

\* A set of timestamps has a latest one.
HasMax(S) == \E m \in S : \A x \in S : m >= x

LatestExists == \A S \in SUBSET (0..clock) : S # {} => HasMax(S)

\* The publication of a clean agent is alone with late copies of itself, and all
\* carry what is due.
CleanIsAlone ==
  \A a \in clean :
    /\ agents[a] # NoAgent
    /\ \A j, k \in jobs : j.agent = a /\ k.agent = a => j = k
    /\ \A j \in jobs : j.agent = a =>
         /\ j.pc = "new" => (j.action = "delete" <=> agents[a].deleted)
         /\ j.pc = "send" => j.card = Due(a)
    /\ \A s \in strays : s.agent = a => s.card = Due(a)

\* As long as nothing suspect commits, the ETag only moves on, and with it the card.
EtagMovesOn ==
  ~suspect /\ cache.etag # NoEtag =>
    /\ cache.etag <= Etag
    /\ cache.etag = Etag => cache.card = Card

IInv == /\ TypeOK
        /\ VersionsBounded
        /\ TransactionsDiffer
        /\ LatestExists
        /\ CleanIsAlone
        /\ QuietIsCurrent
        /\ EtagMovesOn

-----------------------------------------------------------------------------
(***************************************************************************)
(* Steps.                                                                  *)
(***************************************************************************)

Jobs == [id : Nat, agent : Agents, action : {"upsert", "delete"},
         pc : {"new", "send"}, card : 0..MaxTx, tries : 0..MaxRetries]

\* What a goroutine does to the others, and to the world: it goes on as k or
\* returns, and its agent stays clean unless it gave up.
Proceeds(j, k) ==
  /\ jobs' = (jobs \ {j}) \cup {k}
  /\ k \in Jobs /\ k.id = j.id /\ k.agent = j.agent /\ k.action = j.action /\ k.pc = "send"
  /\ k.card = IF j.pc = "send" THEN j.card
              ELSE IF j.action = "delete" THEN 0 ELSE CardOf(j.agent)
  /\ index' = index /\ clean' = clean
  /\ \/ strays' = strays
     \/ j.pc = "send" /\ strays' = strays \cup {[agent |-> j.agent, card |-> j.card]}

Returns(j) ==
  /\ jobs' = jobs \ {j}
  /\ \/ /\ j.pc = "send" /\ index' = [index EXCEPT ![j.agent] = j.card]
        /\ UNCHANGED <<strays, clean>>
     \/ /\ index' = index /\ clean' = clean \ {j.agent}
        /\ \/ strays' = strays
           \/ j.pc = "send" /\ strays' = strays \cup {[agent |-> j.agent, card |-> j.card]}

\* A step of a goroutine is one of the two.
LEMMA JobStep ==
  ASSUME TypeOK, NEW j \in jobs, Step(j)
  PROVE  /\ UNCHANGED <<agents, txs, clock, cache, suspect>>
         /\ Returns(j) \/ \E k \in Jobs : Proceeds(j, k)
<1>1. /\ j \in Jobs /\ j.agent \in Agents /\ agents[j.agent] # NoAgent
      /\ CardOf(j.agent) \in 0..MaxTx
  <2>1. \A a \in Agents : agents[a] # NoAgent => agents[a].version \in 1..MaxTx
    BY DEF TypeOK
  <2>2. j \in [id : 1..clock, agent : Agents, action : {"upsert", "delete"},
               pc : {"new", "send"}, card : 0..MaxTx, tries : 0..MaxRetries]
    BY DEF TypeOK
  <2>3. agents[j.agent] # NoAgent
    BY DEF TypeOK
  <2>4. j \in Jobs /\ j.agent \in Agents
    BY <2>2 DEF Jobs
  <2>5. agents[j.agent].version \in 1..MaxTx
    BY <2>1, <2>3, <2>4
  <2> QED
    BY <2>3, <2>4, <2>5, CardsAssumption DEF CardOf
<1>2. UNCHANGED <<agents, txs, clock, cache, suspect>>
  BY DEF Step, GetAgentCard, GetAgentCardFails, Accepted, Refused, TimedOut, Retry, Advance, Return
<1>3. CASE GetAgentCard(j)
  <2> DEFINE d == IF j.action = "delete" THEN 0 ELSE CardOf(j.agent)
             k == [j EXCEPT !.pc = "send", !.card = d]
  <2>1. d \in 0..MaxTx
    BY <1>1, CardsAssumption
  <2>2. /\ j.pc = "new" /\ jobs' = (jobs \ {j}) \cup {k} /\ UNCHANGED <<strays, index, clean>>
    BY <1>3 DEF GetAgentCard, Advance
  <2>3. /\ k \in Jobs /\ k.id = j.id /\ k.agent = j.agent /\ k.action = j.action
        /\ k.pc = "send" /\ k.card = d
    <3> HIDE DEF d
    <3> QED
      BY <1>1, <2>1 DEF Jobs
  <2> QED
    BY <1>2, <2>2, <2>3 DEF Proceeds
<1>4. CASE GetAgentCardFails(j)
  BY <1>2, <1>4 DEF GetAgentCardFails, Return, Returns
<1>5. CASE Accepted(j)
  BY <1>2, <1>5 DEF Accepted, Return, Returns
<1>6. ASSUME j.pc = "send", Retry(j), index' = index,
             \/ strays' = strays
             \/ strays' = strays \cup {[agent |-> j.agent, card |-> j.card]}
      PROVE  Returns(j) \/ \E k \in Jobs : Proceeds(j, k)
  <2>1. CASE j.tries < MaxRetries
    <3> DEFINE k == [j EXCEPT !.tries = @ + 1]
    <3>1. jobs' = (jobs \ {j}) \cup {k} /\ clean' = clean
      BY <1>6, <2>1 DEF Retry, Advance
    <3>2. /\ k \in Jobs /\ k.id = j.id /\ k.agent = j.agent /\ k.action = j.action
          /\ k.pc = j.pc /\ k.card = j.card
      BY <1>1, <2>1, CardsAssumption DEF Jobs
    <3> QED
      BY <1>6, <3>1, <3>2 DEF Proceeds
  <2>2. CASE ~(j.tries < MaxRetries)
    BY <1>6, <2>2 DEF Retry, Return, Returns
  <2> QED
    BY <2>1, <2>2
<1>7. CASE Refused(j) \/ TimedOut(j)
  BY <1>2, <1>6, <1>7 DEF Refused, TimedOut
<1> QED
  BY <1>2, <1>3, <1>4, <1>5, <1>7 DEF Step

\* The row a transaction writes.
LEMMA Written ==
  ASSUME IInv, NEW t \in txs, Commit(t)
  PROVE  \E r \in Row :
           /\ t.agent \in Agents /\ agents' = [agents EXCEPT ![t.agent] = r]
           /\ r \in Results(t)
           /\ r.version \in 1..MaxTx /\ r.stamp = t.stamp
           /\ r.deleted <=> t.op = "delete"
           /\ agents[t.agent] # NoAgent =>
                r.version >= agents[t.agent].version /\ r.version <= agents[t.agent].version + 1
           /\ agents[t.agent] = NoAgent => r.version = 1
           /\ suspect' = \/ suspect
                         \/ t.agent \in Listed /\ ~r.active
                         \/ \E b \in Listed : agents[b].stamp > t.stamp
<1>1. PICK r \in Results(t) :
        /\ agents' = [agents EXCEPT ![t.agent] = r]
        /\ suspect' = \/ suspect
                      \/ t.agent \in Listed /\ ~r.active
                      \/ \E b \in Listed : agents[b].stamp > t.stamp
  BY DEF Commit
<1>2. /\ t.agent \in Agents /\ t.op \in {"create", "edit", "rollback", "delete"}
      /\ t.stamp \in 1..clock /\ clock \in Nat /\ clock <= MaxTx
  BY CardsAssumption DEF IInv, TypeOK
<1>3. (t.op = "create") <=> agents[t.agent] = NoAgent
  BY DEF Commit, Applies, IInv, TransactionsDiffer
<1>4. Cardinality(txs) \in Nat \ {0}
  BY FS_CardinalityType, FS_EmptySet DEF IInv, VersionsBounded
<1>5. agents[t.agent] # NoAgent => /\ agents[t.agent] \in Row
                                 /\ agents[t.agent].version \in 1..MaxTx
                                 /\ agents[t.agent].version + 1 <= MaxTx
  BY <1>2, <1>4, CardsAssumption DEF IInv, TypeOK, VersionsBounded
<1>6. 1 <= MaxTx
  BY <1>2, CardsAssumption
<1> DEFINE n == IF t.op = "create" THEN 1
                ELSE agents[t.agent].version + (IF t.op = "delete" THEN 0 ELSE 1)
<1>7. /\ n \in 1..MaxTx
      /\ agents[t.agent] # NoAgent => n >= agents[t.agent].version /\ n <= agents[t.agent].version + 1
      /\ agents[t.agent] = NoAgent => n = 1
  BY <1>3, <1>5, <1>6, CardsAssumption
<1>8. PICK on \in BOOLEAN :
        r = [version |-> n, active |-> on, stamp |-> t.stamp, deleted |-> t.op = "delete"]
  BY DEF Results
<1> HIDE DEF n
<1>9. r \in Row /\ r.version = n /\ r.stamp = t.stamp /\ (r.deleted <=> t.op = "delete")
  <2>1. PICK d \in BOOLEAN : d = (t.op = "delete")
    OBVIOUS
  <2>2. r = [version |-> n, active |-> on, stamp |-> t.stamp, deleted |-> d]
    BY <1>8, <2>1, Zenon
  <2>3. n \in Nat /\ t.stamp \in Nat
    BY <1>2, <1>7, CardsAssumption
  <2>4. r \in Row /\ r.version = n /\ r.stamp = t.stamp /\ r.deleted = d
    BY <2>2, <2>3 DEF Row
  <2> QED
    BY <2>1, <2>4, Zenon
<1> QED
  BY <1>1, <1>2, <1>7, <1>9

\* What Max chooses, where there is something to choose.
LEMMA MaxOfSubset ==
  ASSUME NEW S, S \subseteq Nat, HasMax(S)
  PROVE  Max(S) \in S /\ \A x \in S : Max(S) >= x
  BY DEF Max, HasMax

Stamps == {agents[a].stamp : a \in Listed} \cup {0}

\* The ETag is the latest of the timestamps listed.
LEMMA EtagIsLatest ==
  ASSUME TypeOK, LatestExists
  PROVE  /\ Stamps \subseteq 0..clock /\ clock \in Nat
         /\ Etag \in Stamps /\ \A x \in Stamps : Etag >= x
<1>1. Stamps \subseteq 0..clock /\ clock \in Nat
  BY CardsAssumption DEF Stamps, Listed, TypeOK
<1>2. HasMax(Stamps)
  BY <1>1 DEF LatestExists, Stamps
<1>3. Etag = Max(Stamps)
  BY DEF Etag, Stamps
<1>4. Stamps \subseteq Nat
  BY <1>1
<1> QED
  BY <1>1, <1>2, <1>3, <1>4, MaxOfSubset

\* Only four steps touch the transactions and the rows.
LEMMA OnlyFour ==
  ASSUME TypeOK, [Next]_vars
  PROVE  \/ UNCHANGED <<agents, txs, clock>>
         \/ \E a \in Agents, op \in {"create", "edit", "rollback", "delete"} : BeginTx(a, op)
         \/ \E t \in txs : Commit(t) \/ Abort(t)
         \/ Crash
<1>1. (\E j \in jobs : Step(j)) => UNCHANGED <<agents, txs, clock>>
  BY JobStep
<1> QED
  BY <1>1 DEF Next, vars, Serve, Lose, Fetch

\* A set of timestamps up to one more than before is one of before, or has the
\* new one as its latest.
LEMMA LatestStep ==
  ASSUME LatestExists, clock \in Nat, clock' \in {clock, clock + 1}
  PROVE  LatestExists'
<1> SUFFICES ASSUME NEW S \in SUBSET (0..clock'), S # {}
             PROVE  HasMax(S)
  BY DEF LatestExists, HasMax
<1>1. CASE clock' \in S
  BY <1>1 DEF HasMax
<1>2. CASE clock' \notin S /\ clock' = clock + 1
  <2>1. S \in SUBSET (0..clock)
    BY <1>2
  <2> QED
    BY <2>1 DEF LatestExists
<1>3. CASE clock' = clock
  BY <1>3 DEF LatestExists
<1> QED
  BY <1>1, <1>2, <1>3

\* Transactions open one at a time, each with a timestamp of its own.
LEMMA TransactionsStep ==
  ASSUME IInv, [Next]_vars
  PROVE  VersionsBounded' /\ TransactionsDiffer' /\ LatestExists'
<1>1. /\ TypeOK /\ VersionsBounded /\ TransactionsDiffer /\ LatestExists
      /\ clock \in Nat /\ IsFiniteSet(txs) /\ Cardinality(txs) \in Nat
      /\ \A a \in Agents : agents[a] # NoAgent => /\ agents[a] \in Row
                                                  /\ agents[a].version \in Nat
                                                  /\ agents[a].stamp \in 1..clock
      /\ \A t \in txs : t.agent \in Agents /\ t.stamp \in 1..clock
  BY FS_CardinalityType, CardsAssumption DEF IInv, TypeOK, VersionsBounded
<1>2. CASE UNCHANGED <<agents, txs, clock>>
  BY <1>1, <1>2 DEF VersionsBounded, TransactionsDiffer, LatestExists
<1>3. ASSUME NEW a \in Agents, NEW op \in {"create", "edit", "rollback", "delete"}, BeginTx(a, op)
      PROVE  VersionsBounded' /\ TransactionsDiffer' /\ LatestExists'
  <2>1. PICK n \in {0} \cup {agents[b].stamp : b \in Agents} :
          txs' = txs \cup {[agent |-> a, op |-> op, stamp |-> clock + 1, seen |-> n]}
    BY <1>3 DEF BeginTx
  <2> DEFINE t == [agent |-> a, op |-> op, stamp |-> clock + 1, seen |-> n]
  <2>2. /\ t.agent = a /\ t.stamp = clock + 1 /\ t.op = op
        /\ agents' = agents /\ clock' = clock + 1 /\ txs' = txs \cup {t}
        /\ op # "create" => agents[a] # NoAgent
    BY <1>3, <2>1 DEF BeginTx
  <2> HIDE DEF t
  <2>3. t \notin txs
    BY <1>1, <2>2
  <2>4. IsFiniteSet(txs') /\ Cardinality(txs') = Cardinality(txs) + 1
    BY <1>1, <2>2, <2>3, FS_AddElement
  <2>5. VersionsBounded'
    <3>1. Cardinality(txs') <= clock'
      BY <1>1, <2>2, <2>4 DEF VersionsBounded
    <3>2. ASSUME NEW b \in Agents, agents[b] # NoAgent
          PROVE  agents[b].version + Cardinality(txs') <= clock'
      <4>1. agents[b].version + Cardinality(txs) <= clock /\ agents[b].version \in Nat
        BY <1>1, <3>2 DEF VersionsBounded
      <4> QED
        BY <1>1, <2>2, <2>4, <4>1
    <3> QED
      BY <2>2, <2>4, <3>1, <3>2 DEF VersionsBounded
  <2>6. TransactionsDiffer'
    <3>1. \A u \in txs : u.stamp # t.stamp
      BY <1>1, <2>2
    <3>2. \A b \in Agents : agents[b] # NoAgent => agents[b].stamp # t.stamp
      BY <1>1, <2>2
    <3> QED
      BY <1>1, <2>2, <3>1, <3>2 DEF TransactionsDiffer
  <2>7. LatestExists'
    BY <1>1, <2>2, LatestStep
  <2> QED
    BY <2>5, <2>6, <2>7
<1>4. ASSUME NEW t \in txs, Commit(t) \/ Abort(t)
      PROVE  VersionsBounded' /\ TransactionsDiffer' /\ LatestExists'
  <2>1. txs' = txs \ {t} /\ clock' = clock
    BY <1>4 DEF Commit, Abort
  <2>2. IsFiniteSet(txs') /\ Cardinality(txs') = Cardinality(txs) - 1
    BY <1>1, <2>1, FS_RemoveElement
  <2>3. CASE agents' = agents
    <3>1. VersionsBounded'
      <4>1. ASSUME NEW a \in Agents, agents[a] # NoAgent
            PROVE  agents[a].version + Cardinality(txs') <= clock
        <5>1. agents[a].version + Cardinality(txs) <= clock /\ agents[a].version \in Nat
          BY <1>1, <4>1 DEF VersionsBounded
        <5> QED
          BY <1>1, <2>2, <5>1
      <4>2. Cardinality(txs') <= clock
        BY <1>1, <2>2 DEF VersionsBounded
      <4> QED
        BY <2>1, <2>2, <2>3, <4>1, <4>2 DEF VersionsBounded
    <3>2. TransactionsDiffer'
      BY <1>1, <2>1, <2>3 DEF TransactionsDiffer
    <3> QED
      BY <1>1, <2>1, <3>1, <3>2, LatestStep
  <2>4. CASE Commit(t)
    <3>1. PICK r \in Row :
            /\ t.agent \in Agents /\ agents' = [agents EXCEPT ![t.agent] = r]
            /\ r.version \in 1..MaxTx /\ r.stamp = t.stamp
            /\ agents[t.agent] # NoAgent => r.version <= agents[t.agent].version + 1
            /\ agents[t.agent] = NoAgent => r.version = 1
      BY <2>4, Written
    <3>2. /\ r # NoAgent /\ agents'[t.agent] = r /\ r.version \in Nat
          /\ \A a \in Agents : a # t.agent => agents'[a] = agents[a]
      BY <3>1, CardsAssumption DEF IInv, TypeOK, Row
    <3>3. VersionsBounded'
      <4>1. Cardinality(txs') <= clock' /\ Cardinality(txs') + 1 <= clock
        BY <1>1, <2>1, <2>2 DEF VersionsBounded
      <4>2. ASSUME NEW a \in Agents, agents'[a] # NoAgent
            PROVE  agents'[a].version + Cardinality(txs') <= clock
        <5>1. CASE a = t.agent
          BY <1>1, <2>2, <3>1, <3>2, <4>1, <5>1 DEF VersionsBounded
        <5>2. CASE a # t.agent
          BY <1>1, <2>2, <3>2, <4>2, <5>2 DEF VersionsBounded
        <5> QED
          BY <5>1, <5>2
      <4> QED
        BY <2>1, <2>2, <4>1, <4>2 DEF VersionsBounded
    <3>4. TransactionsDiffer'
      BY <1>1, <2>1, <3>1, <3>2 DEF TransactionsDiffer
    <3> QED
      BY <1>1, <2>1, <3>3, <3>4, LatestStep
  <2> QED
    BY <1>4, <2>3, <2>4 DEF Abort
<1>5. CASE Crash
  <2>1. txs' = {} /\ clock' = clock /\ agents' = agents
    BY <1>5 DEF Crash
  <2>2. IsFiniteSet(txs') /\ Cardinality(txs') = 0
    BY <2>1, FS_EmptySet
  <2> QED
    BY <1>1, <2>1, <2>2, LatestStep DEF VersionsBounded, TransactionsDiffer
<1> QED
  BY <1>1, <1>2, <1>3, <1>4, <1>5, OnlyFour

-----------------------------------------------------------------------------
(***************************************************************************)
(* Types.                                                                  *)
(***************************************************************************)

\* Every step keeps the types.
LEMMA TypeStep ==
  ASSUME IInv, [Next]_vars
  PROVE  TypeOK'
<1>1. TypeOK /\ clock \in Nat /\ TransactionsDiffer
  BY CardsAssumption DEF IInv, TypeOK
<1>2. ASSUME NEW a \in Agents, NEW op \in {"create", "edit", "rollback", "delete"}, BeginTx(a, op)
      PROVE  TypeOK'
  <2>1. PICK n \in 0..clock :
          txs' = txs \cup {[agent |-> a, op |-> op, stamp |-> clock + 1, seen |-> n]}
    <3>1. op = "edit" => agents[a] # NoAgent
      BY <1>2 DEF BeginTx
    <3>2. op = "edit" => agents[a].stamp \in 1..clock
      BY <1>1, <3>1 DEF TypeOK
    <3> QED
      BY <1>1, <1>2, <3>2 DEF BeginTx
  <2>2. /\ clock' = clock + 1 /\ clock < MaxTx
        /\ UNCHANGED <<agents, jobs, strays, index, cache, clean, suspect>>
    BY <1>2 DEF BeginTx
  <2>3. clock' \in 0..MaxTx /\ 0..clock \subseteq 0..clock' /\ 1..clock \subseteq 1..clock'
        /\ clock + 1 \in 1..clock'
    BY <1>1, <2>2, CardsAssumption
  <2>4. txs' \subseteq [agent : Agents, op : {"create", "edit", "rollback", "delete"},
                        stamp : 1..clock', seen : 0..clock']
    BY <1>1, <2>1, <2>3 DEF TypeOK
  <2>5. jobs' \subseteq [id : 1..clock', agent : Agents, action : {"upsert", "delete"},
                         pc : {"new", "send"}, card : 0..MaxTx, tries : 0..MaxRetries]
    BY <1>1, <2>2, <2>3 DEF TypeOK
  <2> QED
    BY <1>1, <2>2, <2>3, <2>4, <2>5 DEF TypeOK
<1>3. ASSUME NEW t \in txs, Commit(t)
      PROVE  TypeOK'
  <2>1. PICK r \in Row :
          /\ t.agent \in Agents /\ agents' = [agents EXCEPT ![t.agent] = r]
          /\ r.version \in 1..MaxTx /\ r.stamp = t.stamp
          /\ agents[t.agent] # NoAgent => r.version >= agents[t.agent].version
    BY <1>3, Written
  <2>2. t.stamp \in 1..clock
    BY <1>1 DEF TypeOK
  <2>3. /\ r # NoAgent /\ agents'[t.agent] = r
        /\ \A a \in Agents : a # t.agent => agents'[a] = agents[a]
    BY <1>1, <2>1, CardsAssumption DEF TypeOK
  <2> DEFINE p == PublishAs(t.op)
             j == [id |-> t.stamp, agent |-> t.agent, action |-> p,
                   pc |-> "new", card |-> 0, tries |-> 0]
  <2>4. p \in {"upsert", "delete"}
    BY DEF PublishAs
  <2>5. /\ txs' = txs \ {t} /\ jobs' = jobs \cup {j} /\ UNCHANGED <<clock, strays, index, cache>>
        /\ clean' \subseteq Agents
    BY <1>1, <1>3, <2>1 DEF Commit, TypeOK
  <2> HIDE DEF p
  <2>6. /\ j \in [id : 1..clock, agent : Agents, action : {"upsert", "delete"},
                  pc : {"new", "send"}, card : 0..MaxTx, tries : 0..MaxRetries]
        /\ j.agent = t.agent /\ j.card = 0
    BY <2>1, <2>2, <2>4, CardsAssumption
  <2> HIDE DEF j
  <2>7. agents' \in [Agents -> Row \cup {NoAgent}]
    BY <1>1, <2>1 DEF TypeOK
  <2>8. \A a \in Agents : agents'[a] # NoAgent =>
          agents'[a].version \in 1..MaxTx /\ agents'[a].stamp \in 1..clock
    BY <1>1, <2>1, <2>2, <2>3 DEF TypeOK
  <2>9. \A a \in Agents : agents[a] # NoAgent =>
          agents'[a] # NoAgent /\ agents[a].version \in Nat /\ agents'[a].version \in Nat
          /\ agents[a].version <= agents'[a].version
    BY <1>1, <2>1, <2>3, CardsAssumption DEF TypeOK, Row
  <2>10. \A x \in jobs' \cup strays' :
           agents'[x.agent] # NoAgent /\ x.card <= agents'[x.agent].version
    <3>1. \A x \in jobs \cup strays :
            /\ x.agent \in Agents /\ x.card \in Nat
            /\ agents[x.agent] # NoAgent /\ x.card <= agents[x.agent].version
      BY <1>1 DEF TypeOK
    <3>2. \A x \in jobs \cup strays :
            agents'[x.agent] # NoAgent /\ x.card <= agents'[x.agent].version
      BY <2>9, <3>1
    <3>3. agents'[j.agent] # NoAgent /\ j.card <= agents'[j.agent].version
      BY <2>1, <2>3, <2>6, CardsAssumption
    <3> QED
      BY <2>5, <3>2, <3>3
  <2>11. \A a \in Agents : index'[a] # 0 => agents'[a] # NoAgent /\ index'[a] <= agents'[a].version
    BY <1>1, <2>5, <2>9 DEF TypeOK
  <2>12. suspect' \in BOOLEAN
    BY <1>3 DEF Commit
  <2> QED
    BY <1>1, <2>5, <2>6, <2>7, <2>8, <2>10, <2>11, <2>12 DEF TypeOK
<1>4. ASSUME NEW t \in txs, Abort(t)
      PROVE  TypeOK'
  BY <1>1, <1>4 DEF TypeOK, Abort
<1>5. ASSUME NEW j \in jobs, Step(j)
      PROVE  TypeOK'
  <2>1. /\ UNCHANGED <<agents, txs, clock, cache, suspect>>
        /\ Returns(j) \/ \E k \in Jobs : Proceeds(j, k)
    BY <1>1, <1>5, JobStep
  <2>2. /\ j.agent \in Agents /\ j.card \in 0..MaxTx /\ j.id \in 1..clock
        /\ agents[j.agent] # NoAgent /\ j.card <= agents[j.agent].version
        /\ agents[j.agent].version \in 1..MaxTx
    BY <1>1 DEF TypeOK
  <2>3. /\ [agent |-> j.agent, card |-> j.card] \in [agent : Agents, card : 0..MaxTx]
        /\ [agent |-> j.agent, card |-> j.card].agent = j.agent
        /\ [agent |-> j.agent, card |-> j.card].card = j.card
    BY <2>2
  <2> DEFINE s == [agent |-> j.agent, card |-> j.card]
  <2>4. s \in [agent : Agents, card : 0..MaxTx] /\ s.agent = j.agent /\ s.card = j.card
    BY <2>3
  <2> HIDE DEF s
  <2>5. /\ strays' \subseteq [agent : Agents, card : 0..MaxTx]
        /\ \A x \in strays' : agents[x.agent] # NoAgent /\ x.card <= agents[x.agent].version
        /\ clean' \subseteq Agents
    <3>1. strays' \in {strays, strays \cup {s}} /\ clean' \in {clean, clean \ {j.agent}}
      BY <2>1 DEF Returns, Proceeds, s
    <3> QED
      BY <1>1, <2>2, <2>4, <3>1 DEF TypeOK
  <2>6. /\ index' \in [Agents -> 0..MaxTx]
        /\ \A a \in Agents : index'[a] # 0 => agents[a] # NoAgent /\ index'[a] <= agents[a].version
    <3>1. index' \in {index, [index EXCEPT ![j.agent] = j.card]}
      BY <2>1 DEF Returns, Proceeds
    <3> QED
      BY <1>1, <2>2, <3>1 DEF TypeOK
  <2>7. /\ jobs' \subseteq [id : 1..clock, agent : Agents, action : {"upsert", "delete"},
                            pc : {"new", "send"}, card : 0..MaxTx, tries : 0..MaxRetries]
        /\ \A x \in jobs' : agents[x.agent] # NoAgent /\ x.card <= agents[x.agent].version
    <3>1. CASE Returns(j)
      BY <1>1, <3>1 DEF TypeOK, Returns
    <3>2. ASSUME NEW k \in Jobs, Proceeds(j, k)
          PROVE  /\ jobs' \subseteq [id : 1..clock, agent : Agents, action : {"upsert", "delete"},
                            pc : {"new", "send"}, card : 0..MaxTx, tries : 0..MaxRetries]
                 /\ \A x \in jobs' : agents[x.agent] # NoAgent /\ x.card <= agents[x.agent].version
      <4>1. k.id = j.id /\ k.agent = j.agent /\ k.card \in {0, j.card, agents[j.agent].version}
        BY <3>2 DEF Proceeds, CardOf
      <4>2. k \in [id : 1..clock, agent : Agents, action : {"upsert", "delete"},
                   pc : {"new", "send"}, card : 0..MaxTx, tries : 0..MaxRetries]
        BY <2>2, <4>1 DEF Jobs
      <4>3. agents[k.agent] # NoAgent /\ k.card <= agents[k.agent].version
        BY <2>2, <4>1, CardsAssumption
      <4> QED
        BY <1>1, <3>2, <4>2, <4>3 DEF TypeOK, Proceeds
    <3> QED
      BY <2>1, <3>1, <3>2
  <2> QED
    BY <1>1, <2>1, <2>5, <2>6, <2>7 DEF TypeOK
<1>6. ASSUME NEW s \in strays, Serve(s) \/ Lose(s)
      PROVE  TypeOK'
  <2>1. /\ s.agent \in Agents /\ s.card \in 0..MaxTx
        /\ agents[s.agent] # NoAgent /\ s.card <= agents[s.agent].version
    BY <1>1 DEF TypeOK
  <2>2. index' \in {index, [index EXCEPT ![s.agent] = s.card]} /\ strays' = strays \ {s}
        /\ UNCHANGED <<agents, txs, clock, jobs, cache, clean, suspect>>
    BY <1>6 DEF Serve, Lose
  <2>3. /\ index' \in [Agents -> 0..MaxTx]
        /\ \A a \in Agents : index'[a] # 0 => agents[a] # NoAgent /\ index'[a] <= agents[a].version
    BY <1>1, <2>1, <2>2 DEF TypeOK
  <2> QED
    BY <1>1, <2>2, <2>3 DEF TypeOK
<1>7. CASE Crash
  BY <1>1, <1>7 DEF TypeOK, Crash
<1>8. CASE Fetch
  <2>1. Etag \in 0..clock
    BY <1>1, EtagIsLatest DEF IInv
  <2>2. cache'.etag \in 0..clock \cup {NoEtag} /\ suspect' \in BOOLEAN
    <3>1. CASE cache.etag = Etag
      BY <1>1, <1>8, <3>1 DEF Fetch, TypeOK
    <3>2. CASE cache.etag # Etag
      <4>1. cache' = [etag |-> Etag, card |-> Card] /\ suspect' = FALSE
        BY <1>8, <3>2 DEF Fetch
      <4> QED
        BY <2>1, <4>1
    <3> QED
      BY <3>1, <3>2
  <2> QED
    BY <1>1, <1>8, <2>2 DEF TypeOK, Fetch
<1>9. CASE UNCHANGED vars
  BY <1>1, <1>9 DEF TypeOK, vars
<1> QED
  BY <1>2, <1>3, <1>4, <1>5, <1>6, <1>7, <1>8, <1>9 DEF Next

-----------------------------------------------------------------------------
(***************************************************************************)
(* What is published.                                                      *)
(***************************************************************************)

\* What the invariant says of a clean agent.
CleanAt(a) ==
  /\ agents[a] # NoAgent
  /\ \A j, k \in jobs : j.agent = a /\ k.agent = a => j = k
  /\ \A j \in jobs : j.agent = a =>
       /\ j.pc = "new" => (j.action = "delete" <=> agents[a].deleted)
       /\ j.pc = "send" => j.card = Due(a)
  /\ \A s \in strays : s.agent = a => s.card = Due(a)
  /\ (\A j \in jobs : j.agent # a) => index[a] = Due(a)

\* The two conjuncts of the invariant that are about publication.
LEMMA CleanMeans == (CleanIsAlone /\ QuietIsCurrent) <=> \A a \in clean : CleanAt(a)
  BY DEF CleanIsAlone, QuietIsCurrent, CleanAt

\* Only the commit of a change of an agent, and its goroutine, can say of it what
\* was not said before.
LEMMA CleanStep ==
  ASSUME IInv, [Next]_vars
  PROVE  CleanIsAlone' /\ QuietIsCurrent'
<1> SUFFICES ASSUME NEW a \in clean'
             PROVE  CleanAt(a)'
  BY DEF CleanIsAlone, QuietIsCurrent, CleanAt
<1>1. /\ TypeOK /\ \A b \in clean : CleanAt(b)
      /\ a \in Agents /\ jobs \subseteq Jobs
      /\ \A j \in jobs : j.agent \in Agents /\ j.pc \in {"new", "send"}
                         /\ j.action \in {"upsert", "delete"}
  <2>1. TypeOK /\ \A b \in clean : CleanAt(b)
    BY CleanMeans DEF IInv
  <2>2. a \in Agents
    BY TypeStep DEF TypeOK
  <2>3. \A j \in jobs : j \in Jobs
    BY <2>1, CardsAssumption DEF TypeOK, Jobs
  <2> QED
    BY <2>1, <2>2, <2>3 DEF Jobs
<1>2. CASE UNCHANGED <<agents, jobs, strays, index, clean>>
  BY <1>1, <1>2 DEF CleanAt, Due, CardOf
<1>3. ASSUME NEW t \in txs, Commit(t)
      PROVE  CleanAt(a)'
  <2>1. PICK r \in Row :
          /\ t.agent \in Agents /\ agents' = [agents EXCEPT ![t.agent] = r]
          /\ r.deleted <=> t.op = "delete"
    BY <1>3, Written
  <2> DEFINE p == PublishAs(t.op)
             n == [id |-> t.stamp, agent |-> t.agent, action |-> p,
                   pc |-> "new", card |-> 0, tries |-> 0]
  <2>2. n.agent = t.agent /\ n.pc = "new" /\ n.action = p
    OBVIOUS
  <2>3. p = "delete" <=> t.op = "delete"
    BY DEF PublishAs
  <2>4. /\ jobs' = jobs \cup {n} /\ UNCHANGED <<strays, index>>
        /\ clean' = IF Unsettled(t.agent) THEN clean \ {t.agent} ELSE clean \cup {t.agent}
    BY <1>3 DEF Commit
  <2> HIDE DEF n, p
  <2>5. CASE a = t.agent
    <3>1. ~Unsettled(a)
      BY <2>4, <2>5
    <3>2. /\ \A j \in jobs : j.agent # a
          /\ \A s \in strays : s.agent # a
      BY <3>1 DEF Unsettled
    <3>3. agents'[a] = r /\ r # NoAgent
      BY <1>1, <2>1, <2>5, CardsAssumption DEF TypeOK
    <3> QED
      BY <2>1, <2>2, <2>3, <2>4, <2>5, <3>2, <3>3 DEF CleanAt
  <2>6. CASE a # t.agent
    <3>1. a \in clean /\ agents'[a] = agents[a] /\ Due(a)' = Due(a)
      BY <1>1, <2>1, <2>4, <2>6 DEF TypeOK, Due, CardOf
    <3>2. CleanAt(a)
      BY <1>1, <3>1
    <3> QED
      BY <2>2, <2>4, <2>6, <3>1, <3>2 DEF CleanAt
  <2> QED
    BY <2>5, <2>6
<1>4. ASSUME NEW j \in jobs, Step(j)
      PROVE  CleanAt(a)'
  <2>1. /\ agents' = agents
        /\ Returns(j) \/ \E k \in Jobs : Proceeds(j, k)
    BY <1>1, <1>4, JobStep
  <2>2. a \in clean
    BY <2>1 DEF Returns, Proceeds
  <2>3. CleanAt(a) /\ Due(a)' = Due(a)
    BY <1>1, <2>1, <2>2 DEF Due, CardOf
  <2> DEFINE s == [agent |-> j.agent, card |-> j.card]
  <2>4. s.agent = j.agent /\ s.card = j.card
    OBVIOUS
  <2> HIDE DEF s
  <2>5. \A x \in strays' : x.agent = a => x.card = Due(a)
    <3>1. strays' = strays \/ (j.pc = "send" /\ strays' = strays \cup {s})
      BY <2>1 DEF Returns, Proceeds, s
    <3> QED
      BY <2>3, <2>4, <3>1 DEF CleanAt
  <2>6. CASE Returns(j)
    <3>1. jobs' = jobs \ {j}
      BY <2>6 DEF Returns
    <3>2. CASE j.agent = a
      <4>1. j.pc = "send" /\ index' = [index EXCEPT ![j.agent] = j.card]
        BY <2>6, <3>2 DEF Returns
      <4>2. index'[a] = Due(a)
        BY <1>1, <2>3, <3>2, <4>1 DEF CleanAt, TypeOK
      <4> QED
        BY <2>1, <2>3, <2>5, <3>1, <4>2 DEF CleanAt
    <3>3. CASE j.agent # a
      <4>1. index'[a] = index[a]
        BY <1>1, <2>6, <3>3 DEF Returns, TypeOK
      <4> QED
        BY <2>1, <2>3, <2>5, <3>1, <3>3, <4>1 DEF CleanAt
    <3> QED
      BY <3>2, <3>3
  <2>7. ASSUME NEW k \in Jobs, Proceeds(j, k)
        PROVE  CleanAt(a)'
    <3>1. /\ jobs' = (jobs \ {j}) \cup {k} /\ k.agent = j.agent /\ k.pc = "send"
          /\ index' = index
      BY <2>7 DEF Proceeds
    <3>2. j.agent = a => k.card = Due(a)
      <4>1. j.agent = a /\ j.pc = "new" => k.card = Due(a)
        BY <1>1, <2>3, <2>7 DEF CleanAt, Proceeds, Due
      <4>2. j.agent = a /\ j.pc = "send" => k.card = Due(a)
        BY <2>3, <2>7 DEF CleanAt, Proceeds
      <4> QED
        BY <1>1, <4>1, <4>2
    <3> QED
      BY <2>1, <2>3, <2>5, <3>1, <3>2 DEF CleanAt
  <2> QED
    BY <2>1, <2>6, <2>7
<1>5. ASSUME NEW s \in strays, Serve(s) \/ Lose(s)
      PROVE  CleanAt(a)'
  <2>1. /\ strays' = strays \ {s} /\ UNCHANGED <<agents, jobs, clean>>
        /\ index' \in {index, [index EXCEPT ![s.agent] = s.card]}
    BY <1>5 DEF Serve, Lose
  <2>2. CleanAt(a) /\ Due(a)' = Due(a)
    BY <1>1, <2>1 DEF Due, CardOf
  <2>3. index'[a] = index[a] \/ index'[a] = Due(a)
    BY <1>1, <2>1, <2>2 DEF CleanAt, TypeOK
  <2> QED
    BY <2>1, <2>2, <2>3 DEF CleanAt
<1>6. CASE Crash
  <2>1. /\ jobs' = {} /\ clean' = clean \ {j.agent : j \in jobs}
        /\ UNCHANGED <<agents, strays, index>>
    BY <1>6 DEF Crash
  <2>2. CleanAt(a) /\ Due(a)' = Due(a) /\ \A j \in jobs : j.agent # a
    BY <1>1, <2>1 DEF Due, CardOf
  <2> QED
    BY <2>1, <2>2 DEF CleanAt
<1>7. \/ UNCHANGED <<agents, jobs, strays, index, clean>>
      \/ \E t \in txs : Commit(t)
      \/ \E j \in jobs : Step(j)
      \/ \E s \in strays : Serve(s) \/ Lose(s)
      \/ Crash
  BY DEF Next, vars, BeginTx, Abort, Fetch
<1> QED
  BY <1>2, <1>3, <1>4, <1>5, <1>6, <1>7

-----------------------------------------------------------------------------
(***************************************************************************)
(* What a client has cached.                                               *)
(***************************************************************************)

\* A commit that is not suspect either leaves the card and its ETag alone, or has
\* a timestamp later than every one listed.
LEMMA EtagStep ==
  ASSUME IInv, [Next]_vars
  PROVE  EtagMovesOn'
<1>1. /\ TypeOK /\ LatestExists /\ EtagMovesOn /\ clock \in Nat
      /\ Etag \in Stamps /\ \A x \in Stamps : Etag >= x
      /\ Stamps \subseteq 0..clock
  BY EtagIsLatest DEF IInv
<1>2. CASE UNCHANGED <<agents, cache, suspect>>
  BY <1>1, <1>2 DEF EtagMovesOn, Etag, Card, CardOf, Listed
<1>3. CASE Fetch
  <2>1. Etag' = Etag /\ Card' = Card
    BY <1>3 DEF Fetch, Etag, Card, CardOf, Listed
  <2>2. CASE cache.etag = Etag
    BY <1>1, <1>3, <2>1, <2>2 DEF Fetch, EtagMovesOn
  <2>3. CASE cache.etag # Etag
    <3>1. cache' = [etag |-> Etag, card |-> Card]
      BY <1>3, <2>3 DEF Fetch
    <3>2. cache'.etag = Etag /\ cache'.card = Card
      BY <3>1
    <3> QED
      BY <1>1, <2>1, <3>2 DEF EtagMovesOn
  <2> QED
    BY <2>2, <2>3
<1>4. ASSUME NEW t \in txs, Commit(t), ~suspect', cache.etag # NoEtag
      PROVE  cache.etag <= Etag' /\ (cache.etag = Etag' => cache.card = Card')
  <2>1. PICK r \in Row :
          /\ t.agent \in Agents /\ agents' = [agents EXCEPT ![t.agent] = r]
          /\ r.stamp = t.stamp
          /\ suspect' = \/ suspect
                        \/ t.agent \in Listed /\ ~r.active
                        \/ \E b \in Listed : agents[b].stamp > t.stamp
    BY <1>4, Written
  <2>2. /\ ~suspect /\ (t.agent \in Listed => r.active)
        /\ \A b \in Listed : ~(agents[b].stamp > t.stamp)
    BY <1>4, <2>1
  <2>3. /\ r # NoAgent /\ agents'[t.agent] = r
        /\ \A a \in Agents : a # t.agent => agents'[a] = agents[a]
    BY <1>1, <2>1, CardsAssumption DEF TypeOK
  <2>4. cache.etag \in 0..clock /\ cache.etag <= Etag /\ (cache.etag = Etag => cache.card = Card)
    BY <1>1, <1>4, <2>2 DEF EtagMovesOn, TypeOK
  <2>5. CASE r.active
    <3>1. t.stamp \in 1..clock
      BY <1>1 DEF TypeOK
    <3>2. \A x \in Stamps : x < t.stamp
      <4>1. \A b \in Listed : agents[b].stamp \in 1..clock /\ agents[b].stamp # t.stamp
        BY <1>1 DEF IInv, TransactionsDiffer, TypeOK, Listed
      <4> QED
        BY <1>1, <2>2, <3>1, <4>1 DEF Stamps
    <3>3. t.stamp \in Stamps'
      BY <2>1, <2>3, <2>5 DEF Stamps, Listed
    <3>4. Etag' >= t.stamp /\ Etag' \in Nat
      <4>1. TypeOK' /\ LatestExists'
        BY TypeStep, TransactionsStep
      <4>2. /\ Stamps' \subseteq 0..clock' /\ clock' \in Nat
            /\ Etag' \in Stamps' /\ \A x \in Stamps' : Etag' >= x
        <5>1. Stamps' \subseteq 0..clock' /\ clock' \in Nat
          BY <4>1, CardsAssumption DEF Stamps, Listed, TypeOK
        <5>2. HasMax(Stamps') /\ Stamps' \subseteq Nat
          <6>1. 0 \in Stamps'
            BY DEF Stamps
          <6> QED
            BY <4>1, <5>1, <6>1 DEF LatestExists, HasMax
        <5>3. Etag' = Max(Stamps')
          BY DEF Etag, Stamps, Listed
        <5> QED
          BY <5>1, <5>2, <5>3, MaxOfSubset
      <4> QED
        BY <3>3, <4>2, <3>1
    <3>5. Etag < Etag'
      BY <1>1, <3>1, <3>2, <3>4
    <3> QED
      BY <1>1, <2>4, <3>4, <3>5
  <2>6. CASE ~r.active
    <3>1. t.agent \notin Listed /\ Listed' = Listed
      BY <2>2, <2>3, <2>6 DEF Listed
    <3>2. \A b \in Listed : agents'[b] = agents[b]
      BY <2>3, <3>1 DEF Listed
    <3>3. Etag' = Etag /\ Card' = Card
      <4>1. {agents'[b].stamp : b \in Listed} = {agents[b].stamp : b \in Listed}
        BY <3>2
      <4>2. {<<b, agents'[b].version>> : b \in Listed} = {<<b, agents[b].version>> : b \in Listed}
        BY <3>2
      <4> QED
        BY <3>1, <4>1, <4>2 DEF Etag, Card, CardOf
    <3> QED
      BY <2>4, <3>3
  <2> QED
    BY <2>5, <2>6
<1>5. ASSUME NEW t \in txs, Commit(t)
      PROVE  EtagMovesOn'
  <2>1. cache' = cache
    BY <1>5 DEF Commit
  <2> QED
    BY <1>4, <1>5, <2>1 DEF EtagMovesOn
<1>6. (\E j \in jobs : Step(j)) => UNCHANGED <<agents, cache, suspect>>
  BY <1>1, JobStep
<1> QED
  BY <1>2, <1>3, <1>5, <1>6 DEF Next, vars, BeginTx, Abort, Serve, Lose, Crash

-----------------------------------------------------------------------------
(***************************************************************************)
(* The invariant, and the theorems.                                        *)
(***************************************************************************)

\* The invariant holds at the start.
LEMMA InvInit == Init => IInv
<1> SUFFICES ASSUME Init PROVE IInv
  OBVIOUS
<1>1. /\ \A a \in Agents : agents[a] = NoAgent
      /\ txs = {} /\ jobs = {} /\ strays = {} /\ clean = {} /\ clock = 0
      /\ cache.etag = NoEtag
  BY DEF Init
<1>2. TypeOK
  <2>1. agents \in [Agents -> Row \cup {NoAgent}] /\ index \in [Agents -> 0..MaxTx]
    BY CardsAssumption DEF Init
  <2>2. \A a \in Agents : index[a] = 0
    BY DEF Init
  <2>3. clock \in 0..MaxTx /\ suspect \in BOOLEAN /\ cache.etag \in 0..clock \cup {NoEtag}
    <3>1. clock \in 0..MaxTx
      BY <1>1, CardsAssumption
    <3> QED
      BY <1>1, <3>1 DEF Init
  <2> QED
    BY <1>1, <2>1, <2>2, <2>3 DEF TypeOK
<1>3. VersionsBounded /\ TransactionsDiffer
  BY <1>1, FS_EmptySet DEF VersionsBounded, TransactionsDiffer
<1>4. LatestExists
  <2> SUFFICES ASSUME NEW S \in SUBSET (0..clock), S # {}
               PROVE  HasMax(S)
    BY DEF LatestExists
  <2>1. 0..clock = {0}
    BY <1>1
  <2>2. PICK m \in S : TRUE
    OBVIOUS
  <2>3. m = 0 /\ \A x \in S : x = 0
    BY <2>1
  <2> QED
    BY <2>2, <2>3 DEF HasMax
<1>5. CleanIsAlone /\ QuietIsCurrent /\ EtagMovesOn
  BY <1>1 DEF CleanIsAlone, QuietIsCurrent, EtagMovesOn
<1> QED
  BY <1>2, <1>3, <1>4, <1>5 DEF IInv

\* And every step keeps it, so it holds in every reachable state.
LEMMA Invariance == Spec => []IInv
<1>1. IInv /\ [Next]_vars => IInv'
  BY TypeStep, TransactionsStep, CleanStep, EtagStep DEF IInv
<1> QED
  BY <1>1, InvInit, PTL DEF Spec

\* No card, in a goroutine, under way or in the external registry, is of a version
\* that was never committed.
THEOREM TypeCorrect == Spec => []TypeOK
<1>1. IInv => TypeOK
  BY DEF IInv
<1> QED
  BY <1>1, Invariance, PTL

\* However often its publication is retried, times out and arrives late, an agent
\* whose last change was published alone has its card in the external registry.
THEOREM QuietCurrent == Spec => []QuietIsCurrent
<1>1. IInv => QuietIsCurrent
  BY DEF IInv
<1> QED
  BY <1>1, Invariance, PTL

\* A 304 leaves a client with the current card, unless what changed is what the
\* latest updated_at cannot show.
THEOREM FreshCard == Spec => []FreshUnlessSuspect
<1>1. IInv => FreshUnlessSuspect
  <2> SUFFICES ASSUME IInv, ~suspect, cache.etag = Etag
               PROVE  cache.card = Card
    BY DEF FreshUnlessSuspect
  <2>1. Etag \in Nat
    BY EtagIsLatest DEF IInv
  <2> QED
    BY <2>1, CardsAssumption DEF IInv, EtagMovesOn
<1> QED
  BY <1>1, Invariance, PTL

-----------------------------------------------------------------------------
(***************************************************************************)
(* That publications end, but for the fairness that lets them run.         *)
(***************************************************************************)

\* A publication is known by the timestamp of its transaction, which no other
\* one has, nor any transaction that is still open.
OnePublication ==
  /\ \A j, k \in jobs : j.id = k.id => j = k
  /\ \A j \in jobs, t \in txs : j.id # t.stamp

\* A goroutine goes on with a step less to make, or returns.
LEMMA JobAdvances ==
  ASSUME TypeOK, NEW j \in jobs, Step(j)
  PROVE  \/ jobs' = jobs \ {j}
         \/ \E k : /\ jobs' = (jobs \ {j}) \cup {k} /\ k.id = j.id
                   /\ StepsLeft(k) \in 1..(StepsLeft(j) - 1)
<1>1. /\ j \in Jobs /\ MaxRetries \in Nat /\ j.tries \in 0..MaxRetries
  BY CardsAssumption DEF TypeOK, Jobs
<1>2. CASE GetAgentCard(j)
  <2> DEFINE d == IF j.action = "delete" THEN 0 ELSE CardOf(j.agent)
             k == [j EXCEPT !.pc = "send", !.card = d]
  <2>1. j.pc = "new" /\ jobs' = (jobs \ {j}) \cup {k}
    BY <1>2 DEF GetAgentCard, Advance
  <2>2. k.id = j.id /\ k.pc = "send" /\ k.tries = j.tries
    <3> HIDE DEF d
    <3> QED
      BY <1>1 DEF Jobs
  <2> HIDE DEF k
  <2>3. StepsLeft(k) \in 1..(StepsLeft(j) - 1)
    BY <1>1, <2>1, <2>2 DEF StepsLeft
  <2> QED
    BY <2>1, <2>2, <2>3
<1>3. CASE GetAgentCardFails(j) \/ Accepted(j)
  BY <1>3 DEF GetAgentCardFails, Accepted, Return
<1>4. CASE Refused(j) \/ TimedOut(j)
  <2>1. j.pc = "send" /\ Retry(j)
    BY <1>4 DEF Refused, TimedOut
  <2>2. CASE j.tries < MaxRetries
    <3> DEFINE k == [j EXCEPT !.tries = @ + 1]
    <3>1. jobs' = (jobs \ {j}) \cup {k}
      BY <2>1, <2>2 DEF Retry, Advance
    <3>2. k.id = j.id /\ k.pc = j.pc /\ k.tries = j.tries + 1
      BY <1>1 DEF Jobs
    <3> HIDE DEF k
    <3>3. StepsLeft(k) \in 1..(StepsLeft(j) - 1)
      BY <1>1, <2>1, <2>2, <3>2 DEF StepsLeft
    <3> QED
      BY <3>1, <3>2, <3>3
  <2>3. CASE ~(j.tries < MaxRetries)
    BY <2>1, <2>3 DEF Retry, Return
  <2> QED
    BY <2>2, <2>3
<1> QED
  BY <1>2, <1>3, <1>4 DEF Step

\* Each step keeps the publications apart.
LEMMA PublicationsApart ==
  ASSUME IInv, OnePublication, [Next]_vars
  PROVE  OnePublication'
<1>1. /\ clock \in Nat /\ \A j \in jobs : j.id \in 1..clock
      /\ TypeOK /\ TransactionsDiffer
  BY CardsAssumption DEF IInv, TypeOK
<1>2. ASSUME NEW a \in Agents, NEW op \in {"create", "edit", "rollback", "delete"}, BeginTx(a, op)
      PROVE  OnePublication'
  <2>1. jobs' = jobs /\ \A t \in txs' : t \in txs \/ t.stamp = clock + 1
    BY <1>2 DEF BeginTx
  <2> QED
    BY <1>1, <2>1 DEF OnePublication
<1>3. ASSUME NEW t \in txs, Commit(t)
      PROVE  OnePublication'
  <2>1. PICK k : k.id = t.stamp /\ jobs' = jobs \cup {k} /\ txs' = txs \ {t}
    BY <1>3 DEF Commit
  <2> QED
    BY <1>1, <2>1 DEF OnePublication, TransactionsDiffer
<1>4. ASSUME NEW j \in jobs, Step(j)
      PROVE  OnePublication'
  <2>1. txs' = txs
    BY <1>1, <1>4, JobStep
  <2>2. CASE jobs' = jobs \ {j}
    BY <2>1, <2>2 DEF OnePublication
  <2>3. ASSUME NEW k, jobs' = (jobs \ {j}) \cup {k}, k.id = j.id
        PROVE  OnePublication'
    BY <2>1, <2>3 DEF OnePublication
  <2> QED
    BY <1>1, <1>4, <2>2, <2>3, JobAdvances
<1>5. CASE \E t \in txs : Abort(t)
  BY <1>5 DEF Abort, OnePublication
<1>6. CASE Crash
  BY <1>6 DEF Crash, OnePublication
<1>7. CASE (\E s \in strays : Serve(s) \/ Lose(s)) \/ Fetch \/ UNCHANGED vars
  BY <1>7 DEF Serve, Lose, Fetch, vars, OnePublication
<1> QED
  BY <1>2, <1>3, <1>4, <1>5, <1>6, <1>7 DEF Next

\* Every step of a goroutine of publishA2A leaves it fewer to make, and one at
\* least until it returns: with the timeout of its requests, and a database that
\* answers its query or drops it, which make it take its steps, none retries for
\* ever.
THEOREM Advances == Spec => PublicationsAdvance
<1> DEFINE A == \A j \in jobs, k \in jobs' :
                  k.id = j.id => k = j \/ StepsLeft(k) \in 1..(StepsLeft(j) - 1)
<1>1. IInv /\ OnePublication /\ [Next]_vars => [A]_vars
  <2> SUFFICES ASSUME IInv, OnePublication, [Next]_vars,
                      NEW j \in jobs, NEW k \in jobs', k.id = j.id, k # j
               PROVE  StepsLeft(k) \in 1..(StepsLeft(j) - 1)
    OBVIOUS
  <2>1. ASSUME NEW i \in jobs, Step(i) PROVE StepsLeft(k) \in 1..(StepsLeft(j) - 1)
    <3>1. jobs' # jobs \ {i}
      BY DEF OnePublication
    <3>2. PICK l : /\ jobs' = (jobs \ {i}) \cup {l} /\ l.id = i.id
                   /\ StepsLeft(l) \in 1..(StepsLeft(i) - 1)
      BY <2>1, <3>1, JobAdvances DEF IInv
    <3>3. k = l /\ j = i
      BY <3>2 DEF OnePublication
    <3> QED
      BY <3>2, <3>3
  <2>2. ASSUME NEW t \in txs, Commit(t) PROVE FALSE
    <3>1. \A l \in jobs' : l \in jobs \/ l.id = t.stamp
      BY <2>2 DEF Commit
    <3> QED
      BY <3>1 DEF OnePublication
  <2>3. jobs' \subseteq jobs => FALSE
    BY DEF OnePublication
  <2> QED
    BY <2>1, <2>2, <2>3 DEF Next, BeginTx, Abort, Serve, Lose, Crash, Fetch, vars
<1>2. Init => OnePublication
  BY DEF Init, OnePublication
<1>3. IInv /\ OnePublication /\ [Next]_vars => OnePublication'
  BY PublicationsApart
<1> QED
  BY <1>1, <1>2, <1>3, Invariance, PTL DEF Spec, PublicationsAdvance
=============================================================================
