----------------------------- MODULE AgentCards -----------------------------
(***************************************************************************)
(* What the outside world is shown of the agents: the cards pushed to an   *)
(* external A2A registry by a goroutine per change (api/agents.go          *)
(* publishA2A, notify/a2a_publisher.go), and the composite card clients    *)
(* fetch from /.well-known/agent.json with If-None-Match (api/a2a.go).     *)
(*                                                                         *)
(* The agents are those of AgentStore, their content reduced to its        *)
(* version: a transaction takes its updated_at when it starts and changes  *)
(* one row when it commits.                                                *)
(***************************************************************************)
EXTENDS Naturals, FiniteSetsExt

CONSTANTS Agents,
          NoAgent,      \* no such row
          NoEtag,       \* the client has nothing cached
          MaxRetries,   \* a2aMaxRetries
          MaxTx         \* bound: transactions started in a behaviour

VARIABLES agents,       \* committed rows, or NoAgent
          txs,          \* open transactions
          clock,        \* transactions started; source of now()
          jobs,         \* goroutines of publishA2A that have not returned
          strays,       \* requests that timed out but may yet be served
          index,        \* external registry: version of the card it has, 0 if none
          cache,        \* a client's copy of the composite card
          clean,        \* history: agents whose last change was published alone
          suspect       \* history: the card changed in a way its ETag may miss

vars == <<agents, txs, clock, jobs, strays, index, cache, clean, suspect>>

Row == [version : Nat, active : BOOLEAN, stamp : Nat, deleted : BOOLEAN]

ASSUME CardsAssumption == /\ MaxRetries \in Nat /\ MaxTx \in Nat
                          /\ NoAgent \notin Row /\ NoEtag \notin Nat

Listed == {a \in Agents : agents[a] # NoAgent /\ agents[a].active}

\* agentToA2ACard: the card is made of columns that only a new version writes.
\* (Its status is always "active", whatever is_active says.)
CardOf(a) == agents[a].version

\* The composite card: one skill per active agent.
Card == {<<a, CardOf(a)>> : a \in Listed}

\* Fault: the earliest updated_at is taken.
EtagEarliest == Min({agents[a].stamp : a \in Listed} \cup
                    (IF Listed = {} THEN {0} ELSE {}))

\* The latest updated_at of the agents listed; the zero time if there is none.
Etag == Max({agents[a].stamp : a \in Listed} \cup {0})

\* Fault: a deletion is published like any other change.
PublishAlways(op) == "upsert"

PublishAs(op) == IF op = "delete" THEN "delete" ELSE "upsert"

Unsettled(a) == \/ \E j \in jobs : j.agent = a
                \/ \E s \in strays : s.agent = a

-----------------------------------------------------------------------------
Init == /\ agents = [a \in Agents |-> NoAgent]
        /\ txs = {}
        /\ clock = 0
        /\ jobs = {}
        /\ strays = {}
        /\ index = [a \in Agents |-> 0]
        /\ cache = [etag |-> NoEtag, card |-> {}]
        /\ clean = {}
        /\ suspect = FALSE

\* A transaction starts; an edit carries the updated_at its client has seen.
BeginTx(a, op) ==
  /\ clock < MaxTx
  /\ (op = "create") <=> (agents[a] = NoAgent)
  /\ clock' = clock + 1
  /\ txs' = txs \cup {[agent |-> a, op |-> op, stamp |-> clock + 1,
                       seen |-> IF op = "edit" THEN agents[a].stamp ELSE 0]}
  /\ UNCHANGED <<agents, jobs, strays, index, cache, clean, suspect>>

\* Its statements find the row as the request expects it.
Applies(t) == IF t.op = "create"
              THEN agents[t.agent] = NoAgent
              ELSE t.op = "edit" => agents[t.agent].stamp = t.seen

\* The row that results: a PUT, PATCH or rollback may set is_active either way.
Results(t) ==
  {[version |-> IF t.op = "create" THEN 1
                ELSE agents[t.agent].version + (IF t.op = "delete" THEN 0 ELSE 1),
    active  |-> on, stamp |-> t.stamp, deleted |-> t.op = "delete"] :
     on \in CASE t.op = "create" -> {TRUE}
              [] t.op = "delete" -> {FALSE}
              [] OTHER -> BOOLEAN}

\* The transaction commits, and the handler starts a goroutine to publish it.
Commit(t) ==
  /\ Applies(t)
  /\ \E r \in Results(t) :
       /\ agents' = [agents EXCEPT ![t.agent] = r]
       /\ suspect' = \/ suspect
                     \/ t.agent \in Listed /\ ~r.active
                     \/ \E b \in Listed : agents[b].stamp > t.stamp
  /\ txs' = txs \ {t}
  /\ jobs' = jobs \cup {[id |-> t.stamp, agent |-> t.agent, action |-> PublishAs(t.op),
                         pc |-> "new", card |-> 0, tries |-> 0]}
  /\ clean' = IF Unsettled(t.agent) THEN clean \ {t.agent} ELSE clean \cup {t.agent}
  /\ UNCHANGED <<clock, strays, index, cache>>

\* A conflict, or any failure: nothing is written and nothing published.
Abort(t) ==
  /\ txs' = txs \ {t}
  /\ UNCHANGED <<agents, clock, jobs, strays, index, cache, clean, suspect>>

-----------------------------------------------------------------------------
(* A goroutine of publishA2A. *)

Advance(j, k) == /\ jobs' = (jobs \ {j}) \cup {k}
                 /\ UNCHANGED <<agents, txs, clock, cache, suspect>>

Return(j) == /\ jobs' = jobs \ {j}
             /\ UNCHANGED <<agents, txs, clock, cache, suspect>>

\* Fault: the version is advanced once more for the card.
GetAgentCardAhead(j) ==
  /\ j.pc = "new"
  /\ Advance(j, [j EXCEPT !.pc = "send",
                          !.card = IF j.action = "delete" THEN 0
                                   ELSE CardOf(j.agent) + 1])
  /\ UNCHANGED <<strays, index, clean>>

\* The card is built once, from the row as it is when the goroutine runs.
GetAgentCard(j) ==
  /\ j.pc = "new"
  /\ Advance(j, [j EXCEPT !.pc = "send",
                          !.card = IF j.action = "delete" THEN 0
                                   ELSE CardOf(j.agent)])
  /\ UNCHANGED <<strays, index, clean>>

\* The row cannot be read, and the goroutine returns.
GetAgentCardFails(j) ==
  /\ j.pc = "new" /\ j.action = "upsert"
  /\ Return(j)
  /\ clean' = clean \ {j.agent}
  /\ UNCHANGED <<strays, index>>

\* The request is served and answered 2xx.
Accepted(j) ==
  /\ j.pc = "send"
  /\ index' = [index EXCEPT ![j.agent] = j.card]
  /\ Return(j)
  /\ UNCHANGED <<strays, clean>>

\* Fault: the attempt is not counted.
RetryForEver(j) ==
  /\ Advance(j, [j EXCEPT !.tries = 0])
  /\ UNCHANGED clean

\* An attempt has failed: another follows, or the goroutine gives up.
Retry(j) ==
  IF j.tries < MaxRetries
  THEN /\ Advance(j, [j EXCEPT !.tries = @ + 1])
       /\ UNCHANGED clean
  ELSE /\ Return(j)
       /\ clean' = clean \ {j.agent}

\* No connection, or an answer outside 2xx.
Refused(j) ==
  /\ j.pc = "send"
  /\ Retry(j)
  /\ UNCHANGED <<strays, index>>

\* No answer within a2aRequestTimeout: the request may still be served.
TimedOut(j) ==
  /\ j.pc = "send"
  /\ Retry(j)
  /\ strays' = strays \cup {[agent |-> j.agent, card |-> j.card]}
  /\ UNCHANGED index

Serve(s) ==
  /\ strays' = strays \ {s}
  /\ index' = [index EXCEPT ![s.agent] = s.card]
  /\ UNCHANGED <<agents, txs, clock, jobs, cache, clean, suspect>>

Lose(s) ==
  /\ strays' = strays \ {s}
  /\ UNCHANGED <<agents, txs, clock, jobs, index, cache, clean, suspect>>

\* The process dies; nothing is published again when it restarts.
Crash ==
  /\ jobs # {} \/ txs # {}
  /\ txs' = {}
  /\ jobs' = {}
  /\ clean' = clean \ {j.agent : j \in jobs}
  /\ UNCHANGED <<agents, clock, strays, index, cache, suspect>>

-----------------------------------------------------------------------------
\* GET /.well-known/agent.json with the ETag of the cached copy: 304 if it is
\* still the ETag, else the card and its ETag.
Fetch ==
  /\ IF cache.etag = Etag
     THEN UNCHANGED <<cache, suspect>>
     ELSE /\ cache' = [etag |-> Etag, card |-> Card]
          /\ suspect' = FALSE
  /\ UNCHANGED <<agents, txs, clock, jobs, strays, index, clean>>

Step(j) == \/ GetAgentCard(j) \/ GetAgentCardFails(j)
           \/ Accepted(j) \/ Refused(j) \/ TimedOut(j)

Next ==
  \/ \E a \in Agents, op \in {"create", "edit", "rollback", "delete"} : BeginTx(a, op)
  \/ \E t \in txs : Commit(t) \/ Abort(t)
  \/ \E j \in jobs : Step(j)
  \/ \E s \in strays : Serve(s) \/ Lose(s)
  \/ Crash
  \/ Fetch

\* A goroutine's steps are HTTP calls with a timeout, timers, and a query, which has
\* no deadline but ends when the database answers or the connection is lost:
\* each ends, one way or the other.
Fairness == WF_vars(\E j \in jobs : Step(j))

Spec == Init /\ [][Next]_vars /\ Fairness

-----------------------------------------------------------------------------
(***************************************************************************)
(* Properties.                                                             *)
(***************************************************************************)

\* The type invariant: no card anywhere is of a version never committed.
TypeOK ==
  /\ agents \in [Agents -> Row \cup {NoAgent}]
  /\ \A a \in Agents : agents[a] # NoAgent =>
       agents[a].version \in 1..MaxTx /\ agents[a].stamp \in 1..clock
  /\ clock \in 0..MaxTx
  /\ txs \subseteq [agent : Agents, op : {"create", "edit", "rollback", "delete"},
                    stamp : 1..clock, seen : 0..clock]
  /\ jobs \subseteq [id : 1..clock, agent : Agents, action : {"upsert", "delete"},
                     pc : {"new", "send"}, card : 0..MaxTx, tries : 0..MaxRetries]
  /\ strays \subseteq [agent : Agents, card : 0..MaxTx]
  /\ \A x \in jobs \cup strays :
       agents[x.agent] # NoAgent /\ x.card <= agents[x.agent].version
  /\ index \in [Agents -> 0..MaxTx]
  /\ \A a \in Agents : index[a] # 0 => agents[a] # NoAgent /\ index[a] <= agents[a].version
  /\ cache.etag \in 0..clock \cup {NoEtag}
  /\ clean \subseteq Agents
  /\ suspect \in BOOLEAN

\* What the external registry should have of an agent.
Due(a) == IF agents[a] = NoAgent \/ agents[a].deleted THEN 0 ELSE CardOf(a)

\* When the last change of an agent was made with no earlier publication of it
\* still under way, and its own publication has ended well, after however many
\* retries, timeouts and late arrivals, the external registry has its card.
QuietIsCurrent ==
  \A a \in clean : (\A j \in jobs : j.agent # a) => index[a] = Due(a)

\* A client whose copy still has the current ETag, and so is answered 304, has
\* the current card, unless since its last full answer an agent left the list,
\* or a transaction committed with an updated_at older than one listed.
FreshUnlessSuspect == ~suspect /\ cache.etag = Etag => cache.card = Card

\* The steps a publication has left at most: its query and its requests.
StepsLeft(j) == IF j.pc = "new" THEN MaxRetries + 2 ELSE MaxRetries + 1 - j.tries

\* Whatever fails, times out or is served late, a publication that has moved is
\* nearer its end than it was, and is never taken for another one.
PublicationsAdvance ==
  [][\A j \in jobs, k \in jobs' :
       k.id = j.id => k = j \/ StepsLeft(k) \in 1..(StepsLeft(j) - 1)]_vars

\* Once the changes stop, every goroutine that publishes one returns: none
\* retries for ever.
PublicationsEnd == <>[](jobs = {})

=============================================================================
