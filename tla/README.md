# A formal model of agent-registry

TLA+ modules that model the concurrent core of the agent registry, the TLC
configurations that check them on small instances, and theorems that the TLAPS
proof system checks for every instance.

The registry is a Go HTTP server in front of PostgreSQL. Any number of request
goroutines, possibly of several server processes, read and write the database
side by side; a few in-memory structures (circuit breaker, rate limiter,
webhook channel) are shared by the goroutines of one process. Most of what is
hard to get right, and hard to test, lies in how those requests interleave.

## Inventory

| Component | State | Operations | What is hard | What makes it correct |
|---|---|---|---|---|
| Agent store (`store/agents.go`, `api/agents.go`) | rows of `agents` and `agent_versions` | create, PUT, PATCH, delete, rollback, reads | reads outside the writing transaction, optimistic concurrency on `updated_at`, two tables written together | no lost update; versions contiguous and immutable; a deleted agent does not come back by accident |
| Prompts (`store/prompts.go`, `api/prompts.go`) | rows of `prompts` | create, activate, roll back | READ COMMITTED statements that see different states | one active prompt, contiguous versions, no overwritten prompt |
| Model endpoints (`store/model_endpoints.go`, `api/model_endpoints.go`) | endpoints and their versions | create, update, new version, activate, delete | the same as prompts, and encrypted headers | one active version; versions contiguous |
| Tool gateway (`api/mcp_gateway.go`, `gateway/proxy_client.go`) | none of its own | proxy a call | breaker, checks and upstream in sequence; clients that go away | a healthy server is reachable; a broken one is spared |
| Circuit breaker (`gateway/circuit_breaker.go`) | an entry per server label | Allow, RecordSuccess, RecordFailure | late outcomes, the one probe | it opens, probes once, and recovers |
| Trust classifier (`gateway/trust_classifier.go`) | none | classify a tool | three levels read one after the other while they change; overrides in a Go map | the answer is one the settings gave at some moment; unknown tiers block |
| Rate limiter (`ratelimit/limiter.go`) | a bucket per key | Allow | the end of a window | a bound on what passes; refusals are earned and end |
| Webhook dispatcher (`notify/dispatcher.go`) | a channel, workers, a flag | Dispatch, deliver, Stop | full channel, retries, stop beside dispatch | queued events are settled, Stop drains and returns, no panic |
| A2A publication (`notify/a2a_publisher.go`), cards (`api/a2a.go`), discovery | none; an external index | publish on each change, serve cards | a goroutine per change, retries, ETag caching | the index ends up like the registry |
| Accounts and sessions (`auth/handler.go`, `auth/session.go`, `store/users.go`, `store/sessions.go`, `api/users.go`) | rows of `users`, `sessions`, `oauth_connections` | sign in and out with a password or Google, change password, link, reset, edit, deactivate | no handler opens a transaction; counters and revocations in statements of their own; decisions on a stale copy | an account is locked in time, a password change ends other sessions, a connection and its account agree |
| API keys, middleware (`store/api_keys.go`, `api/middleware.go`) | rows of `api_keys` | mint, revoke, authenticate a request | revocation beside use | a revoked key, or one of an inactive user, is refused |
| MCP protocol server (`internal/mcp`, `api/mcp_*.go`) | sessions in memory | initialize, call, delete | session life cycle | methods need a session |
| MCP server registry, trust rules and defaults, model configuration (`store/mcp_servers.go`, `store/trust_*.go`, `store/model_config.go`) | one table each | CRUD, merge, discovery | optimistic concurrency in some, blind upserts in others; readers with no transaction | an answer is explained by the settings of one moment |
| Webhook subscriptions | `webhook_subscriptions` | create, list, delete | a delivery beside a deletion | |
| Audit log | `audit_log` | insert, list | errors ignored | append only |
| Seeding, start-up, shutdown (`internal/seed`, `cmd/server`) | none | run once | several processes at once; a crash half way; errors that only warn; the order of shutdown | there is an administrator; the seed is whole; workers are drained |
| Configuration, pool, migrations, telemetry, health, cryptography, web console | none that matters | I/O, libraries, a client | | not modelled |

How they interact: a handler reads and writes stores through SQL, then writes
an audit entry, calls `Dispatcher.Dispatch` and starts an A2A publication; the
gateway handler reads the MCP server's row, asks the circuit breaker, the trust
classifier (which reads three tables) and the rate limiter, and forwards;
`main` builds all of it, and on a signal runs `srv.Shutdown` and then
`Dispatcher.Stop`.

`PROJECT.json` lists every component with its status and every hazard with the
properties that cover it.

## What is hard, and where

- **READ COMMITTED.** A handler reads a row, decides, and writes in a later
  transaction; inside a transaction each statement sees its own snapshot. What
  is atomic is a statement and a row lock, not the handler. `AgentStore`,
  `PromptStore` and `ModelEndpoints` are written at that grain.
- **`now()` is the start of the transaction.** `updated_at` serves as ETag and
  as `If-Match`, but its values do not grow from one commit to the next.
  `AgentStore` shows that equality still suffices for lost updates,
  `AgentCards` that taking a maximum of them does not make an ETag.
- **A goroutine per change.** A2A publications of one agent have no order.
- **Checks between a claim and its release.** The gateway claims the breaker's
  one probe, then runs four checks that may end the call.
- **A flag read before a send.** `Dispatch` beside `Stop`.
- **No transaction at all.** Sign-in, password change, linking and reset are
  sequences of statements whose later errors are mostly ignored; a tool call and
  a merged configuration are read level by level. `Accounts` and `Settings` take
  every statement as a step.
- **Crashes.** Transactions are undone, the breaker is forgotten, queued events
  and publications are lost; a seed is left half way.
- **Time.** Open duration of the breaker, window of the limiter, timeouts of
  requests that may still be served.

## How the code became modules

Every module gives the file it models in its first lines, and `PROJECT.json`
maps each definition to its lines. A definition marked `Fault:` in its comment
is a plausible bug in the definition that follows it: replacing the one by the
other makes some property fail, which shows that the property depends on that
line of the code.

| Module | Code | Extends or uses |
|---|---|---|
| `VersionedRecord` | what `store/agents.go` promises | (abstract) |
| `AgentStore` | `store/agents.go`, `api/agents.go` | refines `VersionedRecord` |
| `VersionHistory` | what `store/prompts.go` and `store/model_endpoints.go` promise of versions | (abstract) |
| `PromptStore` | `store/prompts.go`, `api/prompts.go` | refines `VersionHistory` |
| `ModelEndpoints` | `store/model_endpoints.go`, `api/model_endpoints.go` | refines `VersionHistory` |
| `CircuitBreaker` | `gateway/circuit_breaker.go` | |
| `Gateway` | `api/mcp_gateway.go`, `gateway/proxy_client.go` | extends `CircuitBreaker` |
| `RateLimiter` | `ratelimit/limiter.go` | |
| `Settings` | `gateway/trust_classifier.go`, `store/trust_rules.go`, `store/trust_defaults.go`, `store/model_config.go`, `store/mcp_servers.go`, `api/discovery.go` and their handlers | extends `RateLimiter` |
| `EventDelivery` | what `notify/dispatcher.go` promises | (abstract) |
| `Dispatcher` | `notify/dispatcher.go`, shutdown in `cmd/server/main.go` | refines `EventDelivery` |
| `AgentCards` | `notify/a2a_publisher.go`, `api/a2a.go`, `publishA2A` | |
| `Accounts` | `auth/handler.go`, `auth/session.go`, `store/users.go`, `store/sessions.go`, `api/users.go`, `api/middleware.go`, the adapters of `cmd/server/main.go` | |
| `Startup` | `run` of `cmd/server/main.go`, `internal/seed`, `api/users.go` | |
| `MC...` | instances for TLC | one per module above that is run |
| `ToolCalls_proof` | theorems | `Gateway` and `Settings`, with what they extend |
| the other `..._proof` | theorems | the module named |

### AgentStore and VersionedRecord

`row` is the agent's row, `snaps` its rows of `agent_versions`, `lock` the
transaction that has written the row and not committed, `req[c]` the request a
client has in flight with the point its handler has reached. `Request*` is the
arrival of a request; a client of PUT or PATCH sends the `updated_at` of a row
it has read. `GetByID` and `GetVersion` are the reads the handler makes outside
its transaction; `BeginTx` fixes `now()`; `ExecWrite` is the `INSERT` or
`UPDATE ... RETURNING version`, which waits for the row's lock and then
re-evaluates its `WHERE`; `Commit` is the snapshot insert and the commit, which
become visible together; `ExecDelete` is the one-statement soft delete.
`Abort` and `Crash` may come at any point.

The columns are functions `Fields -> Values`; PUT must mention `TextFields`,
PATCH need not, and what is not mentioned is taken from the row (`Overlay`).
`VersionedRecord` has no lock, no clock and no intermediate points: a request
is submitted, then applied in one step or dropped. The refinement mapping
forgets the stamp, the lock, the draft and the program counter.

### PromptStore

`prompts` are the committed rows, `req[c].held` the rows a transaction has
written, `req[c].todo` those its deactivating `UPDATE` has picked and not yet
visited. `ReadMax` is `SELECT MAX(version)`, `StartDeactivate` the snapshot of
the deactivating statement, `DeactivateRow` one row of it (waiting for its
lock, and looking at it again), `Insert` and `ActivateRow` the last statement,
`Commit` the commit. `activated` and `alone` are history variables that only
the properties read. Deadlocks between two sweeps are possible in PostgreSQL
and are resolved by aborting one: that is an `Abort`.

### ModelEndpoints and VersionHistory

`row` is the endpoint's row, `versions` its rows of `model_endpoint_versions`,
`req[c]` the request a client has in flight. PUT is `GetBySlug`, `BeginTx` (its
`now()`) and `Update`, one `UPDATE ... WHERE updated_at = $10`; DELETE has no
read before it and no `If-Match`. `CreateEndpoint` is the transaction that
inserts the row with version 1, active. A new version is `ReadMax` and
`InsertVersion`, inactive; an activation is `GetVersion`, outside the
transaction, and then the two `UPDATE`s, modelled as in `PromptStore`. A
transaction whose only or last statement writes is one step with its commit.

`VersionHistory` is what both stores promise of their numbered versions: one is
added at the end or one is activated, the first is active, and nothing else
changes but that some of the others become inactive. It does not say that one
version is active alone, because overlapping requests do not keep that
(`PromptActivate`). Both modules read their rows as its `versions` unchanged.

### CircuitBreaker and Gateway

`CircuitBreaker` has one action per method, each under the breaker's mutex, for
one server label. `Gateway` adds the calls: `Lookup` reads the server's row and
keeps that copy, `Admit`/`Reject` ask the breaker, `Refuse` stands for the four
checks that follow (body, trust tier, rate limit, credential), any of which ends
the call without a word to the breaker, `Send`, `Answer` and `Disconnect` are
the forwarded request, `Record` its outcome. The administrator changes the row
at any time, the upstream comes and goes, the process restarts.
`wasDown`, `refused`, `sinceOpen` and `probe` are history. `LargestAssumption`
says that the settings have a largest threshold and duration, at which
`failures` and `age` saturate.

### Settings and RateLimiter

The tables a tool call reads (server row, the agent's overrides, the workspace's
rules, the defaults) and those a merged configuration reads (global row and
workspace's row), with the administrators that change them; a committed change
is one step, for each is one statement. A PUT with `If-Match` is one step too:
its `UPDATE` compares `updated_at`, so the row it replaces is the one it read.
`request[r]` is a request with the point it has reached; `GetTrustOverrides`,
`ListRules`, `ListDefaults`, `GetGlobal`, `GetWorkspace` and `Fetch` (one of the
goroutines of discovery) are its reads. `may` and `touched` are history: every
answer the settings have given at some moment since the request began, and the
tables that changed meanwhile. `Answers` is the reference definition, over all
levels at once; the glob match of a pattern is data, and `Patterns` are those
that match.

A call that passes goes on to `RateLimiter`, one key of it. `bucket` is count
and age; a missing bucket and an expired one are the same value because `Allow`
treats them alike. `recent` is history: the requests allowed in the last `Window`
ticks, each with its age.

`Settings` and `Gateway` describe the two sides of one tool call and are proved
about in one module; their specifications are therefore named apart
(`SettingsSpec` and `Spec`, `SettingsTypeOK` and `TypeOK`).

### Dispatcher

`event[e]` follows an event from the handler (`new`, then `sending` between the
flag and the `select`) to the channel, a worker and its end. `worker[w]` is
where a worker stands in `processEvent` and `deliver`. `Stop` is three steps:
flag, close, wait. `ChangeSubscription` stands for the administrator.

`EventDelivery` has no channel, no workers and no flag: an event offered is
refused or accepted; one accepted is lost before anything is sent for it, or
addressed to some of the subscriptions that want it, sent to each until it has
acknowledged or been tried `MaxRetries + 1` times, and settled with the last of
these requests; once the door is closing nothing is accepted, and it closes when
nothing accepted is left. The refinement mapping (`Fates`, `Door`) counts an
event as accepted on the channel and in a worker's hands alike, and takes the
close of the channel, not the flag, for the closing of the door.

### AgentCards

An agent is reduced to version, `is_active` and `updated_at`; its transactions
are those of `AgentStore`, taken as one step at their commit. `jobs` are the
goroutines of `publishA2A`, `strays` requests that timed out at the sender and
may still be served, `index` what the external registry holds. `Fetch` is a
client that revalidates the well-known card with its ETag.

### Accounts

One account: `user` is its row, `sessions` its sessions, `linked` its Google
connection, `key` an API key of it, `req[c]` the request a client has in flight.
`pc` names the next statement; `copy` is the row a handler read and decides on;
`fresh` says that `updated_at` is still that of the row it read, which is what
`UserStore.Update` compares and no other statement does. Sign-in is
`GetByUsername`, then `IncrementFailedLogins` and perhaps `LockAccount`, or
`ResetFailedLogins` and `CreateSession`; a password change is the middleware's
statements, `VerifyPassword`, `GetByID`, `Update`, `Revoke`; a linking is
`GetByProviderUID`, `GetByEmail`, `Connect`, `GetByID`, `Update` and then a
sign-in; a reset is `GetByID`, `Update`, `Disconnect`. `StatementFails` is a
statement whose error the code returns or ignores (`Ignoring`), `Interrupt` a
process that dies or clients that go away. Sessions carry a `grade`, a history
of how they stand to the account's present credentials; `excused` remembers what
a fault or a conflict left undone. Scopes, roles and CSRF tokens decide on one
request alone and are left out; the limiter of login attempts per address is
another key of `RateLimiter`, and is not composed here.

### Startup

Several processes on one database: `proc[p]` is how far `run` has come in `p`,
`users` the rows that tell who is an administrator, `agents[i]` who made the
agent with the id of seed `i`. `CountAdmins` and `CreateAdmin` are
`seedDefaultAdmin`, `CountAll` and `CreateAgent` are `SeedAgents`, one `INSERT`
a step; `SeedFails` is an error in either, which only warns.

Once a process serves, editors create agents and the requests of `api/users.go`
come in. `signedIn` are the users with a session. `LetIn` is what the middleware
demands of who sends a request: a session gives the role of its user, active or
not, and a key only that of an active user; deactivation ends no session, so that
a deactivated administrator goes on sending requests until it signs out or its
session expires. `CreateUser`, `UpdateUser` and `DeleteUser` are the arrival of a
request (`Admit`), with the check of one's own account that DELETE alone makes.
`Create` is the `INSERT` of a POST, `GetByID` the read of a PUT or DELETE and what
it makes of the row, `Update` the `UPDATE` that compares `updated_at`, and
`Refused` every other end. Between these steps nobody asks again who the sender
is. `orphaned` is history: it marks the two ways in which the last administrator
may go, which `AdminKept` excepts.

## The runs

| Run | Instance | Shows |
|---|---|---|
| `AgentStore` | 2 clients, 4 transactions, 1 column, 2 values | no lost update, contiguous and immutable versions, no accidental revival, `VersionedRecord` is implemented |
| `PromptStore` | 3 clients, 2 versions | contiguous versions, always an active one; the newest alone if nothing is activated; `VersionHistory` is implemented |
| `PromptActivate` | 2 clients, 2 versions | **violated**: two prompts active |
| `ModelEndpoints` | 2 clients, 3 transactions on the row, 2 versions, 2 values | no lost update, one activation alone is exact, `VersionHistory` is implemented, whose steps leave an active version |
| `Gateway` | 2 calls, 3 settings of the server, 1 disconnect | one call per opening, healthy servers are not cut off, recovery if no probe is refused |
| `GatewayRefuse` | the same | **violated**: a refused probe leaves the circuit half-open |
| `AgentCards` | 2 agents, 3 transactions, 1 retry | when the index and a client's copy are current; publications end |
| `Dispatcher` | 2 events, 2 workers, 2 subscriptions, channel of 1, 1 retry | settled, attended, `Stop` returns; `EventDelivery` is implemented: bounded, never sent again once acknowledged, drained at the close |
| `DispatcherPanic` | the same | **violated**: `Dispatch` panics beside `Stop` |
| `Accounts` | 2 clients, 2 passwords, lock at 2 failures, 4 requests, 1 fault | when the account is locked, which sessions outlive a password change, what a linking and a reset leave, who may change credentials |
| `Settings` | 1 request, 2 matching patterns, 3 changes, 1 failed read, limit 2, window 2 | an answer is what the settings said at some moment, if one level changed; at most `2 * Limit - 1` calls in any window's length; a refusal is earned |
| `Startup` | 2 processes, 2 accounts, 3 seeds, 2 starts, 1 fault, 2 edits | there is an administrator, but for a PUT of the last one on itself and a change by one that was removed before; the seed is whole |

Deadlock is checked in all but `AgentStore`, `Accounts` and `Startup`, where a
behaviour ends when its transactions, requests or starts are spent. The others
cannot stop because some step (a request, an abort, a tick, a change of a
subscription) is always possible.

### Bounds

- *AgentStore, 4 transactions*: one to create the agent, two that race, one
  that starts before and commits after both (stale `now()`). A lost update, a
  revival and a snapshot out of place all need three at most. One column: the
  code treats columns alike, one at a time.
- *PromptStore, 3 clients, 2 versions*: two sweeps that see different rows and
  a third that waits for either. The theorems lift the bound.
- *ModelEndpoints, 2 clients, 3 transactions on the row, 2 versions*: a creation
  and two writers of the row that race; the activations of versions 1 and 2 side
  by side, each beside the insertion of a version, already overlap in every way
  that two can. The number of activations is not bounded.
- *Gateway, 2 calls*: a probe and a competitor. The settings include one with
  threshold 1 and one with 2, and one that is disabled, so that a call may carry
  a setting the row no longer has. `failures` and `age` saturate at the largest
  setting, beyond which the code compares nothing.
- *Dispatcher, channel of 1*: full and empty are one send apart; 2 workers may
  each hold one of the 2 events.
- *AgentCards, 3 transactions*: two agents and a late commit, or an agent
  created, edited and deleted. One retry stands for three: the loop is the same.
- *Accounts, 4 requests of 2 clients*: the account made, linked, reset and
  signed in to, or two sign-ins beside a password change and one more request
  that finds what they left. Locking at 2 failures puts the stale decision within
  reach: both clients read the counter before either writes it. One fault: a
  second would only excuse more.
- *Settings, 1 request*: requests write nothing, so that two meet in the limiter
  only, whose `Allow` is atomic. Two patterns, so that one may come before the
  other; three changes, so that a level may change and change back, or two levels
  change, while one request is served. With limit 2 and window 2 the end of a
  window and the limit are met in every order.
- *Startup, 2 starts of 2 processes*: a race for the seed, or a restart into what a
  process left. Three seeds: none, some and all of them there, and two processes may
  part over them. Two accounts and two edits: two administrators that remove one
  another, with both requests let in before, or one after the other over a session,
  and a start beside each. The theorems lift the bounds.

### Fairness

Safety properties are checked with no fairness that could hide a behaviour.
Liveness assumes:

- `Gateway!FairSpec`: weak fairness of the clock, of each step of a call in
  progress, and of the arrival of calls (the breaker has no timer, so it can
  only recover when it is asked). Nothing is assumed of the administrator, the
  upstream, disconnects or restarts.
- `Dispatcher!Spec`: weak fairness of each worker and of `Stop` once it is
  called: goroutines run, and a delivery ends with the HTTP client's timeout at
  the latest. A handler need not call `Dispatch`; the process need not stop.
- `AgentCards!Spec`: weak fairness of the publishing goroutines. Their requests
  time out after 10 s and their back-offs are timers. Their query has no deadline
  (`Publish` runs on `context.Background()`): it ends when the database answers or
  the connection to it is lost, and that one of the two happens is assumed.

### Assumptions

- Two transactions never start in the same microsecond, so `updated_at` values
  are distinct. (With equal values the `If-Match` of one could match the row of
  the other.)
- PostgreSQL is READ COMMITTED, as it is by default: no code sets another level.
- Agents and prompts are never removed from their tables: no code does it.
- Different agents, breaker labels and limiter keys share nothing but a mutex.
- The limit and window of one key do not change while the process runs.

## Findings

`PROJECT.json` quotes the documents these disagree with.

1. `PromptActivate`: a creation beside an activation, or two activations, leave
   several prompts active. `GetActive` asks for one active row and gives no order
   (`LIMIT 1`), so that any of them may come back, and an activation that was
   answered 200 may have no effect. Repaired by any later request that runs alone
   (`AloneIsExact`).
2. `GatewayRefuse`: a probe that a later check refuses leaves the circuit
   half-open until a restart. `ProbeInFlight`, `ForwardedProbeResolves` and
   `Recovers` hold when no check refuses, so this is the only such leak.
3. `DispatcherPanic`: a send on the closed channel.

Smaller disagreements, met while reading and not worth a run:

- `docs/api-reference.md:262` calls activation "a separate operation"; `Create`
  activates the prompt it creates.
- `docs/api-reference.md:346` names the breaker's settings
  `{threshold, timeout}`; the code reads `fail_threshold` and `open_duration_s`.
- `docs/roadmap/002-a2a-agent-card.md` maps `is_active` to `provider.status`;
  the card's status is the constant `active`.
- `internal/ratelimit/limiter.go:16`, `README.md:278` and
  `docs/architecture.md:190` call the limiter's windows sliding; they are fixed
  (`limiter.go:39`), hence `TwiceTheLimit`.
- `docs/api-reference.md:522` says that one version is active per endpoint; two
  activations side by side may leave two, as in `PromptActivate`, and
  `GetActiveVersion` takes either (`LIMIT 1` without an order).
- `docs/api-reference.md:479`: DELETE removes an endpoint "and all its versions";
  it only clears `is_active` of the endpoint.
- `docs/api-reference.md:434`: GET of an endpoint includes the active version's
  configuration; the handler returns the row alone.
- `docs/roadmap/003-mcp-gateway-mode.md:41` draws closed, open, half-open,
  closed; the late success of a call admitted earlier closes an open circuit
  with no probe (`circuit_breaker.go:73`).
- `docs/roadmap/002-a2a-agent-card.md:86` says cards "update automatically when
  agents are modified"; publications of one agent, a goroutine each
  (`api/agents.go:565`), may be served out of order, so that the index keeps a
  card that is out of date, or of a deleted agent, until the next change
  (what `QuietIsCurrent` excepts).
- `docs/roadmap/002-a2a-agent-card.md:78` takes `updated_at` as the card's ETag;
  that of the well-known card is a maximum of them (`a2a.go:180`), which may
  name two cards (what `FreshUnlessSuspect` excepts).

Of the accounts:

- The lock is decided on the copy of the counter that the sign-in read, so with
  n clients it may come n-1 failures late (`LockedInTime`); and it may be written
  after a successful sign-in has reset the counter.
- `docs/authentication.md:41` gives 423 for a locked account, the code 401; its
  table at :66 escalates with every failure past 5, the code with every fifth
  (`handler.go:399`).
- `docs/authentication.md:82`: "All sessions destroyed on password change"; the
  one that made the change is kept, and a sign-in that had verified the former
  password opens one afterwards. Resets and linkings revoke none.
- `docs/authentication.md:45` creates the default admin when the `users` table is
  empty; the code counts active administrators, and the insert fails when the
  username is taken.
- `docs/authentication.md:131`: unlinking, and the method `both`; no code sets
  `both`, and a linked account has no password, which unlinking demands.
- A conflict while linking leaves the connection made and the method `password`;
  so does a reset between the two inserts of a registration with Google. A
  password change that overlaps a linking gives a Google account a password. Of
  two password changes side by side both may be answered with success.
- A reset clears `failed_logins` and `locked_until` of the row in memory;
  `UserStore.Update` writes neither, so that the account stays locked.
- `cmd/server/main.go:311`: "seedDefaultAdmin creates the default admin user if no
  admin exists". The insert finds the username taken when `admin` made itself
  inactive or a viewer with a PUT, or when it and another administrator deactivated
  each other: possible because no session ends with the deactivation of its user
  and no request asks twice (what `AdminKept` excepts). The failed insert is a
  warning, and the registry serves with nobody to administer it but a deactivated
  administrator, while its session lasts. `--reset-admin` gives the user `admin` a
  password and changes neither role nor `is_active`
  (`docs/archive/agentic_registry_spec_v1.md:2683` says it helps when the "Admin
  account itself is locked out").
- Any error of a lookup in `linkAccount` counts as "not found" and leads to the
  next statement (`Ignoring`); the constraints of the tables refuse what that
  would duplicate.
- A seed that a crash cut short is never resumed: `SeedAgents` asks only whether
  there is any agent.

Of the settings:

- Any error of the agent's read counts as "no overrides"; the comment names only
  an agent that is not found. An error of the workspace's configuration leaves
  the global one. Hence the exception of failed reads in `OneLevelExplained`.
- A rule moved from the workspace to the agent may be missed by a call that
  reads the agent before and the workspace after; hence its other exception.
- `docs/api-reference.md:581`: the PUT of a workspace's model configuration
  "Requires `If-Match`"; it is an upsert of the whole row that compares nothing.
- `docs/api-reference.md:390` names the tiers `trusted`, `cautious`, `untrusted`;
  the code has `auto`, `review`, `block`, and takes any other text for `block`.
- Seeded default patterns such as `_read` hold no wildcard, so that `path.Match`
  finds only a tool of exactly that name.

## What is proved

Every invariant and action property that a passing run checks is also a theorem
(those of the three runs that find a violation are not theorems, for they do not
hold). The `_proof` modules hold machine-checked proofs for any number of clients,
calls, processes, columns, values, transactions, prompts, seeds, agents, passwords,
events, patterns and changes, and any channel, lockout threshold, number of
retries, limit and window.

**AgentStore.** `TypeCorrect`, `Lineage`, `EtagNamesTheState`, `Immutability`,
`Revival` and `Implementation` (the refinement of `VersionedRecord`) rest on one
inductive invariant. The properties are not inductive alone: `EtagNamesState`
compares an edit with the row, so one must know that a stamp is never used
twice. `StampsFresh` says so: no stamp of the row, of a row a client has seen or
of a transaction is beyond the clock, and an open transaction's stamp is its
own. `LockHeld` says that a transaction past its write holds the lock and that
its version follows the row's, which gives the contiguity and the immutability
of the log at `Commit`. `RequestsOK` says what a request holds at each point.

**PromptStore.** `TypeCorrect`, `Contiguity`, `NewestIsActive`, `Kept`, `Alone`,
`ActiveExists` and `Implementation` (the refinement of `VersionHistory`: by the
invariant a commit either appends a prompt at the next version or activates one
that exists, and clears no row but those it holds). The invariant adds to the properties: `TargetsInReach` (the
version a creation has chosen is the next one, or one that was committed
meanwhile; the target of an activation exists), `KeysFree` (at the commit of a
creation its key is free and no one else is about to commit it),
`SweepComplete` (while nobody else commits, every active row is still to be
visited by the sweep or already written by it) and `NextIsAlone` (without
activations every commit takes a version, so a request that still holds the next
one has seen no commit since its sweep began). The last two give
`ActiveIsNewest` at a commit: only the holder of the next version can commit,
and it leaves no other row active.

The theorems use the named assumptions on the constants in each module, and for
`PromptStore` that what is counted is finite, which follows from `MaxVersion`.

**Startup.** `TypeCorrect`, `AdminStays` and `Seeded`. `AdminInv` is stronger than
`AdminKept`: there is an administrator as soon as there is any account or any
process past `seedDefaultAdmin`, for the insert of `admin` may otherwise meet a
row of that name that administers nothing. `ChangesOK` says that whoever was let
in has an account and that no DELETE is of oneself; so an `Update` by an
administrator leaves one, its author, unless it is a PUT of the author's own row.
What is excepted is what the code allows: a last administrator that removes itself
by PUT, and an `Update` by someone who is no administrator any more (`orphaned`).
The theorem says that there is no third way, whatever sessions, keys, overlapping
requests, starts and crashes do; the exception ends with the next PUT or DELETE
that leaves an administrator. For the seeds, `Prefix(k)` says that those created are the
first k, that every process at the seeds has got no further than the next, and
that unless k is none or all some process is at the next: whoever meets a
duplicate gives up, and another is ahead of it.

**Gateway.** `TypeCorrect`, `OneCall`, `HealthyServed` and `ProbeHeld`. `Counted`
says that what was let through since the circuit opened is the probe of a
half-open circuit; `NoFailure` that while the upstream has always answered and
every client has waited, no failure is on its way to the breaker.

**Dispatcher.** `TypeCorrect`, `Drained`, `AllAttended`, `Settled`,
`AcknowledgedOnce` and `Implementation` (the refinement of `EventDelivery`). The
channel holds the queued events, each once (`QueueInv`); an event taken is in one
worker's hands (`HoldInv`); a worker leaves a closed and empty channel only, and
`Stop` returns when all have left (`StopInv`); nothing is sent before the
subscriptions are loaded (`LoadInv`); and what a worker has still to deliver is
something, was not acknowledged and was tried as often as its loop counts
(`DeliverInv`). The refinement rests on the last: the local loop of a worker ends
with the very request after which the histories say that each subscription is
done. `AllAttended` is the half of `QueuedIsProcessed` and `StopReturns` that needs
no fairness: no accepted event is left to nobody, whatever the workers and `Stop`
do side by side, so that it is enough that the workers run. The pool has a
worker, as `DispatcherAssumption` states. `Advances` is the other half: each
request is one of `RequestsLeft`, and leaves fewer of them.

**ModelEndpoints.** `TypeCorrect`, `EtagNamesTheState`, `ActiveExists`, `Alone` and
`Implementation` (the refinement of `VersionHistory`). The versions are a
sequence: none is skipped, so the number an insertion has read is free or the
insertion conflicts. `StampsFresh` gives the If-Match, as in `AgentStore`; here
two PUTs may carry the same one, and the second finds a later timestamp.
`RequestsOK` says that the target of an activation exists when its transaction
begins, and `SweepComplete` that, until somebody else commits, every active
version is still to be visited by the sweep or written by it.

**AgentCards.** `TypeCorrect`, `QuietCurrent`, `FreshCard` and `Advances`. `CleanIsAlone` says
that an agent whose last change was published alone has one goroutine, or none,
and that it and every late copy of its request carry what is due. `EtagMovesOn`
says that until something suspect commits, the ETag never falls behind the one a
client has, and is equal to it only for the same card: transactions differ in
their timestamps (`TransactionsDiffer`), so one that is not earlier than any
listed is later than all. That the ETag, a maximum, exists is part of the
invariant (`LatestExists`), for the prover knows no induction. `Advances` is the half of
`PublicationsEnd` that needs no fairness: publications are told apart by the
timestamp of their transaction (`OnePublication`), and each step of one lowers
`StepsLeft`, the steps it can still make.

**Accounts.** `TypeCorrect`, `LockInTime`, `SessionsEnd`, `Linked` and
`CredentialsHeld`. `Route` and `Found` say what a request is at each pc and that
what it looked up is still there; `Current`, that whoever is about to write the
row with an `updated_at` that still is the row's has read the credentials as they
are. `FewHidden` makes `LockedInTime` inductive: the failures counted and those
that will be counted without a lock (`Hidden`) are together one short of the
threshold and of one for each other client. The count of a failure moves one from
the second to the first; a sign-in that reads the row may hide one more, but then
it has read a count below the threshold. The clients are finite in number
(`AccountsAssumption`).

**RateLimiter.** `SettingsTypeCorrect` (which contains the limiter's types),
`LimitedTwice` and `RefusalEarned`. Neither property is inductive: a window's
length may straddle two buckets, and a bucket does not say when its requests came.
`LimiterInv` says that the bucket counts the requests of its own window
(`Since(bucket.age)`), that those of the last `Window` ticks which came before are
one short of a full bucket at most, and that some request is exactly as old as the
bucket, the one that began it. That last part carries the bound: a window ends when
the request that began it is `Window` ticks old, so that at least one of a full
bucket has then left the history. The history is a set whose size is
taken, and not a sequence to be summed, because a sum is an induction over data.

**Settings.** `Explains`: an answer during which one table changed at most is one
that the settings gave at some moment. `OneLevelExplained` speaks of requests that
are answered; what makes it inductive is what holds of those in progress.
`AsRead` says that what a request has read of a table that has not changed since
it began is still what the table holds. `Ahead` says that, as long as one table
changed at most, the answer the request would reach if it read the rest now is
one it may give. The step that matters is the change of a first table: a request
that has read the table will answer by what it held before, a request that has
not by what it holds now, and both are answers over all levels at once, of before
and of after the change; every other level is as it was read. A second change
ends the claim, as it ends that of the property.

**Only model-checked.** The five liveness properties (`ForwardedProbeResolves`,
`Recovers`, `QueuedIsProcessed`, `StopReturns`, `PublicationsEnd`): the
prover does not reason about ENABLED, which weak fairness is made of, nor by
induction over a variant. What they rest on apart from fairness is proved for four
of them (`Dispatcher_proof!AllAttended` and `Advances`, `AgentCards_proof!Advances`,
`ProbeHeld`). Conversely `DrainedAtReturn` and `NoRedelivery` of `Dispatcher`,
`SomeActive` of `ModelEndpoints`, `PublicationsAdvance` and `DeliveryAdvances` are
theorems that no run lists: the first three follow from the refinements the runs do
check. That every definition on patterns, tiers and levels
computes what the Go functions do for all inputs is not a theorem either.

## What is not modelled

`PROJECT.json` gives the reason for each part. In short: formatting,
validation, logging, encryption, HTTP and JSON; the audit log, which nothing
reads back; reads that change nothing (lists, discovery, manifests); the web
console. MCP protocol sessions (`internal/mcp`) are a set of identifiers
that requests are checked against; its tools read through the stores that
`Settings` and `AgentStore` model, and write nothing. Inside the modelled parts:
`CircuitBreaker.Reset`, which only tests call; the content of cards beyond their
version, `max-age=60` and the limit of 1000 agents of the well-known card;
signatures and back-off times of webhooks; the exchange with Google; scopes and
expiry of API keys; the agents and endpoints of discovery; the buckets the limiter
never removes, and the crash that loses queued events, for which the code promises
nothing that a property could say.

## Plan

Modelled and checked: the stores with versions, the gateway with its breaker, the
settings with the limiter, webhooks, cards, accounts, start-up. What is left, the
most useful first:

1. The sign-in limiter (a key of `RateLimiter` per address) in front of the
   attempts of `Accounts`.
2. The tool calls of `Settings` in the place of `Gateway!Refuse`, so that what
   leaves the breaker half-open is a tier, a limit or a credential by name.
