------------------------------ MODULE Settings ------------------------------
(***************************************************************************)
(* The settings administrators change and the requests that read them      *)
(* level by level: the MCP server's row, the trust overrides of an agent,  *)
(* the trust rules of a workspace, the trust defaults, the model           *)
(* configuration, global and of the workspace.  Every statement is one     *)
(* action; no request reads in a transaction.  A tool call (ProxyToolCall  *)
(* and TrustClassifier.Classify) that is allowed goes on to the rate       *)
(* limiter; a read of the merged model configuration and the discovery of  *)
(* api/discovery.go are the other readers.                                 *)
(***************************************************************************)
EXTENDS RateLimiter, FiniteSetsExt, Functions, Sequences

CONSTANTS Requests,
          Patterns,     \* tool patterns, in the order of their text; all match the tool
          MaxChanges,   \* bound: committed changes
          MaxFaults     \* bound: reads of the agent that fail

ASSUME SettingsAssumption ==
  /\ Patterns \subseteq Nat /\ Patterns # {} /\ IsFiniteSet(Patterns)
  /\ MaxChanges \in Nat /\ MaxFaults \in Nat

VARIABLES
  mcpServer,     \* the row of mcp_servers with the label, or NoServer
  overrides,  \* the agent's trust_overrides
  rules,      \* the workspace's trust_rules
  defaults,   \* trust_defaults: does a pattern of the row of this tier match
  global,     \* model_config, the global row
  workspace,  \* model_config, the row of the workspace; all zeros when there is none
  changes,    \* number of committed changes
  faults,     \* reads that failed
  request     \* request[r]: what r has read and, a history, what it may answer

tables == <<mcpServer, overrides, rules, defaults, global, workspace, changes>>
settingsVars == <<tables, faults, request, limiter>>

Columns == {"model", "tokens"}          \* two of the columns of model_config
Values == {1, 2}                        \* of the global row
Overlays == {0, 3}                      \* of a workspace; 0, or "": not overridden
NoConfig == [k \in Columns |-> 0]
NoServer == [on |-> FALSE, url |-> 0]

\* Tiers, one of each sort: "odd" is text the database does not check.
OverrideTiers == {"none", "auto", "odd"}
RuleTiers == {"none", "auto", "block"}
Priorities == <<"auto", "block", "review">>      \* the three rows of migration 011

\* The sorts of request: a tool call, with an agent and a workspace or without;
\* GetMerged; GetDiscovery.
ToolCalls == [name : {"tool"}, agent : BOOLEAN, ws : BOOLEAN]
Merge == [name |-> "merge"]
Discovery == [name |-> "discovery"]
Sorts == ToolCalls \cup {Merge, Discovery}

NoRequest == [pc |-> "idle"]

SettingsInit ==
  /\ mcpServer = NoServer
  /\ overrides = [p \in Patterns |-> "none"]
  /\ rules = [p \in Patterns |-> "none"]
  /\ \E matching \in SUBSET Range(Priorities) :   \* no name is in two rows
       /\ Cardinality(matching) <= 1
       /\ defaults = [t \in Range(Priorities) |-> t \in matching]
  /\ global = [k \in Columns |-> 1]
  /\ workspace = NoConfig
  /\ changes = 0
  /\ faults = 0
  /\ request = [r \in Requests |-> NoRequest]
  /\ InitLimiter

-----------------------------------------------------------------------------
(***************************************************************************)
(* What a request would answer if it read everything at one moment.        *)
(***************************************************************************)

Normalized(tier) == IF tier \in {"auto", "review", "block"} THEN tier ELSE "block"

\* What the gateway makes of a tier: only "auto" goes through.
Verdict(tier) == IF Normalized(tier) = "auto" THEN "pass" ELSE "denied"

Matching(level) == {p \in Patterns : level[p] # "none"}

\* Overrides are a Go map: any of those that match may come first.
ByOverrides == {Verdict(overrides[p]) : p \in Matching(overrides)}

\* Rules are sorted by pattern, defaults by priority.
ByRules == IF Matching(rules) = {} THEN {} ELSE {Verdict(rules[Min(Matching(rules))])}

ByDefaults ==
  LET matching == {i \in DOMAIN Priorities : defaults[Priorities[i]]}
  IN {IF matching = {} THEN "pass" ELSE Verdict(Priorities[Min(matching)])}

\* mergeModelConfig
Merged(base, overlay) == [k \in Columns |-> IF overlay[k] # 0 THEN overlay[k] ELSE base[k]]

Classified(sort) ==
  IF sort.agent /\ ByOverrides # {} THEN ByOverrides
  ELSE IF sort.ws /\ ByRules # {} THEN ByRules
  ELSE ByDefaults

Answers == [sort \in Sorts |->
  CASE sort.name = "merge" -> {Merged(global, workspace)}
    [] sort.name = "discovery" ->
         {[server |-> mcpServer, defaults |-> defaults, global |-> global]}
    [] sort.name = "tool" -> IF mcpServer = NoServer THEN {"missing"}
                             ELSE IF ~mcpServer.on THEN {"disabled"}
                             ELSE Classified(sort)]

-----------------------------------------------------------------------------
(***************************************************************************)
(* The requests.  may: what Answers gave at some moment since the request  *)
(* began; touched: the tables changed in that time.                        *)
(***************************************************************************)

Reading(r, pc) == request[r].pc = pc
Goto(r, pc) == request' = [request EXCEPT ![r].pc = pc]
AnswerWith(r, a) == request' = [request EXCEPT ![r].pc = "answered", ![r].got = a]

Begin(r, sort, pc, got) ==
  /\ Reading(r, "idle")
  /\ request' = [request EXCEPT ![r] =
       [pc |-> pc, sort |-> sort, got |-> got, may |-> Answers[sort], touched |-> {}, lost |-> FALSE]]

ReadOnly == UNCHANGED <<tables, faults, limiter>>

\* The gateway finds the server; the rest of the call uses the row it read here.
GetByLabel(r) ==
  /\ \E sort \in ToolCalls :
       Begin(r, sort,
             IF ~mcpServer.on THEN "answered"
             ELSE IF sort.agent THEN "overrides" ELSE IF sort.ws THEN "rules" ELSE "defaults",
             IF mcpServer = NoServer THEN "missing" ELSE IF ~mcpServer.on THEN "disabled" ELSE "")
  /\ ReadOnly

AfterOverrides(r) == IF request[r].sort.ws THEN "rules" ELSE "defaults"

GetTrustOverrides(r) ==
  /\ Reading(r, "overrides")
  /\ IF ByOverrides = {}
     THEN Goto(r, AfterOverrides(r))
     ELSE \E verdict \in ByOverrides : AnswerWith(r, verdict)
  /\ ReadOnly

\* An error of that read, of any kind, counts as "no overrides".
GetTrustOverridesFails(r) ==
  /\ Reading(r, "overrides") /\ faults < MaxFaults
  /\ faults' = faults + 1
  /\ request' = [request EXCEPT ![r].pc = AfterOverrides(r), ![r].lost = TRUE]
  /\ UNCHANGED <<tables, limiter>>

ListRules(r) ==
  /\ Reading(r, "rules")
  /\ IF ByRules = {} THEN Goto(r, "defaults") ELSE \E verdict \in ByRules : AnswerWith(r, verdict)
  /\ ReadOnly

ListDefaults(r) ==
  /\ Reading(r, "defaults")
  /\ \E verdict \in ByDefaults : AnswerWith(r, verdict)
  /\ ReadOnly

\* GetMerged reads the global row and then that of the workspace.
GetGlobal(r) == Begin(r, Merge, "overlay", global) /\ ReadOnly

\* Fault: the columns of the global row are not all from one read.
GetWorkspaceRereads(r) ==
  /\ Reading(r, "overlay")
  /\ AnswerWith(r, Merged([request[r].got EXCEPT !["tokens"] = global["tokens"]], workspace))
  /\ ReadOnly

GetWorkspace(r) ==
  /\ Reading(r, "overlay")
  /\ AnswerWith(r, Merged(request[r].got, workspace))
  /\ ReadOnly

\* An error of the second read, too, leaves the global row as it is.
GetWorkspaceFails(r) ==
  /\ Reading(r, "overlay") /\ faults < MaxFaults
  /\ faults' = faults + 1
  /\ request' = [request EXCEPT ![r].pc = "answered", ![r].lost = TRUE]
  /\ UNCHANGED <<tables, limiter>>

\* The goroutines of GetDiscovery read in any order; those of the agents and of
\* the model endpoints are left out.
GetDiscovery(r) ==
  /\ Begin(r, Discovery, "parts", <<>>)
  /\ ReadOnly

Part(name) == CASE name = "server" -> mcpServer
                [] name = "defaults" -> defaults
                [] name = "global" -> global

Fetch(r, name) ==
  /\ Reading(r, "parts") /\ name \notin DOMAIN request[r].got
  /\ LET old == request[r].got
         got == [n \in DOMAIN old \cup {name} |-> IF n = name THEN Part(name) ELSE old[n]]
     IN IF Cardinality(DOMAIN got) = 3
        THEN AnswerWith(r, got)
        ELSE request' = [request EXCEPT ![r].got = got]
  /\ ReadOnly

Passed(r) == request[r].sort.name = "tool" /\ request[r].got = "pass"

\* The answer goes out; a tool call that passed asks the limiter first.
Respond(r) ==
  /\ Reading(r, "answered") /\ ~Passed(r)
  /\ request' = [request EXCEPT ![r] = NoRequest]
  /\ ReadOnly

Limited(r) ==
  /\ Reading(r, "answered") /\ Passed(r)
  /\ LimiterAllow \/ Deny
  /\ request' = [request EXCEPT ![r] = NoRequest]
  /\ UNCHANGED <<tables, faults>>

-----------------------------------------------------------------------------
(***************************************************************************)
(* The changes.                                                            *)
(***************************************************************************)

\* A change commits.  History: requests in progress may answer by it; what they
\* may is of no interest once two tables have changed.
Commits(table) ==
  /\ changes < MaxChanges
  /\ changes' = changes + 1
  /\ request' = [r \in Requests |->
       IF Reading(r, "idle") \/ Reading(r, "answered") THEN request[r]
       ELSE LET q == request[r]
            IN [q EXCEPT !.touched = @ \cup {table},
                         !.may = IF q.touched \subseteq {table} THEN @ \cup Answers'[q.sort] ELSE {}]]
  /\ UNCHANGED <<faults, limiter>>

\* POST: the label is unique.
CreateServer ==
  /\ mcpServer = NoServer
  /\ \E on \in BOOLEAN : mcpServer' = [on |-> on, url |-> 1]
  /\ UNCHANGED <<overrides, rules, defaults, global, workspace>>
  /\ Commits("server")

\* A PUT with If-Match, here and in the next two.  The handler reads the row,
\* sets the columns the body names and writes all of them; as the UPDATE compares
\* updated_at with If-Match, it replaces the row that was read or answers 409.
UpdateServer ==
  /\ mcpServer # NoServer
  /\ \/ mcpServer' = [mcpServer EXCEPT !.on = ~@]
     \/ mcpServer.url = 1 /\ mcpServer' = [mcpServer EXCEPT !.url = 2]
  /\ UNCHANGED <<overrides, rules, defaults, global, workspace>>
  /\ Commits("server")

UpdateDefault ==
  /\ \E tier \in Range(Priorities) : defaults' = [defaults EXCEPT ![tier] = ~@]
  /\ UNCHANGED <<mcpServer, overrides, rules, global, workspace>>
  /\ Commits("defaults")

UpdateGlobal ==
  /\ \E k \in Columns, v \in Values : global' = [global EXCEPT ![k] = v]
  /\ UNCHANGED <<mcpServer, overrides, rules, defaults, workspace>>
  /\ Commits("global")

DeleteServer ==
  /\ mcpServer # NoServer
  /\ mcpServer' = NoServer
  /\ UNCHANGED <<overrides, rules, defaults, global, workspace>>
  /\ Commits("server")

\* A committed update of the agent (AgentStore) replaces the whole map.
EditAgent ==
  /\ overrides' \in [Patterns -> OverrideTiers] \ {overrides}
  /\ UNCHANGED <<mcpServer, rules, defaults, global, workspace>>
  /\ Commits("overrides")

\* One statement, nothing compared: the last write wins.
UpsertRule ==
  /\ \E p \in Patterns, tier \in RuleTiers \ {"none"} : rules' = [rules EXCEPT ![p] = tier]
  /\ UNCHANGED <<mcpServer, overrides, defaults, global, workspace>>
  /\ Commits("rules")

DeleteRule ==
  /\ \E p \in Matching(rules) : rules' = [rules EXCEPT ![p] = "none"]
  /\ UNCHANGED <<mcpServer, overrides, defaults, global, workspace>>
  /\ Commits("rules")

\* The whole row is replaced; columns the body does not name are set to zero.
UpsertWorkspace ==
  /\ workspace' \in [Columns -> Overlays] \ {workspace}
  /\ UNCHANGED <<mcpServer, overrides, rules, defaults, global>>
  /\ Commits("workspace")

Elapse == LimiterTick /\ UNCHANGED <<tables, faults, request>>

Asks(r) ==
  \/ GetByLabel(r) \/ GetTrustOverrides(r) \/ GetTrustOverridesFails(r)
  \/ ListRules(r) \/ ListDefaults(r) \/ Limited(r)
  \/ GetGlobal(r) \/ GetWorkspace(r) \/ GetWorkspaceFails(r)
  \/ GetDiscovery(r) \/ (\E name \in {"server", "defaults", "global"} : Fetch(r, name))
  \/ Respond(r)

SettingsNext ==
  \/ \E r \in Requests : Asks(r)
  \/ CreateServer \/ UpdateServer \/ DeleteServer
  \/ EditAgent \/ UpsertRule \/ DeleteRule
  \/ UpdateDefault \/ UpdateGlobal \/ UpsertWorkspace
  \/ Elapse

SettingsSpec == SettingsInit /\ [][SettingsNext]_settingsVars

-----------------------------------------------------------------------------
(***************************************************************************)
(* Properties.                                                             *)
(***************************************************************************)

Tables == {"server", "overrides", "rules", "defaults", "global", "workspace"}

\* The type invariant.
SettingsTypeOK ==
  /\ mcpServer \in [on : BOOLEAN, url : {1, 2}] \cup {NoServer}
  /\ overrides \in [Patterns -> OverrideTiers]
  /\ rules \in [Patterns -> RuleTiers]
  /\ defaults \in [Range(Priorities) -> BOOLEAN]
  /\ global \in [Columns -> Values]
  /\ workspace \in [Columns -> Overlays]
  /\ changes \in 0..MaxChanges /\ faults \in 0..MaxFaults
  /\ \A r \in Requests : request[r] = NoRequest \/
       /\ request[r].pc \in {"overrides", "rules", "defaults", "overlay", "parts", "answered"}
       /\ request[r].sort \in Sorts /\ request[r].touched \subseteq Tables
  /\ LimiterTypeOK

\* The levels are read one after the other, or in parallel, never in one
\* transaction.  Still, if the changes committed while a request is served are all
\* of one level, however many, its answer is what the settings said, all levels
\* together, at some moment of that time (unless a read failed that the code takes
\* for an empty level).  Changes of two levels are enough for an answer that was
\* never right: a rule moved from the workspace to the agent is missed by a call
\* that reads the agent before and the workspace after.
OneLevelExplained ==
  \A r \in Requests :
    Reading(r, "answered") /\ Cardinality(request[r].touched) <= 1 /\ ~request[r].lost
      => request[r].got \in request[r].may
=============================================================================
