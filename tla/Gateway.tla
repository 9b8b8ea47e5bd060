------------------------------ MODULE Gateway ------------------------------
(***************************************************************************)
(* Concurrent tool calls through the gateway to one MCP server             *)
(* (ProxyToolCall of internal/api/mcp_gateway.go), with the circuit        *)
(* breaker they share, an administrator who changes the server's row, and  *)
(* an upstream that comes and goes.  A call reads the row once, asks the   *)
(* breaker, may then be refused by one of the checks that follow (body,    *)
(* trust tier, rate limit, credential), and reports to the breaker only    *)
(* after it has been forwarded.                                            *)
(***************************************************************************)
EXTENDS CircuitBreaker

CONSTANTS Calls,
          MaxDisconnects    \* bound: forwarded calls whose client goes away

VARIABLES server,       \* the committed row of mcp_servers
          upstream,     \* "up" or "down"
          call,         \* call[c]: the call the goroutine c serves
          disconnects,  \* number of clients that went away
          wasDown,      \* history: the upstream has been down
          refused,      \* history: a check after the breaker's has refused a call
          sinceOpen     \* history: calls let through since the circuit opened

vars == <<breaker, server, upstream, call, disconnects, wasDown, refused, sinceOpen>>

ASSUME GatewayAssumption == MaxDisconnects \in Nat

\* pc: "idle", "admit", "prepare", "forward", "record".
Idle(cfg) == [pc |-> "idle", cfg |-> cfg, probe |-> FALSE, outcome |-> "none"]

\* A call that is over keeps no state; cfg is an arbitrary constant then.
NoCfg == CHOOSE cfg \in Configs : TRUE

Done(c) == call' = [call EXCEPT ![c] = Idle(NoCfg)]

Init == /\ breaker = Fresh
        /\ server \in Configs
        /\ upstream = "up"
        /\ call = [c \in Calls |-> Idle(NoCfg)]
        /\ disconnects = 0
        /\ wasDown = FALSE
        /\ refused = FALSE
        /\ sinceOpen = 0

\* GetByLabel and parseCircuitBreakerCfg; a disabled server is refused here.
Lookup(c) ==
  /\ call[c].pc = "idle" /\ server.enabled
  /\ call' = [call EXCEPT ![c].pc = "admit", ![c].cfg = server]
  /\ UNCHANGED <<breaker, server, upstream, disconnects, wasDown, refused, sinceOpen>>

Admit(c) ==
  /\ call[c].pc = "admit"
  /\ Allow(call[c].cfg)
  /\ call' = [call EXCEPT ![c].pc = "prepare", ![c].probe = breaker.state # "closed"]
  /\ sinceOpen' = IF breaker.state = "closed" THEN 0 ELSE sinceOpen + 1
  /\ UNCHANGED <<server, upstream, disconnects, wasDown, refused>>

\* 503: circuit breaker open.
Reject(c) ==
  /\ call[c].pc = "admit"
  /\ ~Allows(call[c].cfg)
  /\ Done(c)
  /\ UNCHANGED <<breaker, server, upstream, disconnects, wasDown, refused, sinceOpen>>

\* Invalid body, failed classification, trust_denied, rate_limited, credential
\* that cannot be decrypted: the handler returns and tells the breaker nothing.
Refuse(c) ==
  /\ call[c].pc = "prepare"
  /\ refused' = TRUE
  /\ Done(c)
  /\ UNCHANGED <<breaker, server, upstream, disconnects, wasDown, sinceOpen>>

Send(c) ==
  /\ call[c].pc = "prepare"
  /\ call' = [call EXCEPT ![c].pc = "forward"]
  /\ UNCHANGED <<breaker, server, upstream, disconnects, wasDown, refused, sinceOpen>>

\* Forward returns; the HTTP client's timeout makes a silent upstream an error.
Answer(c) ==
  /\ call[c].pc = "forward"
  /\ \E o \in IF upstream = "up" THEN {"2xx", "4xx"} ELSE {"5xx", "error"} :
       call' = [call EXCEPT ![c].pc = "record", ![c].outcome = o]
  /\ UNCHANGED <<breaker, server, upstream, disconnects, wasDown, refused, sinceOpen>>

\* Fault: a cancelled context returns before the outcome is recorded.
DisconnectSilently(c) ==
  /\ call[c].pc = "forward"
  /\ disconnects < MaxDisconnects
  /\ disconnects' = disconnects + 1
  /\ Done(c)
  /\ UNCHANGED <<breaker, server, upstream, wasDown, refused, sinceOpen>>

\* The client goes away; the request's context ends the forwarded one.
Disconnect(c) ==
  /\ call[c].pc = "forward"
  /\ disconnects < MaxDisconnects
  /\ disconnects' = disconnects + 1
  /\ call' = [call EXCEPT ![c].pc = "record", ![c].outcome = "error"]
  /\ UNCHANGED <<breaker, server, upstream, wasDown, refused, sinceOpen>>

\* Fault: an answer of 400 and above counts as a failure of the upstream.
Record4xx(c) ==
  /\ call[c].pc = "record"
  /\ IF call[c].outcome = "2xx" THEN RecordSuccess ELSE RecordFailure(call[c].cfg)
  /\ sinceOpen' = IF breaker' = breaker THEN sinceOpen ELSE 0
  /\ Done(c)
  /\ UNCHANGED <<server, upstream, disconnects, wasDown, refused>>

Record(c) ==
  /\ call[c].pc = "record"
  /\ IF call[c].outcome \in {"5xx", "error"}
     THEN RecordFailure(call[c].cfg)
     ELSE RecordSuccess
  /\ sinceOpen' = IF breaker' = breaker THEN sinceOpen ELSE 0
  /\ Done(c)
  /\ UNCHANGED <<server, upstream, disconnects, wasDown, refused>>

Tick ==
  /\ Age
  /\ UNCHANGED <<server, upstream, call, disconnects, wasDown, refused, sinceOpen>>

AdminUpdate ==
  /\ server' \in Configs \ {server}
  /\ UNCHANGED <<breaker, upstream, call, disconnects, wasDown, refused, sinceOpen>>

UpstreamFails ==
  /\ upstream = "up"
  /\ upstream' = "down"
  /\ wasDown' = TRUE
  /\ UNCHANGED <<breaker, server, call, disconnects, refused, sinceOpen>>

UpstreamRecovers ==
  /\ upstream = "down"
  /\ upstream' = "up"
  /\ UNCHANGED <<breaker, server, call, disconnects, wasDown, refused, sinceOpen>>

\* The process restarts: NewCircuitBreaker, and no call in flight.
Restart ==
  /\ breaker' = Fresh
  /\ call' = [c \in Calls |-> Idle(NoCfg)]
  /\ sinceOpen' = 0
  /\ UNCHANGED <<server, upstream, disconnects, wasDown, refused>>

Step(c) == Admit(c) \/ Reject(c) \/ Refuse(c) \/ Send(c) \/ Answer(c) \/ Record(c)

Next ==
  \/ \E c \in Calls : Lookup(c) \/ Step(c) \/ Disconnect(c)
  \/ Tick \/ AdminUpdate \/ UpstreamFails \/ UpstreamRecovers \/ Restart

Spec == Init /\ [][Next]_vars

\* A goroutine that serves a call gets to its end, time passes, and tool calls
\* keep coming.
FairSpec ==
  /\ Spec
  /\ WF_vars(Tick)
  /\ \A c \in Calls : WF_vars(Lookup(c)) /\ WF_vars(Step(c))

-----------------------------------------------------------------------------
(***************************************************************************)
(* Properties.                                                             *)
(***************************************************************************)

\* The type invariant; probeInFlight, which no method reads, says what the
\* state says.
TypeOK ==
  /\ breaker \in Entry
  /\ breaker.probeInFlight <=> breaker.state = "halfopen"
  /\ server \in Configs
  /\ upstream \in {"up", "down"}
  /\ call \in [Calls -> [pc : {"idle", "admit", "prepare", "forward", "record"},
                         cfg : Configs, probe : BOOLEAN,
                         outcome : {"none", "2xx", "4xx", "5xx", "error"}]]
  /\ disconnects \in 0..MaxDisconnects
  /\ wasDown \in BOOLEAN /\ refused \in BOOLEAN
  /\ sinceOpen \in Nat

\* An upstream in trouble is spared: between an opening of the circuit and the
\* next outcome recorded, one call at most gets through, however many wait.
OneCallPerOpening == sinceOpen <= 1

\* A server that answers is never cut off: whatever the callers send, and
\* whatever its answers below 500 and the refusals of the gateway are.
HealthyNeverCut == ~wasDown /\ disconnects = 0 => breaker.state = "closed"

\* Unless a check after the breaker's has refused a call, a half-open circuit
\* has its probe in flight, so that some outcome is still to be recorded.
ProbeInFlight ==
  ~refused /\ breaker.state = "halfopen"
    => \E c \in Calls : call[c].probe /\ call[c].pc \in {"prepare", "forward", "record"}

\* docs/roadmap/003-mcp-gateway-mode.md:41: half-open is where a probe decides
\* between closed and open, not where the circuit stays.
HalfOpenResolves == breaker.state = "halfopen" ~> breaker.state # "halfopen"

\* It does so if no check after the breaker's ever refuses a call.
ForwardedProbeResolves == []~refused => HalfOpenResolves

\* Then a circuit also ends closed, once the upstream stays up and the server
\* enabled.
Recovers ==
  []~refused /\ <>[](upstream = "up" /\ server.enabled)
    => <>[](breaker.state = "closed")
=============================================================================
