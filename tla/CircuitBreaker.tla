--------------------------- MODULE CircuitBreaker ---------------------------
(***************************************************************************)
(* The circuit breaker of one MCP server label                             *)
(* (internal/gateway/circuit_breaker.go).  Each method runs under the      *)
(* breaker's mutex, so each is one action; who calls them, and when, is    *)
(* the business of Gateway.  Time is counted in ticks since openedAt.      *)
(***************************************************************************)
EXTENDS Naturals, FiniteSetsExt

CONSTANT Configs    \* the settings the server's row may hold

ASSUME ConfigsAssumption ==
  Configs \subseteq [enabled : BOOLEAN, threshold : Nat \ {0}, duration : Nat \ {0}]

\* Columns of a database: there is a largest threshold and a longest duration.
ASSUME LargestAssumption ==
  /\ \E cfg \in Configs : \A other \in Configs : other.threshold <= cfg.threshold
  /\ \E cfg \in Configs : \A other \in Configs : other.duration <= cfg.duration

VARIABLE breaker

\* No field is ever compared with more than the largest setting: counting
\* further than that would change nothing.
MaxThreshold == Max({cfg.threshold : cfg \in Configs})
MaxDuration == Max({cfg.duration : cfg \in Configs})

Entry == [state : {"closed", "open", "halfopen"},
          failures : 0..MaxThreshold,
          age : 0..MaxDuration,          \* time.Since(openedAt), 0 unless open
          probeInFlight : BOOLEAN]

Fresh == [state |-> "closed", failures |-> 0, age |-> 0, probeInFlight |-> FALSE]

\* Fault: a half-open circuit lets every call through.
AllowsHalfOpen(cfg) ==
  \/ breaker.state \in {"closed", "halfopen"}
  \/ breaker.state = "open" /\ breaker.age >= cfg.duration

\* What Allow answers ...
Allows(cfg) ==
  \/ breaker.state = "closed"
  \/ breaker.state = "open" /\ breaker.age >= cfg.duration

\* ... and what it does when it answers yes.
Allow(cfg) ==
  /\ Allows(cfg)
  /\ breaker' = IF breaker.state = "open"
                THEN [state |-> "halfopen", failures |-> breaker.failures, age |-> 0,
                      probeInFlight |-> TRUE]
                ELSE breaker

\* Fault: a success clears the count, not the state.
RecordSuccessCountOnly == breaker' = [breaker EXCEPT !.failures = 0]

RecordSuccess == breaker' = Fresh

\* Fault: the probe's failure is counted, but the circuit does not reopen.
RecordFailureForgetsProbe(cfg) ==
  LET n == Min({breaker.failures + 1, MaxThreshold})
  IN  breaker' = IF breaker.state = "closed" /\ n >= cfg.threshold
                 THEN [state |-> "open", failures |-> n, age |-> 0, probeInFlight |-> FALSE]
                 ELSE [breaker EXCEPT !.failures = n]

\* Fault: probeInFlight stays set when the circuit reopens.
RecordFailureKeepsFlag(cfg) ==
  LET n == Min({breaker.failures + 1, MaxThreshold})
  IN  breaker' = IF breaker.state = "halfopen" \/ n >= cfg.threshold
                 THEN [breaker EXCEPT !.state = "open", !.failures = n, !.age = 0]
                 ELSE [breaker EXCEPT !.failures = n]

RecordFailure(cfg) ==
  LET n == Min({breaker.failures + 1, MaxThreshold})
  IN  breaker' = IF breaker.state = "halfopen" \/ n >= cfg.threshold
                 THEN [state |-> "open", failures |-> n, age |-> 0, probeInFlight |-> FALSE]
                 ELSE [breaker EXCEPT !.failures = n]

\* The clock: it matters to an open circuit only.
Age ==
  /\ breaker.state = "open" /\ breaker.age < MaxDuration
  /\ breaker' = [breaker EXCEPT !.age = @ + 1]
=============================================================================
