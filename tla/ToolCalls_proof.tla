--------------------------- MODULE ToolCalls_proof ---------------------------
(***************************************************************************)
(* Proofs about the two specifications a tool call takes part in: Gateway, *)
(* its way through the circuit breaker, for any number of concurrent calls *)
(* and any settings an administrator may give the server; and Settings,    *)
(* what it reads on the way, with the RateLimiter it asks, for any number  *)
(* of requests, patterns and changes, any limit and any window.            *)
(***************************************************************************)
EXTENDS Gateway, Settings, FiniteSetTheorems, TLAPS

-----------------------------------------------------------------------------
(***************************************************************************)
(* Gateway.                                                                *)
(***************************************************************************)

\* What is counted as let through since the circuit opened is the probe of a
\* half-open circuit, and nothing else.
Counted == sinceOpen = IF breaker.state = "halfopen" THEN 1 ELSE 0

\* As long as the upstream has answered and every client has waited, no failure
\* is on its way to the breaker.
NoFailure ==
  ~wasDown /\ disconnects = 0 =>
    /\ breaker.state = "closed"
    /\ upstream = "up"
    /\ \A c \in Calls : call[c].outcome \notin {"5xx", "error"}

IInv == TypeOK /\ Counted /\ NoFailure /\ ProbeInFlight

-----------------------------------------------------------------------------
(* The breaker's methods. *)

\* The largest threshold and the largest duration exist, and bound the others.
LEMMA Largest ==
  /\ MaxThreshold \in Nat /\ MaxDuration \in Nat
  /\ \A cfg \in Configs : cfg.threshold <= MaxThreshold /\ cfg.duration <= MaxDuration
<1> USE ConfigsAssumption
<1>1. ASSUME NEW S \in SUBSET Nat, NEW m \in S, \A x \in S : x <= m
      PROVE  Max(S) \in S /\ \A x \in S : x <= Max(S)
  BY <1>1 DEF Max
<1> DEFINE T == {cfg.threshold : cfg \in Configs}
           D == {cfg.duration : cfg \in Configs}
<1>2. T \in SUBSET Nat /\ D \in SUBSET Nat
  OBVIOUS
<1>3. \E m \in T : \A x \in T : x <= m
  BY LargestAssumption
<1>4. \E m \in D : \A x \in D : x <= m
  BY LargestAssumption
<1>5. \A cfg \in Configs : cfg.threshold \in T /\ cfg.duration \in D
  OBVIOUS
<1>6. MaxThreshold = Max(T) /\ MaxDuration = Max(D)
  BY DEF MaxThreshold, MaxDuration
<1> HIDE DEF T, D
<1>7. Max(T) \in T /\ \A x \in T : x <= Max(T)
  BY <1>1, <1>2, <1>3
<1>8. Max(D) \in D /\ \A x \in D : x <= Max(D)
  BY <1>1, <1>2, <1>4
<1> QED
  BY <1>2, <1>5, <1>6, <1>7, <1>8

\* The settings an idle call carries are among those there are.
LEMMA OneConfig == NoCfg \in Configs
BY LargestAssumption DEF NoCfg

\* A new entry is closed and has no probe.
LEMMA FreshEntry == Fresh \in Entry /\ Fresh.state = "closed" /\ ~Fresh.probeInFlight
BY Largest DEF Fresh, Entry

\* A breaker that is well typed and whose flag says what its state says.
Sound(b) == b \in Entry /\ (b.probeInFlight <=> b.state = "halfopen")

\* Allow lets nothing through a half-open circuit, and one call through an open
\* one, which is half-open from then on.
LEMMA AllowStep ==
  ASSUME Sound(breaker), NEW cfg \in Configs, Allow(cfg)
  PROVE  /\ Sound(breaker')
         /\ breaker.state # "halfopen"
         /\ breaker.state = "closed" => breaker' = breaker
         /\ breaker.state = "open" => breaker'.state = "halfopen"
<1>1. CASE breaker.state = "closed"
  BY <1>1 DEF Allow, Sound
<1>2. CASE breaker.state = "open"
  <2>1. breaker \in Entry /\ MaxDuration \in Nat
    BY Largest DEF Sound
  <2> DEFINE half == [state |-> "halfopen", failures |-> breaker.failures, age |-> 0,
                      probeInFlight |-> TRUE]
  <2>3. breaker' = half
    BY <1>2 DEF Allow
  <2>4. half \in Entry
    BY <2>1 DEF Entry
  <2> QED
    BY <1>2, <2>3, <2>4 DEF Sound
<1> QED
  BY <1>1, <1>2 DEF Allow, Allows

\* RecordFailure ends a probe, and leaves no circuit half-open.
LEMMA FailureStep ==
  ASSUME Sound(breaker), NEW cfg \in Configs, RecordFailure(cfg)
  PROVE  /\ Sound(breaker')
         /\ breaker'.state # "halfopen"
<1> DEFINE n == Min({breaker.failures + 1, MaxThreshold})
<1>1. breaker.failures \in 0..MaxThreshold /\ MaxThreshold \in Nat
  BY Largest DEF Sound, Entry
<1>2. n \in 0..MaxThreshold
  BY <1>1 DEF Min
<1> HIDE DEF n
<1>3. breaker' = IF breaker.state = "halfopen" \/ n >= cfg.threshold
                 THEN [state |-> "open", failures |-> n, age |-> 0, probeInFlight |-> FALSE]
                 ELSE [breaker EXCEPT !.failures = n]
  BY DEF RecordFailure, n
<1>4. CASE breaker.state = "halfopen" \/ n >= cfg.threshold
  BY <1>2, <1>3, <1>4, Largest DEF Sound, Entry
<1>5. CASE ~(breaker.state = "halfopen" \/ n >= cfg.threshold)
  BY <1>2, <1>3, <1>5 DEF Sound, Entry
<1> QED
  BY <1>4, <1>5

\* Time passes for an open circuit only, which stays open.
LEMMA AgeStep ==
  ASSUME Sound(breaker), Age
  PROVE  Sound(breaker') /\ breaker.state = "open" /\ breaker'.state = "open"
BY Largest DEF Age, Sound, Entry

-----------------------------------------------------------------------------
(* The calls. *)

Call == [pc : {"idle", "admit", "prepare", "forward", "record"}, cfg : Configs,
         probe : BOOLEAN, outcome : {"none", "2xx", "4xx", "5xx", "error"}]

\* A step that leaves the breaker alone and makes of one call c something that is
\* still the probe, if c is.
LEMMA CallStep ==
  ASSUME IInv, NEW c \in Calls, NEW r \in Call, call' = [call EXCEPT ![c] = r],
         UNCHANGED <<breaker, server, upstream, wasDown, refused, sinceOpen>>,
         disconnects' \in disconnects..MaxDisconnects,
         r.outcome \in {"5xx", "error"} => wasDown \/ disconnects' # 0,
         call[c].probe => \/ call[c].pc \notin {"prepare", "forward", "record"}
                          \/ r.probe /\ r.pc \in {"prepare", "forward", "record"}
  PROVE  IInv'
<1> USE GatewayAssumption
<1>1. call' \in [Calls -> Call]
  BY DEF IInv, TypeOK, Call
<1>2. disconnects \in 0..MaxDisconnects /\ disconnects' \in 0..MaxDisconnects
  BY DEF IInv, TypeOK
<1>3. TypeOK'
  BY <1>1, <1>2 DEF IInv, TypeOK, Call
<1>4. Counted'
  BY DEF IInv, Counted
<1>5. disconnects' = 0 => disconnects = 0
  BY <1>2
<1>6. NoFailure'
  BY <1>5 DEF IInv, NoFailure, TypeOK
<1>7. ProbeInFlight'
  <2> SUFFICES ASSUME ~refused, breaker.state = "halfopen"
               PROVE  \E d \in Calls : /\ call'[d].probe
                                      /\ call'[d].pc \in {"prepare", "forward", "record"}
    BY DEF ProbeInFlight
  <2>1. PICK d \in Calls : call[d].probe /\ call[d].pc \in {"prepare", "forward", "record"}
    BY DEF IInv, ProbeInFlight
  <2>2. CASE d = c
    BY <2>1, <2>2 DEF IInv, TypeOK
  <2>3. CASE d # c
    BY <2>1, <2>3 DEF IInv, TypeOK
  <2> QED
    BY <2>2, <2>3
<1> QED
  BY <1>3, <1>4, <1>6, <1>7 DEF IInv

\* A call that is over is well typed.
LEMMA IdleCall == Idle(NoCfg) \in Call
BY OneConfig DEF Idle, Call

\* The invariant holds in every initial state.
LEMMA InvInit == Init => IInv
<1> SUFFICES ASSUME Init PROVE IInv
  OBVIOUS
<1> USE FreshEntry, OneConfig, GatewayAssumption DEF Init
<1>1. TypeOK
  <2>1. call \in [Calls -> Call] /\ server \in Configs /\ disconnects \in 0..MaxDisconnects
    BY IdleCall
  <2>2. breaker \in Entry /\ (breaker.probeInFlight <=> breaker.state = "halfopen")
    OBVIOUS
  <2>3. wasDown \in BOOLEAN /\ refused \in BOOLEAN
    BY Zenon
  <2>4. sinceOpen \in Nat /\ upstream \in {"up", "down"}
    OBVIOUS
  <2> QED
    BY <2>1, <2>2, <2>3, <2>4 DEF TypeOK, Call
<1>2. Counted
  BY DEF Counted
<1>3. NoFailure
  BY DEF NoFailure, Idle
<1>4. ProbeInFlight
  BY DEF ProbeInFlight
<1> QED
  BY <1>1, <1>2, <1>3, <1>4 DEF IInv

\* A call that is let through an open circuit is the probe.
LEMMA AdmitStep == ASSUME IInv, NEW c \in Calls, Admit(c) PROVE IInv'
<1> DEFINE r == [call[c] EXCEPT !.pc = "prepare", !.probe = breaker.state # "closed"]
<1>1. Sound(breaker) /\ call[c] \in Call /\ call[c].cfg \in Configs
  BY DEF IInv, TypeOK, Sound, Call
<1>2. /\ Sound(breaker') /\ breaker.state # "halfopen"
      /\ breaker.state = "closed" => breaker' = breaker
      /\ breaker.state = "open" => breaker'.state = "halfopen"
  BY <1>1, AllowStep DEF Admit
<1>3. r \in Call /\ r.outcome = call[c].outcome /\ r.pc = "prepare"
  BY <1>1 DEF Call
<1>4. r.probe <=> breaker.state # "closed"
  BY <1>1 DEF Call
<1>5. call' = [call EXCEPT ![c] = r]
  BY DEF Admit
<1>6. UNCHANGED <<server, upstream, disconnects, wasDown, refused>>
  BY DEF Admit
<1> HIDE DEF r
<1>7. breaker.state \in {"closed", "open"}
  BY <1>1, <1>2 DEF Sound, Entry
<1>8. sinceOpen' = IF breaker.state = "closed" THEN 0 ELSE 1
  BY <1>7 DEF Admit, IInv, Counted
<1>9. TypeOK'
  BY <1>2, <1>3, <1>5, <1>6, <1>8 DEF IInv, TypeOK, Sound, Call
<1>10. Counted'
  BY <1>2, <1>7, <1>8 DEF Counted
<1>11. NoFailure'
  BY <1>2, <1>3, <1>5, <1>6, <1>7 DEF IInv, NoFailure, TypeOK
<1>12. ProbeInFlight'
  <2>1. CASE breaker.state = "closed"
    BY <1>2, <2>1 DEF ProbeInFlight
  <2>2. CASE breaker.state = "open"
    BY <1>3, <1>4, <1>5, <2>2 DEF ProbeInFlight, IInv, TypeOK
  <2> QED
    BY <1>7, <2>1, <2>2
<1> QED
  BY <1>9, <1>10, <1>11, <1>12 DEF IInv

\* With the outcome of the probe the circuit is half-open no longer.
LEMMA RecordStep == ASSUME IInv, NEW c \in Calls, Record(c) PROVE IInv'
<1>1. Sound(breaker) /\ call[c] \in Call /\ call[c].cfg \in Configs
  BY DEF IInv, TypeOK, Sound, Call
<1>2. /\ Sound(breaker') /\ breaker'.state # "halfopen"
      /\ call[c].outcome \notin {"5xx", "error"} => breaker'.state = "closed"
  <2>1. CASE call[c].outcome \in {"5xx", "error"}
    BY <1>1, <2>1, FailureStep DEF Record
  <2>2. CASE call[c].outcome \notin {"5xx", "error"}
    BY <2>2, FreshEntry DEF Record, RecordSuccess, Sound
  <2> QED
    BY <2>1, <2>2
<1>3. /\ call' = [call EXCEPT ![c] = Idle(NoCfg)]
      /\ UNCHANGED <<server, upstream, disconnects, wasDown, refused>>
  BY DEF Record, Done
<1>4. sinceOpen' = 0
  BY <1>2 DEF Record, IInv, Counted
<1>5. TypeOK'
  BY <1>2, <1>3, <1>4, IdleCall DEF IInv, TypeOK, Sound, Call
<1>6. Counted'
  BY <1>2, <1>4 DEF Counted
<1>7. NoFailure'
  BY <1>2, <1>3 DEF IInv, NoFailure, TypeOK, Idle
<1>8. ProbeInFlight'
  BY <1>2 DEF ProbeInFlight
<1> QED
  BY <1>5, <1>6, <1>7, <1>8 DEF IInv

\* Every step keeps the invariant.
LEMMA InvStep == IInv /\ [Next]_vars => IInv'
<1> SUFFICES ASSUME IInv, [Next]_vars PROVE IInv'
  OBVIOUS
<1> USE GatewayAssumption
<1>t. /\ call \in [Calls -> Call] /\ server \in Configs
      /\ disconnects \in 0..MaxDisconnects
  BY DEF IInv, TypeOK, Call
<1>same. disconnects \in disconnects..MaxDisconnects
  BY <1>t
<1>1. ASSUME NEW c \in Calls, Lookup(c) PROVE IInv'
  <2> DEFINE r == [call[c] EXCEPT !.pc = "admit", !.cfg = server]
  <2>1. r \in Call
    BY <1>t DEF Call
  <2>2. call' = [call EXCEPT ![c] = r]
    BY <1>1 DEF Lookup
  <2>3. /\ call[c].pc = "idle"
        /\ UNCHANGED <<breaker, server, upstream, wasDown, refused, sinceOpen, disconnects>>
    BY <1>1 DEF Lookup
  <2>4. r.outcome = call[c].outcome
    BY <1>t DEF Call
  <2> HIDE DEF r
  <2>5. r.outcome \in {"5xx", "error"} => wasDown \/ disconnects' # 0
    BY <2>3, <2>4 DEF IInv, NoFailure
  <2> QED
    BY <1>same, <2>1, <2>2, <2>3, <2>5, CallStep
<1>2. ASSUME NEW c \in Calls, Reject(c) PROVE IInv'
  <2> DEFINE r == Idle(NoCfg)
  <2>1. r \in Call /\ r.outcome = "none"
    BY IdleCall DEF Idle
  <2>2. /\ call' = [call EXCEPT ![c] = r] /\ call[c].pc = "admit"
        /\ UNCHANGED <<breaker, server, upstream, wasDown, refused, sinceOpen, disconnects>>
    BY <1>2 DEF Reject, Done
  <2> HIDE DEF r
  <2> QED
    BY <1>same, <2>1, <2>2, CallStep
<1>3. ASSUME NEW c \in Calls, Refuse(c) PROVE IInv'
  <2>1. /\ refused' = TRUE /\ call' = [call EXCEPT ![c] = Idle(NoCfg)]
        /\ UNCHANGED <<breaker, server, upstream, disconnects, wasDown, sinceOpen>>
    BY <1>3 DEF Refuse, Done
  <2>2. TypeOK'
    BY <2>1, IdleCall DEF IInv, TypeOK, Call
  <2>3. NoFailure'
    BY <2>1 DEF IInv, TypeOK, NoFailure, Idle
  <2>4. Counted' /\ ProbeInFlight'
    BY <2>1 DEF IInv, Counted, ProbeInFlight
  <2> QED
    BY <2>2, <2>3, <2>4 DEF IInv
<1>4. ASSUME NEW c \in Calls, Send(c) PROVE IInv'
  <2> DEFINE r == [call[c] EXCEPT !.pc = "forward"]
  <2>1. r \in Call /\ r.outcome = call[c].outcome /\ r.probe = call[c].probe /\ r.pc = "forward"
    BY <1>t DEF Call
  <2>2. /\ call' = [call EXCEPT ![c] = r]
        /\ UNCHANGED <<breaker, server, upstream, wasDown, refused, sinceOpen, disconnects>>
    BY <1>4 DEF Send
  <2> HIDE DEF r
  <2>3. r.outcome \in {"5xx", "error"} => wasDown \/ disconnects' # 0
    BY <2>1, <2>2 DEF IInv, NoFailure
  <2> QED
    BY <1>same, <2>1, <2>2, <2>3, CallStep
<1>5. ASSUME NEW c \in Calls, NEW o \in {"2xx", "4xx", "5xx", "error"},
             call' = [call EXCEPT ![c].pc = "record", ![c].outcome = o],
             disconnects' \in disconnects..MaxDisconnects,
             o \in {"5xx", "error"} => upstream = "down" \/ disconnects' # 0,
             UNCHANGED <<breaker, server, upstream, wasDown, refused, sinceOpen>>
      PROVE  IInv'
  <2> DEFINE r == [call[c] EXCEPT !.pc = "record", !.outcome = o]
  <2>1. r \in Call
    BY <1>t DEF Call
  <2>2. call' = [call EXCEPT ![c] = r]
    BY <1>5
  <2>3. r.outcome = o /\ r.probe = call[c].probe /\ r.pc = "record"
    BY <1>t DEF Call
  <2>4. o \in {"5xx", "error"} => wasDown \/ disconnects' # 0
    <3>1. disconnects' = 0 => disconnects = 0
      BY <1>t, <1>5
    <3> QED
      BY <1>5, <3>1 DEF IInv, NoFailure
  <2> HIDE DEF r
  <2> QED
    BY <1>5, <2>1, <2>2, <2>3, <2>4, CallStep
<1>6. ASSUME NEW c \in Calls, Answer(c) PROVE IInv'
  <2>1. PICK o \in {"2xx", "4xx", "5xx", "error"} :
           /\ o \in {"5xx", "error"} => upstream = "down"
           /\ call' = [call EXCEPT ![c].pc = "record", ![c].outcome = o]
    BY <1>6 DEF Answer, IInv, TypeOK
  <2>2. disconnects' \in disconnects..MaxDisconnects
    BY <1>6, <1>t DEF Answer
  <2> QED
    BY <1>5, <1>6, <2>1, <2>2 DEF Answer
<1>7. ASSUME NEW c \in Calls, Disconnect(c) PROVE IInv'
  <2>1. disconnects' \in disconnects..MaxDisconnects /\ disconnects' # 0
    BY <1>7, <1>t DEF Disconnect
  <2> QED
    BY <1>5, <1>7, <2>1 DEF Disconnect
<1>8. CASE Tick
  <2>1. Sound(breaker') /\ breaker.state = "open" /\ breaker'.state = "open"
    BY <1>8, AgeStep DEF Tick, IInv, TypeOK, Sound
  <2> QED
    BY <1>8, <2>1 DEF Tick, IInv, TypeOK, Sound, Counted, NoFailure, ProbeInFlight
<1>9. CASE AdminUpdate
  BY <1>9 DEF AdminUpdate, IInv, TypeOK, Counted, NoFailure, ProbeInFlight
<1>10. CASE UpstreamFails \/ UpstreamRecovers
  BY <1>10 DEF UpstreamFails, UpstreamRecovers, IInv, TypeOK, Counted, NoFailure, ProbeInFlight
<1>11. CASE Restart
  BY <1>11, FreshEntry, IdleCall
     DEF Restart, IInv, TypeOK, Call, Counted, NoFailure, ProbeInFlight, Idle
<1>12. CASE UNCHANGED vars
  BY <1>12 DEF vars, IInv, TypeOK, Counted, NoFailure, ProbeInFlight
<1> QED
  BY <1>1, <1>2, <1>3, <1>4, <1>6, <1>7, <1>8, <1>9, <1>10, <1>11, <1>12,
     AdmitStep, RecordStep DEF Next, Step

\* The invariant holds in every reachable state.
LEMMA Invariance == Spec => []IInv
BY InvInit, InvStep, PTL DEF Spec

-----------------------------------------------------------------------------
(* The theorems. *)

\* Every reachable state is well typed, and probeInFlight, which circuit_breaker.go
\* sets and never reads, says what the state says.
THEOREM TypeCorrect == Spec => []TypeOK
BY Invariance, PTL DEF IInv

\* However many calls find the circuit open when its time is over, Allow lets one
\* through before an outcome is recorded.
THEOREM OneCall == Spec => []OneCallPerOpening
<1>1. IInv => OneCallPerOpening
  BY DEF IInv, Counted, OneCallPerOpening
<1> QED
  BY <1>1, Invariance, PTL

\* Whatever callers send and an upstream that is up answers, ProxyToolCall never
\* makes the breaker leave its closed state.
THEOREM HealthyServed == Spec => []HealthyNeverCut
<1>1. IInv => HealthyNeverCut
  BY DEF IInv, NoFailure, HealthyNeverCut
<1> QED
  BY <1>1, Invariance, PTL

\* As long as no check after Allow refuses a call, a half-open circuit has a probe
\* whose outcome ProxyToolCall is still to record, clients that go away included.
THEOREM ProbeHeld == Spec => []ProbeInFlight
BY Invariance, PTL DEF IInv

-----------------------------------------------------------------------------
(***************************************************************************)
(* RateLimiter, for every limit and every window.                          *)
(***************************************************************************)

\* The bucket counts the requests since windowStart, the first of which came
\* then; those from before are of the window before and are one short of a
\* full one, as its first is a window old.
LimiterInv ==
  /\ LimiterTypeOK
  /\ IsFiniteSet(recent)
  /\ \A q \in Since(0) : q.nth <= Cardinality(Since(0))
  /\ IF bucket.age = Window
     THEN /\ bucket.count = 0
          /\ Since(0) = {}
          /\ Cardinality(recent) <= Limit - 1
     ELSE /\ Cardinality(Since(bucket.age)) = bucket.count
          /\ Cardinality(recent \ Since(bucket.age)) <= Limit - 1
          /\ \E q \in recent : q.age = bucket.age

\* A tick keeps apart the requests it makes older, so that it changes no count.
LEMMA OlderCount ==
  ASSUME NEW S \in SUBSET [age : Nat, nth : Nat], IsFiniteSet(S)
  PROVE  /\ IsFiniteSet({Older(q) : q \in S})
         /\ Cardinality({Older(q) : q \in S}) = Cardinality(S)
<1> DEFINE T == {Older(q) : q \in S}
           f == [q \in S |-> Older(q)]
<1>1. f \in [S -> T] /\ \A t \in T : \E q \in S : f[q] = t
  OBVIOUS
<1>2. ASSUME NEW p \in S, NEW q \in S, f[p] = f[q]
      PROVE  p = q
  <2>1. Older(p) = Older(q)
    BY <1>2
  <2>2. p.age + 1 = q.age + 1 /\ p.nth = q.nth
    BY <2>1 DEF Older
  <2>3. p \in [age : Nat, nth : Nat] /\ q \in [age : Nat, nth : Nat]
    OBVIOUS
  <2> QED
    BY <2>2, <2>3
<1>3. f \in Bijection(S, T)
  BY <1>1, <1>2 DEF Bijection, Injection, Surjection, IsInjective
<1> QED
  BY <1>3, FS_Bijection DEF ExistsBijection

\* Requests counted in two parts.
LEMMA TwoParts ==
  ASSUME NEW S, IsFiniteSet(S), NEW T \in SUBSET S
  PROVE  /\ IsFiniteSet(T) /\ IsFiniteSet(S \ T)
         /\ Cardinality(T) \in Nat /\ Cardinality(S \ T) \in Nat
         /\ Cardinality(S) = Cardinality(T) + Cardinality(S \ T)
<1>1. S \cap T = T
  OBVIOUS
<1>2. IsFiniteSet(T) /\ IsFiniteSet(S \ T)
  BY FS_Subset
<1>3. Cardinality(S \ T) = Cardinality(S) - Cardinality(T)
  BY <1>1, FS_Difference
<1>4. Cardinality(S) \in Nat /\ Cardinality(T) \in Nat /\ Cardinality(S \ T) \in Nat
  BY <1>2, FS_CardinalityType
<1> QED
  BY <1>2, <1>3, <1>4

\* The limiter starts with no bucket and no request.
LEMMA LimiterInit == InitLimiter => LimiterInv
<1> SUFFICES ASSUME InitLimiter PROVE LimiterInv
  OBVIOUS
<1> USE LimiterAssumption
<1>1. bucket = [count |-> 0, age |-> Window] /\ recent = {}
  BY DEF InitLimiter, Expired
<1>2. LimiterTypeOK
  BY <1>1 DEF LimiterTypeOK
<1>3. Since(0) = {}
  BY <1>1 DEF Since
<1>4. IsFiniteSet(recent) /\ Cardinality(recent) = 0
  BY <1>1, FS_EmptySet
<1> QED
  BY <1>1, <1>2, <1>3, <1>4 DEF LimiterInv

\* One request more: the first of a window, or one within the limit.
LEMMA AllowLimiter == ASSUME LimiterInv, LimiterAllow PROVE LimiterInv'
<1> USE LimiterAssumption
<1> DEFINE n == Cardinality(Since(0)) + 1
           e == [age |-> 0, nth |-> n]
<1>1. recent' = recent \cup {e}
  BY DEF LimiterAllow, Remember
<1>2. /\ bucket \in [count : 0..Limit, age : 0..Window]
      /\ recent \subseteq [age : Ages, nth : 1..Limit]
      /\ IsFiniteSet(recent)
  BY DEF LimiterInv, LimiterTypeOK
<1>3. Since(0) \subseteq recent /\ Since(bucket.age) \subseteq recent
  BY DEF Since
<1>4. IsFiniteSet(Since(0)) /\ IsFiniteSet(Since(bucket.age))
  BY <1>2, <1>3, FS_Subset
<1>5. n \in Nat \ {0} /\ Cardinality(Since(0)) \in Nat
  BY <1>4, FS_CardinalityType
<1>6. e \notin recent
  <2> SUFFICES ASSUME e \in recent PROVE FALSE
    OBVIOUS
  <2>1. e \in Since(0) /\ e.nth = n
    BY DEF Since
  <2> QED
    BY <2>1, <1>5 DEF LimiterInv
<1>7. IsFiniteSet(recent')
  BY <1>1, <1>2, FS_AddElement
<1>8. \A a \in Nat : Since(a)' = Since(a) \cup {e}
  BY <1>1 DEF Since
<1>9. /\ Cardinality(Since(0)') = n
      /\ \A q \in Since(0)' : q.nth <= n
  <2>1. Since(0)' = Since(0) \cup {e} /\ e \notin Since(0)
    BY <1>8, <1>6, <1>3
  <2>2. Cardinality(Since(0) \cup {e}) = n
    BY <2>1, <1>4, FS_AddElement
  <2>3. \A q \in Since(0) : q.nth \in Nat /\ q.nth <= n
    BY <1>2, <1>3, <1>5 DEF LimiterInv
  <2> QED
    BY <2>1, <2>2, <2>3, <1>5
<1>10. CASE bucket.age = Window
  <2>1. bucket' = [count |-> 1, age |-> 0]
    BY <1>10 DEF LimiterAllow
  <2>2. Since(0) = {} /\ Cardinality(recent) <= Limit - 1
    BY <1>10 DEF LimiterInv
  <2>3. n = 1
    BY <2>2, FS_EmptySet
  <2>4. LimiterTypeOK'
    BY <2>1, <2>3, <1>1, <1>2 DEF LimiterTypeOK, Ages
  <2>5. Since(0)' = {e}
    BY <1>8, <2>2
  <2>6. recent' \ Since(0)' = recent
    BY <2>5, <1>1, <1>6
  <2>7. e \in recent' /\ e.age = 0
    BY <1>1
  <2>8. Cardinality(Since(0)') = 1
    BY <1>9, <2>3
  <2>9. Cardinality(recent' \ Since(0)') <= Limit - 1
    BY <2>2, <2>6
  <2>10. bucket'.age = 0 /\ bucket'.count = 1 /\ 0 # Window
    BY <2>1
  <2>11. Since(bucket.age)' = Since(0)'
    BY <2>10 DEF Since
  <2>12. /\ Cardinality(Since(bucket.age)') = bucket'.count
         /\ Cardinality(recent' \ Since(bucket.age)') <= Limit - 1
    BY <2>8, <2>9, <2>10, <2>11
  <2>13. \E q \in recent' : q.age = bucket'.age
    BY <2>7, <2>10
  <2> QED
    BY <2>4, <2>12, <2>13, <1>7, <1>9, <2>10 DEF LimiterInv
<1>11. CASE bucket.age # Window
  <2>1. bucket.age \in Ages
    BY <1>2, <1>11 DEF Ages
  <2>2. bucket.count < Limit /\ bucket' = [bucket EXCEPT !.count = @ + 1]
    BY <2>1 DEF LimiterAllow, LimiterAllows, Ages
  <2>3. bucket'.age = bucket.age /\ bucket'.count = bucket.count + 1
    BY <1>2, <2>2
  <2>4. /\ Cardinality(Since(bucket.age)) = bucket.count
        /\ Cardinality(recent \ Since(bucket.age)) <= Limit - 1
        /\ \E q \in recent : q.age = bucket.age
    BY <1>11 DEF LimiterInv
  <2>5. Since(bucket.age)' = Since(bucket.age) \cup {e}
    <3>1. Since(bucket.age)' = {q \in recent' : q.age <= bucket.age}
      BY <2>3 DEF Since
    <3> QED
      BY <3>1, <2>1, <1>1 DEF Since, Ages
  <2>6. Cardinality(Since(bucket.age) \cup {e}) = bucket.count + 1
    BY <1>4, <1>6, <1>3, <2>4, FS_AddElement
  <2>7. recent' \ Since(bucket.age)' = recent \ Since(bucket.age)
    BY <2>5, <1>1, <1>6
  <2>8. n <= Limit
    <3>1. Since(0) \subseteq Since(bucket.age)
      BY <1>2, <2>1 DEF Since, Ages
    <3>2. Cardinality(Since(0)) <= Cardinality(Since(bucket.age))
      BY <3>1, <1>4, FS_Subset
    <3> QED
      BY <3>2, <2>4, <2>2, <1>2, <1>5
  <2>9. LimiterTypeOK'
    <3>1. e \in [age : Ages, nth : 1..Limit]
      BY <2>8, <1>5 DEF Ages
    <3>2. bucket' \in [count : 0..Limit, age : 0..Window]
      BY <1>2, <2>2
    <3> QED
      BY <3>1, <3>2, <1>1, <1>2 DEF LimiterTypeOK
  <2>10. \E q \in recent' : q.age = bucket'.age
    BY <2>4, <2>3, <1>1
  <2>11. /\ Cardinality(Since(bucket.age)') = bucket'.count
         /\ Cardinality(recent' \ Since(bucket.age)') <= Limit - 1
    BY <2>3, <2>4, <2>5, <2>6, <2>7
  <2> QED
    BY <2>9, <2>10, <2>11, <2>3, <1>11, <1>7, <1>9 DEF LimiterInv
<1> QED
  BY <1>10, <1>11

\* A tick later: the window goes on, or it is over and its first request, a
\* window old, no longer counts.
LEMMA TickLimiter == ASSUME LimiterInv, LimiterTick PROVE LimiterInv'
<1> USE LimiterAssumption
<1> DEFINE Kept == {p \in recent : p.age + 1 \in Ages}
<1>1. recent' = {Older(q) : q \in Kept}
  BY DEF LimiterTick
<1>2. /\ bucket \in [count : 0..Limit, age : 0..Window]
      /\ recent \subseteq [age : Ages, nth : 1..Limit]
      /\ IsFiniteSet(recent)
  BY DEF LimiterInv, LimiterTypeOK
<1>3. Kept \subseteq recent /\ IsFiniteSet(Kept) /\ Cardinality(Kept) <= Cardinality(recent)
  BY <1>2, FS_Subset
<1>4. recent \subseteq [age : Nat, nth : Nat]
  BY <1>2 DEF Ages
<1>5. IsFiniteSet(recent') /\ Cardinality(recent') = Cardinality(Kept)
  BY <1>1, <1>3, <1>4, OlderCount
<1>6. recent' \subseteq [age : Ages, nth : 1..Limit]
  BY <1>1, <1>2 DEF Older
<1>7. \A q \in recent' : q.age > 0
  BY <1>1, <1>2 DEF Older, Ages
<1>8. Since(0)' = {}
  <2>1. Since(0)' = {q \in recent' : q.age <= 0}
    BY DEF Since
  <2> QED
    BY <2>1, <1>7, <1>6 DEF Ages
<1>9. Cardinality(recent) \in Nat /\ Cardinality(Kept) \in Nat
  BY <1>2, <1>3, FS_CardinalityType
<1>10. CASE bucket.age + 1 < Window
  <2>1. bucket' = [bucket EXCEPT !.age = @ + 1]
    BY <1>10, <1>2 DEF LimiterTick
  <2>2. bucket'.age = bucket.age + 1 /\ bucket'.count = bucket.count /\ bucket.age # Window
    BY <2>1, <1>2, <1>10
  <2>3. /\ Cardinality(Since(bucket.age)) = bucket.count
        /\ Cardinality(recent \ Since(bucket.age)) <= Limit - 1
        /\ \E q \in recent : q.age = bucket.age
    BY <2>2 DEF LimiterInv
  <2> DEFINE Mine == Since(bucket.age)
             Rest == Kept \ Mine
  <2>4. Mine \subseteq Kept
    BY <1>2, <1>10 DEF Since, Ages
  <2>5. Since(bucket.age)' = {Older(q) : q \in Mine}
    <3>1. Since(bucket.age)' = {q \in recent' : q.age <= bucket.age + 1}
      BY <2>2 DEF Since
    <3>2. \A q \in Kept : Older(q).age <= bucket.age + 1 <=> q \in Mine
      BY <1>2 DEF Since, Older, Ages
    <3> QED
      BY <3>1, <3>2, <2>4, <1>1
  <2>6. recent' \ Since(bucket.age)' = {Older(q) : q \in Rest}
    <3>1. recent' \ Since(bucket.age)' = {q \in recent' : ~(q.age <= bucket.age + 1)}
      BY <2>2 DEF Since
    <3>2. \A q \in Kept : ~(Older(q).age <= bucket.age + 1) <=> q \in Rest
      BY <1>2 DEF Since, Older, Ages
    <3> QED
      BY <3>1, <3>2, <1>1
  <2>7. IsFiniteSet(Mine) /\ Cardinality({Older(q) : q \in Mine}) = Cardinality(Mine)
    <3>1. IsFiniteSet(Mine)
      BY <2>4, <1>3, FS_Subset
    <3> QED
      BY <3>1, <2>4, <1>3, <1>4, OlderCount
  <2>8. Cardinality({Older(q) : q \in Rest}) <= Limit - 1
    <3>1. IsFiniteSet(recent \ Mine) /\ Rest \subseteq recent \ Mine
      BY <1>2, <1>3, FS_Subset
    <3>2. IsFiniteSet(Rest) /\ Cardinality(Rest) <= Cardinality(recent \ Mine)
      BY <3>1, FS_Subset
    <3>3. Cardinality({Older(q) : q \in Rest}) = Cardinality(Rest)
      BY <3>2, <1>3, <1>4, OlderCount
    <3>4. Cardinality(Rest) \in Nat /\ Cardinality(recent \ Mine) \in Nat
      BY <3>1, <3>2, FS_CardinalityType
    <3> QED
      BY <3>2, <3>3, <3>4, <2>3
  <2>9. \E q \in recent' : q.age = bucket'.age
    <3>1. PICK q \in recent : q.age = bucket.age
      BY <2>3
    <3>2. q \in Kept
      BY <3>1, <1>10, <1>2 DEF Ages
    <3>3. Older(q) \in recent' /\ Older(q).age = q.age + 1
      BY <3>2, <1>1 DEF Older
    <3> QED
      BY <3>1, <3>3, <2>2
  <2>10. LimiterTypeOK'
    BY <2>1, <1>2, <1>6, <1>10 DEF LimiterTypeOK
  <2>11. bucket'.age # Window
    BY <2>2, <1>10, <1>2
  <2>12. /\ Cardinality(Since(bucket.age)') = bucket'.count
         /\ Cardinality(recent' \ Since(bucket.age)') <= Limit - 1
    BY <2>2, <2>3, <2>5, <2>6, <2>7, <2>8
  <2> QED
    BY <2>9, <2>10, <2>11, <2>12, <1>5, <1>8 DEF LimiterInv
<1>11. CASE bucket.age + 1 >= Window
  <2>1. bucket' = [count |-> 0, age |-> Window]
    BY <1>11 DEF LimiterTick, Expired
  <2>2. LimiterTypeOK'
    BY <2>1, <1>6 DEF LimiterTypeOK
  <2>3. Cardinality(recent') <= Limit - 1
    <3>1. CASE bucket.age = Window
      BY <3>1, <1>3, <1>5, <1>9 DEF LimiterInv
    <3>2. CASE bucket.age # Window
      <4>1. bucket.age = Window - 1
        BY <3>2, <1>11, <1>2
      <4>2. Since(bucket.age) = recent
        BY <4>1, <1>2 DEF Since, Ages
      <4>3. Cardinality(recent) <= Limit
        BY <3>2, <4>2, <1>2 DEF LimiterInv
      <4>4. PICK first \in recent : first.age = bucket.age
        BY <3>2 DEF LimiterInv
      <4>5. Kept \subseteq recent \ {first}
        BY <4>1, <4>4 DEF Ages
      <4>6. /\ IsFiniteSet(recent \ {first})
            /\ Cardinality(recent \ {first}) = Cardinality(recent) - 1
        BY <4>4, <1>2, FS_RemoveElement
      <4>7. Cardinality(Kept) <= Cardinality(recent \ {first})
        BY <4>5, <4>6, FS_Subset
      <4> QED
        BY <4>3, <4>6, <4>7, <1>5, <1>9
    <3> QED
      BY <3>1, <3>2
  <2> QED
    BY <2>1, <2>2, <2>3, <1>5, <1>8 DEF LimiterInv
<1> QED
  BY <1>10, <1>11, <1>2

\* What the invariant says of the two properties.
LEMMA LimiterKeeps == LimiterInv => LimiterTypeOK /\ TwiceTheLimit /\ RefusedHasCause
<1> SUFFICES ASSUME LimiterInv
             PROVE  LimiterTypeOK /\ TwiceTheLimit /\ RefusedHasCause
  OBVIOUS
<1> USE LimiterAssumption
<1>1. /\ bucket \in [count : 0..Limit, age : 0..Window]
      /\ IsFiniteSet(recent)
  BY DEF LimiterInv, LimiterTypeOK
<1>2. Since(bucket.age) \in SUBSET recent
  BY DEF Since
<1>3. /\ Cardinality(recent) \in Nat
      /\ Cardinality(Since(bucket.age)) \in Nat
      /\ Cardinality(recent \ Since(bucket.age)) \in Nat
      /\ Cardinality(recent)
           = Cardinality(Since(bucket.age)) + Cardinality(recent \ Since(bucket.age))
  BY <1>1, <1>2, TwoParts, FS_CardinalityType
<1>4. TwiceTheLimit
  BY <1>1, <1>3 DEF LimiterInv, TwiceTheLimit
<1>5. RefusedHasCause
  BY <1>1, <1>3 DEF LimiterInv, RefusedHasCause, LimiterAllows
<1> QED
  BY <1>4, <1>5 DEF LimiterInv

-----------------------------------------------------------------------------
(***************************************************************************)
(* Settings, for any number of requests, patterns, changes and faults.     *)
(***************************************************************************)

Parts == {"server", "defaults", "global"}

\* The steps a request of this sort goes through.
Steps(sort) ==
  CASE sort.name = "merge" -> {"overlay", "answered"}
    [] sort.name = "discovery" -> {"parts", "answered"}
    [] sort.name = "tool" -> {"defaults", "answered"}
                             \cup (IF sort.agent THEN {"overrides"} ELSE {})
                             \cup (IF sort.ws THEN {"rules"} ELSE {})

WellFormed(q) ==
  /\ DOMAIN q = {"pc", "sort", "got", "may", "touched", "lost"}
  /\ q.sort \in Sorts /\ q.pc \in Steps(q.sort)
  /\ q.touched \subseteq Tables /\ IsFiniteSet(q.touched)
  /\ q.pc = "parts" => DOMAIN q.got \subseteq Parts

\* What a request has read and no change has touched since it began, is as it
\* read it: the server was enabled, a level it passed had nothing to say, the
\* parts it has are those of the tables.
AsRead(q) ==
  /\ q.sort.name = "tool" /\ q.pc # "answered" =>
       /\ "server" \notin q.touched => mcpServer.on
       /\ q.pc # "overrides" /\ q.sort.agent /\ "overrides" \notin q.touched /\ ~q.lost
            => ByOverrides = {}
       /\ q.pc = "defaults" /\ q.sort.ws /\ "rules" \notin q.touched => ByRules = {}
  /\ q.pc = "overlay" /\ "global" \notin q.touched => q.got = global
  /\ q.pc = "parts" => \A name \in DOMAIN q.got \ q.touched : q.got[name] = Part(name)

\* The parts a discovery has, and those of the tables for the others.
Completed(got) ==
  [name \in Parts |-> IF name \in DOMAIN got THEN got[name] ELSE Part(name)]

\* What a request would answer if it read all that is left now.
Ahead(q) ==
  CASE q.pc = "overrides" -> Classified(q.sort)
    [] q.pc = "rules" -> IF ByRules # {} THEN ByRules ELSE ByDefaults
    [] q.pc = "defaults" -> ByDefaults
    [] q.pc = "overlay" -> {Merged(q.got, workspace)}
    [] q.pc = "parts" -> {Completed(q.got)}
    [] q.pc = "answered" -> {q.got}

Explained(q) == Cardinality(q.touched) <= 1 /\ ~q.lost => Ahead(q) \subseteq q.may

RequestInv(r) ==
  \/ request[r] = NoRequest
  \/ WellFormed(request[r]) /\ AsRead(request[r]) /\ Explained(request[r])

SettingsInv ==
  /\ SettingsTypeOK
  /\ LimiterInv
  /\ DOMAIN request = Requests
  /\ \A r \in Requests : RequestInv(r)

Fields == {"pc", "sort", "got", "may", "touched", "lost"}

\* The steps there are.
LEMMA StepsOf ==
  ASSUME NEW sort \in Sorts
  PROVE  /\ sort \in ToolCalls \/ sort = Merge \/ sort = Discovery
         /\ sort \in ToolCalls =>
              Steps(sort) = {"defaults", "answered"}
                            \cup (IF sort.agent THEN {"overrides"} ELSE {})
                            \cup (IF sort.ws THEN {"rules"} ELSE {})
         /\ sort = Merge => Steps(sort) = {"overlay", "answered"}
         /\ sort = Discovery => Steps(sort) = {"parts", "answered"}
         /\ Steps(sort) \subseteq
              {"overrides", "rules", "defaults", "overlay", "parts", "answered"}
<1>1. sort \in ToolCalls \/ sort = Merge \/ sort = Discovery
  BY DEF Sorts
<1>2. CASE sort \in ToolCalls
  <2>1. sort.name = "tool" /\ sort # Merge /\ sort # Discovery
    BY <1>2 DEF ToolCalls, Merge, Discovery
  <2> QED
    BY <1>2, <2>1 DEF Steps
<1>3. CASE sort = Merge
  <2>1. sort.name = "merge" /\ sort \notin ToolCalls /\ sort # Discovery
    BY <1>3 DEF ToolCalls, Merge, Discovery
  <2> QED
    BY <1>3, <2>1 DEF Steps
<1>4. CASE sort = Discovery
  <2>1. sort.name = "discovery" /\ sort \notin ToolCalls /\ sort # Merge
    BY <1>4 DEF ToolCalls, Merge, Discovery
  <2> QED
    BY <1>4, <2>1 DEF Steps
<1> QED
  BY <1>1, <1>2, <1>3, <1>4

\* A level depends on its table alone.
LEMMA LevelsOf ==
  /\ overrides' = overrides => ByOverrides' = ByOverrides
  /\ rules' = rules => ByRules' = ByRules
  /\ defaults' = defaults => ByDefaults' = ByDefaults
<1>1. overrides' = overrides => ByOverrides' = ByOverrides
  BY DEF ByOverrides, Matching, Verdict, Normalized
<1>2. rules' = rules => ByRules' = ByRules
  BY DEF ByRules, Matching, Verdict, Normalized
<1>3. defaults' = defaults => ByDefaults' = ByDefaults
  BY DEF ByDefaults, Verdict, Normalized
<1> QED
  BY <1>1, <1>2, <1>3

\* The answers of the three sorts of request ...
AnswersHold ==
  /\ \A sort \in ToolCalls : mcpServer.on => Answers[sort] = Classified(sort)
  /\ Answers[Merge] = {Merged(global, workspace)}
  /\ Answers[Discovery] = {[server |-> mcpServer, defaults |-> defaults, global |-> global]}

\* ... now and after a step.
LEMMA AnswersOf == AnswersHold /\ AnswersHold'
<1>1. \A sort \in ToolCalls : sort \in Sorts /\ sort.name = "tool"
  BY DEF ToolCalls, Sorts
<1>2. Merge \in Sorts /\ Merge.name = "merge" /\ Discovery \in Sorts /\ Discovery.name = "discovery"
  BY DEF Sorts, Merge, Discovery
<1>3. NoServer.on = FALSE
  BY DEF NoServer
<1>4. AnswersHold
  <2>1. \A sort \in ToolCalls : mcpServer.on => Answers[sort] = Classified(sort)
    BY <1>1, <1>3 DEF Answers
  <2> QED
    BY <1>2, <2>1 DEF AnswersHold, Answers
<1>5. AnswersHold'
  <2>1. \A sort \in ToolCalls : mcpServer'.on => Answers'[sort] = Classified(sort)'
    BY <1>1, <1>3 DEF Answers
  <2> QED
    BY <1>2, <2>1 DEF AnswersHold, Answers
<1> QED
  BY <1>4, <1>5

\* What one request has in store is not changed by a step that changes no table
\* and leaves that request alone.
LEMMA RequestKept ==
  ASSUME NEW r, RequestInv(r), UNCHANGED tables, request'[r] = request[r]
  PROVE  RequestInv(r)'
<1> USE DEF tables
<1>1. ByOverrides' = ByOverrides /\ ByRules' = ByRules /\ ByDefaults' = ByDefaults
  BY LevelsOf
<1>2. CASE request[r] = NoRequest
  BY <1>2 DEF RequestInv
<1>3. CASE WellFormed(request[r]) /\ AsRead(request[r]) /\ Explained(request[r])
  <2>1. WellFormed(request[r])'
    BY <1>3 DEF WellFormed
  <2>2. AsRead(request[r])'
    BY <1>1, <1>3 DEF AsRead, Part
  <2>3. (Ahead(request[r]))' = Ahead(request[r])
    BY <1>1 DEF Ahead, Classified, Merged, Completed, Part
  <2>4. Explained(request[r])'
    BY <1>3, <2>3 DEF Explained
  <2> QED
    BY <2>1, <2>2, <2>4 DEF RequestInv
<1> QED
  BY <1>2, <1>3 DEF RequestInv

\* A step of one request, which leaves it with p.
LEMMA RequestStep ==
  ASSUME SettingsInv, NEW r \in Requests, NEW p, UNCHANGED tables,
         DOMAIN request' = Requests, request'[r] = p,
         \A s \in Requests \ {r} : request'[s] = request[s],
         p = NoRequest \/ (WellFormed(p) /\ AsRead(p) /\ Explained(p)),
         faults' \in 0..MaxFaults, LimiterInv'
  PROVE  SettingsInv'
<1> USE SettingsAssumption
<1>1. ByOverrides' = ByOverrides /\ ByRules' = ByRules /\ ByDefaults' = ByDefaults
  BY LevelsOf DEF tables
<1>2. RequestInv(r)'
  <2>1. CASE p = NoRequest
    BY <2>1 DEF RequestInv
  <2>2. CASE WellFormed(p) /\ AsRead(p) /\ Explained(p)
    <3>1. WellFormed(request[r])'
      BY <2>2 DEF WellFormed
    <3>2. AsRead(request[r])'
      BY <1>1, <2>2 DEF AsRead, Part, tables
    <3>3. (Ahead(request[r]))' = Ahead(p)
      BY <1>1 DEF Ahead, Classified, Merged, Completed, Part, tables
    <3>4. Explained(request[r])'
      BY <2>2, <3>3 DEF Explained
    <3> QED
      BY <3>1, <3>2, <3>4 DEF RequestInv
  <2> QED
    BY <2>1, <2>2
<1>3. ASSUME NEW s \in Requests \ {r}
      PROVE  RequestInv(s)'
  BY <1>3, RequestKept DEF SettingsInv
<1>4. \A s \in Requests : RequestInv(s)'
  BY <1>2, <1>3
<1>5. SettingsTypeOK'
  <2>1. \A s \in Requests : request'[s] = NoRequest \/
          /\ request'[s].pc \in {"overrides", "rules", "defaults", "overlay", "parts", "answered"}
          /\ request'[s].sort \in Sorts /\ request'[s].touched \subseteq Tables
    <3> SUFFICES ASSUME NEW s \in Requests, request'[s] # NoRequest
                 PROVE  /\ request'[s].pc \in {"overrides", "rules", "defaults", "overlay",
                                               "parts", "answered"}
                        /\ request'[s].sort \in Sorts /\ request'[s].touched \subseteq Tables
      OBVIOUS
    <3>1. WellFormed(request[s])'
      BY <1>4 DEF RequestInv
    <3>2. /\ request'[s].sort \in Sorts /\ request'[s].touched \subseteq Tables
          /\ request'[s].pc \in Steps(request'[s].sort)
      BY <3>1 DEF WellFormed
    <3> QED
      BY <3>2, StepsOf
  <2> QED
    BY <2>1 DEF SettingsInv, SettingsTypeOK, tables, LimiterInv
<1> QED
  BY <1>4, <1>5 DEF SettingsInv

\* Two fields of a request set.
LEMMA FieldsSet ==
  ASSUME NEW q, DOMAIN q = Fields, NEW x, NEW y
  PROVE  LET p == [q EXCEPT !.pc = x, !.got = y]
         IN  /\ DOMAIN p = Fields /\ p.pc = x /\ p.got = y
             /\ p.sort = q.sort /\ p.may = q.may /\ p.touched = q.touched /\ p.lost = q.lost
BY DEF Fields

\* A request answered, by something it may answer unless two tables changed.
LEMMA AnswerStep ==
  ASSUME SettingsInv, NEW r \in Requests, request[r] # NoRequest, NEW a, AnswerWith(r, a),
         a \in Ahead(request[r]), UNCHANGED tables, UNCHANGED faults, LimiterInv'
  PROVE  SettingsInv'
<1>1. PICK q : q = request[r]
  OBVIOUS
<1>2. PICK p : p = [q EXCEPT !.pc = "answered", !.got = a]
  OBVIOUS
<1>3. WellFormed(q) /\ AsRead(q) /\ Explained(q)
  BY <1>1 DEF SettingsInv, RequestInv
<1>4. /\ DOMAIN p = Fields /\ p.pc = "answered" /\ p.got = a
      /\ p.sort = q.sort /\ p.may = q.may /\ p.touched = q.touched /\ p.lost = q.lost
  BY <1>2, <1>3, FieldsSet DEF WellFormed, Fields
<1>5. DOMAIN request = Requests
  BY DEF SettingsInv
<1>6. /\ DOMAIN request' = Requests /\ request'[r] = p
      /\ \A s \in Requests \ {r} : request'[s] = request[s]
  BY <1>1, <1>2, <1>5 DEF AnswerWith
<1>7. WellFormed(p)
  <2>1. "answered" \in Steps(q.sort)
    BY <1>3, StepsOf DEF WellFormed
  <2> QED
    BY <1>3, <1>4, <2>1 DEF WellFormed, Fields
<1>8. AsRead(p)
  BY <1>4 DEF AsRead
<1>9. Explained(p)
  <2>1. Ahead(p) = {a}
    BY <1>4 DEF Ahead
  <2> QED
    BY <1>1, <1>3, <1>4, <2>1 DEF Explained
<1>10. faults' \in 0..MaxFaults
  BY DEF SettingsInv, SettingsTypeOK
<1> QED
  BY <1>6, <1>7, <1>8, <1>9, <1>10, RequestStep

\* A request goes on, with the same or less ahead of it.
LEMMA GotoStep ==
  ASSUME SettingsInv, NEW r \in Requests, request[r] # NoRequest, NEW x, Goto(r, x),
         x \in Steps(request[r].sort), x # "parts", UNCHANGED tables, UNCHANGED faults, LimiterInv',
         \A p : (/\ p.pc = x /\ p.sort = request[r].sort /\ p.got = request[r].got
                 /\ p.touched = request[r].touched /\ p.lost = request[r].lost)
                  => AsRead(p) /\ Ahead(p) \subseteq Ahead(request[r])
  PROVE  SettingsInv'
<1>1. PICK q : q = request[r]
  OBVIOUS
<1>2. PICK p : p = [q EXCEPT !.pc = x]
  OBVIOUS
<1>3. WellFormed(q) /\ AsRead(q) /\ Explained(q)
  BY <1>1 DEF SettingsInv, RequestInv
<1>4. /\ DOMAIN p = Fields /\ p.pc = x /\ p.got = q.got
      /\ p.sort = q.sort /\ p.may = q.may /\ p.touched = q.touched /\ p.lost = q.lost
  BY <1>2, <1>3 DEF WellFormed, Fields
<1>5. DOMAIN request = Requests
  BY DEF SettingsInv
<1>6. /\ DOMAIN request' = Requests /\ request'[r] = p
      /\ \A s \in Requests \ {r} : request'[s] = request[s]
  BY <1>1, <1>2, <1>5 DEF Goto
<1>7. WellFormed(p)
  BY <1>1, <1>3, <1>4 DEF WellFormed, Fields
<1>8. AsRead(p) /\ Ahead(p) \subseteq Ahead(q)
  BY <1>1, <1>4
<1>9. Explained(p)
  BY <1>3, <1>4, <1>8 DEF Explained
<1>10. faults' \in 0..MaxFaults
  BY DEF SettingsInv, SettingsTypeOK
<1> QED
  BY <1>6, <1>7, <1>8, <1>9, <1>10, RequestStep

\* A read that fails: the request is lost, and so excused.
LEMMA LostStep ==
  ASSUME SettingsInv, NEW r \in Requests, request[r] # NoRequest, NEW x,
         request' = [request EXCEPT ![r].pc = x, ![r].lost = TRUE],
         x \in Steps(request[r].sort), x # "parts", UNCHANGED tables,
         faults < MaxFaults, faults' = faults + 1, LimiterInv',
         \A p : (/\ p.pc = x /\ p.sort = request[r].sort /\ p.got = request[r].got
                 /\ p.touched = request[r].touched /\ p.lost = TRUE) => AsRead(p)
  PROVE  SettingsInv'
<1>1. PICK q : q = request[r]
  OBVIOUS
<1>2. PICK p : p = [q EXCEPT !.pc = x, !.lost = TRUE]
  OBVIOUS
<1>3. WellFormed(q)
  BY <1>1 DEF SettingsInv, RequestInv
<1>4. /\ DOMAIN p = Fields /\ p.pc = x /\ p.got = q.got
      /\ p.sort = q.sort /\ p.may = q.may /\ p.touched = q.touched /\ p.lost = TRUE
  BY <1>2, <1>3 DEF WellFormed, Fields
<1>5. DOMAIN request = Requests
  BY DEF SettingsInv
<1>6. /\ DOMAIN request' = Requests /\ request'[r] = p
      /\ \A s \in Requests \ {r} : request'[s] = request[s]
  BY <1>1, <1>2, <1>5
<1>7. WellFormed(p)
  BY <1>1, <1>3, <1>4 DEF WellFormed, Fields
<1>8. AsRead(p)
  BY <1>1, <1>4
<1>9. Explained(p)
  BY <1>4 DEF Explained
<1>10. faults' \in 0..MaxFaults
  BY SettingsAssumption DEF SettingsInv, SettingsTypeOK
<1> QED
  BY <1>6, <1>7, <1>8, <1>9, <1>10, RequestStep

\* A request begins: by the tables of this moment it may answer what is ahead.
LEMMA BeginStep ==
  ASSUME SettingsInv, NEW r \in Requests, NEW sort \in Sorts, NEW x, NEW y, Begin(r, sort, x, y),
         x \in Steps(sort), x = "parts" => DOMAIN y \subseteq Parts, ReadOnly,
         \A p : p.pc = x /\ p.sort = sort /\ p.got = y
                  => AsRead(p) /\ Ahead(p) \subseteq Answers[sort]
  PROVE  SettingsInv'
<1>1. PICK p : p = [pc |-> x, sort |-> sort, got |-> y, may |-> Answers[sort],
                    touched |-> {}, lost |-> FALSE]
  OBVIOUS
<1>2. DOMAIN request = Requests
  BY DEF SettingsInv
<1>3. /\ DOMAIN request' = Requests /\ request'[r] = p
      /\ \A s \in Requests \ {r} : request'[s] = request[s]
  BY <1>1, <1>2 DEF Begin
<1>4. /\ DOMAIN p = Fields /\ p.pc = x /\ p.sort = sort /\ p.got = y
      /\ p.may = Answers[sort] /\ p.touched = {}
  BY <1>1 DEF Fields
<1>5. WellFormed(p)
  <2>1. IsFiniteSet({})
    BY FS_EmptySet
  <2>2. p.lost = FALSE
    BY <1>1
  <2> QED
    BY <1>4, <2>1, <2>2 DEF WellFormed, Fields
<1>6. AsRead(p) /\ Ahead(p) \subseteq Answers[sort]
  BY <1>4
<1>7. Explained(p)
  BY <1>4, <1>6 DEF Explained
<1>8. UNCHANGED tables /\ faults' \in 0..MaxFaults
  BY DEF ReadOnly, SettingsInv, SettingsTypeOK
<1>9. LimiterInv'
  <2>1. LimiterInv /\ bucket' = bucket /\ recent' = recent
    BY DEF SettingsInv, ReadOnly, limiter
  <2> QED
    BY <2>1 DEF LimiterInv, LimiterTypeOK, Since
<1> QED
  BY <1>3, <1>5, <1>6, <1>7, <1>8, <1>9, RequestStep

\* The limiter does not notice what leaves it alone.
LEMMA LimiterSame == LimiterInv /\ UNCHANGED limiter => LimiterInv'
<1> SUFFICES ASSUME LimiterInv, bucket' = bucket, recent' = recent PROVE LimiterInv'
  BY DEF limiter
<1> QED
  BY DEF LimiterInv, LimiterTypeOK, Since

\* A request in progress: its sort by its step.
LEMMA SortOf ==
  ASSUME NEW q, WellFormed(q)
  PROVE  /\ q.pc \in {"overrides", "rules", "defaults"} =>
              q.sort \in ToolCalls /\ q.sort.name = "tool" /\ q.sort \in Sorts
         /\ q.pc = "overrides" => q.sort.agent
         /\ q.pc = "rules" => q.sort.ws
         /\ q.pc = "overlay" => q.sort = Merge
         /\ q.pc = "parts" => q.sort = Discovery
<1>1. q.sort \in Sorts /\ q.pc \in Steps(q.sort)
  BY DEF WellFormed
<1>2. CASE q.sort \in ToolCalls
  <2>1. q.sort.name = "tool" /\ q.sort.agent \in BOOLEAN /\ q.sort.ws \in BOOLEAN
    BY <1>2 DEF ToolCalls
  <2>2. q.pc \in {"defaults", "answered"} \cup (IF q.sort.agent THEN {"overrides"} ELSE {})
                   \cup (IF q.sort.ws THEN {"rules"} ELSE {})
    BY <1>1, <1>2, StepsOf
  <2> QED
    BY <1>1, <1>2, <2>1, <2>2
<1>3. CASE q.sort = Merge
  BY <1>1, <1>3, StepsOf
<1>4. CASE q.sort = Discovery
  BY <1>1, <1>4, StepsOf
<1> QED
  BY <1>1, <1>2, <1>3, <1>4, StepsOf

\* Every request that is not idle is well formed, and what it read is as it read it.
LEMMA InProgress ==
  ASSUME SettingsInv, NEW r \in Requests, NEW x, x # "idle", Reading(r, x)
  PROVE  /\ request[r] # NoRequest /\ request[r].pc = x
         /\ WellFormed(request[r]) /\ AsRead(request[r]) /\ Explained(request[r])
<1>1. NoRequest.pc = "idle"
  BY DEF NoRequest
<1>2. request[r].pc = x
  BY DEF Reading
<1> QED
  BY <1>1, <1>2 DEF SettingsInv, RequestInv

\* A tool call begins with the row of its server.
LEMMA GetByLabelStep == ASSUME SettingsInv, NEW r \in Requests, GetByLabel(r) PROVE SettingsInv'
<1> DEFINE after(sort) == IF sort.agent THEN "overrides"
                          ELSE IF sort.ws THEN "rules" ELSE "defaults"
<1>1. ReadOnly
  BY DEF GetByLabel
<1>2. CASE mcpServer.on
  <2>1. PICK sort \in ToolCalls : \E y : Begin(r, sort, after(sort), y)
    BY <1>2 DEF GetByLabel
  <2>2. PICK y : Begin(r, sort, after(sort), y)
    BY <2>1
  <2>3. sort \in Sorts /\ sort.name = "tool" /\ sort.agent \in BOOLEAN /\ sort.ws \in BOOLEAN
    BY DEF ToolCalls, Sorts
  <2>4. Steps(sort) = {"defaults", "answered"} \cup (IF sort.agent THEN {"overrides"} ELSE {})
                        \cup (IF sort.ws THEN {"rules"} ELSE {})
    BY <2>3, StepsOf
  <2>5. after(sort) \in Steps(sort) /\ after(sort) \in {"overrides", "rules", "defaults"}
    BY <2>4
  <2>6. Answers[sort] = Classified(sort)
    BY <1>2, AnswersOf DEF AnswersHold
  <2>7. ASSUME NEW p, p.pc = after(sort), p.sort = sort, p.got = y
        PROVE  AsRead(p) /\ Ahead(p) \subseteq Answers[sort]
    <3>1. Ahead(p) = Answers[sort]
      <4>1. CASE sort.agent
        BY <4>1, <2>6, <2>7 DEF Ahead
      <4>2. CASE ~sort.agent /\ sort.ws
        BY <4>2, <2>6, <2>7 DEF Ahead, Classified
      <4>3. CASE ~sort.agent /\ ~sort.ws
        BY <4>3, <2>6, <2>7 DEF Ahead, Classified
      <4> QED
        BY <4>1, <4>2, <4>3
    <3>2. AsRead(p)
      BY <2>7, <2>5, <1>2, <2>3 DEF AsRead
    <3> QED
      BY <3>1, <3>2
  <2> HIDE DEF after
  <2> QED
    BY <1>1, <2>2, <2>3, <2>5, <2>7, BeginStep
<1>3. CASE ~mcpServer.on
  <2>1. PICK y : y = IF mcpServer = NoServer THEN "missing" ELSE "disabled"
    OBVIOUS
  <2>2. PICK sort \in ToolCalls : Begin(r, sort, "answered", y)
    BY <1>3, <2>1 DEF GetByLabel
  <2>3. sort \in Sorts /\ sort.name = "tool"
    BY DEF ToolCalls, Sorts
  <2>4. "answered" \in Steps(sort)
    BY <2>3, StepsOf
  <2>5. Answers[sort] = {y}
    BY <2>1, <2>3, <1>3 DEF Answers
  <2>6. ASSUME NEW p, p.pc = "answered", p.sort = sort, p.got = y
        PROVE  AsRead(p) /\ Ahead(p) \subseteq Answers[sort]
    BY <2>5, <2>6 DEF AsRead, Ahead
  <2> QED
    BY <1>1, <2>2, <2>3, <2>4, <2>6, BeginStep
<1> QED
  BY <1>2, <1>3

\* After the overrides come the rules, if there is a workspace.
LEMMA AfterOverridesStep ==
  ASSUME NEW r, request[r].sort \in ToolCalls
  PROVE  /\ AfterOverrides(r) \in Steps(request[r].sort)
         /\ AfterOverrides(r) = IF request[r].sort.ws THEN "rules" ELSE "defaults"
<1>1. request[r].sort \in Sorts
  BY DEF Sorts
<1> QED
  BY <1>1, StepsOf DEF AfterOverrides

\* The overrides are read: they answer, or have nothing to say.
LEMMA GetTrustOverridesStep ==
  ASSUME SettingsInv, NEW r \in Requests, GetTrustOverrides(r) PROVE SettingsInv'
<1>1. /\ request[r] # NoRequest /\ request[r].pc = "overrides"
      /\ WellFormed(request[r]) /\ AsRead(request[r])
  BY InProgress DEF GetTrustOverrides
<1>2. request[r].sort \in ToolCalls /\ request[r].sort.name = "tool" /\ request[r].sort.agent
  BY <1>1, SortOf
<1>3. Ahead(request[r]) = Classified(request[r].sort)
  BY <1>1 DEF Ahead
<1>4. UNCHANGED tables /\ UNCHANGED faults /\ LimiterInv'
  BY LimiterSame DEF GetTrustOverrides, ReadOnly, SettingsInv
<1>5. CASE ByOverrides # {}
  <2>1. PICK verdict \in ByOverrides : AnswerWith(r, verdict)
    BY <1>5 DEF GetTrustOverrides
  <2>2. verdict \in Ahead(request[r])
    BY <1>2, <1>3, <1>5 DEF Classified
  <2> QED
    BY <1>1, <1>4, <2>1, <2>2, AnswerStep
<1>6. CASE ByOverrides = {}
  <2>1. Goto(r, AfterOverrides(r))
    BY <1>6 DEF GetTrustOverrides
  <2>2. PICK x : x = AfterOverrides(r)
    OBVIOUS
  <2>3. x \in Steps(request[r].sort) /\ x = IF request[r].sort.ws THEN "rules" ELSE "defaults"
    BY <1>2, <2>2, AfterOverridesStep
  <2>4. PICK sort : sort = request[r].sort
    OBVIOUS
  <2>5. ASSUME NEW p, p.pc = x, p.sort = sort, p.touched = request[r].touched
        PROVE  AsRead(p) /\ Ahead(p) \subseteq Ahead(request[r])
    <3>1. AsRead(p)
      BY <1>1, <1>2, <1>6, <2>3, <2>4, <2>5 DEF AsRead
    <3>2. CASE sort.ws
      <4>1. Ahead(p) = IF ByRules # {} THEN ByRules ELSE ByDefaults
        BY <2>3, <2>4, <2>5, <3>2 DEF Ahead
      <4> QED
        BY <1>3, <1>6, <2>4, <3>1, <3>2, <4>1 DEF Classified
    <3>3. CASE ~sort.ws
      <4>1. Ahead(p) = ByDefaults
        BY <2>3, <2>4, <2>5, <3>3 DEF Ahead
      <4> QED
        BY <1>3, <1>6, <2>4, <3>1, <3>3, <4>1 DEF Classified
    <3> QED
      BY <3>2, <3>3
  <2> QED
    BY <1>1, <1>4, <2>1, <2>2, <2>3, <2>4, <2>5, GotoStep
<1> QED
  BY <1>5, <1>6

\* The read of the overrides fails, and the call goes on without.
LEMMA OverridesFailStep ==
  ASSUME SettingsInv, NEW r \in Requests, GetTrustOverridesFails(r) PROVE SettingsInv'
<1>1. /\ request[r] # NoRequest /\ request[r].pc = "overrides"
      /\ WellFormed(request[r]) /\ AsRead(request[r])
  BY InProgress DEF GetTrustOverridesFails
<1>2. request[r].sort \in ToolCalls /\ request[r].sort.name = "tool"
  BY <1>1, SortOf
<1>3. PICK x : x = AfterOverrides(r)
  OBVIOUS
<1>4. x \in Steps(request[r].sort) /\ x = IF request[r].sort.ws THEN "rules" ELSE "defaults"
  BY <1>2, <1>3, AfterOverridesStep
<1>5. UNCHANGED tables /\ LimiterInv' /\ faults < MaxFaults /\ faults' = faults + 1
  BY LimiterSame DEF GetTrustOverridesFails, SettingsInv
<1>6. request' = [request EXCEPT ![r].pc = x, ![r].lost = TRUE]
  BY <1>3 DEF GetTrustOverridesFails
<1>7. ASSUME NEW p, p.pc = x, p.sort = request[r].sort, p.touched = request[r].touched,
             p.lost = TRUE
      PROVE  AsRead(p)
  BY <1>1, <1>2, <1>4, <1>7 DEF AsRead
<1> QED
  BY <1>1, <1>4, <1>5, <1>6, <1>7, LostStep

\* The rules of the workspace are read: they answer, or have nothing to say.
LEMMA ListRulesStep == ASSUME SettingsInv, NEW r \in Requests, ListRules(r) PROVE SettingsInv'
<1>1. /\ request[r] # NoRequest /\ request[r].pc = "rules"
      /\ WellFormed(request[r]) /\ AsRead(request[r])
  BY InProgress DEF ListRules
<1>2. request[r].sort \in ToolCalls /\ request[r].sort.name = "tool" /\ request[r].sort \in Sorts
  BY <1>1, SortOf
<1>3. Ahead(request[r]) = IF ByRules # {} THEN ByRules ELSE ByDefaults
  BY <1>1 DEF Ahead
<1>4. UNCHANGED tables /\ UNCHANGED faults /\ LimiterInv'
  BY LimiterSame DEF ListRules, ReadOnly, SettingsInv
<1>5. CASE ByRules # {}
  <2>1. PICK verdict \in ByRules : AnswerWith(r, verdict)
    BY <1>5 DEF ListRules
  <2> QED
    BY <1>1, <1>3, <1>4, <1>5, <2>1, AnswerStep
<1>6. CASE ByRules = {}
  <2>1. Goto(r, "defaults")
    BY <1>6 DEF ListRules
  <2>2. "defaults" \in Steps(request[r].sort)
    BY <1>2, StepsOf
  <2>3. ASSUME NEW p, p.pc = "defaults", p.sort = request[r].sort,
               p.touched = request[r].touched, p.lost = request[r].lost
        PROVE  AsRead(p) /\ Ahead(p) \subseteq Ahead(request[r])
    <3>1. AsRead(p)
      BY <1>1, <1>2, <1>6, <2>3 DEF AsRead
    <3>2. Ahead(p) = ByDefaults
      BY <2>3 DEF Ahead
    <3> QED
      BY <1>3, <1>6, <3>1, <3>2
  <2> QED
    BY <1>1, <1>4, <2>1, <2>2, <2>3, GotoStep
<1> QED
  BY <1>5, <1>6

\* The defaults are read, and answer.
LEMMA ListDefaultsStep == ASSUME SettingsInv, NEW r \in Requests, ListDefaults(r) PROVE SettingsInv'
<1>1. request[r] # NoRequest /\ request[r].pc = "defaults"
  BY InProgress DEF ListDefaults
<1>2. Ahead(request[r]) = ByDefaults
  BY <1>1 DEF Ahead
<1>3. UNCHANGED tables /\ UNCHANGED faults /\ LimiterInv'
  BY LimiterSame DEF ListDefaults, ReadOnly, SettingsInv
<1>4. PICK verdict \in ByDefaults : AnswerWith(r, verdict)
  BY DEF ListDefaults
<1> QED
  BY <1>1, <1>2, <1>3, <1>4, AnswerStep

\* A merge begins with the global row.
LEMMA GetGlobalStep == ASSUME SettingsInv, NEW r \in Requests, GetGlobal(r) PROVE SettingsInv'
<1>1. Merge \in Sorts /\ Merge.name = "merge" /\ "overlay" \in Steps(Merge)
  <2>1. Merge \in Sorts
    BY DEF Sorts
  <2> QED
    BY <2>1, StepsOf DEF Merge
<1>2. Answers[Merge] = {Merged(global, workspace)}
  BY AnswersOf DEF AnswersHold
<1>3. ASSUME NEW p, p.pc = "overlay", p.sort = Merge, p.got = global
      PROVE  AsRead(p) /\ Ahead(p) \subseteq Answers[Merge]
  <2>1. Ahead(p) = {Merged(global, workspace)}
    BY <1>3 DEF Ahead
  <2>2. AsRead(p)
    BY <1>1, <1>3 DEF AsRead
  <2> QED
    BY <1>2, <2>1, <2>2
<1>4. PICK y : y = global
  OBVIOUS
<1>5. Begin(r, Merge, "overlay", y) /\ ReadOnly
  BY <1>4 DEF GetGlobal
<1> QED
  BY <1>1, <1>3, <1>4, <1>5, BeginStep

\* The row of the workspace is read and laid over the global one.
LEMMA GetWorkspaceStep == ASSUME SettingsInv, NEW r \in Requests, GetWorkspace(r) PROVE SettingsInv'
<1>1. request[r] # NoRequest /\ request[r].pc = "overlay"
  BY InProgress DEF GetWorkspace
<1>2. PICK a : a = Merged(request[r].got, workspace)
  OBVIOUS
<1>3. a \in Ahead(request[r])
  BY <1>1, <1>2 DEF Ahead
<1>4. UNCHANGED tables /\ UNCHANGED faults /\ LimiterInv'
  BY LimiterSame DEF GetWorkspace, ReadOnly, SettingsInv
<1>5. AnswerWith(r, a)
  BY <1>2 DEF GetWorkspace
<1> QED
  BY <1>1, <1>3, <1>4, <1>5, AnswerStep

\* The read of the workspace fails, and the global row is the answer.
LEMMA WorkspaceFailsStep ==
  ASSUME SettingsInv, NEW r \in Requests, GetWorkspaceFails(r) PROVE SettingsInv'
<1>1. request[r] # NoRequest /\ request[r].pc = "overlay" /\ WellFormed(request[r])
  BY InProgress DEF GetWorkspaceFails
<1>2. request[r].sort = Merge /\ request[r].sort \in Sorts
  BY <1>1, SortOf DEF WellFormed
<1>3. "answered" \in Steps(request[r].sort)
  BY <1>2, StepsOf
<1>4. UNCHANGED tables /\ LimiterInv' /\ faults < MaxFaults /\ faults' = faults + 1
  BY LimiterSame DEF GetWorkspaceFails, SettingsInv
<1>5. request' = [request EXCEPT ![r].pc = "answered", ![r].lost = TRUE]
  BY DEF GetWorkspaceFails
<1>6. ASSUME NEW p, p.pc = "answered"
      PROVE  AsRead(p)
  BY <1>6 DEF AsRead
<1> QED
  BY <1>1, <1>3, <1>4, <1>5, <1>6, LostStep

\* Discovery has three parts that are modelled.
LEMMA ThreeParts == IsFiniteSet(Parts) /\ Cardinality(Parts) = 3
<1>1. IsFiniteSet({"server"}) /\ Cardinality({"server"}) = 1
  BY FS_Singleton
<1>2. IsFiniteSet({"server"} \cup {"defaults"}) /\ Cardinality({"server"} \cup {"defaults"}) = 2
  BY <1>1, FS_AddElement
<1>3. /\ IsFiniteSet(({"server"} \cup {"defaults"}) \cup {"global"})
      /\ Cardinality(({"server"} \cup {"defaults"}) \cup {"global"}) = 3
  BY <1>2, FS_AddElement
<1>4. Parts = ({"server"} \cup {"defaults"}) \cup {"global"}
  BY DEF Parts
<1> QED
  BY <1>3, <1>4

\* All parts of the moment are the answer of the moment.
LEMMA PartsOf ==
  [name \in Parts |-> Part(name)]
    = [server |-> mcpServer, defaults |-> defaults, global |-> global]
BY DEF Parts, Part

\* A discovery begins with no part.
LEMMA GetDiscoveryStep == ASSUME SettingsInv, NEW r \in Requests, GetDiscovery(r) PROVE SettingsInv'
<1>1. Discovery \in Sorts /\ Discovery.name = "discovery" /\ "parts" \in Steps(Discovery)
  <2>1. Discovery \in Sorts
    BY DEF Sorts
  <2> QED
    BY <2>1, StepsOf DEF Discovery
<1>2. DOMAIN <<>> = {}
  OBVIOUS
<1>3. Completed(<<>>) = [name \in Parts |-> Part(name)]
  BY <1>2 DEF Completed
<1>4. ASSUME NEW p, p.pc = "parts", p.sort = Discovery, p.got = <<>>
      PROVE  AsRead(p) /\ Ahead(p) \subseteq Answers[Discovery]
  <2>1. Ahead(p) = {Completed(<<>>)}
    BY <1>4 DEF Ahead
  <2>2. AsRead(p)
    BY <1>1, <1>2, <1>4 DEF AsRead
  <2> QED
    BY <1>3, <2>1, <2>2, PartsOf, AnswersOf DEF AnswersHold
<1>5. PICK y : y = <<>>
  OBVIOUS
<1>6. Begin(r, Discovery, "parts", y) /\ ReadOnly
  BY <1>5 DEF GetDiscovery
<1>7. DOMAIN y \subseteq Parts
  BY <1>2, <1>5
<1> QED
  BY <1>1, <1>4, <1>5, <1>6, <1>7, BeginStep

\* A part fetched is the one a discovery would have had by fetching them all now.
LEMMA FetchStep ==
  ASSUME SettingsInv, NEW r \in Requests, NEW name \in Parts, Fetch(r, name) PROVE SettingsInv'
<1>1. PICK q : q = request[r]
  OBVIOUS
<1>2. /\ q # NoRequest /\ q.pc = "parts" /\ WellFormed(q) /\ AsRead(q) /\ Explained(q)
  BY <1>1, InProgress DEF Fetch
<1>3. q.sort = Discovery /\ DOMAIN q.got \subseteq Parts /\ name \notin DOMAIN q.got
  BY <1>1, <1>2, SortOf DEF WellFormed, Fetch
<1>4. PICK got : got = [n \in DOMAIN q.got \cup {name} |->
                         IF n = name THEN Part(name) ELSE q.got[n]]
  OBVIOUS
<1>5. /\ DOMAIN got = DOMAIN q.got \cup {name}
      /\ got[name] = Part(name)
      /\ \A x \in DOMAIN q.got : got[x] = q.got[x]
      /\ got = [x \in DOMAIN got |-> got[x]]
  BY <1>3, <1>4
<1>6. Completed(got) = Completed(q.got)
  BY <1>3, <1>5 DEF Completed
<1>7. UNCHANGED tables /\ UNCHANGED faults /\ LimiterInv'
  BY LimiterSame DEF Fetch, ReadOnly, SettingsInv
<1>8. CASE Cardinality(DOMAIN got) = 3
  <2>1. DOMAIN got = Parts
    <3>1. DOMAIN got \in SUBSET Parts
      BY <1>3, <1>5
    <3> QED
      BY <1>8, <3>1, ThreeParts, FS_Subset
  <2>2. got = Completed(got)
    BY <1>5, <2>1 DEF Completed
  <2>3. got \in Ahead(q)
    BY <1>2, <1>6, <2>2 DEF Ahead
  <2>4. AnswerWith(r, got)
    BY <1>1, <1>4, <1>8 DEF Fetch
  <2> QED
    BY <1>1, <1>2, <1>7, <2>3, <2>4, AnswerStep
<1>9. CASE Cardinality(DOMAIN got) # 3
  <2>1. request' = [request EXCEPT ![r].got = got]
    BY <1>1, <1>4, <1>9 DEF Fetch
  <2>2. PICK p : p = [q EXCEPT !.got = got]
    OBVIOUS
  <2>3. /\ DOMAIN p = Fields /\ p.pc = q.pc /\ p.got = got
        /\ p.sort = q.sort /\ p.may = q.may /\ p.touched = q.touched /\ p.lost = q.lost
    BY <1>2, <2>2 DEF WellFormed, Fields
  <2>4. DOMAIN request = Requests
    BY DEF SettingsInv
  <2>5. /\ DOMAIN request' = Requests /\ request'[r] = p
        /\ \A s \in Requests \ {r} : request'[s] = request[s]
    BY <1>1, <2>1, <2>2, <2>4
  <2>6. WellFormed(p)
    BY <1>2, <1>3, <1>5, <2>3 DEF WellFormed, Fields
  <2>7. AsRead(p)
    <3>1. p.sort.name = "discovery"
      BY <1>3, <2>3 DEF Discovery
    <3>2. \A x \in DOMAIN p.got \ p.touched : p.got[x] = Part(x)
      BY <1>2, <1>5, <2>3 DEF AsRead
    <3> QED
      BY <1>2, <2>3, <3>1, <3>2 DEF AsRead
  <2>8. Explained(p)
    BY <1>2, <1>6, <2>3 DEF Explained, Ahead
  <2>9. faults' \in 0..MaxFaults
    BY <1>7 DEF SettingsInv, SettingsTypeOK
  <2> QED
    BY <1>7, <2>5, <2>6, <2>7, <2>8, <2>9, RequestStep
<1> QED
  BY <1>8, <1>9

\* A request is over.
LEMMA OverStep ==
  ASSUME SettingsInv, NEW r \in Requests, request' = [request EXCEPT ![r] = NoRequest],
         UNCHANGED tables, UNCHANGED faults, LimiterInv'
  PROVE  SettingsInv'
<1>1. DOMAIN request = Requests
  BY DEF SettingsInv
<1>2. /\ DOMAIN request' = Requests /\ request'[r] = NoRequest
      /\ \A s \in Requests \ {r} : request'[s] = request[s]
  BY <1>1
<1>3. faults' \in 0..MaxFaults
  BY DEF SettingsInv, SettingsTypeOK
<1> QED
  BY <1>2, <1>3, RequestStep

\* A request that is answered is over.
LEMMA RespondStep == ASSUME SettingsInv, NEW r \in Requests, Respond(r) PROVE SettingsInv'
BY OverStep, LimiterSame DEF Respond, ReadOnly, SettingsInv

\* A tool call that is answered asks the limiter, and is over.
LEMMA LimitedStep == ASSUME SettingsInv, NEW r \in Requests, Limited(r) PROVE SettingsInv'
<1>1. LimiterInv
  BY DEF SettingsInv
<1>2. LimiterAllow \/ Deny
  BY DEF Limited
<1>3. LimiterInv'
  <2>1. CASE LimiterAllow
    BY <1>1, <2>1, AllowLimiter
  <2>2. CASE Deny
    BY <1>1, <2>2, LimiterSame DEF Deny
  <2> QED
    BY <1>2, <2>1, <2>2
<1> QED
  BY <1>3, OverStep DEF Limited

\* Time passes for the limiter, and for no request.
LEMMA ElapseStep == ASSUME SettingsInv, Elapse PROVE SettingsInv'
<1>1. LimiterInv'
  BY TickLimiter DEF Elapse, SettingsInv
<1>2. UNCHANGED tables /\ UNCHANGED request /\ UNCHANGED faults
  BY DEF Elapse
<1>3. ASSUME NEW s \in Requests PROVE RequestInv(s)'
  BY <1>2, <1>3, RequestKept DEF SettingsInv
<1>4. SettingsTypeOK'
  BY <1>1, <1>2 DEF SettingsInv, SettingsTypeOK, tables, LimiterInv
<1> QED
  BY <1>1, <1>2, <1>3, <1>4 DEF SettingsInv

\* What the six tables may hold.
TablesOK ==
  /\ mcpServer \in [on : BOOLEAN, url : {1, 2}] \cup {NoServer}
  /\ overrides \in [Patterns -> OverrideTiers]
  /\ rules \in [Patterns -> RuleTiers]
  /\ defaults \in [Range(Priorities) -> BOOLEAN]
  /\ global \in [Columns -> Values]
  /\ workspace \in [Columns -> Overlays]

\* A step that changes one table at most, t.
Only(t) ==
  /\ t # "server" => mcpServer' = mcpServer
  /\ t # "overrides" => overrides' = overrides
  /\ t # "rules" => rules' = rules
  /\ t # "defaults" => defaults' = defaults
  /\ t # "global" => global' = global
  /\ t # "workspace" => workspace' = workspace

\* If a set with t in it has one element, it is t.
LEMMA OneTable ==
  ASSUME NEW S, IsFiniteSet(S), NEW t, Cardinality(S \cup {t}) <= 1
  PROVE  S \subseteq {t} /\ Cardinality(S) <= 1
<1>1. IsFiniteSet(S \cup {t}) /\ IsFiniteSet({t}) /\ Cardinality({t}) = 1
  BY FS_AddElement, FS_Singleton
<1>2. Cardinality({t}) <= Cardinality(S \cup {t})
  BY <1>1, FS_Subset
<1>3. Cardinality(S \cup {t}) = Cardinality({t})
  BY <1>1, <1>2, FS_CardinalityType
<1>4. S \cup {t} = {t}
  BY <1>1, <1>3, FS_Subset
<1>5. Cardinality(S) <= Cardinality({t})
  BY <1>1, <1>4, FS_Subset
<1> QED
  BY <1>1, <1>4, <1>5

\* A change of t, seen by a request in progress that no other table's change has
\* met: what is ahead of it is as before, or it is what the settings now say.
LEMMA AheadOf ==
  ASSUME NEW t \in Tables, Only(t), NEW q, WellFormed(q), AsRead(q), q.pc # "answered",
         q.touched \subseteq {t}, ~q.lost,
         NEW p, p.pc = q.pc, p.sort = q.sort, p.got = q.got
  PROVE  (Ahead(p))' \subseteq Ahead(q) \cup Answers'[q.sort]
<1> USE DEF Only
<1>1. q.pc \in {"overrides", "rules", "defaults", "overlay", "parts"}
  BY StepsOf DEF WellFormed
<1>2. CASE q.pc \in {"overrides", "rules", "defaults"}
  <2>1. q.sort \in ToolCalls /\ q.sort.name = "tool"
    BY <1>2, SortOf
  <2>2. mcpServer'.on => Answers'[q.sort] = (Classified(q.sort))'
    <3>1. PICK sort \in ToolCalls : sort = q.sort
      BY <2>1
    <3>2. mcpServer'.on => Answers'[sort] = (Classified(sort))'
      BY AnswersOf DEF AnswersHold
    <3> QED
      BY <3>1, <3>2
  <2>3. t # "server" => mcpServer.on /\ mcpServer'.on
    BY <1>2, <2>1 DEF AsRead
  <2>4. CASE q.pc = "overrides"
    <3>1. Ahead(q) = Classified(q.sort) /\ (Ahead(p))' = (Classified(q.sort))'
      BY <2>4 DEF Ahead
    <3>2. CASE t = "server"
      <4>1. ByOverrides' = ByOverrides /\ ByRules' = ByRules /\ ByDefaults' = ByDefaults
        BY <3>2, LevelsOf
      <4>2. (Classified(q.sort))' = Classified(q.sort)
        BY <4>1 DEF Classified
      <4> QED
        BY <3>1, <4>2
    <3>3. CASE t # "server"
      BY <2>2, <2>3, <3>1, <3>3
    <3> QED
      BY <3>2, <3>3
  <2>5. CASE q.pc = "rules"
    <3>1. Ahead(q) = IF ByRules # {} THEN ByRules ELSE ByDefaults
      BY <2>5 DEF Ahead
    <3>2. (Ahead(p))' = IF ByRules' # {} THEN ByRules' ELSE ByDefaults'
      BY <2>5 DEF Ahead
    <3>3. CASE t \notin {"rules", "defaults"}
      BY <3>1, <3>2, <3>3, LevelsOf
    <3>4. CASE t \in {"rules", "defaults"}
      <4>1. q.sort.ws
        BY <2>5, SortOf
      <4>2. q.sort.agent => ByOverrides = {}
        BY <2>1, <2>5, <3>4 DEF AsRead
      <4>3. ByOverrides' = ByOverrides
        BY <3>4, LevelsOf
      <4>4. (Classified(q.sort))' = IF ByRules' # {} THEN ByRules' ELSE ByDefaults'
        BY <4>1, <4>2, <4>3 DEF Classified
      <4> QED
        BY <2>2, <2>3, <3>2, <3>4, <4>4
    <3> QED
      BY <3>3, <3>4
  <2>6. CASE q.pc = "defaults"
    <3>1. Ahead(q) = ByDefaults /\ (Ahead(p))' = ByDefaults'
      BY <2>6 DEF Ahead
    <3>2. CASE t # "defaults"
      BY <3>1, <3>2, LevelsOf
    <3>3. CASE t = "defaults"
      <4>1. /\ q.sort.agent => ByOverrides = {}
            /\ q.sort.ws => ByRules = {}
        BY <2>1, <2>6, <3>3 DEF AsRead
      <4>2. ByOverrides' = ByOverrides /\ ByRules' = ByRules
        BY <3>3, LevelsOf
      <4>3. (Classified(q.sort))' = ByDefaults'
        BY <4>1, <4>2 DEF Classified
      <4> QED
        BY <2>2, <2>3, <3>1, <3>3, <4>3
    <3> QED
      BY <3>2, <3>3
  <2> QED
    BY <1>2, <2>4, <2>5, <2>6
<1>3. CASE q.pc = "overlay"
  <2>1. q.sort = Merge
    BY <1>3, SortOf
  <2>2. Ahead(q) = {Merged(q.got, workspace)} /\ (Ahead(p))' = {(Merged(q.got, workspace))'}
    BY <1>3 DEF Ahead
  <2>3. Answers'[q.sort] = {(Merged(global, workspace))'}
    BY <2>1, AnswersOf DEF AnswersHold
  <2>4. CASE t = "workspace"
    <3>1. q.got = global /\ global' = global
      BY <1>3, <2>4 DEF AsRead
    <3>2. (Merged(q.got, workspace))' = (Merged(global, workspace))'
      BY <3>1 DEF Merged
    <3> QED
      BY <2>2, <2>3, <3>2
  <2>5. CASE t # "workspace"
    <3>1. (Merged(q.got, workspace))' = Merged(q.got, workspace)
      BY <2>5 DEF Merged
    <3> QED
      BY <2>2, <3>1
  <2> QED
    BY <2>4, <2>5
<1>4. CASE q.pc = "parts"
  <2>1. q.sort = Discovery
    BY <1>4, SortOf
  <2>2. Ahead(q) = {Completed(q.got)} /\ (Ahead(p))' = {(Completed(q.got))'}
    BY <1>4 DEF Ahead
  <2>3. Answers'[q.sort] = {[name \in Parts |-> Part(name)']}
    <3>1. [name \in Parts |-> Part(name)']
            = [server |-> mcpServer', defaults |-> defaults', global |-> global']
      BY DEF Parts, Part
    <3> QED
      BY <2>1, <3>1, AnswersOf DEF AnswersHold
  <2>4. \A name \in Parts : name # t => Part(name)' = Part(name)
    BY DEF Parts, Part
  <2>5. CASE t \in Parts \ DOMAIN q.got
    <3>1. \A name \in DOMAIN q.got : name # t
      BY <2>5
    <3>2. DOMAIN q.got \subseteq Parts
      BY <1>4 DEF WellFormed
    <3>3. \A name \in DOMAIN q.got : name \notin q.touched
      BY <3>1
    <3>4. \A name \in DOMAIN q.got : q.got[name] = Part(name)
      BY <1>4, <3>3 DEF AsRead
    <3>5. \A name \in DOMAIN q.got : q.got[name] = Part(name)'
      BY <2>4, <3>1, <3>2, <3>4
    <3>6. (Completed(q.got))' = [name \in Parts |-> Part(name)']
      BY <3>5 DEF Completed
    <3> QED
      BY <2>2, <2>3, <3>6
  <2>6. CASE t \notin Parts \ DOMAIN q.got
    <3>1. (Completed(q.got))' = Completed(q.got)
      BY <2>4, <2>6 DEF Completed
    <3> QED
      BY <2>2, <3>1
  <2> QED
    BY <2>5, <2>6
<1> QED
  BY <1>1, <1>2, <1>3, <1>4

\* A change of one table commits.
LEMMA CommitStep ==
  ASSUME SettingsInv, NEW t \in Tables, Only(t), TablesOK', Commits(t)
  PROVE  SettingsInv'
<1> USE SettingsAssumption
<1>1. DOMAIN request' = Requests
  BY DEF Commits
<1>2. changes' \in 0..MaxChanges /\ faults' \in 0..MaxFaults
  <2>1. changes \in 0..MaxChanges /\ faults \in 0..MaxFaults
    BY DEF SettingsInv, SettingsTypeOK
  <2>2. changes < MaxChanges /\ changes' = changes + 1 /\ faults' = faults
    BY DEF Commits
  <2> QED
    BY <2>1, <2>2
<1>3. LimiterInv'
  BY LimiterSame DEF Commits, SettingsInv
<1>4. ASSUME NEW r \in Requests PROVE RequestInv(r)'
  <2>1. PICK q : q = request[r]
    OBVIOUS
  <2>2. PICK p : p = request'[r]
    OBVIOUS
  <2>3. q = NoRequest \/ (WellFormed(q) /\ AsRead(q) /\ Explained(q))
    BY <2>1 DEF SettingsInv, RequestInv
  <2>4. CASE q.pc = "idle" \/ q.pc = "answered"
    <3>1. p = q
      BY <2>1, <2>2, <2>4 DEF Commits, Reading
    <3>2. CASE q = NoRequest
      BY <3>1, <3>2, <2>2 DEF RequestInv
    <3>3. CASE q # NoRequest
      <4>1. WellFormed(q) /\ AsRead(q) /\ Explained(q) /\ q.pc \in Steps(q.sort)
        BY <2>3, <3>3 DEF WellFormed
      <4>2. q.pc = "answered"
        BY <4>1, <2>4, StepsOf DEF WellFormed
      <4>3. WellFormed(request[r])'
        BY <4>1, <3>1, <2>2 DEF WellFormed
      <4>4. AsRead(request[r])'
        BY <4>2, <3>1, <2>2 DEF AsRead
      <4>5. (Ahead(request[r]))' = Ahead(q)
        BY <4>2, <3>1, <2>2 DEF Ahead
      <4>6. Explained(request[r])'
        BY <4>1, <4>5, <3>1, <2>2 DEF Explained
      <4> QED
        BY <4>3, <4>4, <4>6 DEF RequestInv
    <3> QED
      BY <3>2, <3>3
  <2>5. CASE ~(q.pc = "idle" \/ q.pc = "answered")
    <3>1. q # NoRequest
      BY <2>5 DEF NoRequest
    <3>2. WellFormed(q) /\ AsRead(q) /\ Explained(q)
      BY <2>3, <3>1
    <3> DEFINE m == IF q.touched \subseteq {t} THEN q.may \cup Answers'[q.sort] ELSE {}
    <3>3. p = [q EXCEPT !.touched = q.touched \cup {t}, !.may = m]
      BY <2>1, <2>2, <2>5 DEF Commits, Reading
    <3>4. /\ DOMAIN p = Fields /\ p.pc = q.pc /\ p.sort = q.sort /\ p.got = q.got
          /\ p.touched = q.touched \cup {t} /\ p.may = m /\ p.lost = q.lost
      BY <3>2, <3>3 DEF WellFormed, Fields
    <3> HIDE DEF m
    <3>5. WellFormed(p)
      <4>1. IsFiniteSet(q.touched \cup {t})
        BY <3>2, FS_AddElement DEF WellFormed
      <4> QED
        BY <3>2, <3>4, <4>1 DEF WellFormed, Fields
    <3>6. WellFormed(request[r])'
      BY <2>2, <3>5 DEF WellFormed
    <3>7. AsRead(request[r])'
      <4>1. \A name : name \notin p.touched => name \notin q.touched /\ name # t
        BY <3>4
      <4>2. request'[r] = p
        BY <2>2
      <4>3. p.sort.name = "tool" /\ p.pc # "answered" =>
              /\ "server" \notin p.touched => mcpServer'.on
              /\ p.pc # "overrides" /\ p.sort.agent /\ "overrides" \notin p.touched /\ ~p.lost
                   => ByOverrides' = {}
              /\ p.pc = "defaults" /\ p.sort.ws /\ "rules" \notin p.touched => ByRules' = {}
        BY <3>2, <3>4, <4>1, LevelsOf DEF AsRead, Only
      <4>4. p.pc = "overlay" /\ "global" \notin p.touched => p.got = global'
        BY <3>2, <3>4, <4>1 DEF AsRead, Only
      <4>5. p.pc = "parts" =>
              \A name \in DOMAIN p.got \ p.touched : p.got[name] = Part(name)'
        <5> SUFFICES ASSUME p.pc = "parts", NEW name \in DOMAIN p.got \ p.touched
                     PROVE  p.got[name] = Part(name)'
          OBVIOUS
        <5>1. name \in Parts /\ name # t /\ p.got[name] = Part(name)
          BY <3>2, <3>4, <4>1 DEF AsRead, WellFormed
        <5>2. Part(name)' = Part(name)
          BY <5>1 DEF Part, Parts, Only
        <5> QED
          BY <5>1, <5>2
      <4> QED
        BY <4>2, <4>3, <4>4, <4>5 DEF AsRead
    <3>8. (Ahead(request[r]))' = (Ahead(p))'
      BY <2>2 DEF Ahead, Classified, Merged, Completed, Part
    <3>9. Cardinality(p.touched) <= 1 /\ ~p.lost => (Ahead(p))' \subseteq p.may
      <4> SUFFICES ASSUME Cardinality(p.touched) <= 1, ~p.lost
                   PROVE  (Ahead(p))' \subseteq p.may
        OBVIOUS
      <4>1. q.touched \subseteq {t} /\ Cardinality(q.touched) <= 1
        BY <3>2, <3>4, OneTable DEF WellFormed
      <4>2. Ahead(q) \subseteq q.may
        BY <3>2, <3>4, <4>1 DEF Explained
      <4>3. (Ahead(p))' \subseteq Ahead(q) \cup Answers'[q.sort]
        BY <2>5, <3>2, <3>4, <4>1, AheadOf
      <4>4. p.may = q.may \cup Answers'[q.sort]
        BY <3>4, <4>1 DEF m
      <4> QED
        BY <4>2, <4>3, <4>4
    <3>10. Explained(request[r])'
      BY <2>2, <3>8, <3>9 DEF Explained
    <3> QED
      BY <3>6, <3>7, <3>10 DEF RequestInv
  <2> QED
    BY <2>4, <2>5
<1>5. SettingsTypeOK'
  <2>1. ASSUME NEW s \in Requests, request'[s] # NoRequest
        PROVE  /\ request'[s].pc \in {"overrides", "rules", "defaults", "overlay",
                                      "parts", "answered"}
               /\ request'[s].sort \in Sorts /\ request'[s].touched \subseteq Tables
    <3>1. WellFormed(request[s])'
      BY <1>4, <2>1 DEF RequestInv
    <3>2. /\ request'[s].sort \in Sorts /\ request'[s].touched \subseteq Tables
          /\ request'[s].pc \in Steps(request'[s].sort)
      BY <3>1 DEF WellFormed
    <3> QED
      BY <3>2, StepsOf
  <2> QED
    BY <1>2, <1>3, <2>1 DEF SettingsTypeOK, TablesOK, LimiterInv
<1> QED
  BY <1>1, <1>3, <1>4, <1>5 DEF SettingsInv

\* The changes: which table each commits, and that it stays well typed.
LEMMA ServerChange ==
  ASSUME SettingsInv, CreateServer \/ UpdateServer \/ DeleteServer PROVE SettingsInv'
<1>1. Only("server") /\ Commits("server") /\ "server" \in Tables
  BY DEF CreateServer, UpdateServer, DeleteServer, Only, Tables
<1>2. TablesOK
  BY DEF SettingsInv, SettingsTypeOK, TablesOK
<1>3. mcpServer' \in [on : BOOLEAN, url : {1, 2}] \cup {NoServer}
  <2>1. CASE CreateServer
    BY <2>1 DEF CreateServer
  <2>2. CASE UpdateServer
    <3>1. mcpServer \in [on : BOOLEAN, url : {1, 2}]
      BY <1>2, <2>2 DEF UpdateServer, TablesOK
    <3> QED
      BY <2>2, <3>1 DEF UpdateServer
  <2>3. CASE DeleteServer
    BY <2>3 DEF DeleteServer
  <2> QED
    BY <2>1, <2>2, <2>3
<1>4. TablesOK'
  BY <1>1, <1>2, <1>3 DEF TablesOK, Only
<1> QED
  BY <1>1, <1>4, CommitStep

\* An edit of the agent changes the overrides alone.
LEMMA OverridesChange == ASSUME SettingsInv, EditAgent PROVE SettingsInv'
<1>1. Only("overrides") /\ Commits("overrides") /\ "overrides" \in Tables
  BY DEF EditAgent, Only, Tables
<1>2. TablesOK'
  BY <1>1 DEF SettingsInv, SettingsTypeOK, TablesOK, Only, EditAgent
<1> QED
  BY <1>1, <1>2, CommitStep

\* A rule that is made, changed or removed changes the rules alone.
LEMMA RulesChange == ASSUME SettingsInv, UpsertRule \/ DeleteRule PROVE SettingsInv'
<1>1. Only("rules") /\ Commits("rules") /\ "rules" \in Tables
  BY DEF UpsertRule, DeleteRule, Only, Tables
<1>2. TablesOK
  BY DEF SettingsInv, SettingsTypeOK, TablesOK
<1>3. \E p \in Patterns, tier \in RuleTiers : rules' = [rules EXCEPT ![p] = tier]
  BY DEF UpsertRule, DeleteRule, Matching, RuleTiers
<1>4. TablesOK'
  BY <1>1, <1>2, <1>3 DEF TablesOK, Only
<1> QED
  BY <1>1, <1>4, CommitStep

\* A default that is changed changes the defaults alone.
LEMMA DefaultsChange == ASSUME SettingsInv, UpdateDefault PROVE SettingsInv'
<1>1. Only("defaults") /\ Commits("defaults") /\ "defaults" \in Tables
  BY DEF UpdateDefault, Only, Tables
<1>2. TablesOK
  BY DEF SettingsInv, SettingsTypeOK, TablesOK
<1>3. defaults' \in [Range(Priorities) -> BOOLEAN]
  <2>1. PICK tier \in Range(Priorities) : defaults' = [defaults EXCEPT ![tier] = ~defaults[tier]]
    BY DEF UpdateDefault
  <2> QED
    BY <1>2, <2>1 DEF TablesOK
<1>4. TablesOK'
  BY <1>1, <1>2, <1>3 DEF TablesOK, Only
<1> QED
  BY <1>1, <1>4, CommitStep

\* The global configuration changes alone.
LEMMA GlobalChange == ASSUME SettingsInv, UpdateGlobal PROVE SettingsInv'
<1>1. Only("global") /\ Commits("global") /\ "global" \in Tables
  BY DEF UpdateGlobal, Only, Tables
<1>2. TablesOK
  BY DEF SettingsInv, SettingsTypeOK, TablesOK
<1>3. TablesOK'
  BY <1>1, <1>2 DEF TablesOK, Only, UpdateGlobal
<1> QED
  BY <1>1, <1>3, CommitStep

\* The configuration of the workspace changes alone.
LEMMA WorkspaceChange == ASSUME SettingsInv, UpsertWorkspace PROVE SettingsInv'
<1>1. Only("workspace") /\ Commits("workspace") /\ "workspace" \in Tables
  BY DEF UpsertWorkspace, Only, Tables
<1>2. TablesOK'
  BY <1>1 DEF SettingsInv, SettingsTypeOK, TablesOK, Only, UpsertWorkspace
<1> QED
  BY <1>1, <1>2, CommitStep

\* The invariant of Settings holds in every initial state.
LEMMA SettingsInvInit == SettingsInit => SettingsInv
<1> SUFFICES ASSUME SettingsInit PROVE SettingsInv
  OBVIOUS
<1> USE SettingsAssumption
<1>1. LimiterInv
  BY LimiterInit DEF SettingsInit
<1>2. \A r \in Requests : request[r] = NoRequest
  BY DEF SettingsInit
<1>3. SettingsTypeOK
  BY <1>1, <1>2 DEF SettingsInit, SettingsTypeOK, LimiterInv, NoConfig, OverrideTiers, RuleTiers,
                    Values, Overlays
<1>4. DOMAIN request = Requests
  BY DEF SettingsInit
<1> QED
  BY <1>1, <1>2, <1>3, <1>4 DEF SettingsInv, RequestInv

\* Every step keeps the invariant of Settings.
LEMMA SettingsInvStep == SettingsInv /\ [SettingsNext]_settingsVars => SettingsInv'
<1> SUFFICES ASSUME SettingsInv, [SettingsNext]_settingsVars PROVE SettingsInv'
  OBVIOUS
<1>1. ASSUME NEW r \in Requests, Asks(r) PROVE SettingsInv'
  <2>1. CASE GetByLabel(r)
    BY <2>1, GetByLabelStep
  <2>2. CASE GetTrustOverrides(r)
    BY <2>2, GetTrustOverridesStep
  <2>3. CASE GetTrustOverridesFails(r)
    BY <2>3, OverridesFailStep
  <2>4. CASE ListRules(r)
    BY <2>4, ListRulesStep
  <2>5. CASE ListDefaults(r)
    BY <2>5, ListDefaultsStep
  <2>6. CASE Limited(r)
    BY <2>6, LimitedStep
  <2>7. CASE GetGlobal(r)
    BY <2>7, GetGlobalStep
  <2>8. CASE GetWorkspace(r)
    BY <2>8, GetWorkspaceStep
  <2>9. CASE GetWorkspaceFails(r)
    BY <2>9, WorkspaceFailsStep
  <2>10. CASE GetDiscovery(r)
    BY <2>10, GetDiscoveryStep
  <2>11. CASE \E name \in Parts : Fetch(r, name)
    BY <2>11, FetchStep
  <2>12. CASE Respond(r)
    BY <2>12, RespondStep
  <2> QED
    BY <1>1, <2>1, <2>2, <2>3, <2>4, <2>5, <2>6, <2>7, <2>8, <2>9, <2>10, <2>11, <2>12
       DEF Asks, Parts
<1>2. CASE CreateServer \/ UpdateServer \/ DeleteServer
  BY <1>2, ServerChange
<1>3. CASE EditAgent
  BY <1>3, OverridesChange
<1>4. CASE UpsertRule \/ DeleteRule
  BY <1>4, RulesChange
<1>5. CASE UpdateDefault
  BY <1>5, DefaultsChange
<1>6. CASE UpdateGlobal
  BY <1>6, GlobalChange
<1>7. CASE UpsertWorkspace
  BY <1>7, WorkspaceChange
<1>8. CASE Elapse
  BY <1>8, ElapseStep
<1>9. CASE UNCHANGED settingsVars
  <2>1. UNCHANGED tables /\ UNCHANGED request /\ UNCHANGED faults /\ UNCHANGED limiter
    BY <1>9 DEF settingsVars
  <2>2. LimiterInv'
    BY <2>1, LimiterSame DEF SettingsInv
  <2>3. ASSUME NEW s \in Requests PROVE RequestInv(s)'
    BY <2>1, <2>3, RequestKept DEF SettingsInv
  <2>4. SettingsTypeOK'
    BY <2>1, <2>2 DEF SettingsInv, SettingsTypeOK, tables, LimiterInv
  <2> QED
    BY <2>1, <2>2, <2>3, <2>4 DEF SettingsInv
<1> QED
  BY <1>1, <1>2, <1>3, <1>4, <1>5, <1>6, <1>7, <1>8, <1>9 DEF SettingsNext

\* The invariant of Settings holds in every reachable state.
LEMMA SettingsInvariance == SettingsSpec => []SettingsInv
BY SettingsInvInit, SettingsInvStep, PTL DEF SettingsSpec

-----------------------------------------------------------------------------
\* Every table, request and bucket is of its type.
THEOREM SettingsTypeCorrect == SettingsSpec => []SettingsTypeOK
<1>1. SettingsInv => SettingsTypeOK
  BY DEF SettingsInv
<1> QED
  BY <1>1, SettingsInvariance, PTL

\* However many requests and administrators there are, and whatever the patterns,
\* an answer given while one level at most was changed is one that the settings
\* gave, all levels together, at some moment since the request began.
THEOREM Explains == SettingsSpec => []OneLevelExplained
<1>1. SettingsInv => OneLevelExplained
  <2> SUFFICES ASSUME SettingsInv, NEW r \in Requests, Reading(r, "answered"),
                      Cardinality(request[r].touched) <= 1, ~request[r].lost
               PROVE  request[r].got \in request[r].may
    BY DEF OneLevelExplained
  <2>1. Explained(request[r]) /\ request[r].pc = "answered"
    BY InProgress
  <2>2. Ahead(request[r]) = {request[r].got}
    BY <2>1 DEF Ahead
  <2> QED
    BY <2>1, <2>2 DEF Explained
<1> QED
  BY <1>1, SettingsInvariance, PTL

\* In any time as long as the window, one less than twice the limit get through.
THEOREM LimitedTwice == SettingsSpec => []TwiceTheLimit
<1>1. SettingsInv => TwiceTheLimit
  BY LimiterKeeps DEF SettingsInv
<1> QED
  BY <1>1, SettingsInvariance, PTL

\* No request is refused but for as many others, let through in its window.
THEOREM RefusalEarned == SettingsSpec => []RefusedHasCause
<1>1. SettingsInv => RefusedHasCause
  BY LimiterKeeps DEF SettingsInv
<1> QED
  BY <1>1, SettingsInvariance, PTL
==============================================================================
