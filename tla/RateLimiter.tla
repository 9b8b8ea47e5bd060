----------------------------- MODULE RateLimiter -----------------------------
(***************************************************************************)
(* The in-memory rate limiter for one key (internal/ratelimit/limiter.go): *)
(* login attempts of an address, requests of a user, tool calls of a user. *)
(* Allow runs under a mutex.  Time is counted in ticks, Window of them to  *)
(* a window; requests come at any time, any number of them in a tick.      *)
(* Settings composes it with the tool calls that ask it.                   *)
(***************************************************************************)
EXTENDS Naturals, FiniteSets

CONSTANTS Limit, Window

ASSUME LimiterAssumption == Limit \in Nat \ {0} /\ Window \in Nat \ {0}

VARIABLES bucket,   \* count, and age: time since windowStart
          recent    \* history: the requests allowed less than Window ticks ago

limiter == <<bucket, recent>>

Ages == 0..(Window - 1)

\* No bucket, or one whose window is over: Allow does the same for both.
Expired == [count |-> 0, age |-> Window]

InitLimiter == bucket = Expired /\ recent = {}

\* The requests of the last a ticks and of this one.
Since(a) == {q \in recent : q.age <= a}

\* A request is known by its age and its place among those of its tick.
Remember == recent' = recent \cup {[age |-> 0, nth |-> Cardinality(Since(0)) + 1]}

\* Fault: one request too many.
AllowsOneMore == bucket.age >= Window \/ bucket.count <= Limit

LimiterAllows == bucket.age >= Window \/ bucket.count < Limit

\* Fault: every request allowed starts the window again.
AllowRestarts ==
  /\ LimiterAllows
  /\ bucket' = [count |-> IF bucket.age >= Window THEN 1 ELSE bucket.count + 1, age |-> 0]
  /\ Remember

\* Fault: the request that opens a window is not counted.
AllowUncounted ==
  /\ LimiterAllows
  /\ bucket' = IF bucket.age >= Window
               THEN [count |-> 0, age |-> 0]
               ELSE [bucket EXCEPT !.count = @ + 1]
  /\ Remember

LimiterAllow ==
  /\ LimiterAllows
  /\ bucket' = IF bucket.age >= Window
               THEN [count |-> 1, age |-> 0]
               ELSE [bucket EXCEPT !.count = @ + 1]
  /\ Remember

\* A refused request changes nothing.
Deny == ~LimiterAllows /\ UNCHANGED limiter

\* The same request, a tick later.
Older(q) == [age |-> q.age + 1, nth |-> q.nth]

LimiterTick ==
  /\ bucket' = IF bucket.age + 1 >= Window THEN Expired ELSE [bucket EXCEPT !.age = @ + 1]
  /\ recent' = {Older(q) : q \in {p \in recent : p.age + 1 \in Ages}}

-----------------------------------------------------------------------------
(***************************************************************************)
(* Properties.                                                             *)
(***************************************************************************)

LimiterTypeOK ==
  /\ bucket \in [count : 0..Limit, age : 0..Window]
  /\ recent \subseteq [age : Ages, nth : 1..Limit]

\* What the fixed window does promise of any interval as long as it: one
\* request short of twice the limit, the end of a window and the next one.
TwiceTheLimit == Cardinality(recent) <= 2 * Limit - 1

\* A refusal is always earned: Limit requests were allowed since windowStart,
\* less than a window ago.  So a refused key is let through again at the time
\* X-RateLimit-Reset gives, and refusals in between do not prolong it.
RefusedHasCause == ~LimiterAllows => Cardinality(Since(bucket.age)) = Limit
=============================================================================
