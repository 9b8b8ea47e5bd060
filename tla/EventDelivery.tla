---------------------------- MODULE EventDelivery ----------------------------
(***************************************************************************)
(* What the webhook dispatcher promises, with no channel, no workers and   *)
(* no flag.  An event it is offered is refused or accepted.  One accepted  *)
(* is lost before anything is sent for it, or settled: every subscription  *)
(* it was meant for has acknowledged it or has been sent it                *)
(* MaxRetries + 1 times, and none is sent it after its acknowledgement.    *)
(* Once the dispatcher closes it accepts nothing, and it has closed when   *)
(* nothing accepted is left.                                               *)
(*                                                                         *)
(* Dispatcher implements this specification.                               *)
(***************************************************************************)
EXTENDS Naturals

CONSTANTS Events, Subs, Wants, MaxRetries

VARIABLES door,      \* "open", "closing", "closed"
          fate,      \* fate[e]: "offered", "refused", "accepted", "lost", "settled"
          loaded,    \* loaded[e]: the subscriptions e is meant for
          tries,     \* tries[<<e, s>>]: how often e was sent to s
          acked      \* <<e, s>> that were acknowledged

vars == <<door, fate, loaded, tries, acked>>

Init == /\ door = "open"
        /\ fate = [e \in Events |-> "offered"]
        /\ loaded = [e \in Events |-> {}]
        /\ tries = [p \in Events \X Subs |-> 0]
        /\ acked = {}

Accept(e) ==
  /\ door = "open" /\ fate[e] = "offered"
  /\ fate' = [fate EXCEPT ![e] = "accepted"]
  /\ UNCHANGED <<door, loaded, tries, acked>>

Refuse(e) ==
  /\ fate[e] = "offered"
  /\ fate' = [fate EXCEPT ![e] = "refused"]
  /\ UNCHANGED <<door, loaded, tries, acked>>

\* The event is meant for some of those who want it, all at once.
Address(e) ==
  /\ fate[e] = "accepted" /\ loaded[e] = {}
  /\ \E subs \in SUBSET {s \in Subs : e \in Wants[s]} :
       /\ loaded' = [loaded EXCEPT ![e] = subs]
       /\ fate' = IF subs = {} THEN [fate EXCEPT ![e] = "settled"] ELSE fate
  /\ UNCHANGED <<door, tries, acked>>

Lose(e) ==
  /\ fate[e] = "accepted" /\ loaded[e] = {}
  /\ fate' = [fate EXCEPT ![e] = "lost"]
  /\ UNCHANGED <<door, loaded, tries, acked>>

Done(p) == p \in acked \/ tries[p] = MaxRetries + 1

\* With the last request that is needed the event is settled.
Send(e, s) ==
  /\ fate[e] = "accepted" /\ s \in loaded[e] /\ ~Done(<<e, s>>)
  /\ tries' = [tries EXCEPT ![<<e, s>>] = @ + 1]
  /\ acked' \in {acked, acked \cup {<<e, s>>}}
  /\ fate' = IF \A t \in loaded[e] : Done(<<e, t>>)'
             THEN [fate EXCEPT ![e] = "settled"] ELSE fate
  /\ UNCHANGED <<door, loaded>>

Close ==
  /\ door = "open" /\ door' = "closing"
  /\ UNCHANGED <<fate, loaded, tries, acked>>

Closed ==
  /\ door = "closing" /\ \A e \in Events : fate[e] # "accepted"
  /\ door' = "closed"
  /\ UNCHANGED <<fate, loaded, tries, acked>>

Next ==
  \/ \E e \in Events : Accept(e) \/ Refuse(e) \/ Address(e) \/ Lose(e)
  \/ \E e \in Events, s \in Subs : Send(e, s)
  \/ Close \/ Closed

Spec == Init /\ [][Next]_vars
=============================================================================
