----------------------------- MODULE Dispatcher -----------------------------
(***************************************************************************)
(* The webhook dispatcher (internal/notify/dispatcher.go): request         *)
(* handlers put events on a bounded channel, workers take them, load the   *)
(* subscriptions and deliver to each with retries, and Stop closes the     *)
(* channel while the workers drain it.  main.go calls Stop when            *)
(* srv.Shutdown returns, which is after 15 s at the latest, so a handler   *)
(* may still be running.  Each event is dispatched by a goroutine of its   *)
(* own, named by the event.                                                *)
(***************************************************************************)
EXTENDS Naturals, Sequences

CONSTANTS Events, Subs, Workers,
          Wants,         \* Wants[s]: the events of the types subscription s lists
          Capacity,      \* of the channel
          MaxRetries,
          Nothing

ASSUME DispatcherAssumption ==
  /\ Wants \in [Subs -> SUBSET Events]
  /\ Capacity \in Nat /\ MaxRetries \in Nat /\ Workers # {}
  /\ Nothing \notin Events \cup Subs

VARIABLES eventCh,   \* the channel's buffer
          closed,    \* the channel is closed
          stopped,   \* the atomic flag
          stop,      \* where Stop is: "running", "flagged", "waiting", "returned"
          event,     \* event[e]: what has become of event e
          worker,    \* worker[w]: where the goroutine w is
          active,    \* subscriptions that are active in the database
          loaded,    \* history: the subscriptions an event was to be delivered to
          tries,     \* history: requests sent for an event to a subscription
          acked      \* history: <<e, s>> whose request was answered 2xx

vars == <<eventCh, closed, stopped, stop, event, worker, active, loaded, tries, acked>>

Range == [pc |-> "range", event |-> Nothing, todo |-> {}, sub |-> Nothing, attempt |-> 0]

Init == /\ eventCh = <<>>
        /\ closed = FALSE
        /\ stopped = FALSE
        /\ stop = "running"
        /\ event = [e \in Events |-> "new"]
        /\ worker = [w \in Workers |-> Range]
        /\ active \in SUBSET Subs
        /\ loaded = [e \in Events |-> {}]
        /\ tries = [p \in Events \X Subs |-> 0]
        /\ acked = {}

-----------------------------------------------------------------------------
(* Dispatch, in a handler's goroutine. *)

\* if d.stopped.Load() { return }
CheckStopped(e) ==
  /\ event[e] = "new"
  /\ event' = [event EXCEPT ![e] = IF stopped THEN "ignored" ELSE "sending"]
  /\ UNCHANGED <<eventCh, closed, stopped, stop, worker, active, loaded, tries, acked>>

\* Fault: the channel is not bounded.
SendEventAlways(e) ==
  /\ event[e] = "sending"
  /\ event' = [event EXCEPT ![e] = IF closed THEN "panicked" ELSE "queued"]
  /\ eventCh' = IF closed THEN eventCh ELSE Append(eventCh, e)
  /\ UNCHANGED <<closed, stopped, stop, worker, active, loaded, tries, acked>>

\* The select: a send on a closed channel panics, even with a default case.
SendEvent(e) ==
  /\ event[e] = "sending"
  /\ LET fits == ~closed /\ Len(eventCh) < Capacity
     IN  /\ event' = [event EXCEPT ![e] = IF closed THEN "panicked"
                                          ELSE IF fits THEN "queued" ELSE "dropped"]
         /\ eventCh' = IF fits THEN Append(eventCh, e) ELSE eventCh
  /\ UNCHANGED <<closed, stopped, stop, worker, active, loaded, tries, acked>>

-----------------------------------------------------------------------------
(* A worker. *)

TakeEvent(w) ==
  /\ worker[w].pc = "range" /\ eventCh # <<>>
  /\ worker' = [worker EXCEPT ![w].pc = "load", ![w].event = Head(eventCh)]
  /\ event' = [event EXCEPT ![Head(eventCh)] = "taken"]
  /\ eventCh' = Tail(eventCh)
  /\ UNCHANGED <<closed, stopped, stop, active, loaded, tries, acked>>

\* Fault: a worker leaves as soon as the dispatcher is stopped.
ExitAtOnce(w) ==
  /\ worker[w].pc = "range" /\ closed
  /\ worker' = [worker EXCEPT ![w].pc = "exit"]
  /\ UNCHANGED <<eventCh, closed, stopped, stop, event, active, loaded, tries, acked>>

\* range ends when the channel is closed and empty.
ExitWorker(w) ==
  /\ worker[w].pc = "range" /\ closed /\ eventCh = <<>>
  /\ worker' = [worker EXCEPT ![w].pc = "exit"]
  /\ UNCHANGED <<eventCh, closed, stopped, stop, event, active, loaded, tries, acked>>

\* Fault: matchesEvent is not asked.
ListAll(w) ==
  /\ worker[w].pc = "load"
  /\ LET e == worker[w].event
     IN  /\ loaded' = [loaded EXCEPT ![e] = active]
         /\ IF active = {}
            THEN /\ worker' = [worker EXCEPT ![w] = Range]
                 /\ event' = [event EXCEPT ![e] = "settled"]
            ELSE /\ worker' = [worker EXCEPT ![w].pc = "deliver", ![w].todo = active]
                 /\ UNCHANGED event
  /\ UNCHANGED <<eventCh, closed, stopped, stop, active, tries, acked>>

\* ListActive and matchesEvent.
ListActive(w) ==
  /\ worker[w].pc = "load"
  /\ LET e == worker[w].event
         subs == {s \in active : e \in Wants[s]}
     IN  /\ loaded' = [loaded EXCEPT ![e] = subs]
         /\ IF subs = {}
            THEN /\ worker' = [worker EXCEPT ![w] = Range]
                 /\ event' = [event EXCEPT ![e] = "settled"]
            ELSE /\ worker' = [worker EXCEPT ![w].pc = "deliver", ![w].todo = subs]
                 /\ UNCHANGED event
  /\ UNCHANGED <<eventCh, closed, stopped, stop, active, tries, acked>>

\* The database answers with an error: the event is given up.
ListActiveFails(w) ==
  /\ worker[w].pc = "load"
  /\ worker' = [worker EXCEPT ![w] = Range]
  /\ event' = [event EXCEPT ![worker[w].event] = "lost"]
  /\ UNCHANGED <<eventCh, closed, stopped, stop, active, loaded, tries, acked>>

\* Fault: an event is given up with the first subscription that is.
FinishEvent(w, s) ==
  /\ worker' = [worker EXCEPT ![w] = Range]
  /\ event' = [event EXCEPT ![worker[w].event] = "settled"]

\* deliver is over for subscription s: the next one, or the next event.
Finish(w, s) ==
  LET rest == worker[w].todo \ {s}
  IN  IF rest = {}
      THEN /\ worker' = [worker EXCEPT ![w] = Range]
           /\ event' = [event EXCEPT ![worker[w].event] = "settled"]
      ELSE /\ worker' = [worker EXCEPT ![w].todo = rest, ![w].sub = Nothing, ![w].attempt = 0]
           /\ UNCHANGED event

Retry(w, s) ==
  /\ worker' = [worker EXCEPT ![w].sub = s, ![w].attempt = @ + 1]
  /\ UNCHANGED event

\* One request of the loop of deliver.  ok is a 2xx; an error, another status
\* or a timeout (whether or not the receiver got the request) is tried again.
Post(w, s, ok) ==
  LET p == <<worker[w].event, s>>
  IN  /\ tries' = [tries EXCEPT ![p] = @ + 1]
      /\ acked' = IF ok THEN acked \cup {p} ELSE acked
      /\ UNCHANGED <<eventCh, closed, stopped, stop, active, loaded>>

Current(w) == IF worker[w].sub = Nothing THEN worker[w].todo ELSE {worker[w].sub}

\* Fault: no return after a 2xx.
DeliverOn(w) ==
  /\ worker[w].pc = "deliver"
  /\ \E s \in Current(w), ok \in BOOLEAN :
       /\ Post(w, s, ok)
       /\ IF worker[w].attempt = MaxRetries THEN Finish(w, s) ELSE Retry(w, s)

Deliver(w) ==
  /\ worker[w].pc = "deliver"
  /\ \E s \in Current(w), ok \in BOOLEAN :
       /\ Post(w, s, ok)
       /\ IF ok \/ worker[w].attempt = MaxRetries THEN Finish(w, s) ELSE Retry(w, s)

-----------------------------------------------------------------------------
(* Stop, and the administrator. *)

SetStopped ==
  /\ stop = "running"
  /\ stop' = "flagged" /\ stopped' = TRUE
  /\ UNCHANGED <<eventCh, closed, event, worker, active, loaded, tries, acked>>

\* Fault: the channel is not closed.
CloseNothing ==
  /\ stop = "flagged"
  /\ stop' = "waiting"
  /\ UNCHANGED <<eventCh, closed, stopped, event, worker, active, loaded, tries, acked>>

CloseChannel ==
  /\ stop = "flagged"
  /\ stop' = "waiting" /\ closed' = TRUE
  /\ UNCHANGED <<eventCh, stopped, event, worker, active, loaded, tries, acked>>

\* Fault: Stop does not wait for the workers.
ReturnAtOnce ==
  /\ stop = "waiting"
  /\ stop' = "returned"
  /\ UNCHANGED <<eventCh, closed, stopped, event, worker, active, loaded, tries, acked>>

WaitWorkers ==
  /\ stop = "waiting" /\ \A w \in Workers : worker[w].pc = "exit"
  /\ stop' = "returned"
  /\ UNCHANGED <<eventCh, closed, stopped, event, worker, active, loaded, tries, acked>>

\* Subscriptions are created, updated and deleted while events are delivered.
ChangeSubscription ==
  /\ active' \in SUBSET Subs \ {active}
  /\ UNCHANGED <<eventCh, closed, stopped, stop, event, worker, loaded, tries, acked>>

WorkerStep(w) ==
  TakeEvent(w) \/ ExitWorker(w) \/ ListActive(w) \/ ListActiveFails(w) \/ Deliver(w)

StopStep == CloseChannel \/ WaitWorkers

Next ==
  \/ \E e \in Events : CheckStopped(e) \/ SendEvent(e)
  \/ \E w \in Workers : WorkerStep(w)
  \/ SetStopped \/ StopStep
  \/ ChangeSubscription

\* Workers and Stop, once called, run on; a request to a subscriber ends, at the
\* latest with the HTTP client's timeout.  Nothing makes a handler call
\* Dispatch, nor the process stop.
Spec == /\ Init /\ [][Next]_vars
        /\ \A w \in Workers : WF_vars(WorkerStep(w))
        /\ WF_vars(StopStep)

-----------------------------------------------------------------------------
(***************************************************************************)
(* Properties.                                                             *)
(***************************************************************************)

\* The type invariant; a subscriber that never answers gets an event
\* MaxRetries + 1 times at most.
TypeOK ==
  /\ eventCh \in Seq(Events) /\ Len(eventCh) <= Capacity
  /\ closed \in BOOLEAN /\ stopped \in BOOLEAN
  /\ stop \in {"running", "flagged", "waiting", "returned"}
  /\ event \in [Events -> {"new", "ignored", "sending", "panicked", "dropped",
                         "queued", "taken", "lost", "settled"}]
  /\ worker \in [Workers -> [pc : {"range", "load", "deliver", "exit"},
                             event : Events \cup {Nothing}, todo : SUBSET Subs,
                             sub : Subs \cup {Nothing}, attempt : Nat]]
  /\ active \subseteq Subs
  /\ loaded \in [Events -> SUBSET Subs]
  /\ tries \in [Events \X Subs -> 0..(MaxRetries + 1)]
  /\ acked \subseteq Events \X Subs

\* When Stop returns, every event that Dispatch put on the channel has been
\* dealt with: none is left on the channel or in a worker's hands.
DrainedAtReturn ==
  stop = "returned" => \A e \in Events : event[e] \notin {"queued", "taken"}

Busy(w) == worker[w].pc \in {"load", "deliver"}

\* Nothing accepted is left to nobody: no worker has gone while an event is on
\* the channel, an event that was taken is in the hands of exactly one worker,
\* and that one has still to load its subscriptions or has a request to send.
Attended ==
  \A e \in Events :
    /\ event[e] = "queued" => \A w \in Workers : worker[w].pc # "exit"
    /\ event[e] = "taken" =>
         \E w \in Workers :
           /\ {v \in Workers : Busy(v) /\ worker[v].event = e} = {w}
           /\ worker[w].pc = "deliver" => Current(w) # {}

\* An event is settled for every subscription it was loaded for: each has
\* answered 2xx or was tried MaxRetries + 1 times, whatever the others did.
SettledForEach ==
  \A e \in Events : event[e] = "settled" =>
    \A s \in loaded[e] : <<e, s>> \in acked \/ tries[<<e, s>>] = MaxRetries + 1

\* A delivery the subscriber has acknowledged is never sent to it again.
NoRedelivery ==
  [][\A p \in acked : tries'[p] = tries[p]]_vars

\* The requests that may still be sent for an event: the n-th to subscription s.
RequestsLeft(e) ==
  {p \in loaded[e] \X (1..(MaxRetries + 1)) :
     <<e, p[1]>> \notin acked /\ tries[<<e, p[1]>>] < p[2]}

\* Every request that is sent for an event, whatever comes of it, leaves fewer to
\* be sent: no loop of deliver starts again, and none skips what it counts.
DeliveryAdvances ==
  [][\A e \in Events, s \in Subs : tries'[<<e, s>>] # tries[<<e, s>>] =>
       RequestsLeft(e)' \subseteq RequestsLeft(e) /\ RequestsLeft(e)' # RequestsLeft(e)]_vars

\* What is on the channel leaves it and is settled, or lost with a failed query.
QueuedIsProcessed ==
  \A e \in Events : event[e] = "queued" ~> event[e] \in {"settled", "lost"}

\* Stop returns, however full the channel and however slow the subscribers.
StopReturns == stop = "flagged" ~> stop = "returned"

\* To those outside, an event is accepted while it is on the channel or in a
\* worker's hands, and refused however Dispatch ends without queueing it.
FateOf(status) ==
  CASE status \in {"new", "sending"} -> "offered"
    [] status \in {"ignored", "dropped", "panicked"} -> "refused"
    [] status \in {"queued", "taken"} -> "accepted"
    [] status \in {"lost", "settled"} -> status

Fates == [e \in Events |-> FateOf(event[e])]

Door == IF stop \in {"running", "flagged"} THEN "open"
        ELSE IF stop = "waiting" THEN "closing" ELSE "closed"

Delivery == INSTANCE EventDelivery WITH door <- Door, fate <- Fates

\* The promise of EventDelivery, whichever worker takes an event and wherever
\* Stop finds it: an event that was accepted is lost whole or settled for every
\* subscription, nothing is accepted once the channel is closed, and Stop returns
\* when nothing accepted is left.
Promise == Delivery!Spec

\* internal/notify/dispatcher_test.go:348: Dispatch after Stop "should not
\* panic or send to closed channel".
NeverPanics == \A e \in Events : event[e] # "panicked"
=============================================================================
