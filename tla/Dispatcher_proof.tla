-------------------------- MODULE Dispatcher_proof --------------------------
(***************************************************************************)
(* Proofs about Dispatcher, for any number of events, subscriptions,       *)
(* workers and retries, and a channel of any size.                         *)
(***************************************************************************)
EXTENDS Dispatcher, TLAPS

\* The channel holds the queued events, each once.
QueueInv ==
  /\ \A i \in 1..Len(eventCh) : event[eventCh[i]] = "queued"
  /\ \A i, j \in 1..Len(eventCh) : eventCh[i] = eventCh[j] => i = j
  /\ \A e \in Events : event[e] = "queued" => \E i \in 1..Len(eventCh) : eventCh[i] = e

\* Every event taken is in the hands of one worker.
HoldInv ==
  /\ \A w \in Workers : Busy(w) => worker[w].event \in Events /\ event[worker[w].event] = "taken"
  /\ \A v, w \in Workers : Busy(v) /\ Busy(w) /\ worker[v].event = worker[w].event => v = w
  /\ \A e \in Events : event[e] = "taken" => \E w \in Workers : Busy(w) /\ worker[w].event = e

\* A worker leaves a closed and empty channel, which stays so, and Stop returns
\* when all have left.
StopInv ==
  /\ closed <=> stop \in {"waiting", "returned"}
  /\ \A w \in Workers : worker[w].pc = "exit" => closed /\ eventCh = <<>>
  /\ stop = "returned" => \A w \in Workers : worker[w].pc = "exit"

\* Nothing is sent before the subscriptions are loaded, nor to others than those.
LoadInv ==
  /\ \A e \in Events, s \in Subs :
       s \notin loaded[e] => tries[<<e, s>>] = 0 /\ <<e, s>> \notin acked
  /\ \A e \in Events : event[e] \notin {"taken", "settled"} => loaded[e] = {}
  /\ \A w \in Workers : worker[w].pc = "load" => loaded[worker[w].event] = {}
  /\ \A w \in Workers : worker[w].pc # "deliver" =>
       worker[w].sub = Nothing /\ worker[w].attempt = 0

Done(e, s) == <<e, s>> \in acked \/ tries[<<e, s>>] = MaxRetries + 1

\* A worker that delivers: what it has still to do was not acknowledged, and was
\* tried as often as its loop counts; the rest is done.
Delivers(w) ==
  LET e == worker[w].event
      k == worker[w]
  IN  /\ k.todo # {} /\ k.todo \subseteq loaded[e]
      /\ k.sub \in k.todo \cup {Nothing}
      /\ k.attempt <= MaxRetries /\ (k.sub = Nothing => k.attempt = 0)
      /\ \A s \in k.todo : /\ <<e, s>> \notin acked
                           /\ tries[<<e, s>>] = IF s = k.sub THEN k.attempt ELSE 0
      /\ \A s \in loaded[e] \ k.todo : Done(e, s)

DeliverInv == \A w \in Workers : worker[w].pc = "deliver" => Delivers(w)

IInv == TypeOK /\ QueueInv /\ HoldInv /\ StopInv /\ LoadInv /\ DeliverInv /\ SettledForEach

Worker == [pc : {"range", "load", "deliver", "exit"}, event : Events \cup {Nothing},
           todo : SUBSET Subs, sub : Subs \cup {Nothing}, attempt : Nat]

-----------------------------------------------------------------------------

\* A worker at the channel holds nothing.
LEMMA RangeWorker ==
  /\ Range \in Worker /\ Range.pc = "range" /\ Range.sub = Nothing /\ Range.attempt = 0
BY DEF Range, Worker

\* What a worker has done is not undone by what concerns other events.
LEMMA Undisturbed ==
  ASSUME IInv, NEW w \in Workers, worker[w].pc = "deliver", worker'[w] = worker[w],
         loaded'[worker[w].event] = loaded[worker[w].event],
         \A s \in Subs : /\ tries'[<<worker[w].event, s>>] = tries[<<worker[w].event, s>>]
                         /\ <<worker[w].event, s>> \in acked' <=> <<worker[w].event, s>> \in acked
  PROVE  Delivers(w)'
<1> DEFINE e == worker[w].event
<1>1. e \in Events /\ Delivers(w)
  BY DEF IInv, DeliverInv, HoldInv, Busy
<1>2. loaded[e] \subseteq Subs /\ worker[w].todo \subseteq Subs
  BY <1>1 DEF IInv, TypeOK
<1>3. \A s \in loaded[e] : Done(e, s)' <=> Done(e, s)
  BY <1>2 DEF Done
<1> QED
  BY <1>1, <1>2, <1>3 DEF Delivers

\* The invariant holds in every initial state.
LEMMA InvInit == Init => IInv
<1> SUFFICES ASSUME Init PROVE IInv
  OBVIOUS
<1> USE DispatcherAssumption DEF Init
<1>1. TypeOK
  <2>1. worker \in [Workers -> Worker] /\ loaded \in [Events -> SUBSET Subs]
    BY RangeWorker
  <2>2. eventCh \in Seq(Events) /\ Len(eventCh) <= Capacity
    OBVIOUS
  <2>3. closed \in BOOLEAN /\ stopped \in BOOLEAN
    BY Zenon
  <2>4. /\ stop \in {"running", "flagged", "waiting", "returned"}
        /\ event \in [Events -> {"new", "ignored", "sending", "panicked", "dropped",
                                 "queued", "taken", "lost", "settled"}]
        /\ active \subseteq Subs /\ acked \subseteq Events \X Subs
    OBVIOUS
  <2>5. tries \in [Events \X Subs -> 0..(MaxRetries + 1)]
    OBVIOUS
  <2> QED
    BY <2>1, <2>2, <2>3, <2>4, <2>5 DEF TypeOK, Worker
<1>2. QueueInv
  BY DEF QueueInv
<1>3. HoldInv
  BY RangeWorker DEF HoldInv, Busy
<1>4. StopInv
  BY RangeWorker DEF StopInv
<1>5. LoadInv
  BY RangeWorker DEF LoadInv
<1>6. DeliverInv
  BY RangeWorker DEF DeliverInv
<1>7. SettledForEach
  BY DEF SettledForEach
<1> QED
  BY <1>1, <1>2, <1>3, <1>4, <1>5, <1>6, <1>7 DEF IInv

-----------------------------------------------------------------------------
(* Dispatch. *)

\* Dispatch reads the flag: the event is on no channel yet.
LEMMA CheckStep == ASSUME IInv, NEW e \in Events, CheckStopped(e) PROVE IInv'
<1>1. PICK v \in {"ignored", "sending"} : event' = [event EXCEPT ![e] = v]
  BY DEF CheckStopped
<1>2. event[e] = "new" /\ UNCHANGED <<eventCh, closed, stopped, stop, worker, active, loaded, tries, acked>>
  BY DEF CheckStopped
<1>3. TypeOK'
  BY <1>1, <1>2 DEF IInv, TypeOK
<1>4. \A d \in Events : event'[d] # event[d] =>
        /\ d = e
        /\ event'[d] \notin {"queued", "taken", "settled"}
  BY <1>1 DEF IInv, TypeOK
<1>5. \A i \in 1..Len(eventCh) : eventCh[i] \in Events
  BY DEF IInv, TypeOK
<1>6. QueueInv'
  BY <1>2, <1>4, <1>5 DEF IInv, QueueInv
<1>7. HoldInv'
  BY <1>2, <1>4 DEF IInv, HoldInv, Busy
<1>8. StopInv' /\ DeliverInv'
  BY <1>2 DEF IInv, StopInv, DeliverInv, Delivers, Done
<1>9. LoadInv'
  BY <1>2, <1>4 DEF IInv, LoadInv
<1>10. SettledForEach'
  BY <1>2, <1>4 DEF IInv, SettledForEach
<1> QED
  BY <1>3, <1>6, <1>7, <1>8, <1>9, <1>10 DEF IInv

\* Dispatch sends: the event is the last on the channel, or nowhere.
LEMMA SendStep == ASSUME IInv, NEW e \in Events, SendEvent(e) PROVE IInv'
<1>1. event[e] = "sending" /\ UNCHANGED <<closed, stopped, stop, worker, active, loaded, tries, acked>>
  BY DEF SendEvent
<1>2. CASE closed \/ Len(eventCh) >= Capacity
  <2>f. ~(~closed /\ Len(eventCh) < Capacity)
    BY <1>2, DispatcherAssumption DEF IInv, TypeOK
  <2>1. PICK v \in {"panicked", "dropped"} : event' = [event EXCEPT ![e] = v]
    BY <2>f DEF SendEvent
  <2>2. UNCHANGED eventCh
    BY <2>f, Zenon DEF SendEvent
  <2>3. TypeOK'
    BY <1>1, <2>1, <2>2 DEF IInv, TypeOK
  <2>4. \A d \in Events : event'[d] # event[d] =>
          /\ d = e
          /\ event'[d] \notin {"queued", "taken", "settled"}
    BY <2>1 DEF IInv, TypeOK
  <2>5. \A i \in 1..Len(eventCh) : eventCh[i] \in Events
    BY DEF IInv, TypeOK
  <2>6. QueueInv'
    BY <1>1, <2>2, <2>4, <2>5 DEF IInv, QueueInv
  <2>7. HoldInv'
    BY <1>1, <2>4 DEF IInv, HoldInv, Busy
  <2>8. StopInv' /\ DeliverInv'
    BY <1>1, <2>2 DEF IInv, StopInv, DeliverInv, Delivers, Done
  <2>9. LoadInv' /\ SettledForEach'
    BY <1>1, <2>4 DEF IInv, LoadInv, SettledForEach
  <2> QED
    BY <2>3, <2>6, <2>7, <2>8, <2>9 DEF IInv
<1>3. CASE ~closed /\ Len(eventCh) < Capacity
  <2>1. event' = [event EXCEPT ![e] = "queued"] /\ eventCh' = Append(eventCh, e)
    BY <1>3 DEF SendEvent
  <2>2. eventCh \in Seq(Events) /\ Len(eventCh) \in Nat
    BY DEF IInv, TypeOK
  <2>3. TypeOK'
    BY <1>1, <1>3, <2>1, <2>2, DispatcherAssumption DEF IInv, TypeOK
  <2>4. /\ Len(eventCh') = Len(eventCh) + 1
        /\ \A i \in 1..Len(eventCh) : eventCh'[i] = eventCh[i] /\ eventCh[i] \in Events
        /\ eventCh'[Len(eventCh) + 1] = e
    BY <2>1, <2>2
  <2>5. event'[e] = "queued" /\ \A d \in Events : d # e => event'[d] = event[d]
    BY <2>1 DEF IInv, TypeOK
  <2>6. QueueInv'
    <3>1. \A i \in 1..Len(eventCh) : eventCh[i] # e
      BY <1>1 DEF IInv, QueueInv
    <3>2. \A i \in 1..Len(eventCh') : i = Len(eventCh) + 1 \/ i \in 1..Len(eventCh)
      BY <2>2, <2>4
    <3>3. \A i \in 1..Len(eventCh') : event'[eventCh'[i]] = "queued"
      BY <2>4, <2>5, <3>1, <3>2 DEF IInv, QueueInv
    <3>4. \A i, j \in 1..Len(eventCh') : eventCh'[i] = eventCh'[j] => i = j
      BY <2>4, <3>1, <3>2 DEF IInv, QueueInv
    <3>5. ASSUME NEW d \in Events, event'[d] = "queued"
          PROVE  \E i \in 1..Len(eventCh') : eventCh'[i] = d
      <4>1. CASE d = e
        BY <2>2, <2>4, <4>1
      <4>2. CASE d # e
        <5>1. PICK i \in 1..Len(eventCh) : eventCh[i] = d
          BY <2>5, <3>5, <4>2 DEF IInv, QueueInv
        <5> QED
          BY <2>2, <2>4, <5>1
      <4> QED
        BY <4>1, <4>2
    <3> QED
      BY <3>3, <3>4, <3>5 DEF QueueInv
  <2>7. HoldInv'
    BY <1>1, <2>5 DEF IInv, HoldInv, Busy
  <2>8. StopInv'
    BY <1>1, <1>3 DEF IInv, StopInv
  <2>9. DeliverInv'
    BY <1>1 DEF IInv, DeliverInv, Delivers, Done
  <2>10. LoadInv' /\ SettledForEach'
    BY <1>1, <2>5 DEF IInv, LoadInv, SettledForEach
  <2> QED
    BY <2>3, <2>6, <2>7, <2>8, <2>9, <2>10 DEF IInv
<1>4. closed \/ Len(eventCh) >= Capacity \/ (~closed /\ Len(eventCh) < Capacity)
  BY DispatcherAssumption DEF IInv, TypeOK
<1> QED
  BY <1>2, <1>3, <1>4

-----------------------------------------------------------------------------
(* The workers. *)

\* A worker takes the first event of the channel, which is then its own.
LEMMA TakeStep == ASSUME IInv, NEW w \in Workers, TakeEvent(w) PROVE IInv'
<1> DEFINE h == Head(eventCh)
           r == [worker[w] EXCEPT !.pc = "load", !.event = h]
<1>1. /\ worker[w].pc = "range" /\ eventCh # <<>>
      /\ event' = [event EXCEPT ![h] = "taken"] /\ eventCh' = Tail(eventCh)
      /\ UNCHANGED <<closed, stopped, stop, active, loaded, tries, acked>>
  BY DEF TakeEvent
<1>2. worker' = [worker EXCEPT ![w] = r]
  BY DEF TakeEvent
<1>3. worker \in [Workers -> Worker] /\ eventCh \in Seq(Events)
  BY DEF IInv, TypeOK, Worker
<1>4. /\ h \in Events /\ h = eventCh[1] /\ Len(eventCh) \in Nat /\ Len(eventCh) >= 1
      /\ Len(eventCh') = Len(eventCh) - 1 /\ eventCh' \in Seq(Events)
      /\ \A i \in 1..Len(eventCh') : eventCh'[i] = eventCh[i + 1]
  BY <1>1, <1>3
<1>5. /\ r \in Worker /\ r.pc = "load" /\ r.event = h
      /\ r.todo = worker[w].todo /\ r.sub = worker[w].sub /\ r.attempt = worker[w].attempt
  BY <1>3, <1>4 DEF Worker
<1> HIDE DEF r, h
<1>6. event'[h] = "taken" /\ \A d \in Events : d # h => event'[d] = event[d]
  BY <1>1, <1>4 DEF IInv, TypeOK
<1>7. event[h] = "queued"
  BY <1>4 DEF IInv, QueueInv
<1>8. /\ worker'[w] = r /\ \A v \in Workers : v # w => worker'[v] = worker[v]
      /\ worker' \in [Workers -> Worker]
  BY <1>2, <1>3, <1>5
<1>9. TypeOK'
  <2>1. event' \in [Events -> {"new", "ignored", "sending", "panicked", "dropped",
                               "queued", "taken", "lost", "settled"}]
    BY <1>1, <1>4 DEF IInv, TypeOK
  <2>2. Len(eventCh') <= Capacity
    BY <1>4, DispatcherAssumption DEF IInv, TypeOK
  <2> QED
    BY <1>1, <1>4, <1>8, <2>1, <2>2 DEF IInv, TypeOK, Worker
<1>10. QueueInv'
  <2>1. \A i \in 1..Len(eventCh') : i + 1 \in 1..Len(eventCh) /\ i + 1 # 1
    BY <1>4
  <2>2. \A i \in 1..Len(eventCh) : eventCh[i] \in Events
    BY <1>3
  <2>3. \A i \in 1..Len(eventCh') : event'[eventCh'[i]] = "queued"
    BY <1>4, <1>6, <2>1, <2>2 DEF IInv, QueueInv
  <2>4. \A i, j \in 1..Len(eventCh') : eventCh'[i] = eventCh'[j] => i = j
    <3>1. \A i, j \in 1..Len(eventCh') : eventCh'[i] = eventCh'[j] => i + 1 = j + 1
      BY <1>4, <2>1 DEF IInv, QueueInv
    <3> QED
      BY <1>4, <3>1
  <2>5. ASSUME NEW d \in Events, event'[d] = "queued"
        PROVE  \E i \in 1..Len(eventCh') : eventCh'[i] = d
    <3>1. d # h /\ event[d] = "queued"
      BY <1>6, <2>5
    <3>2. PICK i \in 1..Len(eventCh) : eventCh[i] = d
      BY <3>1 DEF IInv, QueueInv
    <3>3. i # 1 /\ i - 1 \in 1..Len(eventCh')
      BY <1>4, <3>1, <3>2
    <3>4. eventCh'[i - 1] = eventCh[(i - 1) + 1] /\ (i - 1) + 1 = i
      BY <1>4, <3>3
    <3> QED
      BY <3>2, <3>3, <3>4
  <2> QED
    BY <2>3, <2>4, <2>5 DEF QueueInv
<1>11. HoldInv'
  <2>1. \A v \in Workers : Busy(v) => v # w /\ worker[v].event # h
    BY <1>1, <1>7 DEF IInv, HoldInv, Busy
  <2>2. \A v \in Workers : Busy(v)' <=> v = w \/ Busy(v)
    BY <1>5, <1>8 DEF Busy
  <2> QED
    BY <1>4, <1>5, <1>6, <1>8, <2>1, <2>2 DEF IInv, HoldInv
<1>12. StopInv'
  BY <1>1, <1>5, <1>8 DEF IInv, StopInv
<1>13. LoadInv'
  BY <1>1, <1>4, <1>5, <1>6, <1>7, <1>8 DEF IInv, LoadInv
<1>14. DeliverInv'
  BY <1>1, <1>5, <1>8 DEF IInv, DeliverInv, Delivers, Done
<1>15. SettledForEach'
  BY <1>1, <1>6 DEF IInv, SettledForEach
<1> QED
  BY <1>9, <1>10, <1>11, <1>12, <1>13, <1>14, <1>15 DEF IInv

\* A worker leaves a channel that is closed and empty, and stays so.
LEMMA ExitStep == ASSUME IInv, NEW w \in Workers, ExitWorker(w) PROVE IInv'
<1> DEFINE r == [worker[w] EXCEPT !.pc = "exit"]
<1>1. /\ worker[w].pc = "range" /\ closed /\ eventCh = <<>>
      /\ worker' = [worker EXCEPT ![w] = r]
      /\ UNCHANGED <<eventCh, closed, stopped, stop, event, active, loaded, tries, acked>>
  BY DEF ExitWorker
<1>2. worker \in [Workers -> Worker]
  BY DEF IInv, TypeOK, Worker
<1>3. r \in Worker /\ r.pc = "exit" /\ r.sub = worker[w].sub /\ r.attempt = worker[w].attempt
  BY <1>2 DEF Worker
<1> HIDE DEF r
<1>4. /\ worker'[w] = r /\ \A v \in Workers : v # w => worker'[v] = worker[v]
      /\ worker' \in [Workers -> Worker]
  BY <1>1, <1>2, <1>3
<1>5. TypeOK'
  BY <1>1, <1>4 DEF IInv, TypeOK, Worker
<1>6. QueueInv' /\ SettledForEach'
  BY <1>1 DEF IInv, QueueInv, SettledForEach
<1>7. HoldInv'
  BY <1>1, <1>3, <1>4 DEF IInv, HoldInv, Busy
<1>8. StopInv' /\ LoadInv'
  BY <1>1, <1>3, <1>4 DEF IInv, StopInv, LoadInv
<1>9. DeliverInv'
  BY <1>1, <1>3, <1>4 DEF IInv, DeliverInv, Delivers, Done
<1> QED
  BY <1>5, <1>6, <1>7, <1>8, <1>9 DEF IInv

\* A worker that lets go of its event, which ends as v.
LEMMA LetGo ==
  ASSUME IInv, NEW w \in Workers, Busy(w), NEW v \in {"settled", "lost"},
         worker' = [worker EXCEPT ![w] = Range],
         event' = [event EXCEPT ![worker[w].event] = v],
         UNCHANGED <<eventCh, closed, stopped, stop, active>>
  PROVE  /\ worker' \in [Workers -> Worker]
         /\ event' \in [Events -> {"new", "ignored", "sending", "panicked", "dropped",
                                   "queued", "taken", "lost", "settled"}]
         /\ worker[w].event \in Events /\ event'[worker[w].event] = v
         /\ \A d \in Events : d # worker[w].event => event'[d] = event[d]
         /\ worker'[w] = Range /\ \A u \in Workers : u # w => worker'[u] = worker[u]
         /\ QueueInv' /\ HoldInv' /\ StopInv'
<1> DEFINE e == worker[w].event
<1>1. worker \in [Workers -> Worker] /\ e \in Events /\ event[e] = "taken"
  BY DEF IInv, TypeOK, Worker, HoldInv
<1> HIDE DEF e
<1>2. /\ worker' \in [Workers -> Worker] /\ worker'[w] = Range
      /\ \A u \in Workers : u # w => worker'[u] = worker[u]
  BY <1>1, RangeWorker
<1>3. event' \in [Events -> {"new", "ignored", "sending", "panicked", "dropped",
                             "queued", "taken", "lost", "settled"}]
  BY <1>1 DEF IInv, TypeOK, e
<1>4. event'[e] = v /\ \A d \in Events : d # e => event'[d] = event[d]
  BY <1>1 DEF IInv, TypeOK, e
<1>5. QueueInv'
  <2>1. \A i \in 1..Len(eventCh) : eventCh[i] \in Events /\ eventCh[i] # e
    BY <1>1 DEF IInv, TypeOK, QueueInv
  <2> QED
    BY <1>1, <1>4, <2>1 DEF IInv, QueueInv
<1>6. HoldInv'
  <2>1. \A u \in Workers : u # w /\ Busy(u) => worker[u].event # e
    BY DEF IInv, HoldInv, e
  <2>2. \A u \in Workers : Busy(u)' <=> u # w /\ Busy(u)
    BY <1>2, RangeWorker DEF Busy
  <2>3. \A d \in Events : event'[d] = "taken" => d # e /\ event[d] = "taken"
    BY <1>4
  <2> QED
    BY <1>2, <1>4, <2>1, <2>2, <2>3 DEF IInv, HoldInv, e
<1>7. StopInv'
  BY <1>2, RangeWorker DEF IInv, StopInv, Busy
<1> QED
  BY <1>1, <1>2, <1>3, <1>4, <1>5, <1>6, <1>7 DEF e

\* The subscriptions of an event are loaded, and nothing is sent yet.
LEMMA ListStep == ASSUME IInv, NEW w \in Workers, ListActive(w) PROVE IInv'
<1> DEFINE e == worker[w].event
           subs == {s \in active : e \in Wants[s]}
           r == [worker[w] EXCEPT !.pc = "deliver", !.todo = subs]
<1>1. /\ worker[w].pc = "load" /\ Busy(w) /\ loaded' = [loaded EXCEPT ![e] = subs]
      /\ UNCHANGED <<eventCh, closed, stopped, stop, active, tries, acked>>
  BY DEF ListActive, Busy
<1>2. /\ worker \in [Workers -> Worker] /\ e \in Events /\ event[e] = "taken"
      /\ subs \in SUBSET Subs
  BY <1>1 DEF IInv, TypeOK, Worker, HoldInv
<1>3. subs = {} => worker' = [worker EXCEPT ![w] = Range] /\ event' = [event EXCEPT ![e] = "settled"]
  BY DEF ListActive
<1>4. subs # {} => worker' = [worker EXCEPT ![w] = r] /\ event' = event
  BY DEF ListActive
<1>5. /\ r \in Worker /\ r.pc = "deliver" /\ r.event = e /\ r.todo = subs
      /\ r.sub = worker[w].sub /\ r.attempt = worker[w].attempt
  BY <1>2 DEF Worker
<1>6. worker[w].sub = Nothing /\ worker[w].attempt = 0 /\ loaded[e] = {}
  BY <1>1 DEF IInv, LoadInv
<1> HIDE DEF r, subs
<1>7. /\ loaded' \in [Events -> SUBSET Subs] /\ loaded'[e] = subs
      /\ \A d \in Events : d # e => loaded'[d] = loaded[d]
  BY <1>1, <1>2 DEF IInv, TypeOK
<1>8. \A s \in Subs : tries[<<e, s>>] = 0 /\ <<e, s>> \notin acked
  BY <1>2, <1>6 DEF IInv, LoadInv
<1>9. \A v \in Workers : v # w /\ Busy(v) => worker[v].event \in Events /\ worker[v].event # e
  BY <1>1 DEF IInv, HoldInv
<1> HIDE DEF e
<1>10. CASE subs = {}
  <2>1. /\ worker' \in [Workers -> Worker]
        /\ event' \in [Events -> {"new", "ignored", "sending", "panicked", "dropped",
                                  "queued", "taken", "lost", "settled"}]
        /\ event'[e] = "settled"
        /\ \A d \in Events : d # e => event'[d] = event[d]
        /\ worker'[w] = Range /\ \A u \in Workers : u # w => worker'[u] = worker[u]
        /\ QueueInv' /\ HoldInv' /\ StopInv'
    BY <1>1, <1>3, <1>10, LetGo DEF e
  <2>2. TypeOK'
    BY <1>1, <1>7, <2>1 DEF IInv, TypeOK, Worker
  <2>3. \A d \in Events : loaded'[d] = loaded[d]
    BY <1>6, <1>7, <1>10
  <2>4. LoadInv'
    <3>1. \A v \in Workers : worker'[v].pc = "load" => v # w /\ worker[v].event \in Events
      BY <1>9, <2>1, RangeWorker DEF Busy
    <3>2. \A d \in Events : event'[d] \notin {"taken", "settled"} => event[d] \notin {"taken", "settled"}
      BY <2>1
    <3>3. \A v \in Workers : worker'[v].pc # "deliver" =>
             worker'[v].sub = Nothing /\ worker'[v].attempt = 0
      BY <2>1, RangeWorker DEF IInv, LoadInv
    <3>4. \A d \in Events, s \in Subs :
             s \notin loaded'[d] => tries'[<<d, s>>] = 0 /\ <<d, s>> \notin acked'
      BY <1>1, <2>3 DEF IInv, LoadInv
    <3>5. \A d \in Events : event'[d] \notin {"taken", "settled"} => loaded'[d] = {}
      BY <2>3, <3>2 DEF IInv, LoadInv
    <3>6. \A v \in Workers : worker'[v].pc = "load" => loaded'[worker'[v].event] = {}
      BY <2>1, <2>3, <3>1 DEF IInv, LoadInv
    <3> QED
      BY <3>3, <3>4, <3>5, <3>6 DEF LoadInv
  <2>5. DeliverInv'
    <3>1. \A v \in Workers : worker'[v].pc = "deliver" =>
             worker'[v] = worker[v] /\ loaded'[worker[v].event] = loaded[worker[v].event]
      BY <1>9, <2>1, <2>3, RangeWorker DEF Busy
    <3> QED
      BY <1>1, <3>1, Undisturbed DEF DeliverInv
  <2>6. SettledForEach'
    BY <1>1, <1>7, <1>10, <2>1, <2>3 DEF IInv, SettledForEach
  <2> QED
    BY <2>1, <2>2, <2>4, <2>5, <2>6 DEF IInv
<1>11. CASE subs # {}
  <2>1. /\ worker' \in [Workers -> Worker] /\ worker'[w] = r /\ event' = event
        /\ \A v \in Workers : v # w => worker'[v] = worker[v]
    BY <1>2, <1>4, <1>5, <1>11
  <2>2. TypeOK'
    BY <1>1, <1>7, <2>1 DEF IInv, TypeOK, Worker
  <2>3. QueueInv'
    BY <1>1, <2>1 DEF IInv, QueueInv
  <2>4. HoldInv'
    <3>1. \A v \in Workers : (Busy(v)' <=> Busy(v)) /\ worker'[v].event = worker[v].event
      BY <1>1, <1>5, <2>1 DEF Busy, e
    <3> QED
      BY <2>1, <3>1 DEF IInv, HoldInv
  <2>5. StopInv'
    BY <1>1, <1>5, <2>1 DEF IInv, StopInv
  <2>6. LoadInv'
    <3>1. \A v \in Workers : worker'[v].pc = "load" =>
             worker'[v] = worker[v] /\ loaded'[worker[v].event] = loaded[worker[v].event]
      BY <1>5, <1>7, <1>9, <2>1 DEF Busy
    <3>2. \A d \in Events, s \in Subs : s \notin loaded'[d] => s \notin loaded[d]
      BY <1>6, <1>7
    <3>3. \A d \in Events : event'[d] \notin {"taken", "settled"} => loaded'[d] = {}
      BY <1>2, <1>7, <2>1 DEF IInv, LoadInv
    <3>4. \A v \in Workers : worker'[v].pc # "deliver" =>
             worker'[v].sub = Nothing /\ worker'[v].attempt = 0
      BY <1>5, <2>1 DEF IInv, LoadInv
    <3> QED
      BY <1>1, <3>1, <3>2, <3>3, <3>4 DEF IInv, LoadInv
  <2>7. DeliverInv'
    <3>1. \A v \in Workers : v # w /\ worker'[v].pc = "deliver" =>
             worker'[v] = worker[v] /\ loaded'[worker[v].event] = loaded[worker[v].event]
      BY <1>7, <1>9, <2>1 DEF Busy
    <3>2. \A s \in subs : s # Nothing /\ tries[<<e, s>>] = 0 /\ <<e, s>> \notin acked
      BY <1>2, <1>8, DispatcherAssumption
    <3>3. /\ worker'[w].event = e /\ worker'[w].todo = subs /\ loaded'[e] = subs
          /\ worker'[w].sub = Nothing /\ worker'[w].attempt = 0 /\ 0 <= MaxRetries
      BY <1>5, <1>6, <1>7, <2>1, DispatcherAssumption
    <3>4. Delivers(w)'
      BY <1>1, <1>11, <3>2, <3>3 DEF Delivers
    <3>5. \A v \in Workers : v # w /\ worker'[v].pc = "deliver" => Delivers(v)'
      BY <1>1, <3>1, Undisturbed
    <3> QED
      BY <3>4, <3>5 DEF DeliverInv
  <2>8. SettledForEach'
    BY <1>1, <1>2, <1>7, <2>1 DEF IInv, SettledForEach
  <2> QED
    BY <2>2, <2>3, <2>4, <2>5, <2>6, <2>7, <2>8 DEF IInv
<1> QED
  BY <1>10, <1>11

\* A failed query lets go of an event of which nothing was sent.
LEMMA ListFailsStep == ASSUME IInv, NEW w \in Workers, ListActiveFails(w) PROVE IInv'
<1> DEFINE e == worker[w].event
<1>1. /\ worker[w].pc = "load" /\ Busy(w)
      /\ worker' = [worker EXCEPT ![w] = Range] /\ event' = [event EXCEPT ![e] = "lost"]
      /\ UNCHANGED <<eventCh, closed, stopped, stop, active, loaded, tries, acked>>
  BY DEF ListActiveFails, Busy
<1>2. loaded[e] = {}
  BY <1>1 DEF IInv, LoadInv
<1>3. /\ worker' \in [Workers -> Worker]
      /\ event' \in [Events -> {"new", "ignored", "sending", "panicked", "dropped",
                                "queued", "taken", "lost", "settled"}]
      /\ e \in Events /\ event'[e] = "lost"
      /\ \A d \in Events : d # e => event'[d] = event[d]
      /\ worker'[w] = Range /\ \A u \in Workers : u # w => worker'[u] = worker[u]
      /\ QueueInv' /\ HoldInv' /\ StopInv'
  BY <1>1, LetGo
<1> HIDE DEF e
<1>4. TypeOK'
  BY <1>1, <1>3 DEF IInv, TypeOK, Worker
<1>5. LoadInv'
  BY <1>1, <1>2, <1>3, RangeWorker DEF IInv, LoadInv
<1>6. DeliverInv'
  BY <1>1, <1>3, RangeWorker DEF IInv, DeliverInv, Delivers, Done
<1>7. SettledForEach'
  BY <1>1, <1>3 DEF IInv, SettledForEach
<1> QED
  BY <1>3, <1>4, <1>5, <1>6, <1>7 DEF IInv

\* One request of deliver, for subscription s.
LEMMA DeliverStep == ASSUME IInv, NEW w \in Workers, Deliver(w) PROVE IInv'
<1> USE DispatcherAssumption
<1>0. PICK e \in Events, k \in Worker : e = worker[w].event /\ k = worker[w]
  BY DEF Deliver, Busy, IInv, HoldInv, TypeOK, Worker
<1> USE <1>0
<1>1. /\ k.pc = "deliver" /\ Busy(w) /\ e \in Events /\ event[e] = "taken" /\ Delivers(w)
      /\ worker \in [Workers -> Worker] /\ k \in Worker
  BY DEF Deliver, Busy, IInv, HoldInv, DeliverInv, TypeOK, Worker
<1>2. PICK s \in Current(w), ok \in BOOLEAN :
        /\ Post(w, s, ok)
        /\ IF ok \/ k.attempt = MaxRetries THEN Finish(w, s) ELSE Retry(w, s)
  BY DEF Deliver
<1>3. /\ s \in k.todo /\ s \in Subs /\ s # Nothing /\ s \in loaded[e] /\ loaded[e] \subseteq Subs
      /\ tries[<<e, s>>] = k.attempt /\ k.attempt \in Nat /\ k.attempt <= MaxRetries
      /\ <<e, s>> \notin acked
  BY <1>1, <1>2 DEF Current, Delivers, Worker, IInv, TypeOK
<1>4. /\ tries' = [tries EXCEPT ![<<e, s>>] = @ + 1]
      /\ acked' = IF ok THEN acked \cup {<<e, s>>} ELSE acked
      /\ UNCHANGED <<eventCh, closed, stopped, stop, active, loaded>>
  BY <1>2 DEF Post
<1>5. /\ tries'[<<e, s>>] = k.attempt + 1
      /\ \A d \in Events, t \in Subs : <<d, t>> # <<e, s>> =>
           /\ tries'[<<d, t>>] = tries[<<d, t>>]
           /\ <<d, t>> \in acked' <=> <<d, t>> \in acked
  BY <1>1, <1>3, <1>4 DEF IInv, TypeOK
<1>6. tries' \in [Events \X Subs -> 0..(MaxRetries + 1)] /\ acked' \subseteq Events \X Subs
  BY <1>1, <1>3, <1>4 DEF IInv, TypeOK
<1>7. \A v \in Workers : v # w /\ Busy(v) => worker[v].event \in Events /\ worker[v].event # e
  BY <1>1 DEF IInv, HoldInv
<1>8. \A v \in Workers : v # w /\ worker[v].pc = "deliver" /\ worker'[v] = worker[v] => Delivers(v)'
  <2> SUFFICES ASSUME NEW v \in Workers, v # w, worker[v].pc = "deliver", worker'[v] = worker[v]
               PROVE  Delivers(v)'
    OBVIOUS
  <2>1. worker[v].event \in Events /\ worker[v].event # e
    BY <1>7 DEF Busy
  <2>2. \A t \in Subs : <<worker[v].event, t>> # <<e, s>>
    BY <2>1
  <2> QED
    BY <1>4, <1>5, <2>1, <2>2, Undisturbed
\* what only the histories of e and s change
<1>9. \A d \in Events, t \in Subs :
         t \notin loaded'[d] => tries'[<<d, t>>] = 0 /\ <<d, t>> \notin acked'
  <2> SUFFICES ASSUME NEW d \in Events, NEW t \in Subs, t \notin loaded[d]
               PROVE  tries'[<<d, t>>] = 0 /\ <<d, t>> \notin acked'
    BY <1>4
  <2>1. <<d, t>> # <<e, s>>
    BY <1>3
  <2> QED
    BY <1>5, <2>1 DEF IInv, LoadInv
<1>10. ASSUME NEW d \in Events, NEW t \in Subs, Done(d, t) PROVE <<d, t>> # <<e, s>> => Done(d, t)'
  BY <1>5, <1>10 DEF Done
<1>11. \A d \in Events : event[d] = "settled" => \A t \in loaded[d] : Done(d, t)'
  <2> SUFFICES ASSUME NEW d \in Events, event[d] = "settled", NEW t \in loaded[d] PROVE Done(d, t)'
    OBVIOUS
  <2>1. d # e /\ t \in Subs /\ Done(d, t)
    BY <1>1 DEF IInv, TypeOK, SettledForEach, Done
  <2> QED
    BY <1>10, <2>1
<1>12. \A t \in loaded[e] \ k.todo : Done(e, t)'
  <2> SUFFICES ASSUME NEW t \in loaded[e] \ k.todo PROVE Done(e, t)'
    OBVIOUS
  <2>1. t # s /\ t \in Subs /\ Done(e, t)
    BY <1>1, <1>3 DEF Delivers
  <2> QED
    BY <1>1, <1>10, <2>1
<1>13. CASE ok \/ k.attempt = MaxRetries
  <2> DEFINE rest == k.todo \ {s}
  <2>1. Done(e, s)'
    BY <1>1, <1>3, <1>4, <1>5, <1>13 DEF Done
  <2>2. \A t \in loaded[e] \ rest : Done(e, t)'
    BY <1>12, <2>1
  <2>3. CASE rest = {}
    <3>1. worker' = [worker EXCEPT ![w] = Range] /\ event' = [event EXCEPT ![e] = "settled"]
      BY <1>2, <1>13, <2>3 DEF Finish
    <3>2. /\ worker' \in [Workers -> Worker]
          /\ event' \in [Events -> {"new", "ignored", "sending", "panicked", "dropped",
                                    "queued", "taken", "lost", "settled"}]
          /\ event'[e] = "settled"
          /\ \A d \in Events : d # e => event'[d] = event[d]
          /\ worker'[w] = Range /\ \A u \in Workers : u # w => worker'[u] = worker[u]
          /\ QueueInv' /\ HoldInv' /\ StopInv'
      BY <1>1, <1>4, <3>1, LetGo
    <3>3. TypeOK'
      BY <1>4, <1>6, <3>2 DEF IInv, TypeOK, Worker
    <3>4. LoadInv'
      <4>1. \A d \in Events : event'[d] \notin {"taken", "settled"} => loaded'[d] = {}
        BY <1>4, <3>2 DEF IInv, LoadInv
      <4>2. \A v \in Workers : worker'[v].pc = "load" => loaded'[worker'[v].event] = {}
        BY <1>4, <3>2, RangeWorker DEF IInv, LoadInv
      <4>3. \A v \in Workers : worker'[v].pc # "deliver" =>
               worker'[v].sub = Nothing /\ worker'[v].attempt = 0
        BY <3>2, RangeWorker DEF IInv, LoadInv
      <4> QED
        BY <1>9, <4>1, <4>2, <4>3 DEF LoadInv
    <3>5. DeliverInv'
      BY <1>8, <3>2, RangeWorker DEF DeliverInv
    <3>6. SettledForEach'
      BY <1>4, <1>11, <2>2, <2>3, <3>2 DEF SettledForEach, Done
    <3> QED
      BY <3>2, <3>3, <3>4, <3>5, <3>6 DEF IInv
  <2>4. CASE rest # {}
    <3> DEFINE r == [worker[w] EXCEPT !.todo = rest, !.sub = Nothing, !.attempt = 0]
    <3>1. worker' = [worker EXCEPT ![w] = r] /\ event' = event
      BY <1>2, <1>13, <2>4 DEF Finish
    <3>2. /\ r \in Worker /\ r.pc = "deliver" /\ r.event = e /\ r.todo = rest
          /\ r.sub = Nothing /\ r.attempt = 0
      BY <1>1 DEF Worker
    <3> HIDE DEF r, rest
    <3>3. /\ worker' \in [Workers -> Worker] /\ worker'[w] = r
          /\ \A u \in Workers : u # w => worker'[u] = worker[u]
      BY <1>1, <3>1, <3>2
    <3>4. TypeOK'
      BY <1>4, <1>6, <3>1, <3>3 DEF IInv, TypeOK, Worker
    <3>5. QueueInv'
      BY <1>4, <3>1 DEF IInv, QueueInv
    <3>6. HoldInv'
      <4>1. \A v \in Workers : (Busy(v)' <=> Busy(v)) /\ worker'[v].event = worker[v].event
        BY <1>1, <3>2, <3>3 DEF Busy
      <4> QED
        BY <3>1, <4>1 DEF IInv, HoldInv
    <3>7. StopInv'
      BY <1>4, <3>2, <3>3, <1>1 DEF IInv, StopInv
    <3>8. LoadInv'
      <4>1. \A v \in Workers : worker'[v].pc # "deliver" => worker'[v] = worker[v]
        BY <3>2, <3>3
      <4> QED
        BY <1>4, <1>9, <3>1, <4>1 DEF IInv, LoadInv
    <3>9. DeliverInv'
      <4>1. \A t \in rest : /\ <<e, t>> \notin acked' /\ t # Nothing
                            /\ tries'[<<e, t>>] = 0
        <5> SUFFICES ASSUME NEW t \in rest
                     PROVE  <<e, t>> \notin acked' /\ t # Nothing /\ tries'[<<e, t>>] = 0
          OBVIOUS
        <5>1. t \in k.todo /\ t # s /\ t \in Subs
          BY <1>1 DEF rest, Worker
        <5>2. k.sub \in {s, Nothing}
          BY <1>2 DEF Current
        <5>3. <<e, t>> \notin acked /\ tries[<<e, t>>] = 0
          BY <1>1, <5>1, <5>2 DEF Delivers
        <5> QED
          BY <1>1, <1>5, <5>1, <5>3
      <4>2. rest \subseteq loaded[e]
        BY <1>1 DEF Delivers, rest
      <4>3. Delivers(w)'
        BY <1>4, <2>2, <2>4, <3>2, <3>3, <4>1, <4>2 DEF Delivers
      <4> QED
        BY <1>8, <3>3, <4>3 DEF DeliverInv
    <3>10. SettledForEach'
      BY <1>4, <1>11, <3>1 DEF SettledForEach, Done
    <3> QED
      BY <3>4, <3>5, <3>6, <3>7, <3>8, <3>9, <3>10 DEF IInv
  <2> QED
    BY <2>3, <2>4
<1>14. CASE ~ok /\ k.attempt # MaxRetries
  <2>n. PICK n \in Nat : n = k.attempt + 1
    BY <1>3
  <2> DEFINE r == [k EXCEPT !.sub = s, !.attempt = n]
  <2>1. worker' = [worker EXCEPT ![w] = r] /\ event' = event /\ acked' = acked
    BY <2>n, <1>2, <1>4, <1>14 DEF Retry
  <2>2. /\ r \in Worker /\ r.pc = "deliver" /\ r.event = e /\ r.todo = k.todo
        /\ r.sub = s /\ r.attempt = k.attempt + 1
    <3>1. r \in Worker /\ r.pc = k.pc /\ r.event = k.event /\ r.todo = k.todo
      BY <1>3 DEF Worker
    <3>2. r.sub = s /\ r.attempt = n
      BY <1>3 DEF Worker
    <3> QED
      BY <1>1, <2>n, <3>1, <3>2
  <2> HIDE DEF r
  <2>3. /\ worker' \in [Workers -> Worker] /\ worker'[w] = r
        /\ \A u \in Workers : u # w => worker'[u] = worker[u]
    BY <1>1, <2>1, <2>2
  <2>4. TypeOK'
    BY <1>4, <1>6, <2>1, <2>3 DEF IInv, TypeOK, Worker
  <2>5. QueueInv'
    BY <1>4, <2>1 DEF IInv, QueueInv
  <2>6. HoldInv'
    <3>1. \A v \in Workers : (Busy(v)' <=> Busy(v)) /\ worker'[v].event = worker[v].event
      BY <1>1, <2>2, <2>3 DEF Busy
    <3> QED
      BY <2>1, <3>1 DEF IInv, HoldInv
  <2>7. StopInv'
    BY <1>4, <2>2, <2>3, <1>1 DEF IInv, StopInv
  <2>8. LoadInv'
    <3>1. \A v \in Workers : worker'[v].pc # "deliver" => worker'[v] = worker[v]
      BY <2>2, <2>3
    <3> QED
      BY <1>4, <1>9, <2>1, <3>1 DEF IInv, LoadInv
  <2>9. DeliverInv'
    <3>1. \A t \in k.todo : /\ <<e, t>> \notin acked'
                            /\ tries'[<<e, t>>] = IF t = s THEN k.attempt + 1 ELSE 0
      <4> SUFFICES ASSUME NEW t \in k.todo
                   PROVE  /\ <<e, t>> \notin acked'
                          /\ tries'[<<e, t>>] = IF t = s THEN k.attempt + 1 ELSE 0
        OBVIOUS
      <4>1. t \in Subs /\ <<e, t>> \notin acked
        BY <1>1 DEF Worker, Delivers
      <4>2. k.sub \in {s, Nothing}
        BY <1>2 DEF Current
      <4>3. t # s => tries[<<e, t>>] = 0
        BY <1>1, <4>1, <4>2 DEF Delivers
      <4> QED
        BY <1>1, <1>5, <2>1, <4>1, <4>3
    <3>2. k.todo \subseteq loaded[e] /\ k.attempt + 1 <= MaxRetries
      BY <1>1, <1>3, <1>14 DEF Delivers
    <3>3. Delivers(w)'
      BY <1>3, <1>4, <1>12, <2>2, <2>3, <3>1, <3>2 DEF Delivers
    <3> QED
      BY <1>8, <2>3, <3>3 DEF DeliverInv
  <2>10. SettledForEach'
    BY <1>4, <1>11, <2>1 DEF SettledForEach, Done
  <2> QED
    BY <2>4, <2>5, <2>6, <2>7, <2>8, <2>9, <2>10 DEF IInv
<1> QED
  BY <1>13, <1>14

-----------------------------------------------------------------------------

\* Every step keeps the invariant.
LEMMA InvStep == IInv /\ [Next]_vars => IInv'
<1> SUFFICES ASSUME IInv, [Next]_vars PROVE IInv'
  OBVIOUS
<1>1. ASSUME NEW w \in Workers, WorkerStep(w) PROVE IInv'
  BY <1>1, TakeStep, ExitStep, ListStep, ListFailsStep, DeliverStep DEF WorkerStep
<1>2. ASSUME NEW e \in Events, CheckStopped(e) \/ SendEvent(e) PROVE IInv'
  BY <1>2, CheckStep, SendStep
<1>3. ASSUME UNCHANGED <<eventCh, event, worker, loaded, tries, acked>>,
             StopInv', TypeOK'
      PROVE  IInv'
  BY <1>3 DEF IInv, QueueInv, HoldInv, Busy, LoadInv, DeliverInv, Delivers, SettledForEach, Done
<1>4. CASE SetStopped
  BY <1>3, <1>4 DEF SetStopped, IInv, TypeOK, StopInv
<1>5. CASE CloseChannel
  BY <1>3, <1>5 DEF CloseChannel, IInv, TypeOK, StopInv
<1>6. CASE WaitWorkers
  BY <1>3, <1>6 DEF WaitWorkers, IInv, TypeOK, StopInv
<1>7. CASE ChangeSubscription
  BY <1>3, <1>7 DEF ChangeSubscription, IInv, TypeOK, StopInv
<1>8. CASE UNCHANGED vars
  BY <1>3, <1>8 DEF vars, IInv, TypeOK, StopInv
<1> QED
  BY <1>1, <1>2, <1>4, <1>5, <1>6, <1>7, <1>8 DEF Next, StopStep

\* The invariant holds in every reachable state.
LEMMA Invariance == Spec => []IInv
BY InvInit, InvStep, PTL DEF Spec

\* What is queued is on the channel and what is taken is with a worker, so that
\* nothing is left when the workers have gone.
LEMMA NoneLeft ==
  ASSUME IInv, \A w \in Workers : worker[w].pc = "exit"
  PROVE  \A e \in Events : event[e] \notin {"queued", "taken"}
<1> SUFFICES ASSUME NEW e \in Events PROVE event[e] # "queued" /\ event[e] # "taken"
  OBVIOUS
<1>1. Len(eventCh) = 0
  <2>1. \A w \in Workers : eventCh = <<>>
    BY DEF IInv, StopInv
  <2> QED
    BY <2>1, DispatcherAssumption
<1>2. event[e] # "queued"
  BY <1>1 DEF IInv, QueueInv
<1>3. event[e] # "taken"
  BY DEF IInv, HoldInv, Busy
<1> QED
  BY <1>2, <1>3

-----------------------------------------------------------------------------
(* The theorems. *)

\* Every reachable state is well typed: the channel never holds more than its
\* capacity, and deliver sends an event to a subscription MaxRetries + 1 times at
\* most.
THEOREM TypeCorrect == Spec => []TypeOK
BY Invariance, PTL DEF IInv

\* Stop returns with nothing on the channel and nothing in a worker's hands.
THEOREM Drained == Spec => []DrainedAtReturn
<1>1. IInv => DrainedAtReturn
  BY NoneLeft DEF DrainedAtReturn, IInv, StopInv
<1> QED
  BY <1>1, Invariance, PTL

\* Whatever Stop and the workers do side by side, no event that was accepted is
\* left to nobody, so that all that is wanted for it to be settled is that the
\* workers run.
THEOREM AllAttended == Spec => []Attended
<1>1. IInv => Attended
  <2> SUFFICES ASSUME IInv, NEW e \in Events
               PROVE  /\ event[e] = "queued" => \A w \in Workers : worker[w].pc # "exit"
                      /\ event[e] = "taken" =>
                           \E w \in Workers :
                             /\ {v \in Workers : Busy(v) /\ worker[v].event = e} = {w}
                             /\ worker[w].pc = "deliver" => Current(w) # {}
    BY DEF Attended
  <2>1. ASSUME event[e] = "queued", NEW w \in Workers, worker[w].pc = "exit"
        PROVE  FALSE
    <3>1. Len(eventCh) = 0
      BY <2>1 DEF IInv, StopInv
    <3> QED
      BY <2>1, <3>1 DEF IInv, QueueInv
  <2>2. CASE event[e] = "taken"
    <3>1. PICK w \in Workers : Busy(w) /\ worker[w].event = e
      BY <2>2 DEF IInv, HoldInv
    <3>2. {v \in Workers : Busy(v) /\ worker[v].event = e} = {w}
      BY <3>1 DEF IInv, HoldInv
    <3>3. worker[w].pc = "deliver" => Current(w) # {}
      BY DEF IInv, DeliverInv, Delivers, Current
    <3> QED
      BY <2>2, <3>2, <3>3
  <2> QED
    BY <2>1, <2>2
<1> QED
  BY <1>1, Invariance, PTL

\* processEvent gives up on a subscription only after an acknowledgement or the
\* last retry, whatever the other subscriptions of the event did.
THEOREM Settled == Spec => []SettledForEach
BY Invariance, PTL DEF IInv

\* After a 2xx no request of deliver carries the event to that subscription again.
THEOREM AcknowledgedOnce == Spec => NoRedelivery
<1>1. ASSUME IInv, [Next]_vars PROVE \A p \in acked : tries'[p] = tries[p]
  <2>1. ASSUME NEW w \in Workers, Deliver(w) PROVE \A p \in acked : tries'[p] = tries[p]
    <3>1. worker[w].pc = "deliver" /\ Delivers(w)
      BY <1>1, <2>1 DEF Deliver, IInv, DeliverInv
    <3>2. PICK s \in Current(w), ok \in BOOLEAN : Post(w, s, ok)
      BY <2>1 DEF Deliver
    <3>3. s \in worker[w].todo /\ <<worker[w].event, s>> \notin acked
      <4>1. s \in worker[w].todo
        BY <3>1, <3>2 DEF Current, Delivers
      <4> QED
        BY <3>1, <4>1 DEF Delivers
    <3>4. tries' = [tries EXCEPT ![<<worker[w].event, s>>] = @ + 1]
      BY <3>2 DEF Post
    <3> QED
      BY <1>1, <3>3, <3>4 DEF IInv, TypeOK
  <2>2. (\A w \in Workers : ~Deliver(w)) => UNCHANGED tries
    BY <1>1 DEF Next, WorkerStep, StopStep, CheckStopped, SendEvent, TakeEvent, ExitWorker,
                ListActive, ListActiveFails, SetStopped, CloseChannel, WaitWorkers,
                ChangeSubscription, vars
  <2> QED
    BY <2>1, <2>2
<1>2. IInv /\ [Next]_vars => [\A p \in acked : tries'[p] = tries[p]]_vars
  BY <1>1
<1> QED
  BY <1>2, Invariance, PTL DEF Spec, NoRedelivery

\* A request of deliver is one of those left, and no request adds any: with
\* finitely many subscriptions an event is settled after finitely many.
THEOREM Advances == Spec => DeliveryAdvances
<1> DEFINE A == \A e \in Events, s \in Subs : tries'[<<e, s>>] # tries[<<e, s>>] =>
                  RequestsLeft(e)' \subseteq RequestsLeft(e) /\ RequestsLeft(e)' # RequestsLeft(e)
<1>1. IInv /\ [Next]_vars => [A]_vars
  <2> SUFFICES ASSUME IInv, [Next]_vars, NEW e \in Events, NEW s \in Subs,
                      tries'[<<e, s>>] # tries[<<e, s>>]
               PROVE  /\ RequestsLeft(e)' \subseteq RequestsLeft(e)
                      /\ RequestsLeft(e)' # RequestsLeft(e)
    OBVIOUS
  <2>1. PICK w \in Workers : Deliver(w)
    BY DEF Next, WorkerStep, StopStep, CheckStopped, SendEvent, TakeEvent, ExitWorker,
           ListActive, ListActiveFails, SetStopped, CloseChannel, WaitWorkers,
           ChangeSubscription, vars
  <2>2. worker[w].pc = "deliver" /\ Delivers(w)
    BY <2>1 DEF Deliver, IInv, DeliverInv
  <2>3. PICK t \in Current(w), ok \in BOOLEAN : Post(w, t, ok)
    BY <2>1 DEF Deliver
  <2>4. /\ tries' = [tries EXCEPT ![<<worker[w].event, t>>] = @ + 1]
        /\ acked \subseteq acked' /\ loaded' = loaded
    BY <2>3 DEF Post
  <2>5. tries \in [Events \X Subs -> 0..(MaxRetries + 1)] /\ MaxRetries \in Nat
    BY DispatcherAssumption DEF IInv, TypeOK
  <2>6. worker[w].event = e /\ t = s /\ tries'[<<e, s>>] = tries[<<e, s>>] + 1
    BY <2>4, <2>5
  <2>7. /\ s \in loaded[e] /\ <<e, s>> \notin acked
        /\ tries[<<e, s>>] \in 0..MaxRetries
    <3>1. s \in worker[w].todo
      BY <2>2, <2>3, <2>6 DEF Current, Delivers
    <3> QED
      BY <2>2, <2>5, <2>6, <3>1 DEF Delivers
  <2>8. PICK n \in 1..(MaxRetries + 1) : n = tries[<<e, s>>] + 1
    BY <2>5, <2>7
  <2>9. <<s, n>> \in RequestsLeft(e)
    BY <2>5, <2>7, <2>8 DEF RequestsLeft
  <2>10. <<s, n>> \notin RequestsLeft(e)'
    BY <2>5, <2>6, <2>7, <2>8 DEF RequestsLeft
  <2>11. RequestsLeft(e)' \subseteq RequestsLeft(e)
    <3> SUFFICES ASSUME NEW p \in RequestsLeft(e)' PROVE p \in RequestsLeft(e)
      OBVIOUS
    <3>1. /\ p \in loaded[e] \X (1..(MaxRetries + 1))
          /\ <<e, p[1]>> \notin acked' /\ tries'[<<e, p[1]>>] < p[2]
      BY <2>4 DEF RequestsLeft
    <3>2. p[1] \in Subs /\ p[2] \in Nat
      BY <3>1, <2>5 DEF IInv, TypeOK
    <3>3. tries[<<e, p[1]>>] \in Nat /\ tries[<<e, p[1]>>] <= tries'[<<e, p[1]>>]
      BY <2>4, <2>5, <2>6, <3>2
    <3>4. tries'[<<e, p[1]>>] \in Nat
      BY <2>4, <2>5, <2>6, <3>2
    <3> QED
      BY <2>4, <3>1, <3>2, <3>3, <3>4 DEF RequestsLeft
  <2> QED
    BY <2>9, <2>10, <2>11
<1> QED
  BY <1>1, Invariance, PTL DEF Spec, DeliveryAdvances

-----------------------------------------------------------------------------
(* Dispatcher implements EventDelivery. *)

Status == {"new", "ignored", "sending", "panicked", "dropped",
           "queued", "taken", "lost", "settled"}

\* A step that moves one event moves its fate and no other.
LEMMA FateMoves ==
  ASSUME IInv, NEW e \in Events, NEW v \in Status, event' = [event EXCEPT ![e] = v]
  PROVE  Fates' = [Fates EXCEPT ![e] = FateOf(v)]
<1>1. event \in [Events -> Status]
  BY DEF IInv, TypeOK, Status
<1> QED
  BY <1>1 DEF Fates

\* ... and its fate is what its status says.
LEMMA FateIs ==
  /\ \A v \in {"new", "sending"} : FateOf(v) = "offered"
  /\ \A v \in {"ignored", "dropped", "panicked"} : FateOf(v) = "refused"
  /\ \A v \in {"queued", "taken"} : FateOf(v) = "accepted"
  /\ FateOf("lost") = "lost" /\ FateOf("settled") = "settled"
BY DEF FateOf

\* The fate of an event is that of its status.
LEMMA FateAt == \A e \in Events : Fates[e] = FateOf(event[e])
BY DEF Fates

\* A step that the fate of an event does not tell apart moves no fate.
LEMMA SameFate ==
  ASSUME IInv, NEW e \in Events, NEW v \in Status, event' = [event EXCEPT ![e] = v],
         FateOf(v) = FateOf(event[e])
  PROVE  Fates' = Fates
<1>1. Fates' = [Fates EXCEPT ![e] = Fates[e]]
  BY FateMoves, FateAt
<1> QED
  BY <1>1 DEF Fates

\* Dispatch accepts an event or refuses it, and until then only offers it.
LEMMA DispatchMaps ==
  ASSUME IInv, NEW e \in Events, CheckStopped(e) \/ SendEvent(e)
  PROVE  [Delivery!Next]_(Delivery!vars)
<1>1. UNCHANGED <<Door, loaded, tries, acked>> /\ Fates[e] = "offered"
  BY FateIs, FateAt DEF CheckStopped, SendEvent, Door
<1>2. PICK v \in {"ignored", "sending", "panicked", "dropped", "queued"} :
         event' = [event EXCEPT ![e] = v] /\ (v = "queued" => ~closed)
  BY DEF CheckStopped, SendEvent
<1>3. Fates' = [Fates EXCEPT ![e] = FateOf(v)]
  <2>1. v \in Status
    BY DEF Status
  <2> QED
    BY <1>2, <2>1, FateMoves
<1>4. CASE v = "queued"
  <2>1. Door = "open"
    BY <1>2, <1>4 DEF IInv, StopInv, TypeOK, Door
  <2>2. Delivery!Accept(e)
    BY <1>1, <1>3, <1>4, <2>1, FateIs DEF Delivery!Accept
  <2> QED
    BY <2>2 DEF Delivery!Next
<1>5. CASE v = "sending"
  <2>1. Fates' = Fates
    BY <1>1, <1>2, <1>5, SameFate, FateIs, FateAt DEF Status
  <2> QED
    BY <1>1, <2>1 DEF Delivery!vars
<1>6. CASE v \in {"ignored", "panicked", "dropped"}
  <2>1. Delivery!Refuse(e)
    BY <1>1, <1>3, <1>6, FateIs DEF Delivery!Refuse
  <2> QED
    BY <2>1 DEF Delivery!Next
<1> QED
  BY <1>2, <1>4, <1>5, <1>6

\* Which worker takes an event cannot be told from outside.
LEMMA TakeMaps ==
  ASSUME IInv, NEW w \in Workers, TakeEvent(w)
  PROVE  UNCHANGED Delivery!vars
<1> DEFINE e == Head(eventCh)
<1>1. e \in Events /\ event[e] = "queued"
  <2>1. eventCh # <<>> /\ eventCh \in Seq(Events)
    BY DEF TakeEvent, IInv, TypeOK
  <2>2. Len(eventCh) > 0 /\ e = eventCh[1] /\ e \in Events
    BY <2>1
  <2> QED
    BY <2>1, <2>2 DEF IInv, QueueInv
<1>2. event' = [event EXCEPT ![e] = "taken"]
  BY DEF TakeEvent
<1>3. Fates' = Fates
  BY <1>1, <1>2, SameFate, FateIs DEF Status
<1> QED
  BY <1>3 DEF TakeEvent, Door, Delivery!vars

\* The subscriptions loaded for an event are those it is meant for.
LEMMA ListMaps ==
  ASSUME IInv, NEW w \in Workers, ListActive(w) \/ ListActiveFails(w)
  PROVE  Delivery!Next
<1> DEFINE e == worker[w].event
           subs == {s \in active : e \in Wants[s]}
<1>1. worker[w].pc = "load" /\ UNCHANGED <<Door, tries, acked>>
  BY DEF ListActive, ListActiveFails, Door
<1>2. e \in Events /\ Fates[e] = "accepted" /\ loaded[e] = {}
  BY <1>1, FateAt, FateIs DEF IInv, HoldInv, Busy, LoadInv
<1>3. CASE ListActive(w)
  <2>1. subs \in SUBSET {s \in Subs : e \in Wants[s]}
    BY DEF IInv, TypeOK
  <2>2. loaded' = [loaded EXCEPT ![e] = subs]
    BY <1>3 DEF ListActive
  <2>3. Fates' = IF subs = {} THEN [Fates EXCEPT ![e] = "settled"] ELSE Fates
    <3>1. CASE subs = {}
      <4>1. event' = [event EXCEPT ![e] = "settled"]
        BY <1>3, <3>1 DEF ListActive
      <4> QED
        BY <1>2, <3>1, <4>1, FateMoves, FateIs DEF Status
    <3>2. CASE subs # {}
      BY <1>3, <3>2 DEF ListActive, Fates
    <3> QED
      BY <3>1, <3>2
  <2> HIDE DEF subs
  <2>4. Delivery!Address(e)
    BY <1>1, <1>2, <2>1, <2>2, <2>3 DEF Delivery!Address
  <2> QED
    BY <1>2, <2>4 DEF Delivery!Next
<1>4. CASE ListActiveFails(w)
  <2>1. event' = [event EXCEPT ![e] = "lost"] /\ UNCHANGED loaded
    BY <1>4 DEF ListActiveFails
  <2>2. Fates' = [Fates EXCEPT ![e] = "lost"]
    BY <1>2, <2>1, FateMoves, FateIs DEF Status
  <2>3. Delivery!Lose(e)
    BY <1>1, <1>2, <2>1, <2>2 DEF Delivery!Lose
  <2> QED
    BY <1>2, <2>3 DEF Delivery!Next
<1> QED
  BY <1>3, <1>4

\* A request of deliver is one to a subscription that is not done; with it the
\* event is settled exactly if that leaves none to do.
LEMMA DeliverMaps ==
  ASSUME IInv, NEW w \in Workers, Deliver(w)
  PROVE  Delivery!Next
<1>e. PICK e \in Events : e = worker[w].event
  BY DEF Deliver, IInv, HoldInv, Busy
<1> DEFINE k == worker[w]
           all == \A t \in loaded[e] : Delivery!Done(<<e, t>>)'
<1>1. /\ k.pc = "deliver" /\ e = k.event /\ Delivers(w)
      /\ Fates[e] = "accepted"
  BY <1>e, FateAt, FateIs DEF Deliver, IInv, HoldInv, Busy, DeliverInv
<1>2. PICK s \in Current(w), ok \in BOOLEAN :
        /\ Post(w, s, ok)
        /\ IF ok \/ k.attempt = MaxRetries THEN Finish(w, s) ELSE Retry(w, s)
  BY DEF Deliver
<1>3. /\ s \in k.todo /\ s \in loaded[e] /\ s \in Subs /\ k.attempt \in 0..MaxRetries
      /\ loaded[e] \subseteq Subs
      /\ <<e, s>> \notin acked /\ tries[<<e, s>>] = k.attempt
      /\ \A t \in k.todo \ {s} : <<e, t>> \notin acked /\ tries[<<e, t>>] = 0
  <2>1. s \in k.todo /\ k.sub \in {s, Nothing} /\ (k.sub = Nothing => k.attempt = 0)
    BY <1>1, <1>2 DEF Current, Delivers
  <2>2. loaded[e] \subseteq Subs /\ k.attempt \in Nat
    BY <1>1 DEF IInv, TypeOK
  <2> QED
    BY <1>1, <2>1, <2>2, DispatcherAssumption DEF Delivers
<1>4. /\ tries' = [tries EXCEPT ![<<e, s>>] = @ + 1]
      /\ acked' = IF ok THEN acked \cup {<<e, s>>} ELSE acked
      /\ UNCHANGED <<Door, loaded>>
  BY <1>1, <1>2 DEF Post, Door
<1>5. ~Delivery!Done(<<e, s>>)
  BY <1>3, DispatcherAssumption DEF Delivery!Done
<1>6. tries \in [Events \X Subs -> 0..(MaxRetries + 1)]
  BY DEF IInv, TypeOK
<1>7. Fates' = IF all THEN [Fates EXCEPT ![e] = "settled"] ELSE Fates
  <2>1. \A t \in loaded[e] \ k.todo : Delivery!Done(<<e, t>>)'
    BY <1>1, <1>3, <1>4, <1>6 DEF Delivers, Done, Delivery!Done
  <2>2. \A t \in k.todo \ {s} : ~Delivery!Done(<<e, t>>)'
    <3> SUFFICES ASSUME NEW t \in k.todo \ {s} PROVE ~Delivery!Done(<<e, t>>)'
      OBVIOUS
    <3>1. t \in Subs /\ t \in loaded[e]
      BY <1>1, <1>3 DEF Delivers
    <3> QED
      BY <1>1, <1>3, <1>4, <1>6, <3>1, DispatcherAssumption DEF Delivery!Done
  <2>3. Delivery!Done(<<e, s>>)' <=> ok \/ k.attempt = MaxRetries
    BY <1>1, <1>3, <1>4, <1>6, DispatcherAssumption DEF Delivery!Done
  <2>4. all <=> (ok \/ k.attempt = MaxRetries) /\ k.todo \ {s} = {}
    BY <1>1, <1>3, <2>1, <2>2, <2>3 DEF Delivers
  <2>5. CASE all
    <3>1. event' = [event EXCEPT ![e] = "settled"]
      BY <1>1, <1>2, <2>4, <2>5 DEF Finish
    <3> QED
      BY <1>1, <2>5, <3>1, FateMoves, FateIs DEF Status
  <2>6. CASE ~all
    <3>1. event' = event
      BY <1>2, <2>4, <2>6 DEF Finish, Retry
    <3> QED
      BY <2>6, <3>1 DEF Fates
  <2> QED
    BY <2>5, <2>6
<1>8. Delivery!Send(e, s)
  BY <1>1, <1>3, <1>4, <1>5, <1>7 DEF Delivery!Send
<1> QED
  BY <1>1, <1>3, <1>8 DEF Delivery!Next

\* Stop has returned with nothing accepted that is left.
LEMMA StopMaps ==
  ASSUME IInv, StopStep
  PROVE  Delivery!Next
<1>1. CASE CloseChannel
  <2>1. Delivery!Close
    BY <1>1 DEF CloseChannel, Door, Fates, Delivery!Close
  <2> QED
    BY <2>1 DEF Delivery!Next
<1>2. CASE WaitWorkers
  <2>1. \A w \in Workers : worker[w].pc = "exit" /\ eventCh = <<>>
    BY <1>2 DEF WaitWorkers, IInv, StopInv
  <2>2. \A e \in Events : event[e] \notin {"queued", "taken"}
    BY <2>1, NoneLeft
  <2>3. \A e \in Events : Fates[e] # "accepted"
    BY <2>2, FateAt DEF FateOf, IInv, TypeOK
  <2>4. Delivery!Closed
    BY <1>2, <2>3 DEF WaitWorkers, Door, Fates, Delivery!Closed
  <2> QED
    BY <2>4 DEF Delivery!Next
<1> QED
  BY <1>1, <1>2 DEF StopStep

\* Dispatcher implements EventDelivery: with any number of workers and a channel
\* of any size, each event is accepted or refused, and one accepted is lost whole
\* or settled, by one request at a time, before Stop returns.
THEOREM Implementation == Spec => Promise
<1>1. Init => Delivery!Init
  BY DEF Init, Delivery!Init, Fates, FateOf, Door
<1>2. IInv /\ [Next]_vars => [Delivery!Next]_(Delivery!vars)
  <2> SUFFICES ASSUME IInv, [Next]_vars PROVE [Delivery!Next]_(Delivery!vars)
    OBVIOUS
  <2>1. ASSUME NEW w \in Workers, WorkerStep(w) PROVE [Delivery!Next]_(Delivery!vars)
    <3>1. CASE TakeEvent(w)
      BY <3>1, TakeMaps
    <3>2. CASE ExitWorker(w)
      BY <3>2 DEF ExitWorker, Fates, Door, Delivery!vars
    <3>3. CASE ListActive(w) \/ ListActiveFails(w)
      BY <3>3, ListMaps
    <3>4. CASE Deliver(w)
      BY <3>4, DeliverMaps
    <3> QED
      BY <2>1, <3>1, <3>2, <3>3, <3>4 DEF WorkerStep
  <2>2. CASE \E e \in Events : CheckStopped(e) \/ SendEvent(e)
    BY <2>2, DispatchMaps
  <2>3. CASE StopStep
    BY <2>3, StopMaps
  <2>4. CASE SetStopped \/ ChangeSubscription \/ UNCHANGED vars
    BY <2>4 DEF SetStopped, ChangeSubscription, vars, Fates, Door, Delivery!vars
  <2> QED
    BY <2>1, <2>2, <2>3, <2>4 DEF Next
<1> QED
  BY <1>1, <1>2, Invariance, PTL DEF Spec, Promise, Delivery!Spec
=============================================================================
