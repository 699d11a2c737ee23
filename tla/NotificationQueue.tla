------------------------- MODULE NotificationQueue --------------------------
(***************************************************************************)
(* The in-memory queue between the event bus and the notification          *)
(* dispatcher: src/lib/notification/queue.js, driven by                    *)
(* src/lib/notification/pipeline.js and stopped by src/src/application.js. *)
(*                                                                         *)
(* JavaScript runs one callback at a time; a step of this module is what   *)
(* runs from one await, timer or external call to the next.  When several  *)
(* promises are resolved their continuations may run in any order: that    *)
(* covers every order the engine's job queue can produce.                  *)
(***************************************************************************)
EXTENDS Integers, Sequences, FiniteSets

CONSTANTS
    Items,       \* messages; each is published once
    Workers,     \* the worker loops that process() starts
    MaxSize,     \* queue.maxSize; 0 is no limit
    MaxAttempts, \* queue.maxAttempts
    NoItem

ASSUME QueueAssumption ==
    /\ IsFiniteSet(Items) /\ IsFiniteSet(Workers)
    /\ MaxSize \in Nat
    /\ MaxAttempts \in Nat \ {0}
    /\ NoItem \notin Items

VARIABLES
    caller,       \* caller[i]: where the call of enqueue for i is
    queue,        \* _queue
    waiting,      \* _waiting: the workers that found the queue empty
    spaceWaiters, \* _spaceWaiters: the calls of enqueue that found it full
    timers,       \* _timers: the items whose retry is scheduled
    attempt,      \* attempt[i]: item.attempt
    worker,       \* worker[w]: where the worker loop is
    job,          \* job[w]: the item its dequeue returned, or will return
    closing,      \* the dropped items whose onFailed is awaited
    settled,      \* history: what became of each item
    calls,        \* history: calls[i], how many times the handler was called with i
    metrics,      \* _metrics
    aborted,      \* the processor's signal
    stopped       \* _stopped

work == <<worker, job>>
vars == <<caller, queue, waiting, spaceWaiters, timers, attempt, work, closing,
          settled, calls, metrics, aborted, stopped>>

Callers == {"none", "new", "waiting", "granted", "in", "refused"}
Loops == {"waiting", "resumed", "busy", "ended"}
Fates == {"no", "processed", "dropped", "lost"}

\* The types of the variables, and what a worker loop holds where it is.
TypeOK ==
    /\ caller \in [Items -> Callers]
    /\ queue \in Seq(Items)
    /\ waiting \in Seq(Workers)
    /\ spaceWaiters \in Seq(Items)
    /\ timers \in SUBSET Items
    /\ attempt \in [Items -> Nat]
    /\ worker \in [Workers -> Loops]
    /\ job \in [Workers -> Items \cup {NoItem}]
    /\ closing \in SUBSET Items
    /\ settled \in [Items -> Fates]
    /\ calls \in [Items -> Nat]
    /\ metrics \in [enqueued: Nat, processed: Nat, retried: Nat, dropped: Nat, inFlight: Nat]
    /\ aborted \in BOOLEAN
    /\ stopped \in BOOLEAN
    /\ \A w \in Workers :
          /\ worker[w] = "busy" => job[w] \in Items
          /\ worker[w] \in {"waiting", "ended"} => job[w] = NoItem

\* A worker loop started by process() finds the queue empty and waits; the order
\* in which the workers do so is the order they are started in.
Init ==
    /\ caller = [i \in Items |-> "none"]
    /\ queue = <<>>
    /\ waiting \in {s \in [1..Cardinality(Workers) -> Workers] :
                      \A w \in Workers : \E k \in DOMAIN s : s[k] = w}
    /\ spaceWaiters = <<>>
    /\ timers = {}
    /\ attempt = [i \in Items |-> 0]
    /\ worker = [w \in Workers |-> "waiting"]
    /\ job = [w \in Workers |-> NoItem]
    /\ closing = {}
    /\ settled = [i \in Items |-> "no"]
    /\ calls = [i \in Items |-> 0]
    /\ metrics = [enqueued |-> 0, processed |-> 0, retried |-> 0, dropped |-> 0,
                  inFlight |-> 0]
    /\ aborted = FALSE
    /\ stopped = FALSE
-----------------------------------------------------------------------------
Full == MaxSize > 0 /\ Len(queue) >= MaxSize

\* _flushWaiting after q has become the queue: as many items as there are workers
\* waiting, in order.  No worker in _waiting is aborted: the abort empties it.
Flush(q) ==
    LET n == IF Len(q) <= Len(waiting) THEN Len(q) ELSE Len(waiting)
        Served(w) == \E k \in 1..n : waiting[k] = w
        ItemFor(w) == q[CHOOSE k \in 1..n : waiting[k] = w]
    IN /\ queue' = SubSeq(q, n + 1, Len(q))
       /\ waiting' = SubSeq(waiting, n + 1, Len(waiting))
       /\ worker' = [w \in Workers |-> IF Served(w) THEN "resumed" ELSE worker[w]]
       /\ job' = [w \in Workers |-> IF Served(w) THEN ItemFor(w) ELSE job[w]]

\* _resolveSpace: the caller that has waited longest may push, if there is room.
ResolveSpace ==
    IF spaceWaiters = <<>> \/ Full
    THEN UNCHANGED <<spaceWaiters, caller>>
    ELSE /\ spaceWaiters' = Tail(spaceWaiters)
         /\ caller' = [caller EXCEPT ![Head(spaceWaiters)] = "granted"]

\* _rejectWaiters for the callers: their enqueue throws.
RejectCallers ==
    /\ spaceWaiters' = <<>>
    /\ caller' = [i \in Items |-> IF caller[i] = "waiting" THEN "refused" ELSE caller[i]]

\* The worker loop once it has dealt with an item: it ends when the signal is
\* aborted; otherwise it dequeues, and waits if there is nothing.
Loop(w) ==
    IF aborted
    THEN /\ worker' = [worker EXCEPT ![w] = "ended"]
         /\ job' = [job EXCEPT ![w] = NoItem]
         /\ UNCHANGED <<queue, waiting>>
    ELSE IF queue # <<>>
    THEN /\ worker' = [worker EXCEPT ![w] = "resumed"]
         /\ job' = [job EXCEPT ![w] = Head(queue)]
         /\ queue' = Tail(queue)
         /\ UNCHANGED waiting
    ELSE /\ worker' = [worker EXCEPT ![w] = IF stopped THEN "resumed" ELSE "waiting"]
         /\ job' = [job EXCEPT ![w] = NoItem]
         /\ waiting' = IF stopped THEN waiting ELSE Append(waiting, w)
         /\ UNCHANGED queue

Count(field, by) == [metrics EXCEPT ![field] = @ + by]
-----------------------------------------------------------------------------
(* Producers.                                                               *)

\* The bus hands an event to the pipeline, which transforms it and then enqueues.
Publish(i) ==
    /\ caller[i] = "none"
    /\ ~aborted
    /\ caller' = [caller EXCEPT ![i] = "new"]
    /\ UNCHANGED <<queue, waiting, spaceWaiters, timers, attempt, work, closing,
                   settled, calls, metrics, aborted, stopped>>

Push(i) ==
    /\ caller' = [caller EXCEPT ![i] = "in"]
    /\ metrics' = Count("enqueued", 1)
    /\ Flush(Append(queue, i))
    /\ UNCHANGED <<spaceWaiters, timers, attempt, closing, settled, calls, aborted, stopped>>

\* Mutant of Enqueue: the call is counted before it waits for room.
EnqueueCountedFirst(i) ==
    /\ caller[i] = "new"
    /\ IF ~stopped /\ Full
       THEN /\ caller' = [caller EXCEPT ![i] = "waiting"]
            /\ spaceWaiters' = Append(spaceWaiters, i)
            /\ metrics' = Count("enqueued", 1)
            /\ UNCHANGED <<queue, waiting, timers, attempt, work, closing,
                           settled, calls, aborted, stopped>>
       ELSE Push(i)

Enqueue(i) ==
    /\ caller[i] = "new"
    /\ CASE stopped ->
              /\ caller' = [caller EXCEPT ![i] = "refused"]
              /\ UNCHANGED <<queue, waiting, spaceWaiters, timers, attempt, work,
                             closing, settled, calls, metrics, aborted, stopped>>
         [] ~stopped /\ Full ->
              /\ caller' = [caller EXCEPT ![i] = "waiting"]
              /\ spaceWaiters' = Append(spaceWaiters, i)
              /\ UNCHANGED <<queue, waiting, timers, attempt, work, closing,
                             settled, calls, metrics, aborted, stopped>>
         [] OTHER -> Push(i)

\* enqueue goes on after _waitForSpace: it pushes without looking again.
Granted(i) ==
    /\ caller[i] = "granted"
    /\ Push(i)
-----------------------------------------------------------------------------
(* Workers.                                                                 *)

\* dequeue returned: the handler is called, or the loop ends.
Start(w) ==
    /\ worker[w] = "resumed"
    /\ worker' = [worker EXCEPT ![w] = IF job[w] = NoItem THEN "ended" ELSE "busy"]
    /\ metrics' = IF job[w] = NoItem THEN metrics ELSE Count("inFlight", 1)
    /\ calls' = [i \in Items |-> IF i = job[w] THEN calls[i] + 1 ELSE calls[i]]
    /\ UNCHANGED <<caller, queue, waiting, spaceWaiters, timers, attempt, job,
                   closing, settled, aborted, stopped>>

Succeed(w) ==
    /\ worker[w] = "busy"
    /\ metrics' = [metrics EXCEPT !.processed = @ + 1, !.inFlight = @ - 1]
    /\ settled' = [settled EXCEPT ![job[w]] = "processed"]
    /\ ResolveSpace
    /\ Loop(w)
    /\ UNCHANGED <<timers, attempt, closing, calls, aborted, stopped>>

\* A worker loop that an exception has ended.
Crash(w) ==
    /\ worker' = [worker EXCEPT ![w] = "ended"]
    /\ job' = [job EXCEPT ![w] = NoItem]
    /\ UNCHANGED <<queue, waiting>>

Discard(i) ==
    /\ metrics' = [metrics EXCEPT !.dropped = @ + 1, !.inFlight = @ - 1]
    /\ settled' = [settled EXCEPT ![i] = "dropped"]
    /\ closing' = closing \cup {i}

Reschedule(i) ==
    /\ metrics' = [metrics EXCEPT !.retried = @ + 1, !.inFlight = @ - 1]
    /\ timers' = timers \cup {i}

\* Mutants of Fail: the return after dropping is missing; one attempt too many; the
\* rethrown error ends the loop; inFlight is decremented in a finally block too.
FailNoReturn(w) ==
    /\ worker[w] = "busy"
    /\ IF attempt[job[w]] + 1 >= MaxAttempts
       THEN /\ Discard(job[w])
            /\ timers' = timers \cup {job[w]}
       ELSE Reschedule(job[w]) /\ UNCHANGED <<settled, closing>>
    /\ Loop(w)
    /\ UNCHANGED <<caller, spaceWaiters, attempt, calls, aborted, stopped>>

FailOneMore(w) ==
    /\ worker[w] = "busy"
    /\ IF attempt[job[w]] >= MaxAttempts
       THEN Discard(job[w]) /\ UNCHANGED timers
       ELSE Reschedule(job[w]) /\ UNCHANGED <<settled, closing>>
    /\ Loop(w)
    /\ UNCHANGED <<caller, spaceWaiters, attempt, calls, aborted, stopped>>

FailEndsLoop(w) ==
    /\ worker[w] = "busy"
    /\ IF attempt[job[w]] + 1 >= MaxAttempts
       THEN Discard(job[w]) /\ UNCHANGED timers
       ELSE Reschedule(job[w]) /\ UNCHANGED <<settled, closing>>
    /\ Crash(w)
    /\ UNCHANGED <<caller, spaceWaiters, attempt, calls, aborted, stopped>>

FailCountedTwice(w) ==
    /\ worker[w] = "busy"
    /\ metrics' = [metrics EXCEPT !.inFlight = @ - 2]
    /\ timers' = timers \cup {job[w]}
    /\ Loop(w)
    /\ UNCHANGED <<caller, spaceWaiters, attempt, closing, settled, calls, aborted,
                   stopped>>

\* The handler threw: _handleFailure drops the item or schedules a retry.
Fail(w) ==
    /\ worker[w] = "busy"
    /\ IF attempt[job[w]] + 1 >= MaxAttempts
       THEN Discard(job[w]) /\ UNCHANGED timers
       ELSE Reschedule(job[w]) /\ UNCHANGED <<settled, closing>>
    /\ Loop(w)
    /\ UNCHANGED <<caller, spaceWaiters, attempt, calls, aborted, stopped>>

\* Mutant of Closed: dropping an item makes no room.
ClosedSilently(i) ==
    /\ i \in closing
    /\ closing' = closing \ {i}
    /\ UNCHANGED <<caller, queue, waiting, spaceWaiters, timers, attempt, work,
                   settled, calls, metrics, aborted, stopped>>

\* onFailed returned for a dropped item.
Closed(i) ==
    /\ i \in closing
    /\ closing' = closing \ {i}
    /\ ResolveSpace
    /\ UNCHANGED <<queue, waiting, timers, attempt, work, settled, calls, metrics,
                   aborted, stopped>>

\* Mutant of Retry: no worker is woken up.
RetryWakesNobody(i) ==
    /\ i \in timers
    /\ timers' = timers \ {i}
    /\ attempt' = [attempt EXCEPT ![i] = @ + 1]
    /\ queue' = <<i>> \o queue
    /\ UNCHANGED <<caller, waiting, spaceWaiters, work, closing, settled, calls,
                   metrics, aborted, stopped>>

\* The retry timer of an item fires: it goes to the front.
Retry(i) ==
    /\ i \in timers
    /\ timers' = timers \ {i}
    /\ attempt' = [attempt EXCEPT ![i] = @ + 1]
    /\ Flush(<<i>> \o queue)
    /\ UNCHANGED <<caller, spaceWaiters, closing, settled, calls, metrics, aborted, stopped>>
-----------------------------------------------------------------------------
(* Shutdown.                                                                *)

\* Mutant of StopProcessing: the workers that wait stay in _waiting.
StopLeavesWaiting ==
    /\ ~aborted
    /\ aborted' = TRUE
    /\ RejectCallers
    /\ UNCHANGED <<queue, waiting, timers, attempt, work, closing, settled, calls,
                   metrics, stopped>>

\* pipeline.stop: unsubscribe and abort.  Every worker that waits is resolved with
\* null, every caller that waits is rejected.
StopProcessing ==
    /\ ~aborted
    /\ aborted' = TRUE
    /\ waiting' = <<>>
    /\ worker' = [w \in Workers |-> IF worker[w] = "waiting" THEN "resumed" ELSE worker[w]]
    /\ RejectCallers
    /\ UNCHANGED <<queue, timers, attempt, job, closing, settled, calls, metrics, stopped>>

\* queue.stop, which application.shutdown calls once every worker loop has ended.  A
\* caller was let in before the last of them ended, so it has run by then.
StopQueue ==
    /\ aborted /\ ~stopped
    /\ \A w \in Workers : worker[w] = "ended"
    /\ \A i \in Items : caller[i] # "granted"
    /\ stopped' = TRUE
    /\ RejectCallers
    /\ timers' = {}
    /\ queue' = <<>>
    /\ settled' = [i \in Items |-> IF caller[i] = "in" /\ settled[i] = "no"
                                   THEN "lost" ELSE settled[i]]
    /\ UNCHANGED <<waiting, attempt, work, closing, calls, metrics, aborted>>

\* Nothing is left to do.
Done ==
    /\ stopped
    /\ \A i \in Items : caller[i] # "new"
    /\ closing = {}
    /\ UNCHANGED vars

Next ==
    \/ \E i \in Items : Publish(i) \/ Enqueue(i) \/ Granted(i) \/ Closed(i) \/ Retry(i)
    \/ \E w \in Workers : Start(w) \/ Succeed(w) \/ Fail(w)
    \/ StopProcessing
    \/ StopQueue
    \/ Done

\* Continuations run, timers fire, and a handler returns or throws.  Nothing makes
\* an event happen or the server stop, but a shutdown that has begun goes on.
Fairness ==
    /\ \A i \in Items : WF_vars(Enqueue(i)) /\ WF_vars(Granted(i))
                        /\ WF_vars(Closed(i)) /\ WF_vars(Retry(i))
    /\ \A w \in Workers : WF_vars(Start(w)) /\ WF_vars(Succeed(w) \/ Fail(w))
    /\ WF_vars(StopQueue)

Spec == Init /\ [][Next]_vars /\ Fairness
-----------------------------------------------------------------------------
(* Properties.                                                              *)

InQueue(i) == {k \in DOMAIN queue : queue[k] = i}
HeldBy(i) == {w \in Workers : job[w] = i}
Accepted == {i \in Items : caller[i] = "in"}
Busy == {w \in Workers : worker[w] = "busy"}

Places(i) ==
    Cardinality(InQueue(i)) + Cardinality(HeldBy(i))
    + (IF i \in timers THEN 1 ELSE 0) + (IF settled[i] # "no" THEN 1 ELSE 0)

\* Through retries, hand-overs to waiting workers and the shutdown, an accepted item
\* is in exactly one place: once in _queue, with one worker, behind one timer, or
\* settled; and an item that was not accepted is nowhere.
SinglePlace == \A i \in Items : Places(i) = IF caller[i] = "in" THEN 1 ELSE 0

\* No worker sleeps while an item is in _queue: no push, retry or dequeue loses a
\* wake-up.
NoIdleWorker == queue # <<>> => waiting = <<>>

\* What getStats reports adds up: every item enqueued is processed, dropped or still
\* inside, every retry is a timer set, and inFlight counts the handlers running.
Accounting ==
    /\ metrics.enqueued = Cardinality(Accepted)
    /\ metrics.processed = Cardinality({i \in Items : settled[i] = "processed"})
    /\ metrics.dropped = Cardinality({i \in Items : settled[i] = "dropped"})
    /\ metrics.inFlight = Cardinality(Busy)

\* Once pipeline.stop has been called, no worker takes another item.
StopTakesNothing ==
    [][\A w \in Workers : aborted /\ job[w] = NoItem => job'[w] = NoItem]_vars

\* The queue keeps the promises of Delivery, calls being the handler's calls.
Status(i) ==
    CASE caller[i] = "refused" -> "refused"
      [] caller[i] \in {"none", "new", "waiting", "granted"} -> "outside"
      [] OTHER -> CASE settled[i] = "no" -> "accepted"
                    [] settled[i] = "processed" -> "delivered"
                    [] settled[i] = "dropped" -> "dropped"
                    [] settled[i] = "lost" -> "lost"

D == INSTANCE Delivery WITH status <- [i \in Items |-> Status(i)],
                            tries <- calls, down <- stopped

\* Whatever the queue does is a behaviour of Delivery.
Implements == D!Spec

\* A call of enqueue that waits for room does not wait forever: finished and dropped
\* items let it in, or the shutdown sends it away.
WaiterLetIn == \A i \in Items : caller[i] = "waiting" ~> caller[i] # "waiting"

\* Every accepted item is processed, dropped or, when the queue is stopped, lost.
Settled == \A i \in Items : caller[i] = "in" ~> settled[i] # "no"
=============================================================================
