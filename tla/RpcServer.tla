----------------------------- MODULE RpcServer ------------------------------
(***************************************************************************)
(* The way of a call through src/src/server.js and                         *)
(* src/src/rpc-pipeline.js: the checks of request(), the admission by the  *)
(* semaphore that src/src/application.js creates, the chain restoreSession,*)
(* authorize, invoke, and the shutdown of the server, which waits for the  *)
(* semaphore to be empty before it closes the connections.                 *)
(*                                                                         *)
(* A call is an HTTP request with a connection of its own.  A step goes    *)
(* from one await to the next.  The semaphore is metautil's (external).    *)
(***************************************************************************)
EXTENDS Integers, Sequences, FiniteSets, SequencesExt

CONSTANTS
    Calls,       \* the requests, each of which arrives at most once
    Concurrency, \* server.queue.concurrency
    QueueSize,   \* server.queue.size
    Kinds        \* the kinds of request that arrive

\* Packets that are no calls; from a foreign origin; malformed or of an unknown method;
\* with a method name that is no string; calls; calls whose method throws undefined.
AllKinds == {"stray", "forbidden", "rejected", "odd", "call", "nullish"}

ASSUME ServerAssumption ==
    /\ IsFiniteSet(Calls)
    /\ Concurrency \in Nat \ {0}
    /\ QueueSize \in Nat
    /\ Kinds \subseteq AllKinds

VARIABLES
    pc,      \* pc[q]: where call q is
    kind,    \* kind[q]: what call q is
    counter, \* semaphore.counter
    queue,   \* semaphore.queue: the calls that wait for a slot
    empty,   \* semaphore.empty
    phase,   \* where the shutdown is
    expired, \* the shutdown waited its five seconds in vain
    cut      \* the calls whose connection was closed before their answer

sem == <<counter, queue, empty>>
vars == <<pc, kind, sem, phase, expired, cut>>

Places == {"none", "body", "queued", "entered", "restoring", "invoking", "answered", "failed"}

\* The calls that hold a slot.
Inside == {q \in Calls : pc[q] \in {"entered", "restoring", "invoking"}}
Queued == {q \in Calls : pc[q] = "queued"}

\* The types, and that the calls that say they wait are those in the queue.
TypeOK ==
    /\ pc \in [Calls -> Places]
    /\ kind \in [Calls -> AllKinds]
    /\ counter \in Int
    /\ queue \in Seq(Calls) /\ Len(queue) <= QueueSize
    /\ ToSet(queue) = Queued /\ IsInjective(queue)
    /\ empty \in BOOLEAN /\ expired \in BOOLEAN
    /\ phase \in {"running", "draining", "closed"}
    /\ cut \subseteq Calls

Init ==
    /\ pc = [q \in Calls |-> "none"]
    /\ kind \in [Calls -> Kinds]
    /\ counter = Concurrency
    /\ queue = <<>>
    /\ empty = TRUE
    /\ phase = "running"
    /\ expired = FALSE
    /\ cut = {}
-----------------------------------------------------------------------------
(* The semaphore.                                                           *)

\* enter: a slot, a place in the queue, or an error that answers 503.
Enter(q) ==
    CASE counter > 0 ->
           /\ counter' = counter - 1
           /\ empty' = FALSE
           /\ pc' = [pc EXCEPT ![q] = "entered"]
           /\ UNCHANGED queue
      [] counter <= 0 /\ Len(queue) >= QueueSize ->
           /\ pc' = [pc EXCEPT ![q] = "answered"]
           /\ UNCHANGED sem
      [] OTHER ->
           /\ queue' = Append(queue, q)
           /\ empty' = FALSE
           /\ pc' = [pc EXCEPT ![q] = "queued"]
           /\ UNCHANGED counter

\* Mutants of Leave: nobody who waits is let in; who is let in is not told; empty is
\* computed from the old counter.
LeaveKeepsQueue(q, place) ==
    /\ pc' = [pc EXCEPT ![q] = place]
    /\ counter' = counter + 1
    /\ empty' = (queue = <<>> /\ counter + 1 = Concurrency)
    /\ UNCHANGED queue

LeaveForgets(q, place) ==
    /\ pc' = [pc EXCEPT ![q] = place]
    /\ IF queue = <<>> THEN counter' = counter + 1 /\ UNCHANGED queue
       ELSE queue' = Tail(queue) /\ UNCHANGED counter
    /\ empty' = (queue = <<>> /\ counter + 1 = Concurrency)

LeaveOldCounter(q, place) ==
    IF queue = <<>>
    THEN /\ counter' = counter + 1
         /\ empty' = (counter = Concurrency)
         /\ pc' = [pc EXCEPT ![q] = place]
         /\ UNCHANGED queue
    ELSE /\ queue' = Tail(queue)
         /\ empty' = (Tail(queue) = <<>> /\ counter = Concurrency)
         /\ pc' = [pc EXCEPT ![q] = place, ![Head(queue)] = "entered"]
         /\ UNCHANGED counter

\* leave, when call q goes to place: the slot is given to the first call that waits,
\* or becomes free.
Leave(q, place) ==
    IF queue = <<>>
    THEN /\ counter' = counter + 1
         /\ empty' = (counter + 1 = Concurrency)
         /\ pc' = [pc EXCEPT ![q] = place]
         /\ UNCHANGED queue
    ELSE /\ queue' = Tail(queue)
         /\ empty' = (Tail(queue) = <<>> /\ counter = Concurrency)
         /\ pc' = [pc EXCEPT ![q] = place, ![Head(queue)] = "entered"]
         /\ UNCHANGED counter

\* leave twice: the slot of q is given up in a finally block and again in a catch.
LeaveTwice(q) ==
    LET let == SubSeq(queue, 1, IF Len(queue) < 2 THEN Len(queue) ELSE 2)
        free == counter + 2 - Len(let)
    IN /\ queue' = SubSeq(queue, Len(let) + 1, Len(queue))
       /\ counter' = free
       /\ empty' = (queue' = <<>> /\ free = Concurrency)
       /\ pc' = [c \in Calls |-> CASE c = q -> "failed"
                                   [] c \in ToSet(let) -> "entered"
                                   [] OTHER -> pc[c]]

rest == <<kind, phase, expired, cut>>
-----------------------------------------------------------------------------
(* A call.                                                                  *)

\* The request arrives: a client is created, and its body awaited.
Arrive(q) ==
    /\ pc[q] = "none"
    /\ phase # "closed"
    /\ pc' = [pc EXCEPT ![q] = "body"]
    /\ UNCHANGED <<sem, rest>>

\* The body is there: request() refuses a foreign origin, which leaves a semaphore it
\* has not entered, and packets that are no calls; rpc() enters the semaphore.
Request(q) ==
    /\ pc[q] = "body"
    /\ q \notin cut
    /\ CASE kind[q] = "forbidden" -> Leave(q, "answered")
         [] kind[q] = "stray" -> pc' = [pc EXCEPT ![q] = "answered"] /\ UNCHANGED sem
         [] OTHER -> Enter(q)
    /\ UNCHANGED rest

\* Mutant of TimeOut: the call stays in the queue.
TimeOutStays ==
    /\ queue # <<>>
    /\ pc' = [pc EXCEPT ![Head(queue)] = "answered"]
    /\ UNCHANGED <<sem, rest>>

\* The call that has waited longest has waited too long: it is answered 503.
TimeOut ==
    /\ queue # <<>>
    /\ queue' = Tail(queue)
    /\ empty' = (Tail(queue) = <<>> /\ counter = Concurrency)
    /\ pc' = [pc EXCEPT ![Head(queue)] = "answered"]
    /\ UNCHANGED <<counter, rest>>

\* Mutant of Dispatch: an unknown method keeps its slot.
DispatchKeepsSlot(q) ==
    /\ pc[q] = "entered"
    /\ IF kind[q] = "rejected" THEN pc' = [pc EXCEPT ![q] = "answered"] /\ UNCHANGED sem
       ELSE IF kind[q] = "odd" THEN Leave(q, "failed")
       ELSE pc' = [pc EXCEPT ![q] = "restoring"] /\ UNCHANGED sem
    /\ UNCHANGED rest

\* rpc() goes on: a malformed packet or an unknown method is answered 400 or 404; a
\* method name that is no string throws, and nobody answers; else the chain begins.
Dispatch(q) ==
    /\ pc[q] = "entered"
    /\ CASE kind[q] = "rejected" -> Leave(q, "answered")
         [] kind[q] = "odd" -> Leave(q, "failed")
         [] OTHER -> pc' = [pc EXCEPT ![q] = "restoring"] /\ UNCHANGED sem
    /\ UNCHANGED rest

\* restoreSession returns and authorize decides: it lets the call through, or halts it
\* with 401 or 403, or throws.
Authorize(q) ==
    /\ pc[q] = "restoring"
    /\ \/ pc' = [pc EXCEPT ![q] = "invoking"] /\ UNCHANGED sem
       \/ Leave(q, "answered")
       \/ Leave(q, "failed")
    /\ UNCHANGED rest

\* invoke: the method returned, or threw an error, which is its answer; of a method
\* that throws null or undefined, the catch block throws again.
Return(q) ==
    /\ pc[q] = "invoking"
    /\ IF kind[q] = "nullish" THEN LeaveTwice(q) ELSE Leave(q, "answered")
    /\ UNCHANGED rest
-----------------------------------------------------------------------------
(* Shutdown.                                                                *)

\* closeClients destroys every connection that is open, and the server stops
\* listening.
CloseAll ==
    /\ phase' = "closed"
    /\ cut' = {q \in Calls : pc[q] \notin {"none", "answered"}}

\* shutdown: it waits only if the semaphore is not empty.
Shutdown ==
    /\ phase = "running"
    /\ IF empty THEN CloseAll ELSE phase' = "draining" /\ UNCHANGED cut
    /\ UNCHANGED <<pc, kind, sem, expired>>

\* Mutant of Drained: the connections are closed as soon as no call waits for a slot.
DrainedOfQueue ==
    /\ phase = "draining"
    /\ queue = <<>>
    /\ CloseAll
    /\ UNCHANGED <<pc, kind, sem, expired>>

\* _waitForCondition finds the semaphore empty.
Drained ==
    /\ phase = "draining"
    /\ empty
    /\ CloseAll
    /\ UNCHANGED <<pc, kind, sem, expired>>

\* _waitForCondition gives up.
Expire ==
    /\ phase = "draining"
    /\ ~empty
    /\ expired' = TRUE
    /\ CloseAll
    /\ UNCHANGED <<pc, kind, sem>>

\* Every call is over, and the server may stay up without another one.
Done ==
    /\ \A q \in Calls : pc[q] \in {"answered", "failed"} \/ q \in cut \/ phase = "closed"
    /\ UNCHANGED vars

Next ==
    \/ \E q \in Calls : Arrive(q) \/ Request(q) \/ Dispatch(q) \/ Authorize(q) \/ Return(q)
    \/ TimeOut \/ Shutdown \/ Drained \/ Expire
    \/ Done

\* Bodies arrive, awaited calls return, and the timers of the semaphore and of the
\* shutdown fire.
Fairness ==
    /\ \A q \in Calls : /\ WF_vars(Request(q)) /\ WF_vars(Dispatch(q))
                        /\ WF_vars(Authorize(q)) /\ WF_vars(Return(q))
    /\ WF_vars(TimeOut) /\ WF_vars(Drained) /\ WF_vars(Expire)

Spec == Init /\ [][Next]_vars /\ Fairness
-----------------------------------------------------------------------------
(* Properties.                                                              *)

\* Every way out of rpc() gives back the slot the call took, once: no more than
\* Concurrency calls are ever inside, and none of the slots is lost.
SlotsConserved == counter >= 0 /\ counter + Cardinality(Inside) = Concurrency

\* A call waits only while every slot is taken.
WaitsOnlyWhenFull == queue # <<>> => counter = 0

\* What the shutdown looks at is right: the semaphore says it is empty exactly when no
\* call is inside or waits.
EmptyIsIdle == empty <=> Inside = {} /\ queue = <<>>

\* The shutdown closes the connection of a call that is inside or waits only if the
\* five seconds are over.
DrainWaits ==
    [][phase # "closed" /\ phase' = "closed" /\ ~expired' => Inside = {} /\ queue = <<>>]_vars

\* Every request is answered, unless the shutdown closes its connection or the call
\* threw.
Answered ==
    \A q \in Calls : pc[q] = "body" ~> (pc[q] \in {"answered", "failed"} \/ q \in cut)
=============================================================================
