------------------------------ MODULE Delivery ------------------------------
(***************************************************************************)
(* What the notification queue (src/lib/notification/queue.js) promises    *)
(* about each message, whatever its queues, timers and workers do inside:  *)
(* a message that was accepted is given to the handler at most MaxAttempts *)
(* times; it is delivered once, or dropped after exactly that many failed  *)
(* attempts; and only shutting the queue down loses it.                    *)
(***************************************************************************)
EXTENDS Naturals

CONSTANTS Items, MaxAttempts

VARIABLES
    status, \* status[i]: what became of message i
    tries,  \* tries[i]: how many times the handler was called with it
    down    \* the queue has been stopped

vars == <<status, tries, down>>

Statuses == {"outside", "refused", "accepted", "delivered", "dropped", "lost"}

Init ==
    /\ status = [i \in Items |-> "outside"]
    /\ tries = [i \in Items |-> 0]
    /\ down = FALSE

Becomes(i, s) == status' = [status EXCEPT ![i] = s]

Accept(i) ==
    /\ status[i] = "outside"
    /\ Becomes(i, "accepted")
    /\ UNCHANGED <<tries, down>>

\* Every caller that waits for room may be sent away at once.
Refuse ==
    /\ \E S \in SUBSET {i \in Items : status[i] = "outside"} :
          status' = [i \in Items |-> IF i \in S THEN "refused" ELSE status[i]]
    /\ UNCHANGED <<tries, down>>

Try(i) ==
    /\ status[i] = "accepted"
    /\ tries[i] < MaxAttempts
    /\ tries' = [tries EXCEPT ![i] = @ + 1]
    /\ UNCHANGED <<status, down>>

Deliver(i) ==
    /\ status[i] = "accepted"
    /\ tries[i] > 0
    /\ Becomes(i, "delivered")
    /\ UNCHANGED <<tries, down>>

Drop(i) ==
    /\ status[i] = "accepted"
    /\ tries[i] = MaxAttempts
    /\ Becomes(i, "dropped")
    /\ UNCHANGED <<tries, down>>

\* Shutting down refuses whoever still waits and loses what is still inside.
Shutdown ==
    /\ ~down
    /\ down' = TRUE
    /\ \E S \in SUBSET {i \in Items : status[i] = "outside"} :
          status' = [i \in Items |-> CASE i \in S -> "refused"
                                       [] status[i] = "accepted" -> "lost"
                                       [] OTHER -> status[i]]
    /\ UNCHANGED tries

Next ==
    \/ \E i \in Items : Accept(i) \/ Try(i) \/ Deliver(i) \/ Drop(i)
    \/ Refuse
    \/ Shutdown

Spec == Init /\ [][Next]_vars
=============================================================================
