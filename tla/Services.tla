------------------------------ MODULE Services ------------------------------
(***************************************************************************)
(* Three parts of the process that share no state: its life with the       *)
(* scheduler, the push subscriptions, and the event bus.  A step of one    *)
(* means nothing to the others, so a behaviour is that of one of them      *)
(* while the others have not begun.                                        *)
(***************************************************************************)
EXTENDS Naturals, Sequences, FiniteSets, TLC

CONSTANTS
  TaskNames, MaxRecords, Heartbeat, MaxCalls, MaxPasses,
  Users, Places, Endpoints, Categories, Handlers, FirstRows, Menus, MaxRequests,
  Listeners, Entities, Actions, MaxListeners, MaxAdded, MaxEmits

VARIABLES
  part,
  tasks, record, boot, parts, closed, server, passes, exit, quiet, gaveUp,
  rows, cache, call, sends, menu, left,
  events, held, emits, publishers, errors, added, lost

\* The parts; the first two with their theorems, which those of ServicesProofs rest on.
Process == INSTANCE LifeCycleProofs WITH MaxRequests <- MaxCalls
Push == INSTANCE PushSubscriptionsProofs
Bus == INSTANCE EventBus

processVars == <<tasks, record, boot, parts, closed, server, passes, exit, quiet, gaveUp>>
pushVars == <<rows, cache, call, sends, menu, left>>
busVars == <<events, held, emits, publishers, errors, added, lost>>
vars == <<part, processVars, pushVars, busVars>>

Init ==
  /\ part \in {"process", "push", "bus"}
  /\ Process!Init /\ Push!Init /\ Bus!Init
  /\ part # "push" =>
       /\ rows = CHOOSE first \in FirstRows : TRUE
       /\ menu = CHOOSE requests \in Menus : TRUE

Next ==
  \/ part = "process" /\ Process!Next /\ UNCHANGED <<part, pushVars, busVars>>
  \/ part = "push" /\ Push!Next /\ UNCHANGED <<part, processVars, busVars>>
  \/ part = "bus" /\ Bus!Next /\ UNCHANGED <<part, processVars, pushVars>>

Spec == Init /\ [][Next]_vars

----------------------------------------------------------------------------
(* Properties: those of the parts *)

\* The state of each part is of its type, and counters are within their bounds.
TypeOK == Process!TypeOK /\ Push!TypeOK /\ Bus!TypeOK

\* Tasks wait for their timers when they should and not otherwise (scheduler.js).
TasksScheduled == Process!TasksScheduled

\* Stores outlive the requests in progress (application.js shutdown).
DrainedBeforeStores == Process!DrainedBeforeStores

\* Devices and the cached receivers of broadcasts agree with the subscriptions
\* (saveSubscription.js, query-optimizer.js).
SubscriptionsKept == Push!SubscriptionsKept

\* Publishers wait for listeners and learn of their errors (event-bus.js).
OutcomesSeen == Bus!OutcomesSeen
=============================================================================
