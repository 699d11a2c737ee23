---------------------------- MODULE EmailOutbox -----------------------------
(***************************************************************************)
(* The email outbox: the table notification_email_outbox, the statements   *)
(* of application/lib/repository/notification/emailOutbox, the loop of     *)
(* application/domain/notification/processEmailOutbox.js, and its two      *)
(* callers, the timer of src/lib/notification/email-outbox-processor.js    *)
(* and the API call notification/processEmailOutbox.                       *)
(*                                                                         *)
(* Every await is a step: the database, the SMTP server and the other      *)
(* caller may do anything between two of them.  A statement is atomic; a   *)
(* transaction that fails may still have been committed.                   *)
(***************************************************************************)
EXTENDS Integers, FiniteSets, FiniteSetsExt

CONSTANTS
    Rows,        \* emails, numbered in the order listPending returns them
    MaxAttempts, \* the column max_attempts
    Batch,       \* the limit of listPending
    MaxErrors,   \* bound: database errors and lost SMTP replies
    MaxCalls,    \* bound: calls of the API method
    MaxStops,    \* bound: shutdowns of the process
    MaxSwitches  \* bound: changes of the email settings

ASSUME OutboxAssumption ==
    /\ Rows \subseteq Nat \ {0} /\ IsFiniteSet(Rows)
    /\ MaxAttempts \in Nat \ {0} /\ Batch \in Nat \ {0}
    /\ {MaxErrors, MaxCalls, MaxStops, MaxSwitches} \subseteq Nat

VARIABLES
    row,      \* row[r]: the row of email r; durable
    settings, \* the email settings; durable
    runner,   \* runner[p]: where the processing that p started is
    timer,    \* the processor's timer is set
    stopped,  \* the processor has been stopped
    up,       \* the process is running
    accepted, \* history: accepted[r], how many times SMTP took email r
    errors, calls, stops, switches \* counts, for the bounds

counts == <<errors, calls, stops, switches>>
vars == <<row, settings, runner, timer, stopped, up, accepted, counts>>

\* The timer's tick and the API call: at most one of each at a time.
Tick == "tick"
Runners == {Tick, "call"}

Statuses == {"none", "pending", "sending", "sent", "failed"}
Steps == {"idle", "status", "settings", "list", "mark", "send", "sent", "failed"}
None == 0

\* What the settings let through: everything; no automatic processing; a delivery mode
\* that holds everything back; nothing, not even by the sender.
Modes == {"on", "manual", "held", "off"}
MayGoOn(pc) == IF pc = "status" THEN settings = "on" ELSE settings \in {"on", "manual"}

Row == [status: Statuses, attempts: Nat, due: BOOLEAN, log: Nat]
Runner == [pc: Steps, todo: SUBSET Rows, item: Rows \cup {None}]
Idle == [pc |-> "idle", todo |-> {}, item |-> None]

Holds(p, r) == runner[p].item = r
Held(r) == \E p \in Runners : Holds(p, r)

\* The types, and that a runner has a row in its hands exactly when it works on one.
TypeOK ==
    /\ row \in [Rows -> Row]
    /\ settings \in Modes
    /\ runner \in [Runners -> Runner]
    /\ timer \in BOOLEAN /\ stopped \in BOOLEAN /\ up \in BOOLEAN
    /\ accepted \in [Rows -> Nat]
    /\ errors \in Nat /\ calls \in Nat /\ stops \in Nat /\ switches \in Nat
    /\ \A p \in Runners :
           /\ runner[p].item # None <=> runner[p].pc \in {"send", "sent", "failed"}
           /\ runner[p].pc = "mark" => runner[p].todo # {}

Init ==
    /\ row = [r \in Rows |-> [status |-> "none", attempts |-> 0, due |-> TRUE, log |-> 0]]
    /\ settings = "on"
    /\ runner = [p \in Runners |-> Idle]
    /\ timer = TRUE
    /\ stopped = FALSE
    /\ up = TRUE
    /\ accepted = [r \in Rows |-> 0]
    /\ errors = 0 /\ calls = 0 /\ stops = 0 /\ switches = 0
-----------------------------------------------------------------------------
(* The statements.                                                          *)

\* Mutants of Listed: rows that are being sent are listed and locked too; the last
\* attempt is not the last.
ListedWhileSending(r) ==
    row[r].status \in {"pending", "sending", "failed"} /\ row[r].attempts < MaxAttempts
ListedOnceMore(r) == row[r].status \in {"pending", "failed"} /\ row[r].attempts <= MaxAttempts

Listed(r) == row[r].status \in {"pending", "failed"} /\ row[r].attempts < MaxAttempts

\* listPending: the first rows that are due.
Pending ==
    LET due == {r \in Rows : Listed(r) /\ row[r].due}
    IN {r \in due : Cardinality({s \in due : s < r}) < Batch}

MarkSending(r) == row' = [row EXCEPT ![r].status = "sending"]

\* Each of these two updates the row and adds a delivery attempt, in a transaction.
MarkSent(r) ==
    row' = [row EXCEPT ![r] = [status |-> "sent", due |-> @.due,
                               attempts |-> @.attempts + 1, log |-> @.log + 1]]

MarkFailed(r) ==
    row' = [row EXCEPT ![r] =
               [status |-> IF @.attempts + 1 >= MaxAttempts THEN "failed" ELSE "pending",
                due |-> FALSE, attempts |-> @.attempts + 1, log |-> @.log + 1]]
-----------------------------------------------------------------------------
(* processEmailOutbox, up to each await.                                    *)

Goto(p, pc) == runner' = [runner EXCEPT ![p].pc = pc]

\* Mutants of Finish: the next tick is scheduled although the processor was stopped, or
\* not at all.
FinishAlways(p) ==
    /\ runner' = [runner EXCEPT ![p] = Idle]
    /\ timer' = IF p = Tick THEN TRUE ELSE timer

FinishOnce(p) ==
    /\ runner' = [runner EXCEPT ![p] = Idle]
    /\ UNCHANGED timer

\* The loop ends, or the call throws: the tick schedules the next one unless the
\* processor was stopped meanwhile.
Finish(p) ==
    /\ runner' = [runner EXCEPT ![p] = Idle]
    /\ timer' = IF p = Tick /\ ~stopped THEN TRUE ELSE timer

\* Mutant of NextRow: the row just settled is still locked.
NextRowLocked(p, todo) ==
    IF todo = {} THEN Finish(p)
    ELSE /\ runner' = [runner EXCEPT ![p].pc = "mark", ![p].todo = todo]
         /\ UNCHANGED timer

\* On to the next row of the list, or to the end.
NextRow(p, todo) ==
    IF todo = {} THEN Finish(p)
    ELSE /\ runner' = [runner EXCEPT ![p] = [pc |-> "mark", todo |-> todo, item |-> None]]
         /\ UNCHANGED timer

Fault == errors < MaxErrors /\ errors' = errors + 1
NoFault == UNCHANGED errors

\* The timer fires and the tick reads the settings; if the last one still runs, which
\* TimerKept excludes, it only sets the timer again.
Fire ==
    /\ up /\ timer
    /\ CASE stopped -> timer' = FALSE /\ UNCHANGED runner
         [] ~stopped /\ runner[Tick] # Idle -> UNCHANGED <<timer, runner>>
         [] OTHER -> timer' = FALSE /\ Goto(Tick, "status")
    /\ UNCHANGED <<row, settings, stopped, up, accepted, counts>>

Call ==
    /\ up /\ runner["call"] = Idle
    /\ calls < MaxCalls
    /\ calls' = calls + 1
    /\ Goto("call", "settings")
    /\ UNCHANGED <<row, settings, timer, stopped, up, accepted, errors, stops, switches>>

\* publicStatus, for the tick and then for the processing itself.
ReadSettings(p) ==
    /\ runner[p].pc \in {"status", "settings"}
    /\ \/ NoFault /\ MayGoOn(runner[p].pc) /\ UNCHANGED timer
          /\ Goto(p, IF runner[p].pc = "status" THEN "settings" ELSE "list")
       \/ NoFault /\ ~MayGoOn(runner[p].pc) /\ Finish(p)
       \/ Fault /\ Finish(p)
    /\ UNCHANGED <<row, settings, stopped, up, accepted, calls, stops, switches>>

List(p) ==
    /\ runner[p].pc = "list"
    /\ \/ NoFault /\ NextRow(p, Pending)
       \/ Fault /\ Finish(p)
    /\ UNCHANGED <<row, settings, stopped, up, accepted, calls, stops, switches>>

\* Mutant of Mark: the row is marked whatever its status has become.
MarkBlindly(p) ==
    LET r == Min(runner[p].todo)
    IN /\ runner[p].pc = "mark"
       /\ MarkSending(r)
       /\ runner' = [runner EXCEPT ![p] = [pc |-> "send", todo |-> @.todo \ {r}, item |-> r]]
       /\ UNCHANGED <<settings, timer, stopped, up, accepted, counts>>

\* markSending locks the first row of the list, unless another caller has it or it is
\* settled.  An error here ends the whole batch.
Mark(p) ==
    LET r == Min(runner[p].todo)
        rest == runner[p].todo \ {r}
    IN /\ runner[p].pc = "mark"
       /\ \/ /\ NoFault /\ Listed(r)
             /\ MarkSending(r)
             /\ runner' = [runner EXCEPT ![p] = [pc |-> "send", todo |-> rest, item |-> r]]
             /\ UNCHANGED timer
          \/ NoFault /\ ~Listed(r) /\ NextRow(p, rest) /\ UNCHANGED row
          \/ Fault /\ Finish(p) /\ UNCHANGED row
       /\ UNCHANGED <<settings, stopped, up, accepted, calls, stops, switches>>

\* resolveDelivery and smtpEmailSender.send: the server takes the email or not, its
\* reply may be lost, and the settings are read once more.
Send(p) ==
    LET r == runner[p].item
    IN /\ runner[p].pc = "send"
       /\ \/ settings # "off" /\ NoFault /\ Goto(p, "sent") /\ accepted' = [accepted EXCEPT ![r] = @ + 1]
          \/ settings # "off" /\ Fault /\ Goto(p, "failed") /\ accepted' = [accepted EXCEPT ![r] = @ + 1]
          \/ NoFault /\ Goto(p, "failed") /\ UNCHANGED accepted
       /\ UNCHANGED <<row, settings, timer, stopped, up, calls, stops, switches>>

\* markSent; its error, whether the transaction was committed or not, is handled like
\* the sender's.
Sent(p) ==
    LET r == runner[p].item
    IN /\ runner[p].pc = "sent"
       /\ \/ NoFault /\ MarkSent(r) /\ NextRow(p, runner[p].todo)
          \/ Fault /\ Goto(p, "failed") /\ UNCHANGED timer /\ (MarkSent(r) \/ UNCHANGED row)
       /\ UNCHANGED <<settings, stopped, up, accepted, calls, stops, switches>>

\* Mutant of Failed: nothing catches the sender's error.
FailedUncaught(p) ==
    /\ runner[p].pc = "failed"
    /\ Finish(p)
    /\ UNCHANGED <<row, settings, stopped, up, accepted, counts>>

\* markFailed; nothing catches its error.
Failed(p) ==
    LET r == runner[p].item
    IN /\ runner[p].pc = "failed"
       /\ \/ NoFault /\ MarkFailed(r) /\ NextRow(p, runner[p].todo)
          \/ Fault /\ Finish(p) /\ (MarkFailed(r) \/ UNCHANGED row)
       /\ UNCHANGED <<settings, stopped, up, accepted, calls, stops, switches>>
-----------------------------------------------------------------------------
(* The rest of the system.                                                  *)

\* emailOutbox.create.
Create(r) ==
    /\ up /\ row[r].status = "none"
    /\ row' = [row EXCEPT ![r].status = "pending"]
    /\ UNCHANGED <<settings, runner, timer, stopped, up, accepted, counts>>

\* next_attempt_at passes.
Due(r) ==
    /\ ~row[r].due
    /\ row' = [row EXCEPT ![r].due = TRUE]
    /\ UNCHANGED <<settings, runner, timer, stopped, up, accepted, counts>>

\* An administrator changes the settings.
Switch ==
    /\ up /\ switches < MaxSwitches
    /\ switches' = switches + 1
    /\ settings' \in Modes \ {settings}
    /\ UNCHANGED <<row, runner, timer, stopped, up, accepted, errors, calls, stops>>

\* stop, which does not wait for a tick that is running; application.shutdown goes on
\* and the process exits.  A crash does to the rows what Stop and Exit do at once.
Stop ==
    /\ up /\ ~stopped /\ stops < MaxStops
    /\ stops' = stops + 1
    /\ stopped' = TRUE
    /\ timer' = FALSE
    /\ UNCHANGED <<row, settings, runner, up, accepted, errors, calls, switches>>

Exit ==
    /\ up /\ stopped
    /\ up' = FALSE
    /\ runner' = [p \in Runners |-> Idle]
    /\ UNCHANGED <<row, settings, timer, stopped, accepted, counts>>

\* The process is started again, and main.js starts the processor.
Restart ==
    /\ ~up
    /\ up' = TRUE
    /\ stopped' = FALSE
    /\ timer' = TRUE
    /\ UNCHANGED <<row, settings, runner, accepted, counts>>

Step(p) == ReadSettings(p) \/ List(p) \/ Mark(p) \/ Send(p) \/ Sent(p) \/ Failed(p)

Next ==
    \/ \E p \in Runners : Step(p)
    \/ \E r \in Rows : Create(r) \/ Due(r)
    \/ Fire \/ Call \/ Switch \/ Stop \/ Exit \/ Restart

\* Timers fire, time passes, awaited calls return, and a process that was stopped
\* exits and is started again.
Fairness ==
    /\ \A p \in Runners : WF_vars(Step(p))
    /\ \A r \in Rows : WF_vars(Due(r))
    /\ WF_vars(Fire) /\ WF_vars(Exit) /\ WF_vars(Restart)

Spec == Init /\ [][Next]_vars /\ Fairness
-----------------------------------------------------------------------------
(* Properties.                                                              *)

\* The tick and the API call never work on the same email at once: who markSending
\* refuses leaves the row alone.
OneSender == \A r \in Rows : \A p, q \in Runners : Holds(p, r) /\ Holds(q, r) => p = q

\* A row says "sending" exactly while somebody sends it, as long as nothing failed and
\* the process was not stopped.
SendingIsHeld ==
    \A r \in Rows : row[r].status = "sending" /\ errors = 0 /\ stops = 0 => Held(r)

\* An email goes out twice only if a statement or a reply was lost.
SentOnce == \A r \in Rows : accepted[r] <= 1 + errors

\* No email is tried more than max_attempts times, but for a markSent whose commit was
\* taken for a failure; and every attempt counted is recorded.
AttemptsBounded ==
    \A r \in Rows : /\ row[r].attempts <= MaxAttempts + (IF errors > 0 THEN 1 ELSE 0)
                    /\ row[r].log = row[r].attempts

\* While the processor runs it has its timer or its tick, never both and never neither;
\* once stopped it sets no other timer, not even when its last tick ends.
TimerKept ==
    up => /\ ~stopped => (timer <=> runner[Tick] = Idle)
          /\ stopped => ~timer

Final(r) == row[r].status = "sent" \/ (row[r].status = "failed" /\ row[r].attempts >= MaxAttempts)
Stuck(r) == row[r].status = "sending" /\ ~Held(r)

\* If the settings let everything out from some time on, every email is sent or given up
\* after max_attempts, unless it is left in status sending by nobody.
Settles == <>[](settings = "on") => \A r \in Rows : row[r].status = "pending" ~> (Final(r) \/ Stuck(r))

\* Every email is sent or given up after max_attempts, whatever happens to the process.
Durable == \A r \in Rows : row[r].status = "pending" ~> Final(r)
=============================================================================
