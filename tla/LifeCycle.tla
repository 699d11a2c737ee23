----------------------------- MODULE LifeCycle -----------------------------
(***************************************************************************)
(* The life of the process (main.js, application.js): the startup, of      *)
(* which each await is a state, the scheduler and the requests that run    *)
(* meanwhile, and the shutdown.  A signal, or an error that nobody         *)
(* handles, starts a pass over the parts, whether or not a pass is going   *)
(* on already; the first pass that gets to the end ends the process.       *)
(***************************************************************************)
EXTENDS Scheduler, FiniteSets

CONSTANTS
  Heartbeat,    \* the task the startup registers, disabled
  MaxRequests,  \* bound on the requests in progress
  MaxPasses     \* bound on the passes

VARIABLES
  boot,         \* how far the startup has come
  parts,        \* the parts that exist
  closed,       \* the parts a pass has closed
  server,       \* listening; requests with (inside) and without (cut) a connection
  passes,       \* the step each pass is about to take
  exit,         \* what the exit code tells, once the process has ended
  quiet,        \* records without timer since the last stopAll, and not rescheduled
  gaveUp        \* a pass has stopped waiting for the requests

schedulerVars == <<tasks, record, quiet>>
vars == <<tasks, record, boot, parts, closed, server, passes, exit, quiet, gaveUp>>

\* The steps of a pass that begin after an await, in their order.
\* Mutant: the stores are closed before the server.
StoresFirst ==
  <<"queue", "redis", "database", "server", "clients", "closing", "logger", "exit">>
Steps ==
  <<"queue", "server", "clients", "closing", "redis", "database", "logger", "exit">>
StepNames == {Steps[i] : i \in DOMAIN Steps}
After(step) == LET i == CHOOSE k \in DOMAIN Steps : Steps[k] = step IN Steps[i + 1]

Parts ==
  {"scheduler", "outbox", "pipeline", "queue", "server", "watcher", "redis", "database",
   "logger"}
Starting == {"reading", "loading", "manager", "static"}

TypeOK ==
  /\ tasks \in [TaskNames -> 0 .. Len(record)]
  /\ record \in Seq(Record) /\ Len(record) <= MaxRecords
  /\ boot \in Starting \cup {"up", "failed"}
  /\ parts \subseteq Parts /\ closed \subseteq parts
  /\ server \in [listening: BOOLEAN, inside: 0 .. MaxRequests, cut: 0 .. MaxRequests]
  /\ passes \in Seq(StepNames \X BOOLEAN) /\ Len(passes) <= MaxPasses
  /\ exit \in {"none", "success", "failure"}
  /\ quiet \subseteq DOMAIN record
  /\ gaveUp \in BOOLEAN

Init ==
  /\ tasks = [n \in TaskNames |-> 0] /\ record = << >>
  /\ boot = "reading" /\ parts = {} /\ closed = {}
  /\ server = [listening |-> FALSE, inside |-> 0, cut |-> 0]
  /\ passes = << >> /\ exit = "none" /\ quiet = {} /\ gaveUp = FALSE

Running == exit = "none"
InProgress == server.inside + server.cut

----------------------------------------------------------------------------
(* Shutdown *)

\* gracefulShutdown up to its first await, with the records as they are by then.  A
\* pass is its step and whether it has met a server so far.
gracefulShutdown(records) ==
  IF "scheduler" \notin parts
  THEN /\ exit' = "failure"
       /\ UNCHANGED <<tasks, record, closed, passes, quiet>>
  ELSE /\ Len(passes) < MaxPasses
       /\ record' = Stopped(records)
       /\ quiet' = quiet \cup {r \in DOMAIN records : Current(r) /\ records[r].run # "scheduled"}
       /\ closed' = closed \cup (parts \cap {"scheduler", "outbox", "pipeline"})
       /\ passes' = Append(passes, <<Steps[1], TRUE>>)
       /\ UNCHANGED <<tasks, exit>>

\* A signal, Ctrl+C, or an error from elsewhere that nobody handles.
Signal ==
  /\ Running
  /\ gracefulShutdown(record)
  /\ UNCHANGED <<boot, parts, server, gaveUp>>

\* A scheduled run throws: the rejection is nobody's.
TaskRejects ==
  /\ Running
  /\ \E r \in DOMAIN record :
       \/ Collides(r) /\ gracefulShutdown(Collision(r))
       \/ record[r].run = "scheduled" /\ gracefulShutdown(Failure(r))
  /\ UNCHANGED <<boot, parts, server, gaveUp>>

At(p, step) == passes[p][1] = step
Proceeds(p) == passes' = [passes EXCEPT ![p][1] = After(@)]

\* The part is closed if it is there, and what follows it without an await; an error
\* is logged and the pass goes on.
CloseNext(p) ==
  /\ Running
  /\ passes[p][1] \in {"queue", "redis", "database", "logger"}
  /\ closed' = closed \cup (parts \cap
       IF At(p, "redis") THEN {"watcher", "redis"} ELSE {passes[p][1]})
  /\ Proceeds(p)
  /\ UNCHANGED <<boot, parts, server, exit, gaveUp, schedulerVars>>

\* Server.shutdown waits for the requests, at most 5 s, and closes the connections.
\* A pass that finds no server goes by.
closeClients(p) ==
  /\ Running
  /\ At(p, "server")
  /\ IF "server" \in parts
     THEN /\ gaveUp' = (gaveUp \/ InProgress > 0)
          /\ server' = [server EXCEPT !.inside = 0, !.cut = InProgress]
          /\ Proceeds(p)
     ELSE /\ passes' = [passes EXCEPT ![p] = <<After("closing"), FALSE>>]
          /\ UNCHANGED <<server, gaveUp>>
  /\ UNCHANGED <<boot, parts, closed, exit, schedulerVars>>

\* It waits for the clients, at most 3 s, and stops listening.
closeServer(p) ==
  /\ Running
  /\ At(p, "clients")
  /\ server' = [server EXCEPT !.listening = FALSE]
  /\ passes' = [passes EXCEPT ![p][1] =
       IF server.listening THEN "closing" ELSE After("closing")]
  /\ UNCHANGED <<boot, parts, closed, exit, gaveUp, schedulerVars>>

\* The callback of close: no connection is left.
serverClosed(p) ==
  /\ Running
  /\ At(p, "closing")
  /\ server.inside = 0
  /\ closed' = closed \cup (parts \cap {"server"})
  /\ Proceeds(p)
  /\ UNCHANGED <<boot, parts, server, exit, gaveUp, schedulerVars>>

Exit(p) ==
  /\ Running
  /\ At(p, "exit")
  /\ exit' = "success"
  /\ UNCHANGED <<boot, parts, closed, server, passes, gaveUp, schedulerVars>>

Shutdown ==
  \E p \in DOMAIN passes :
    CloseNext(p) \/ closeClients(p) \/ closeServer(p) \/ serverClosed(p) \/ Exit(p)

----------------------------------------------------------------------------
(* Startup *)

\* The application and its scheduler exist; without .applications there is neither.
ReadApplications ==
  /\ Running
  /\ boot = "reading"
  /\ boot' = "loading"
  /\ parts' = {"scheduler", "watcher", "logger"}
  /\ add(Heartbeat, FALSE)
  /\ UNCHANGED <<closed, server, passes, exit, quiet, gaveUp>>

\* The modules are loaded and valid: the server is made and listens.
initializeModules ==
  /\ Running
  /\ boot = "loading"
  /\ boot' = "manager"
  /\ parts' = parts \cup {"queue", "server", "redis"}
  /\ server' = [server EXCEPT !.listening = TRUE]
  /\ UNCHANGED <<closed, passes, exit, gaveUp, schedulerVars>>

\* The notification manager is ready or has failed; so may the pipeline.
createPipeline ==
  /\ Running
  /\ boot = "manager"
  /\ boot' = "static"
  /\ parts' \in {parts, parts \cup {"pipeline"}}
  /\ UNCHANGED <<closed, server, passes, exit, gaveUp, schedulerVars>>

\* The start functions run, the one of the database first of all making it.
StartParts ==
  /\ Running
  /\ boot = "static"
  /\ boot' = "up"
  /\ parts' = parts \cup {"database", "outbox"}
  /\ UNCHANGED <<closed, server, passes, exit, gaveUp, schedulerVars>>

\* What startup awaits fails: the error is caught and the process shuts down.
StartupFails ==
  /\ Running
  /\ boot \in Starting
  /\ boot' = "failed"
  /\ gracefulShutdown(record)
  /\ UNCHANGED <<parts, server, gaveUp>>

\* Startup has taken 15 s.
StartupTimeout ==
  /\ Running
  /\ boot \in Starting
  /\ exit' = "failure"
  /\ UNCHANGED <<boot, parts, closed, server, passes, gaveUp, schedulerVars>>

Startup ==
  \/ ReadApplications \/ initializeModules \/ createPipeline \/ StartParts
  \/ StartupFails \/ StartupTimeout

----------------------------------------------------------------------------
(* The process at work *)

Arrive ==
  /\ Running
  /\ server.listening
  /\ InProgress < MaxRequests
  /\ server' = [server EXCEPT !.inside = @ + 1]
  /\ UNCHANGED <<boot, parts, closed, passes, exit, gaveUp, schedulerVars>>

Answer ==
  /\ Running
  /\ \E place \in {"inside", "cut"} :
       server[place] > 0 /\ server' = [server EXCEPT ![place] = @ - 1]
  /\ UNCHANGED <<boot, parts, closed, passes, exit, gaveUp, schedulerVars>>

\* The API of the scheduler, which the application's code may call as well.
Administer ==
  /\ Running
  /\ "scheduler" \in parts
  /\ \E n \in TaskNames, enabled \in BOOLEAN :
       \/ add(n, enabled) /\ UNCHANGED quiet
       \/ updateSchedule(n, enabled) /\ quiet' = quiet \ {tasks[n]}
       \/ stopTask(n) /\ UNCHANGED quiet
       \/ runNow(n) /\ UNCHANGED quiet
  /\ UNCHANGED <<boot, parts, closed, server, passes, exit, gaveUp>>

RunTasks ==
  /\ Running
  /\ \E r \in DOMAIN record : Fire(r) \/ Succeed(r) \/ FailManual(r)
  /\ UNCHANGED <<boot, parts, closed, server, passes, exit, quiet, gaveUp>>

Ended == ~Running /\ UNCHANGED vars

Next ==
  \/ Startup \/ Signal \/ TaskRejects \/ Shutdown
  \/ Arrive \/ Answer \/ Administer \/ RunTasks
  \/ Ended

Spec == Init /\ [][Next]_vars

----------------------------------------------------------------------------
(* Properties *)

\* A task waits for its timer only while it is enabled, and after stopAll only if it
\* was running then or has been scheduled since; until the process shuts down, an
\* enabled task waits for its timer or runs, whatever calls were made in between.
TasksScheduled ==
  /\ \A r \in DOMAIN record : record[r].timer => record[r].enabled /\ r \notin quiet
  /\ passes = << >> =>
       \A n \in TaskNames : Registered(n) /\ record[tasks[n]].enabled =>
         record[tasks[n]].timer \/ record[tasks[n]].run = "scheduled"

\* Redis and the database are not closed while a request is in progress, unless a
\* pass has given up waiting for it, began before there was a server, or overtakes
\* another that still waits for the connections (application.js shutdown).
DrainedBeforeStores ==
  closed \cap {"redis", "database"} # {} =>
    \/ InProgress = 0
    \/ gaveUp
    \/ \E p \in DOMAIN passes : At(p, "closing") \/ ~passes[p][2]
=============================================================================
