----------------------------- MODULE Scheduler -----------------------------
(***************************************************************************)
(* The scheduler of the application (scheduler.js).  A task is a name that *)
(* stands for a record; registering the name again makes a new record, and *)
(* a run of the old one that is in progress goes on with the old record.   *)
(* Intervals, counters and dates of a record are left out.                 *)
(***************************************************************************)
EXTENDS Naturals, Sequences

CONSTANTS
  TaskNames,
  MaxRecords    \* bound on the records ever made

VARIABLES
  tasks,        \* name -> its record, 0 if it is not registered
  record        \* the records: enabled, waiting for its timer, the run in progress

Triggers == {"manual", "scheduled"}
Record == [enabled: BOOLEAN, timer: BOOLEAN, run: Triggers \cup {"none"}]

Registered(n) == tasks[n] # 0
\* The record is the one its name stands for.
Current(r) == \E n \in TaskNames : tasks[n] = r

\* #schedule: the timer is set anew, or cleared if the task is disabled.
Scheduled(t) == [t EXCEPT !.timer = t.enabled]

\* The records after stopAll, which sees the registered ones only.
\* Mutant: the timer of a task that is running is left alone.
StoppedIdle(rs) ==
  [r \in DOMAIN rs |->
     IF Current(r) /\ rs[r].run = "none" THEN [rs[r] EXCEPT !.timer = FALSE] ELSE rs[r]]
Stopped(rs) ==
  [r \in DOMAIN rs |-> IF Current(r) THEN [rs[r] EXCEPT !.timer = FALSE] ELSE rs[r]]

\* The records after the name is registered (again).
Added(n, enabled) ==
  LET kept == IF Registered(n) THEN [record EXCEPT ![tasks[n]].timer = FALSE] ELSE record
  IN Append(kept, Scheduled([enabled |-> enabled, timer |-> FALSE, run |-> "none"]))

add(n, enabled) ==
  /\ Len(record) < MaxRecords
  /\ record' = Added(n, enabled)
  /\ tasks' = [tasks EXCEPT ![n] = Len(record) + 1]

\* The caller of runNow waits for the handler; a second run is refused.
runNow(n) ==
  /\ Registered(n)
  /\ record[tasks[n]].run = "none"
  /\ record' = [record EXCEPT ![tasks[n]].run = "manual"]
  /\ UNCHANGED tasks

\* The interval, the switch, or both are given: the timer starts anew.
updateSchedule(n, enabled) ==
  /\ Registered(n)
  /\ record' = [record EXCEPT ![tasks[n]] = Scheduled([@ EXCEPT !.enabled = enabled])]
  /\ UNCHANGED tasks

stopTask(n) ==
  /\ Registered(n)
  /\ record' = [record EXCEPT ![tasks[n]].enabled = FALSE, ![tasks[n]].timer = FALSE]
  /\ UNCHANGED tasks

\* The timer of r fires and the task runs.
Fire(r) ==
  /\ record[r].timer /\ record[r].run = "none"
  /\ record' = [record EXCEPT ![r].timer = FALSE, ![r].run = "scheduled"]
  /\ UNCHANGED tasks

\* The timer of r fires while the task is running: #run throws, and nobody handles it.
Collides(r) == record[r].timer /\ record[r].run # "none"
Collision(r) == [record EXCEPT ![r].timer = FALSE]

\* The handler is done: only a scheduled run schedules the next.
Succeed(r) ==
  /\ record[r].run # "none"
  /\ record' = [record EXCEPT ![r] =
       LET t == [@ EXCEPT !.run = "none"]
       IN IF record[r].run = "scheduled" THEN Scheduled(t) ELSE t]
  /\ UNCHANGED tasks

\* The handler throws: the caller of runNow is told, for a scheduled run nobody is.
Failure(r) == [record EXCEPT ![r].run = "none"]
FailManual(r) ==
  /\ record[r].run = "manual"
  /\ record' = Failure(r)
  /\ UNCHANGED tasks
=============================================================================
