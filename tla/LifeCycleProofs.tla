-------------------------- MODULE LifeCycleProofs --------------------------
(***************************************************************************)
(* What the life cycle guarantees for every number of tasks, records,      *)
(* requests and passes: timers are set when they should be, and the stores *)
(* outlive the requests in progress.                                       *)
(***************************************************************************)
EXTENDS LifeCycle, TLAPS

----------------------------------------------------------------------------
(* Tasks *)

\* The part of the type invariant that the properties rest on.
RecordTypes ==
  /\ tasks \in [TaskNames -> Nat]
  /\ \A n \in TaskNames : tasks[n] <= Len(record)
  /\ record \in Seq(Record)
  /\ quiet \subseteq DOMAIN record

\* Two names never stand for one record.
OwnRecord == \A n, m \in TaskNames : Registered(n) /\ tasks[n] = tasks[m] => n = m

\* A task that was stopped and not scheduled since has no scheduled run that could set
\* its timer at the end.
QuietStays == \A r \in quiet : record[r].run # "scheduled"

TimersOnlyIf == \A r \in DOMAIN record : record[r].timer => record[r].enabled /\ r \notin quiet
TimersIf ==
  passes = << >> =>
    \A n \in TaskNames : Registered(n) /\ record[tasks[n]].enabled =>
      record[tasks[n]].timer \/ record[tasks[n]].run = "scheduled"

TasksInv == RecordTypes /\ OwnRecord /\ QuietStays /\ TimersOnlyIf /\ TimersIf

LEMMA TasksInit == Init => TasksInv
<1> SUFFICES ASSUME Init PROVE TasksInv
  OBVIOUS
<1>1. tasks = [n \in TaskNames |-> 0] /\ record = << >> /\ quiet = {}
  BY DEF Init
<1>2. RecordTypes
  BY <1>1 DEF RecordTypes
<1> QED
  BY <1>1, <1>2 DEF TasksInv, OwnRecord, QuietStays, TimersOnlyIf, TimersIf, Registered

\* The fields of a record, and a record with new ones.
LEMMA RecordFields ==
  ASSUME NEW t \in Record
  PROVE  /\ t.enabled \in BOOLEAN /\ t.timer \in BOOLEAN /\ t.run \in Triggers \cup {"none"}
         /\ t = [enabled |-> t.enabled, timer |-> t.timer, run |-> t.run]
BY DEF Record

LEMMA RecordWith ==
  ASSUME NEW enabled \in BOOLEAN, NEW timer \in BOOLEAN, NEW run \in Triggers \cup {"none"}
  PROVE  [enabled |-> enabled, timer |-> timer, run |-> run] \in Record
BY DEF Record

LEMMA RecordExcept ==
  ASSUME NEW t \in Record, NEW v
  PROVE  /\ [t EXCEPT !.enabled = v] = [enabled |-> v, timer |-> t.timer, run |-> t.run]
         /\ [t EXCEPT !.timer = v] = [enabled |-> t.enabled, timer |-> v, run |-> t.run]
         /\ [t EXCEPT !.run = v] = [enabled |-> t.enabled, timer |-> t.timer, run |-> v]
<1> DEFINE a == t.enabled
           b == t.timer
           c == t.run
           s == [enabled |-> a, timer |-> b, run |-> c]
<1>1. t = s
  BY RecordFields
<1> HIDE DEF a, b, c
<1>2. /\ [s EXCEPT !.enabled = v] = [enabled |-> v, timer |-> b, run |-> c]
      /\ [s EXCEPT !.timer = v] = [enabled |-> a, timer |-> v, run |-> c]
      /\ [s EXCEPT !.run = v] = [enabled |-> a, timer |-> b, run |-> v]
  OBVIOUS
<1> HIDE DEF s
<1> QED
  BY <1>1, <1>2 DEF a, b, c

LEMMA ScheduledIs ==
  ASSUME NEW t \in Record
  PROVE  Scheduled(t) = [enabled |-> t.enabled, timer |-> t.enabled, run |-> t.run]
<1> DEFINE v == t.enabled
<1>1. Scheduled(t) = [t EXCEPT !.timer = v]
  BY DEF Scheduled
<1> HIDE DEF v
<1>2. [t EXCEPT !.timer = v] = [enabled |-> t.enabled, timer |-> v, run |-> t.run]
  BY RecordExcept
<1> QED
  BY <1>1, <1>2 DEF v

\* One record of the sequence is replaced.
LEMMA OneRecord ==
  ASSUME record \in Seq(Record), NEW r \in DOMAIN record, NEW t \in Record,
         NEW new, new = [record EXCEPT ![r] = t]
  PROVE  /\ new \in Seq(Record) /\ Len(new) = Len(record) /\ DOMAIN new = DOMAIN record
         /\ new[r] = t
         /\ \A q \in DOMAIN record \ {r} : new[q] = record[q]
BY DEF Record

\* A step that replaces one record and registers none.
LEMMA ChangeKeeps ==
  ASSUME TasksInv, NEW r \in DOMAIN record, NEW t \in Record,
         record' = [record EXCEPT ![r] = t], UNCHANGED <<tasks, passes>>,
         quiet' = quiet \/ quiet' = quiet \ {r},
         t.timer => t.enabled /\ r \notin quiet',
         r \in quiet' => t.run # "scheduled",
         passes = << >> /\ Current(r) /\ t.enabled => t.timer \/ t.run = "scheduled"
  PROVE  TasksInv'
<1>1. /\ record \in Seq(Record) /\ tasks \in [TaskNames -> Nat]
      /\ \A n \in TaskNames : tasks[n] <= Len(record)
      /\ quiet \subseteq DOMAIN record
  BY DEF TasksInv, RecordTypes
<1>2. /\ record' \in Seq(Record) /\ Len(record') = Len(record)
      /\ DOMAIN record' = DOMAIN record
      /\ record'[r] = t
      /\ \A q \in DOMAIN record \ {r} : record'[q] = record[q]
  BY <1>1, OneRecord
<1>3. RecordTypes'
  BY <1>1, <1>2 DEF RecordTypes
<1>4. OwnRecord'
  BY DEF TasksInv, OwnRecord, Registered
<1>5. QuietStays'
  BY <1>1, <1>2 DEF TasksInv, QuietStays
<1>6. TimersOnlyIf'
  BY <1>2 DEF TasksInv, TimersOnlyIf
<1>7. TimersIf'
  <2> SUFFICES ASSUME passes = << >>, NEW n \in TaskNames, tasks[n] # 0,
                      record'[tasks[n]].enabled
               PROVE  record'[tasks[n]].timer \/ record'[tasks[n]].run = "scheduled"
    BY DEF TimersIf, Registered
  <2>1. tasks[n] \in DOMAIN record
    BY <1>1
  <2>2. CASE tasks[n] = r
    BY <1>2, <2>2 DEF Current
  <2>3. CASE tasks[n] # r
    BY <1>2, <2>1, <2>3 DEF TasksInv, TimersIf, Registered
  <2> QED
    BY <2>2, <2>3
<1> QED
  BY <1>3, <1>4, <1>5, <1>6, <1>7 DEF TasksInv

\* Registering a name: its old record loses the timer, the new one has a run to come.
LEMMA AddKeeps ==
  ASSUME TasksInv, NEW n \in TaskNames, NEW enabled \in BOOLEAN, add(n, enabled),
         UNCHANGED <<quiet, passes>>
  PROVE  TasksInv' /\ Len(record') = Len(record) + 1
<1> DEFINE old == tasks[n]
           kept == IF Registered(n) THEN [record EXCEPT ![tasks[n]].timer = FALSE] ELSE record
           new == [enabled |-> enabled, timer |-> enabled, run |-> "none"]
           k == Len(record) + 1
<1>1. /\ record \in Seq(Record) /\ tasks \in [TaskNames -> Nat]
      /\ \A m \in TaskNames : tasks[m] <= Len(record)
      /\ quiet \subseteq DOMAIN record
  BY DEF TasksInv, RecordTypes
<1>2. kept \in Seq(Record) /\ Len(kept) = Len(record) /\ DOMAIN kept = DOMAIN record
  <2>1. CASE Registered(n)
    <3>1. old \in 1 .. Len(record)
      BY <1>1, <2>1 DEF Registered
    <3> DEFINE t == [enabled |-> record[old].enabled, timer |-> FALSE,
                     run |-> record[old].run]
    <3>0. record[old] \in Record
      BY <1>1, <3>1
    <3>2. t \in Record
      BY <3>0, RecordFields, RecordWith
    <3>3. [record[old] EXCEPT !.timer = FALSE] = t
      BY <3>0, RecordExcept
    <3> HIDE DEF t
    <3>4. kept = [record EXCEPT ![old] = t]
      BY <2>1, <3>3
    <3> HIDE DEF kept
    <3> QED
      BY <1>1, <3>1, <3>2, <3>4, OneRecord
  <2>2. CASE ~Registered(n)
    BY <1>1, <2>2
  <2> QED
    BY <2>1, <2>2
<1>3. new \in Record
  BY DEF Record, Triggers
<1>4. record' = Append(kept, new)
  BY DEF add, Added, Scheduled
<1>5. tasks' = [tasks EXCEPT ![n] = k]
  BY DEF add
<1>6. /\ DOMAIN record' = 1 .. k /\ Len(record') = k
      /\ record' \in Seq(Record)
      /\ record'[k] = new
      /\ \A r \in DOMAIN record : record'[r] = kept[r]
  BY <1>1, <1>2, <1>3, <1>4
<1>7. \A r \in DOMAIN record :
        /\ record'[r].run = record[r].run /\ record'[r].enabled = record[r].enabled
        /\ record'[r].timer => record[r].timer
        /\ ~(Registered(n) /\ r = old) => record'[r].timer = record[r].timer
  <2> TAKE r \in DOMAIN record
  <2>1. record[r] \in Record
    BY <1>1
  <2>2. CASE Registered(n) /\ r = old
    <3>1. kept[r] = [record[r] EXCEPT !.timer = FALSE]
      BY <1>1, <2>2
    <3> QED
      BY <1>6, <2>1, <2>2, <3>1 DEF Record
  <2>3. CASE ~(Registered(n) /\ r = old)
    <3>1. kept[r] = record[r]
      BY <1>1, <2>3
    <3> QED
      BY <1>6, <2>3, <3>1
  <2> QED
    BY <2>2, <2>3
<1> HIDE DEF kept
<1>8. RecordTypes'
  BY <1>1, <1>5, <1>6 DEF RecordTypes
<1>9. OwnRecord'
  BY <1>1, <1>5 DEF TasksInv, OwnRecord, Registered
<1>10. QuietStays'
  BY <1>1, <1>7 DEF TasksInv, QuietStays
<1>11. TimersOnlyIf'
  <2> SUFFICES ASSUME NEW r \in 1 .. k, record'[r].timer
               PROVE  record'[r].enabled /\ r \notin quiet'
    BY <1>6 DEF TimersOnlyIf
  <2>1. CASE r = k
    <3>1. r \notin DOMAIN record
      BY <1>1, <2>1
    <3> QED
      BY <1>1, <1>6, <2>1, <3>1
  <2>2. CASE r # k
    <3>1. r \in DOMAIN record
      BY <1>1, <2>2
    <3> QED
      BY <1>7, <3>1 DEF TasksInv, TimersOnlyIf
  <2> QED
    BY <2>1, <2>2
<1>12. TimersIf'
  <2> SUFFICES ASSUME passes = << >>, NEW m \in TaskNames, tasks'[m] # 0,
                      record'[tasks'[m]].enabled
               PROVE  record'[tasks'[m]].timer \/ record'[tasks'[m]].run = "scheduled"
    BY DEF TimersIf, Registered
  <2>1. CASE m = n
    BY <1>1, <1>5, <1>6, <2>1
  <2>2. CASE m # n
    <3>1. tasks'[m] = tasks[m] /\ tasks[m] \in DOMAIN record
      BY <1>1, <1>5, <2>2
    <3>2. ~(Registered(n) /\ tasks[m] = old)
      BY <2>2 DEF TasksInv, OwnRecord, Registered
    <3>3. record[tasks[m]].timer \/ record[tasks[m]].run = "scheduled"
      BY <1>7, <3>1 DEF TasksInv, TimersIf, Registered
    <3> QED
      BY <1>7, <3>1, <3>2, <3>3
  <2> QED
    BY <2>1, <2>2
<1> QED
  BY <1>6, <1>8, <1>9, <1>10, <1>11, <1>12 DEF TasksInv

LEMMA UpdateKeeps ==
  ASSUME TasksInv, NEW n \in TaskNames, NEW enabled \in BOOLEAN, updateSchedule(n, enabled),
         quiet' = quiet \ {tasks[n]}, UNCHANGED passes
  PROVE  TasksInv'
<1> DEFINE r == tasks[n]
           s == [record[r] EXCEPT !.enabled = enabled]
           t == [enabled |-> enabled, timer |-> enabled, run |-> record[r].run]
<1>1. r \in DOMAIN record /\ record[r] \in Record
  BY DEF TasksInv, RecordTypes, updateSchedule, Registered
<1>2. t \in Record
  BY <1>1, RecordFields, RecordWith
<1>3. s = [enabled |-> enabled, timer |-> record[r].timer, run |-> record[r].run]
  BY <1>1, RecordExcept
<1>4. s \in Record
  BY <1>1, <1>3, RecordFields, RecordWith
<1>5. s.enabled = enabled /\ s.run = record[r].run
  BY <1>3
<1>6. Scheduled(s) = t
  <2> HIDE DEF s
  <2> QED
    BY <1>4, <1>5, ScheduledIs
<1>7. record' = [record EXCEPT ![r] = t]
  BY <1>6 DEF updateSchedule
<1>8. t.timer = enabled /\ t.enabled = enabled
  OBVIOUS
<1>9. r \notin quiet'
  OBVIOUS
<1>10. UNCHANGED <<tasks, passes>>
  BY DEF updateSchedule
<1> HIDE DEF t, r
<1> QED
  BY <1>1, <1>2, <1>7, <1>8, <1>9, <1>10, ChangeKeeps DEF r

LEMMA StopKeeps ==
  ASSUME TasksInv, NEW n \in TaskNames, stopTask(n), UNCHANGED <<quiet, passes>>
  PROVE  TasksInv'
<1> DEFINE r == tasks[n]
           s == [enabled |-> FALSE, timer |-> record[r].timer, run |-> record[r].run]
           t == [enabled |-> FALSE, timer |-> FALSE, run |-> record[r].run]
<1>1. r \in DOMAIN record /\ record[r] \in Record /\ record \in Seq(Record)
  BY DEF TasksInv, RecordTypes, stopTask, Registered
<1>2. s \in Record /\ t \in Record
  BY <1>1, RecordFields, RecordWith
<1>3. [record[r] EXCEPT !.enabled = FALSE] = s
  BY <1>1, RecordExcept
<1>3a. ~s.enabled /\ s.run = record[r].run
  OBVIOUS
<1>4. [s EXCEPT !.timer = FALSE] = t
  <2>1. t = [enabled |-> s.enabled, timer |-> FALSE, run |-> s.run]
    BY <1>3a
  <2> HIDE DEF s
  <2> QED
    BY <1>2, <2>1, RecordExcept
<1>5. record' = [record EXCEPT ![r] = [[record[r] EXCEPT !.enabled = FALSE]
                                       EXCEPT !.timer = FALSE]]
  BY <1>1 DEF stopTask
<1>6. record' = [record EXCEPT ![r] = t]
  BY <1>3, <1>4, <1>5
<1>7. ~t.timer /\ ~t.enabled /\ t.run = record[r].run
  OBVIOUS
<1>8. r \in quiet => t.run # "scheduled"
  BY <1>7 DEF TasksInv, QuietStays
<1>9. UNCHANGED <<tasks, passes>>
  BY DEF stopTask
<1> HIDE DEF t, r
<1> QED
  BY <1>1, <1>2, <1>6, <1>7, <1>8, <1>9, ChangeKeeps

LEMMA RunNowKeeps ==
  ASSUME TasksInv, NEW n \in TaskNames, runNow(n), UNCHANGED <<quiet, passes>>
  PROVE  TasksInv'
<1> DEFINE r == tasks[n]
           t == [enabled |-> record[r].enabled, timer |-> record[r].timer, run |-> "manual"]
<1>1. r \in DOMAIN record /\ record[r] \in Record /\ record \in Seq(Record)
  BY DEF TasksInv, RecordTypes, runNow, Registered
<1>2. t \in Record
  BY <1>1, RecordFields, RecordWith DEF Triggers
<1>3. [record[r] EXCEPT !.run = "manual"] = t
  BY <1>1, RecordExcept
<1>4. record' = [record EXCEPT ![r] = t]
  BY <1>3 DEF runNow
<1>5. t.timer = record[r].timer /\ t.enabled = record[r].enabled /\ t.run = "manual"
  OBVIOUS
<1>6. t.timer => t.enabled /\ r \notin quiet
  BY <1>1, <1>5 DEF TasksInv, TimersOnlyIf
<1>7. passes = << >> /\ Current(r) /\ t.enabled => t.timer
  BY <1>1, <1>5 DEF TasksInv, TimersIf, runNow, Registered
<1>8. UNCHANGED <<tasks, passes>>
  BY DEF runNow
<1> HIDE DEF t, r
<1> QED
  BY <1>1, <1>2, <1>4, <1>5, <1>6, <1>7, <1>8, ChangeKeeps
LEMMA FireKeeps ==
  ASSUME TasksInv, NEW r \in DOMAIN record, Fire(r), UNCHANGED <<quiet, passes>>
  PROVE  TasksInv'
<1> DEFINE s == [enabled |-> record[r].enabled, timer |-> FALSE, run |-> record[r].run]
           t == [enabled |-> record[r].enabled, timer |-> FALSE, run |-> "scheduled"]
<1>1. record[r] \in Record /\ record \in Seq(Record)
  BY DEF TasksInv, RecordTypes
<1>2. s \in Record /\ t \in Record
  BY <1>1, RecordFields, RecordWith DEF Triggers
<1>3. [record[r] EXCEPT !.timer = FALSE] = s
  BY <1>1, RecordExcept
<1>4. s.enabled = record[r].enabled /\ ~s.timer
  OBVIOUS
<1>5. [s EXCEPT !.run = "scheduled"] = t
  <2>1. t = [enabled |-> s.enabled, timer |-> s.timer, run |-> "scheduled"]
    BY <1>4
  <2> HIDE DEF s
  <2> QED
    BY <1>2, <2>1, RecordExcept
<1>6. record' = [record EXCEPT ![r] = [[record[r] EXCEPT !.timer = FALSE]
                                       EXCEPT !.run = "scheduled"]]
  BY <1>1 DEF Fire
<1>7. record' = [record EXCEPT ![r] = t]
  BY <1>3, <1>5, <1>6
<1>8. ~t.timer /\ t.run = "scheduled"
  OBVIOUS
<1>9. r \notin quiet
  BY DEF TasksInv, TimersOnlyIf, Fire
<1>10. UNCHANGED <<tasks, passes>>
  BY DEF Fire
<1> HIDE DEF t
<1> QED
  BY <1>2, <1>7, <1>8, <1>9, <1>10, ChangeKeeps

LEMMA SucceedKeeps ==
  ASSUME TasksInv, NEW r \in DOMAIN record, Succeed(r), UNCHANGED <<quiet, passes>>
  PROVE  TasksInv'
<1> DEFINE s == [enabled |-> record[r].enabled, timer |-> record[r].timer, run |-> "none"]
           u == [enabled |-> record[r].enabled, timer |-> record[r].enabled, run |-> "none"]
           t == IF record[r].run = "scheduled" THEN u ELSE s
<1>1. record[r] \in Record /\ record \in Seq(Record)
  BY DEF TasksInv, RecordTypes
<1>2. s \in Record /\ u \in Record
  BY <1>1, RecordFields, RecordWith
<1>3. [record[r] EXCEPT !.run = "none"] = s
  BY <1>1, RecordExcept
<1>4. s.enabled = record[r].enabled /\ s.run = "none" /\ s.timer = record[r].timer
  OBVIOUS
<1>5. Scheduled(s) = u
  <2> HIDE DEF s
  <2> QED
    BY <1>2, <1>4, ScheduledIs
<1>6. record' = [record EXCEPT ![r] = t]
  BY <1>3, <1>5 DEF Succeed
<1>7. t \in Record
  BY <1>2
<1>8. t.run = "none" /\ t.enabled = record[r].enabled
  OBVIOUS
<1>9. t.timer => t.enabled /\ r \notin quiet
  BY <1>8 DEF TasksInv, TimersOnlyIf, QuietStays
<1>10. passes = << >> /\ Current(r) /\ t.enabled => t.timer
  <2> SUFFICES ASSUME passes = << >>, NEW n \in TaskNames, tasks[n] = r, record[r].enabled
               PROVE  t.timer
    BY <1>8 DEF Current
  <2>1. Registered(n)
    BY <1>1 DEF Registered
  <2>2. record[r].timer \/ record[r].run = "scheduled"
    BY <2>1 DEF TasksInv, TimersIf
  <2> QED
    BY <2>2
<1>11. UNCHANGED <<tasks, passes>>
  BY DEF Succeed
<1> HIDE DEF t
<1> QED
  BY <1>6, <1>7, <1>8, <1>9, <1>10, <1>11, ChangeKeeps

LEMMA FailManualKeeps ==
  ASSUME TasksInv, NEW r \in DOMAIN record, FailManual(r), UNCHANGED <<quiet, passes>>
  PROVE  TasksInv'
<1> DEFINE t == [enabled |-> record[r].enabled, timer |-> record[r].timer, run |-> "none"]
<1>1. record[r] \in Record /\ record \in Seq(Record)
  BY DEF TasksInv, RecordTypes
<1>2. t \in Record
  BY <1>1, RecordFields, RecordWith
<1>3. [record[r] EXCEPT !.run = "none"] = t
  BY <1>1, RecordExcept
<1>4. record' = [record EXCEPT ![r] = t]
  BY <1>3 DEF FailManual, Failure
<1>5. t.run = "none" /\ t.enabled = record[r].enabled /\ t.timer = record[r].timer
  OBVIOUS
<1>6. t.timer => t.enabled /\ r \notin quiet
  BY <1>5 DEF TasksInv, TimersOnlyIf
<1>7. passes = << >> /\ Current(r) /\ t.enabled => t.timer
  <2> SUFFICES ASSUME passes = << >>, NEW n \in TaskNames, tasks[n] = r, record[r].enabled
               PROVE  record[r].timer
    BY <1>5 DEF Current
  <2>1. Registered(n)
    BY <1>1 DEF Registered
  <2> QED
    BY <2>1 DEF TasksInv, TimersIf, FailManual
<1>8. UNCHANGED <<tasks, passes>>
  BY DEF FailManual
<1> HIDE DEF t
<1> QED
  BY <1>2, <1>4, <1>5, <1>6, <1>7, <1>8, ChangeKeeps

\* The records with which a shutdown begins: those of a run that goes on, or in which
\* some run that collided or failed has ended.
Quieter(rs) ==
  /\ rs \in Seq(Record) /\ Len(rs) = Len(record)
  /\ \A r \in DOMAIN record :
       /\ rs[r].enabled = record[r].enabled
       /\ rs[r].timer => record[r].timer
       /\ rs[r].run = "scheduled" => record[r].run = "scheduled"

\* A shutdown that begins, unless there is no scheduler yet.
LEMMA ShutdownKeeps ==
  ASSUME TasksInv, NEW rs, Quieter(rs), gracefulShutdown(rs)
  PROVE  TasksInv'
<1>1. /\ record \in Seq(Record) /\ tasks \in [TaskNames -> Nat]
      /\ \A n \in TaskNames : tasks[n] <= Len(record)
      /\ quiet \subseteq DOMAIN record
  BY DEF TasksInv, RecordTypes
<1>2. CASE "scheduler" \notin parts
  <2>1. UNCHANGED <<tasks, record, passes, quiet>>
    BY <1>2 DEF gracefulShutdown
  <2> QED
    BY <2>1 DEF TasksInv, RecordTypes, OwnRecord, QuietStays, TimersOnlyIf, TimersIf,
                Registered
<1>3. CASE "scheduler" \in parts
  <2>1. /\ record' = Stopped(rs) /\ tasks' = tasks
        /\ quiet' = quiet \cup {r \in DOMAIN rs : Current(r) /\ rs[r].run # "scheduled"}
        /\ passes' = Append(passes, <<Steps[1], TRUE>>)
    BY <1>3 DEF gracefulShutdown
  <2>2. /\ rs \in Seq(Record) /\ DOMAIN rs = DOMAIN record /\ Len(rs) = Len(record)
    BY <1>1 DEF Quieter
  <2>3. \A r \in DOMAIN rs : rs[r] \in Record
    BY <2>2
  <2>4. \A r \in DOMAIN rs :
          Stopped(rs)[r] = IF Current(r) THEN [enabled |-> rs[r].enabled, timer |-> FALSE,
                                               run |-> rs[r].run] ELSE rs[r]
    BY <2>3, RecordExcept DEF Stopped
  <2>5. \A r \in DOMAIN rs : Stopped(rs)[r] \in Record
    <3> SUFFICES ASSUME NEW r \in DOMAIN rs PROVE Stopped(rs)[r] \in Record
      OBVIOUS
    <3>1. rs[r] \in Record
      BY <2>3
    <3>2. [enabled |-> rs[r].enabled, timer |-> FALSE, run |-> rs[r].run] \in Record
      BY <3>1, RecordFields, RecordWith
    <3> QED
      BY <2>4, <3>1, <3>2
  <2>6. DOMAIN Stopped(rs) = DOMAIN rs
    BY DEF Stopped
  <2>7. /\ record' \in Seq(Record) /\ DOMAIN record' = DOMAIN record
        /\ Len(record') = Len(record)
    BY <2>1, <2>2, <2>5, <2>6 DEF Stopped
  <2>8. \A r \in DOMAIN record :
          /\ record'[r].enabled = record[r].enabled /\ record'[r].run = rs[r].run
          /\ record'[r].timer => record[r].timer /\ ~Current(r)
    <3> SUFFICES ASSUME NEW r \in DOMAIN record
                 PROVE  /\ record'[r].enabled = record[r].enabled
                        /\ record'[r].run = rs[r].run
                        /\ record'[r].timer => record[r].timer /\ ~Current(r)
      OBVIOUS
    <3>1. /\ rs[r].enabled = record[r].enabled /\ (rs[r].timer => record[r].timer)
      BY DEF Quieter
    <3>2. CASE Current(r)
      <4>1. record'[r] = [enabled |-> rs[r].enabled, timer |-> FALSE, run |-> rs[r].run]
        BY <2>1, <2>2, <2>4, <3>2
      <4>2. record'[r].enabled = rs[r].enabled
        BY <4>1
      <4>3. record'[r].run = rs[r].run
        BY <4>1
      <4>4. record'[r].timer = FALSE
        BY <4>1
      <4> QED
        BY <3>1, <4>2, <4>3, <4>4
    <3>3. CASE ~Current(r)
      BY <2>1, <2>2, <2>4, <3>1, <3>3
    <3> QED
      BY <3>2, <3>3
  <2>9. RecordTypes'
    BY <1>1, <2>1, <2>2, <2>7 DEF RecordTypes
  <2>10. OwnRecord'
    BY <2>1 DEF TasksInv, OwnRecord, Registered
  <2>11. QuietStays'
    BY <1>1, <2>1, <2>2, <2>8 DEF TasksInv, QuietStays, Quieter
  <2>12. TimersOnlyIf'
    BY <2>1, <2>7, <2>8 DEF TasksInv, TimersOnlyIf
  <2>13. TimersIf'
    BY <2>1 DEF TimersIf
  <2> QED
    BY <2>9, <2>10, <2>11, <2>12, <2>13 DEF TasksInv
<1> QED
  BY <1>2, <1>3

\* What a failed or collided run leaves.
LEMMA RejectionIsQuieter ==
  ASSUME TasksInv, NEW r \in DOMAIN record
  PROVE  Quieter(record) /\ Quieter(Collision(r)) /\ Quieter(Failure(r))
<1> DEFINE s == [enabled |-> record[r].enabled, timer |-> FALSE, run |-> record[r].run]
           t == [enabled |-> record[r].enabled, timer |-> record[r].timer, run |-> "none"]
<1>1. record[r] \in Record /\ record \in Seq(Record)
  BY DEF TasksInv, RecordTypes
<1>2. s \in Record /\ t \in Record
  BY <1>1, RecordFields, RecordWith
<1>3. Collision(r) = [record EXCEPT ![r] = s]
  BY <1>1, RecordExcept DEF Collision
<1>4. Failure(r) = [record EXCEPT ![r] = t]
  BY <1>1, RecordExcept DEF Failure
<1>5. s.enabled = record[r].enabled /\ ~s.timer /\ s.run = record[r].run
  OBVIOUS
<1>6. t.enabled = record[r].enabled /\ t.timer = record[r].timer /\ t.run = "none"
  OBVIOUS
<1>7. Quieter(record)
  BY <1>1 DEF Quieter
<1> HIDE DEF s, t
<1>8. Quieter(Collision(r))
  <2>1. /\ Collision(r) \in Seq(Record) /\ Len(Collision(r)) = Len(record)
        /\ Collision(r)[r] = s
        /\ \A q \in DOMAIN record \ {r} : Collision(r)[q] = record[q]
    BY <1>1, <1>2, <1>3, OneRecord
  <2> QED
    BY <1>5, <2>1 DEF Quieter
<1>9. Quieter(Failure(r))
  <2>1. /\ Failure(r) \in Seq(Record) /\ Len(Failure(r)) = Len(record)
        /\ Failure(r)[r] = t
        /\ \A q \in DOMAIN record \ {r} : Failure(r)[q] = record[q]
    BY <1>1, <1>2, <1>4, OneRecord
  <2> QED
    BY <1>6, <2>1 DEF Quieter
<1> QED
  BY <1>7, <1>8, <1>9

\* A step that leaves the scheduler alone and is of no pass, or of one that goes on.
LEMMA ElsewhereKeeps ==
  ASSUME TasksInv, UNCHANGED schedulerVars, passes' = << >> => passes = << >>
  PROVE  TasksInv'
BY DEF schedulerVars, TasksInv, RecordTypes, OwnRecord, QuietStays, TimersOnlyIf, TimersIf,
       Registered

LEMMA PassGoesOn ==
  ASSUME NEW p \in DOMAIN passes, NEW v, passes' = [passes EXCEPT ![p] = v]
  PROVE  passes' # << >>
<1>1. p \in DOMAIN passes'
  OBVIOUS
<1> QED
  BY <1>1

LEMMA TasksNext ==
  ASSUME Heartbeat \in TaskNames, TasksInv, [Next]_vars
  PROVE  TasksInv'
<1>1. CASE Startup
  <2>1. CASE ReadApplications
    BY <2>1, AddKeeps DEF ReadApplications
  <2>2. CASE initializeModules \/ createPipeline \/ StartParts \/ StartupTimeout
    BY <2>2, ElsewhereKeeps DEF initializeModules, createPipeline, StartParts, StartupTimeout
  <2>3. CASE StartupFails
    <3>1. Quieter(record)
      BY DEF Quieter, TasksInv, RecordTypes
    <3>2. gracefulShutdown(record)
      BY <2>3 DEF StartupFails
    <3> QED
      BY <3>1, <3>2, ShutdownKeeps
  <2> QED
    BY <1>1, <2>1, <2>2, <2>3 DEF Startup
<1>2. CASE Signal
  <2>1. Quieter(record)
    BY DEF Quieter, TasksInv, RecordTypes
  <2>2. gracefulShutdown(record)
    BY <1>2 DEF Signal
  <2> QED
    BY <2>1, <2>2, ShutdownKeeps
<1>3. CASE TaskRejects
  <2>1. PICK r \in DOMAIN record :
          gracefulShutdown(Collision(r)) \/ gracefulShutdown(Failure(r))
    BY <1>3 DEF TaskRejects
  <2>2. Quieter(Collision(r)) /\ Quieter(Failure(r))
    BY RejectionIsQuieter
  <2> QED
    BY <2>1, <2>2, ShutdownKeeps
<1>4. CASE Shutdown
  <2>1. PICK p \in DOMAIN passes :
          CloseNext(p) \/ closeClients(p) \/ closeServer(p) \/ serverClosed(p) \/ Exit(p)
    BY <1>4 DEF Shutdown
  <2>2. UNCHANGED schedulerVars
    BY <2>1 DEF CloseNext, closeClients, closeServer, serverClosed, Exit
  <2>3. passes' # << >> \/ UNCHANGED passes
    <3>1. CASE CloseNext(p) \/ serverClosed(p)
      <4>1. passes' = [passes EXCEPT ![p][1] = After(passes[p][1])]
        BY <3>1 DEF CloseNext, serverClosed, Proceeds
      <4> QED
        BY <4>1, PassGoesOn
    <3>2. CASE closeClients(p)
      <4>1. \/ passes' = [passes EXCEPT ![p][1] = After(passes[p][1])]
            \/ passes' = [passes EXCEPT ![p] = <<After("closing"), FALSE>>]
        BY <3>2 DEF closeClients, Proceeds
      <4> QED
        BY <4>1, PassGoesOn
    <3>3. CASE closeServer(p)
      <4> DEFINE step == IF server.listening THEN "closing" ELSE After("closing")
      <4>1. passes' = [passes EXCEPT ![p][1] = step]
        BY <3>3 DEF closeServer
      <4> HIDE DEF step
      <4> QED
        BY <4>1, PassGoesOn
    <3>4. CASE Exit(p)
      BY <3>4 DEF Exit
    <3> QED
      BY <2>1, <3>1, <3>2, <3>3, <3>4
  <2> QED
    BY <2>2, <2>3, ElsewhereKeeps
<1>5. CASE Arrive \/ Answer \/ Ended \/ UNCHANGED vars
  BY <1>5, ElsewhereKeeps DEF Arrive, Answer, Ended, vars, schedulerVars
<1>6. CASE Administer
  <2>1. PICK n \in TaskNames, enabled \in BOOLEAN :
          \/ add(n, enabled) /\ UNCHANGED quiet
          \/ updateSchedule(n, enabled) /\ quiet' = quiet \ {tasks[n]}
          \/ stopTask(n) /\ UNCHANGED quiet
          \/ runNow(n) /\ UNCHANGED quiet
    BY <1>6 DEF Administer
  <2>2. UNCHANGED passes
    BY <1>6 DEF Administer
  <2> QED
    BY <2>1, <2>2, AddKeeps, UpdateKeeps, StopKeeps, RunNowKeeps
<1>7. CASE RunTasks
  <2>1. PICK r \in DOMAIN record : Fire(r) \/ Succeed(r) \/ FailManual(r)
    BY <1>7 DEF RunTasks
  <2>2. UNCHANGED <<quiet, passes>>
    BY <1>7 DEF RunTasks
  <2> QED
    BY <2>1, <2>2, FireKeeps, SucceedKeeps, FailManualKeeps
<1> QED
  BY <1>1, <1>2, <1>3, <1>4, <1>5, <1>6, <1>7 DEF Next

\* Whatever is registered, run, switched and stopped, a timer is set for an enabled task
\* only, and not after stopAll unless the task was running or is scheduled again; before
\* a shutdown no enabled task is left without a timer or a run (scheduler.js).
THEOREM TasksAreScheduled ==
  ASSUME Heartbeat \in TaskNames
  PROVE  Spec => []TasksScheduled
<1>1. Init => TasksInv
  BY TasksInit
<1>2. TasksInv /\ [Next]_vars => TasksInv'
  BY TasksNext
<1>3. TasksInv => TasksScheduled
  BY DEF TasksInv, TimersOnlyIf, TimersIf, TasksScheduled
<1> QED
  BY <1>1, <1>2, <1>3, PTL DEF Spec

----------------------------------------------------------------------------
(* Requests and stores *)

Late == {"closing", "redis", "database", "logger", "exit"}
Stores == {"redis", "database"}
AfterStores == {"database", "logger", "exit"}

DrainTypes ==
  /\ passes \in Seq(StepNames \X BOOLEAN)
  /\ server \in [listening: BOOLEAN, inside: Nat, cut: Nat]

\* Only a pass that gives up waiting takes connections from requests.
CutIsGivenUp == server.cut > 0 => gaveUp
NoServerYet ==
  /\ boot \in {"reading", "loading"} => "server" \notin parts
  /\ "server" \notin parts => ~server.listening /\ server.inside = 0
\* A pass that has met the server has it stop listening before it comes to the stores.
MetServer ==
  \A p \in DOMAIN passes : passes[p][2] =>
    /\ passes[p][1] \in Late \cup {"clients"} => "server" \in parts
    /\ passes[p][1] \in Late => ~server.listening
\* The pass that stopped the server waits for its connections.
SomeoneWaits ==
  "server" \in parts /\ ~server.listening =>
    server.inside = 0 \/ \E q \in DOMAIN passes : At(q, "closing")
StoresClosedByPass ==
  closed \cap Stores # {} => \E p \in DOMAIN passes : passes[p][1] \in AfterStores

DrainInv ==
  DrainTypes /\ CutIsGivenUp /\ NoServerYet /\ MetServer /\ SomeoneWaits /\ StoresClosedByPass

LEMMA DrainSuffices == DrainInv => DrainedBeforeStores
<1> SUFFICES ASSUME DrainInv, closed \cap Stores # {}, ~gaveUp,
                    \A p \in DOMAIN passes : ~At(p, "closing") /\ passes[p][2]
             PROVE  InProgress = 0
  BY DEF DrainedBeforeStores, Stores
<1>1. PICK p \in DOMAIN passes : passes[p][1] \in AfterStores
  BY DEF DrainInv, StoresClosedByPass
<1>2. "server" \in parts /\ ~server.listening
  BY <1>1 DEF DrainInv, MetServer, AfterStores, Late
<1>3. server.inside = 0
  BY <1>2 DEF DrainInv, SomeoneWaits
<1>4. server.cut = 0
  BY DEF DrainInv, CutIsGivenUp, DrainTypes
<1> QED
  BY <1>3, <1>4 DEF InProgress

LEMMA DrainInit == Init => DrainInv
BY DEF Init, DrainInv, DrainTypes, CutIsGivenUp, NoServerYet, MetServer, SomeoneWaits,
       StoresClosedByPass

\* What follows each step of a pass.
LEMMA StepAfter == ASSUME NEW i \in 1 .. 7 PROVE After(Steps[i]) = Steps[i + 1]
<1>1. DOMAIN Steps = 1 .. 8
  BY DEF Steps
<1>2. \A k \in 1 .. 8 : Steps[k] = Steps[i] => k = i
  BY DEF Steps
<1>3. (CHOOSE k \in DOMAIN Steps : Steps[k] = Steps[i]) = i
  BY <1>1, <1>2
<1> QED
  BY <1>3 DEF After

LEMMA AfterIs ==
  /\ After("queue") = "server" /\ After("server") = "clients"
  /\ After("closing") = "redis" /\ After("redis") = "database"
  /\ After("database") = "logger" /\ After("logger") = "exit"
BY StepAfter DEF Steps

LEMMA StepNamesAre ==
  StepNames = {"queue", "server", "clients", "closing", "redis", "database", "logger", "exit"}
<1>1. DOMAIN Steps = 1 .. 8
  BY DEF Steps
<1>2. StepNames = {Steps[i] : i \in 1 .. 8}
  BY <1>1 DEF StepNames
<1>3. /\ Steps[1] = "queue" /\ Steps[2] = "server" /\ Steps[3] = "clients"
      /\ Steps[4] = "closing" /\ Steps[5] = "redis" /\ Steps[6] = "database"
      /\ Steps[7] = "logger" /\ Steps[8] = "exit"
  BY DEF Steps
<1>4. \A i \in 1 .. 8 : i = 1 \/ i = 2 \/ i = 3 \/ i = 4 \/ i = 5 \/ i = 6 \/ i = 7 \/ i = 8
  OBVIOUS
<1> QED
  BY <1>2, <1>3, <1>4

\* A pass comes to a step, and the server and the stores are what they are by then.
LEMMA StepKeeps ==
  ASSUME DrainInv, NEW p \in DOMAIN passes, NEW step \in StepNames, NEW flag \in BOOLEAN,
         passes' = [passes EXCEPT ![p] = <<step, flag>>], UNCHANGED <<boot, parts>>,
         server' \in [listening: BOOLEAN, inside: Nat, cut: Nat],
         server'.listening => server.listening,
         server'.cut > 0 => gaveUp',
         "server" \notin parts => server' = server,
         server'.inside = 0 \/ step = "closing" \/ server'.listening
           \/ /\ ~server.listening /\ server'.inside = server.inside
              /\ passes[p][1] # "closing",
         flag /\ step \in Late \cup {"clients"} => "server" \in parts,
         flag /\ step \in Late => ~server'.listening,
         closed' \cap Stores # {} => closed \cap Stores # {} \/ step \in AfterStores,
         passes[p][1] \in AfterStores => step \in AfterStores
  PROVE  DrainInv'
<1>1. passes \in Seq(StepNames \X BOOLEAN)
  BY DEF DrainInv, DrainTypes
<1> DEFINE v == <<step, flag>>
<1>2. v \in StepNames \X BOOLEAN /\ v[1] = step /\ v[2] = flag
  OBVIOUS
<1>3. passes' = [passes EXCEPT ![p] = v]
  OBVIOUS
<1> HIDE DEF v
<1>4. /\ passes' \in Seq(StepNames \X BOOLEAN) /\ DOMAIN passes' = DOMAIN passes
      /\ passes'[p] = v
      /\ \A q \in DOMAIN passes \ {p} : passes'[q] = passes[q]
  BY <1>1, <1>2, <1>3
<1>5. DrainTypes'
  BY <1>4 DEF DrainTypes
<1>6. CutIsGivenUp'
  BY DEF CutIsGivenUp
<1>7. NoServerYet'
  BY DEF DrainInv, NoServerYet
<1>8. MetServer'
  <2> SUFFICES ASSUME NEW q \in DOMAIN passes, passes'[q][2]
               PROVE  /\ passes'[q][1] \in Late \cup {"clients"} => "server" \in parts
                      /\ passes'[q][1] \in Late => ~server'.listening
    BY <1>4 DEF MetServer
  <2>1. CASE q = p
    BY <1>2, <1>4, <2>1
  <2>2. CASE q # p
    BY <1>4, <2>2 DEF DrainInv, MetServer
  <2> QED
    BY <2>1, <2>2
<1>9. SomeoneWaits'
  <2> SUFFICES ASSUME "server" \in parts, ~server'.listening, server'.inside # 0
               PROVE  \E q \in DOMAIN passes : passes'[q][1] = "closing"
    BY <1>4 DEF SomeoneWaits, At
  <2>1. CASE step = "closing"
    BY <1>2, <1>4, <2>1
  <2>2. CASE step # "closing"
    <3>1. ~server.listening /\ server'.inside = server.inside /\ passes[p][1] # "closing"
      BY <2>2
    <3>2. PICK q \in DOMAIN passes : passes[q][1] = "closing"
      BY <3>1 DEF DrainInv, SomeoneWaits, At
    <3>3. q # p
      BY <3>1, <3>2
    <3> QED
      BY <1>4, <3>2, <3>3
  <2> QED
    BY <2>1, <2>2
<1>10. StoresClosedByPass'
  <2> SUFFICES ASSUME closed' \cap Stores # {}
               PROVE  \E q \in DOMAIN passes : passes'[q][1] \in AfterStores
    BY <1>4 DEF StoresClosedByPass
  <2>1. CASE step \in AfterStores
    BY <1>2, <1>4, <2>1
  <2>2. CASE step \notin AfterStores
    <3>1. PICK q \in DOMAIN passes : passes[q][1] \in AfterStores
      BY <2>2 DEF DrainInv, StoresClosedByPass
    <3>2. q # p
      BY <2>2, <3>1
    <3> QED
      BY <1>4, <3>1, <3>2
  <2> QED
    BY <2>1, <2>2
<1> QED
  BY <1>5, <1>6, <1>7, <1>8, <1>9, <1>10 DEF DrainInv

\* A pass that moves from one step to the next, as it is written in the actions.
LEMMA PassMoves ==
  ASSUME DrainInv, NEW p \in DOMAIN passes, NEW step
  PROVE  /\ passes[p][1] \in StepNames /\ passes[p][2] \in BOOLEAN
         /\ [passes EXCEPT ![p][1] = step] = [passes EXCEPT ![p] = <<step, passes[p][2]>>]
<1>1. passes[p] \in StepNames \X BOOLEAN
  BY DEF DrainInv, DrainTypes
<1>2. [passes[p] EXCEPT ![1] = step] = <<step, passes[p][2]>>
  BY <1>1
<1>3. passes[p][1] \in StepNames /\ passes[p][2] \in BOOLEAN
  BY <1>1
<1> QED
  BY <1>2, <1>3

\* A new pass.
LEMMA ShutdownBegins ==
  ASSUME DrainInv, NEW rs, gracefulShutdown(rs), UNCHANGED <<parts, server, gaveUp>>,
         boot' \in {boot, "failed"}
  PROVE  DrainInv'
<1>1. CASE "scheduler" \notin parts
  <2>1. UNCHANGED <<closed, passes>>
    BY <1>1 DEF gracefulShutdown
  <2> QED
    BY <2>1 DEF DrainInv, DrainTypes, CutIsGivenUp, NoServerYet, MetServer, SomeoneWaits,
                StoresClosedByPass, At
<1>2. CASE "scheduler" \in parts
  <2> DEFINE v == <<Steps[1], TRUE>>
             k == Len(passes) + 1
  <2>1. /\ passes' = Append(passes, v)
        /\ closed' = closed \cup (parts \cap {"scheduler", "outbox", "pipeline"})
    BY <1>2 DEF gracefulShutdown
  <2>2. v \in StepNames \X BOOLEAN /\ v[1] = "queue" /\ v[2] = TRUE
    BY StepNamesAre DEF Steps
  <2>3. passes \in Seq(StepNames \X BOOLEAN)
    BY DEF DrainInv, DrainTypes
  <2> HIDE DEF v
  <2>4. /\ passes' \in Seq(StepNames \X BOOLEAN)
        /\ DOMAIN passes' = DOMAIN passes \cup {k}
        /\ passes'[k] = v
        /\ \A q \in DOMAIN passes : passes'[q] = passes[q]
    BY <2>1, <2>2, <2>3
  <2>5. closed' \cap Stores = closed \cap Stores
    BY <2>1 DEF Stores
  <2>6. DrainTypes' /\ CutIsGivenUp' /\ NoServerYet'
    BY <2>4 DEF DrainInv, DrainTypes, CutIsGivenUp, NoServerYet
  <2>7. MetServer'
    BY <2>2, <2>4 DEF DrainInv, MetServer, Late
  <2>8. SomeoneWaits'
    BY <2>4 DEF DrainInv, SomeoneWaits, At
  <2>9. StoresClosedByPass'
    BY <2>4, <2>5 DEF DrainInv, StoresClosedByPass
  <2> QED
    BY <2>6, <2>7, <2>8, <2>9 DEF DrainInv
<1> QED
  BY <1>1, <1>2

LEMMA CloseNextKeeps ==
  ASSUME DrainInv, NEW p \in DOMAIN passes, CloseNext(p)
  PROVE  DrainInv'
<1> DEFINE from == passes[p][1]
           flag == passes[p][2]
           step == After(from)
<1>1. from \in {"queue", "redis", "database", "logger"}
  BY DEF CloseNext
<1>2. /\ from = "queue" => step = "server"
      /\ from = "redis" => step = "database"
      /\ from = "database" => step = "logger"
      /\ from = "logger" => step = "exit"
  BY AfterIs
<1>3. step \in StepNames
  BY <1>1, <1>2, StepNamesAre
<1>4. flag \in BOOLEAN
  BY PassMoves
<1>5. passes' = [passes EXCEPT ![p][1] = step]
  BY DEF CloseNext, Proceeds
<1>6. [passes EXCEPT ![p][1] = step] = [passes EXCEPT ![p] = <<step, flag>>]
  BY PassMoves
<1>7. UNCHANGED <<boot, parts, server, gaveUp>>
  BY DEF CloseNext
<1>8. closed' = closed \cup (parts \cap
                  IF from = "redis" THEN {"watcher", "redis"} ELSE {from})
  BY DEF CloseNext, At
<1>9. /\ server' \in [listening: BOOLEAN, inside: Nat, cut: Nat]
      /\ server'.cut > 0 => gaveUp'
  BY <1>7 DEF DrainInv, DrainTypes, CutIsGivenUp
<1>10. \/ server'.listening
       \/ ~server.listening /\ server'.inside = server.inside /\ from # "closing"
  <2>1. server.listening \in BOOLEAN
    BY DEF DrainInv, DrainTypes
  <2> QED
    BY <1>1, <1>7, <2>1
<1>11. flag => (step \in Late \cup {"clients"} => "server" \in parts)
               /\ (step \in Late => ~server'.listening)
  BY <1>1, <1>2, <1>7 DEF DrainInv, MetServer, Late
<1>12. closed' \cap Stores # {} => closed \cap Stores # {} \/ step \in AfterStores
  BY <1>1, <1>2, <1>8 DEF Stores, AfterStores
<1>13. from \in AfterStores => step \in AfterStores
  BY <1>1, <1>2 DEF AfterStores
<1> HIDE DEF step, flag
<1> QED
  BY <1>3, <1>4, <1>5, <1>6, <1>7, <1>9, <1>10, <1>11, <1>12, <1>13, StepKeeps

LEMMA closeClientsKeeps ==
  ASSUME DrainInv, NEW p \in DOMAIN passes, closeClients(p)
  PROVE  DrainInv'
<1> DEFINE Serving == [listening: BOOLEAN, inside: Nat, cut: Nat]
<1>1. passes[p][1] = "server" /\ UNCHANGED <<boot, parts, closed>>
  BY DEF closeClients, At
<1>2. server \in Serving /\ server.listening \in BOOLEAN
      /\ server.inside \in Nat /\ server.cut \in Nat
  BY DEF DrainInv, DrainTypes
<1>3. passes[p][1] \notin AfterStores
  BY <1>1 DEF AfterStores
<1>4. CASE "server" \in parts
  <2> DEFINE flag == passes[p][2]
             stopped == [listening |-> server.listening, inside |-> 0, cut |-> InProgress]
  <2>1. /\ gaveUp' = (gaveUp \/ InProgress > 0)
        /\ server' = [server EXCEPT !.inside = 0, !.cut = InProgress]
        /\ passes' = [passes EXCEPT ![p][1] = After(passes[p][1])]
    BY <1>4 DEF closeClients, Proceeds
  <2>2. InProgress \in Nat
    BY <1>2 DEF InProgress
  <2>3. server' = stopped
    <3> HIDE DEF InProgress
    <3> QED
      BY <1>2, <2>1
  <2>4. server' \in Serving /\ server'.inside = 0 /\ server'.cut = InProgress
    BY <1>2, <2>2, <2>3
  <2>5. server'.listening = server.listening
    BY <2>3
  <2>6. server'.cut > 0 => gaveUp'
    BY <2>1, <2>4
  <2>7. After(passes[p][1]) = "clients" /\ "clients" \in StepNames
        /\ "clients" \notin Late /\ "clients" # "closing"
    BY <1>1, AfterIs, StepNamesAre DEF Late
  <2>8. [passes EXCEPT ![p][1] = "clients"] = [passes EXCEPT ![p] = <<"clients", flag>>]
    BY PassMoves
  <2>9. flag \in BOOLEAN
    BY PassMoves
  <2> HIDE DEF flag, stopped
  <2> QED
    BY <1>1, <1>3, <1>4, <2>1, <2>4, <2>5, <2>6, <2>7, <2>8, <2>9, StepKeeps
<1>5. CASE "server" \notin parts
  <2>1. /\ passes' = [passes EXCEPT ![p] = <<"redis", FALSE>>]
        /\ UNCHANGED <<server, gaveUp>>
    BY <1>5, AfterIs DEF closeClients
  <2>2. "redis" \in StepNames
    BY StepNamesAre
  <2>3. server.inside = 0
    BY <1>5 DEF DrainInv, NoServerYet
  <2>4. server'.cut > 0 => gaveUp'
    BY <2>1 DEF DrainInv, CutIsGivenUp
  <2> QED
    BY <1>1, <1>2, <1>3, <2>1, <2>2, <2>3, <2>4, StepKeeps
<1> QED
  BY <1>4, <1>5

LEMMA closeServerKeeps ==
  ASSUME DrainInv, NEW p \in DOMAIN passes, closeServer(p)
  PROVE  DrainInv'
<1> DEFINE Serving == [listening: BOOLEAN, inside: Nat, cut: Nat]
           flag == passes[p][2]
           step == IF server.listening THEN "closing" ELSE After("closing")
           deaf == [listening |-> FALSE, inside |-> server.inside, cut |-> server.cut]
<1>1. /\ passes[p][1] = "clients" /\ UNCHANGED <<boot, parts, closed, gaveUp>>
      /\ server' = [server EXCEPT !.listening = FALSE]
      /\ passes' = [passes EXCEPT ![p][1] = step]
  BY DEF closeServer, At
<1>2. server \in Serving /\ server.listening \in BOOLEAN
      /\ server.inside \in Nat /\ server.cut \in Nat
  BY DEF DrainInv, DrainTypes
<1>3. server' = deaf
  BY <1>1, <1>2
<1>4. server' \in Serving /\ server'.inside = server.inside /\ server'.cut = server.cut
  BY <1>2, <1>3
<1>5. ~server'.listening
  BY <1>3
<1>6. step \in StepNames /\ step \in Late /\ (server.listening => step = "closing")
  BY AfterIs, StepNamesAre DEF Late
<1>7. flag \in BOOLEAN
      /\ [passes EXCEPT ![p][1] = step] = [passes EXCEPT ![p] = <<step, flag>>]
  BY PassMoves
<1>8. server'.cut > 0 => gaveUp'
  BY <1>1, <1>4 DEF DrainInv, CutIsGivenUp
<1>9. "server" \notin parts => server' = server
  <2> SUFFICES ASSUME "server" \notin parts PROVE server' = server
    OBVIOUS
  <2>1. server.listening = FALSE
    BY <1>2 DEF DrainInv, NoServerYet
  <2> QED
    BY <1>2, <1>3, <2>1
<1>10. flag => "server" \in parts
  BY <1>1 DEF DrainInv, MetServer
<1>11. passes[p][1] \notin AfterStores /\ passes[p][1] # "closing"
  BY <1>1 DEF AfterStores
<1> HIDE DEF step, flag, deaf
<1> QED
  BY <1>1, <1>4, <1>5, <1>6, <1>7, <1>8, <1>9, <1>10, <1>11, StepKeeps

LEMMA serverClosedKeeps ==
  ASSUME DrainInv, NEW p \in DOMAIN passes, serverClosed(p)
  PROVE  DrainInv'
<1> DEFINE flag == passes[p][2]
<1>1. /\ passes[p][1] = "closing" /\ server.inside = 0
      /\ UNCHANGED <<boot, parts, server, gaveUp>>
      /\ closed' = closed \cup (parts \cap {"server"})
      /\ passes' = [passes EXCEPT ![p][1] = After("closing")]
  BY DEF serverClosed, At, Proceeds
<1>2. After("closing") = "redis" /\ "redis" \in StepNames
  BY AfterIs, StepNamesAre
<1>3. flag \in BOOLEAN
      /\ [passes EXCEPT ![p][1] = "redis"] = [passes EXCEPT ![p] = <<"redis", flag>>]
  BY PassMoves
<1>4. flag => "server" \in parts /\ ~server'.listening
  BY <1>1 DEF DrainInv, MetServer, Late
<1>5. closed' \cap Stores = closed \cap Stores
  BY <1>1 DEF Stores
<1>6. /\ server' \in [listening: BOOLEAN, inside: Nat, cut: Nat]
      /\ server'.cut > 0 => gaveUp'
  BY <1>1 DEF DrainInv, DrainTypes, CutIsGivenUp
<1>7. passes[p][1] \notin AfterStores
  BY <1>1 DEF AfterStores
<1>8. passes' = [passes EXCEPT ![p] = <<"redis", flag>>]
  BY <1>1, <1>2, <1>3
<1>9. closed' \cap Stores # {} => closed \cap Stores # {}
  BY <1>5
<1>10. UNCHANGED <<boot, parts>> /\ server' = server /\ server'.inside = 0
  BY <1>1
<1>11. server'.listening => server.listening
  BY <1>1
<1> HIDE DEF flag
<1> QED
  BY <1>2, <1>3, <1>4, <1>6, <1>7, <1>8, <1>9, <1>10, <1>11, StepKeeps

\* The steps of the startup and of the requests, none of which is of a pass.
LEMMA StartupDrains ==
  ASSUME DrainInv, Startup
  PROVE  DrainInv'
<1>1. CASE ReadApplications
  <2>1. boot = "reading" /\ boot' = "loading" /\ UNCHANGED <<closed, server, passes, gaveUp>>
        /\ parts' = {"scheduler", "watcher", "logger"}
    BY <1>1 DEF ReadApplications
  <2>2. "server" \notin parts
    BY <2>1 DEF DrainInv, NoServerYet
  <2> QED
    BY <2>1, <2>2 DEF DrainInv, DrainTypes, CutIsGivenUp, NoServerYet, MetServer, SomeoneWaits,
                      StoresClosedByPass, At
<1>2. CASE initializeModules
  <2> DEFINE open == [listening |-> TRUE, inside |-> server.inside, cut |-> server.cut]
  <2>1. /\ boot = "loading" /\ boot' = "manager"
        /\ parts' = parts \cup {"queue", "server", "redis"}
        /\ server' = [server EXCEPT !.listening = TRUE]
        /\ UNCHANGED <<closed, passes, gaveUp>>
    BY <1>2 DEF initializeModules
  <2>2. "server" \notin parts
    BY <2>1 DEF DrainInv, NoServerYet
  <2>3. server \in [listening: BOOLEAN, inside: Nat, cut: Nat]
        /\ server.inside \in Nat /\ server.cut \in Nat
    BY DEF DrainInv, DrainTypes
  <2>4. server' = open
    BY <2>1, <2>3
  <2>5. server' \in [listening: BOOLEAN, inside: Nat, cut: Nat]
        /\ server'.cut = server.cut
    BY <2>3, <2>4
  <2>6. server'.listening
    BY <2>4
  <2> QED
    BY <2>1, <2>2, <2>5, <2>6
       DEF DrainInv, DrainTypes, CutIsGivenUp, NoServerYet, MetServer, SomeoneWaits,
           StoresClosedByPass, At
<1>3. CASE createPipeline \/ StartParts
  <2>1. boot' \in {"static", "up"} /\ UNCHANGED <<closed, server, passes, gaveUp>>
        /\ ("server" \in parts' <=> "server" \in parts)
    BY <1>3 DEF createPipeline, StartParts
  <2> QED
    BY <2>1 DEF DrainInv, DrainTypes, CutIsGivenUp, NoServerYet, MetServer, SomeoneWaits,
                StoresClosedByPass, At
<1>4. CASE StartupFails
  <2>1. boot' = "failed" /\ gracefulShutdown(record) /\ UNCHANGED <<parts, server, gaveUp>>
    BY <1>4 DEF StartupFails
  <2> QED
    BY <2>1, ShutdownBegins
<1>5. CASE StartupTimeout
  BY <1>5 DEF StartupTimeout, DrainInv, DrainTypes, CutIsGivenUp, NoServerYet, MetServer,
              SomeoneWaits, StoresClosedByPass, At
<1> QED
  BY <1>1, <1>2, <1>3, <1>4, <1>5 DEF Startup

LEMMA RequestsDrain ==
  ASSUME DrainInv, Arrive \/ Answer
  PROVE  DrainInv'
<1> DEFINE Serving == [listening: BOOLEAN, inside: Nat, cut: Nat]
<1>1. server \in Serving /\ server.listening \in BOOLEAN
      /\ server.inside \in Nat /\ server.cut \in Nat
  BY DEF DrainInv, DrainTypes
<1>2. UNCHANGED <<boot, parts, closed, passes, gaveUp>>
  BY DEF Arrive, Answer
<1>3. /\ server' \in Serving /\ server'.listening = server.listening
      /\ server'.cut > 0 => server.cut > 0
      /\ server'.inside # 0 => server.inside # 0 \/ server.listening
  <2>1. CASE Arrive
    <3> DEFINE more == [listening |-> server.listening, inside |-> server.inside + 1,
                        cut |-> server.cut]
    <3>1. server.listening /\ server' = more
      BY <1>1, <2>1 DEF Arrive
    <3> QED
      BY <1>1, <3>1
  <2>2. CASE Answer
    <3> DEFINE inner == [listening |-> server.listening, inside |-> server.inside - 1,
                         cut |-> server.cut]
               outer == [listening |-> server.listening, inside |-> server.inside,
                         cut |-> server.cut - 1]
    <3>1. PICK place \in {"inside", "cut"} :
            server[place] > 0 /\ server' = [server EXCEPT ![place] = @ - 1]
      BY <2>2 DEF Answer
    <3>2. CASE place = "inside"
      <4>1. server.inside > 0 /\ server' = inner
        BY <1>1, <3>1, <3>2
      <4> QED
        BY <1>1, <4>1
    <3>3. CASE place = "cut"
      <4>1. server.cut > 0 /\ server' = outer
        BY <1>1, <3>1, <3>3
      <4> QED
        BY <1>1, <4>1
    <3> QED
      BY <3>2, <3>3
  <2> QED
    BY <2>1, <2>2
<1> QED
  BY <1>1, <1>2, <1>3 DEF DrainInv, DrainTypes, CutIsGivenUp, NoServerYet, MetServer,
                          SomeoneWaits, StoresClosedByPass, At

LEMMA DrainNext == DrainInv /\ [Next]_vars => DrainInv'
<1> SUFFICES ASSUME DrainInv, [Next]_vars PROVE DrainInv'
  OBVIOUS
<1>1. CASE Startup
  BY <1>1, StartupDrains
<1>2. CASE Signal
  BY <1>2, ShutdownBegins DEF Signal
<1>3. CASE TaskRejects
  <2>1. PICK r \in DOMAIN record :
          gracefulShutdown(Collision(r)) \/ gracefulShutdown(Failure(r))
    BY <1>3 DEF TaskRejects
  <2>2. UNCHANGED <<boot, parts, server, gaveUp>>
    BY <1>3 DEF TaskRejects
  <2> QED
    BY <2>1, <2>2, ShutdownBegins
<1>4. CASE Shutdown
  <2>1. PICK p \in DOMAIN passes :
          CloseNext(p) \/ closeClients(p) \/ closeServer(p) \/ serverClosed(p) \/ Exit(p)
    BY <1>4 DEF Shutdown
  <2>2. CASE Exit(p)
    BY <2>2 DEF Exit, DrainInv, DrainTypes, CutIsGivenUp, NoServerYet, MetServer, SomeoneWaits,
                StoresClosedByPass, At
  <2> QED
    BY <2>1, <2>2, CloseNextKeeps, closeClientsKeeps, closeServerKeeps, serverClosedKeeps
<1>5. CASE Arrive \/ Answer
  BY <1>5, RequestsDrain
<1>6. CASE Administer \/ RunTasks \/ Ended \/ UNCHANGED vars
  BY <1>6 DEF Administer, RunTasks, Ended, vars, DrainInv, DrainTypes, CutIsGivenUp,
              NoServerYet, MetServer, SomeoneWaits, StoresClosedByPass, At
<1> QED
  BY <1>1, <1>2, <1>3, <1>4, <1>5, <1>6 DEF Next

\* Whenever signals come, however many passes run and wherever the startup is, Redis and
\* the database are closed with a request in progress only if a pass gave up waiting, met
\* no server, or overtakes one that still waits (application.js shutdown).
THEOREM StoresOutliveRequests == Spec => []DrainedBeforeStores
<1>1. Init => DrainInv
  BY DrainInit
<1>2. DrainInv /\ [Next]_vars => DrainInv'
  BY DrainNext
<1>3. DrainInv => DrainedBeforeStores
  BY DrainSuffices
<1> QED
  BY <1>1, <1>2, <1>3, PTL DEF Spec

----------------------------------------------------------------------------
(* Types and bounds *)

LifeBounds == MaxRecords \in Nat /\ MaxRequests \in Nat /\ MaxPasses \in Nat

\* Nothing exists while the applications are read; nothing is closed that does not exist.
PartsFit ==
  /\ boot \in Starting \cup {"up", "failed"}
  /\ boot = "reading" => parts = {}
  /\ parts \subseteq Parts /\ closed \subseteq parts
\* The counters are within their bounds; requests with and without a connection count
\* together, as a pass that gives up turns the one into the other.
WithinBounds ==
  /\ Len(record) <= MaxRecords /\ Len(passes) <= MaxPasses
  /\ InProgress <= MaxRequests
Flags == exit \in {"none", "success", "failure"} /\ gaveUp \in BOOLEAN

LifeInv == TasksInv /\ DrainInv /\ PartsFit /\ WithinBounds /\ Flags

LEMMA LifeInvIsTyped == LifeBounds /\ LifeInv => TypeOK
<1> SUFFICES ASSUME LifeBounds, LifeInv PROVE TypeOK
  OBVIOUS
<1>1. /\ tasks \in [TaskNames -> Nat] /\ \A n \in TaskNames : tasks[n] <= Len(record)
      /\ record \in Seq(Record) /\ quiet \subseteq DOMAIN record
  BY DEF LifeInv, TasksInv, RecordTypes
<1>2. tasks \in [TaskNames -> 0 .. Len(record)]
  <2> DEFINE k == Len(record)
  <2>1. k \in Nat /\ \A n \in TaskNames : tasks[n] \in Nat /\ tasks[n] <= k
    BY <1>1
  <2> HIDE DEF k
  <2>2. tasks \in [TaskNames -> 0 .. k]
    BY <1>1, <2>1
  <2> QED
    BY <2>2 DEF k
<1>3. /\ passes \in Seq(StepNames \X BOOLEAN)
      /\ server \in [listening: BOOLEAN, inside: Nat, cut: Nat]
  BY DEF LifeInv, DrainInv, DrainTypes
<1>4. server \in [listening: BOOLEAN, inside: 0 .. MaxRequests, cut: 0 .. MaxRequests]
  <2>1. /\ server.listening \in BOOLEAN /\ server.inside \in Nat /\ server.cut \in Nat
        /\ server = [listening |-> server.listening, inside |-> server.inside,
                     cut |-> server.cut]
    BY <1>3
  <2>2. server.inside + server.cut <= MaxRequests
    BY DEF LifeInv, WithinBounds, InProgress
  <2>3. server.inside \in 0 .. MaxRequests /\ server.cut \in 0 .. MaxRequests
    BY <2>1, <2>2 DEF LifeBounds
  <2> DEFINE a == server.listening
             b == server.inside
             c == server.cut
  <2>4. server = [listening |-> a, inside |-> b, cut |-> c]
    BY <2>1
  <2> HIDE DEF a, b, c
  <2>5. a \in BOOLEAN /\ b \in 0 .. MaxRequests /\ c \in 0 .. MaxRequests
    BY <2>1, <2>3 DEF a, b, c
  <2> QED
    BY <2>4, <2>5
<1> QED
  BY <1>1, <1>2, <1>3, <1>4 DEF LifeInv, PartsFit, WithinBounds, Flags, TypeOK

LEMMA LifeInit == LifeBounds /\ Init => LifeInv
<1> SUFFICES ASSUME LifeBounds, Init PROVE LifeInv
  OBVIOUS
<1>1. TasksInv /\ DrainInv
  BY TasksInit, DrainInit
<1>2. /\ record = << >> /\ passes = << >> /\ server.inside = 0 /\ server.cut = 0
      /\ boot = "reading" /\ parts = {} /\ closed = {} /\ exit = "none" /\ gaveUp = FALSE
  BY DEF Init
<1>3. PartsFit /\ Flags
  BY <1>2 DEF PartsFit, Flags, Starting
<1>4. WithinBounds
  BY <1>2 DEF WithinBounds, LifeBounds, InProgress
<1> QED
  BY <1>1, <1>3, <1>4 DEF LifeInv

\* A record is replaced, or one is added while there is room.
LEMMA RecordsBounded ==
  ASSUME LifeBounds, LifeInv, record' \in Seq(Record),
         \/ DOMAIN record' = DOMAIN record
         \/ /\ UNCHANGED <<quiet, passes>>
            /\ \E n \in TaskNames, enabled \in BOOLEAN : add(n, enabled)
  PROVE  Len(record') <= MaxRecords
<1>1. record \in Seq(Record) /\ Len(record) \in Nat /\ Len(record) <= MaxRecords
      /\ Len(record') \in Nat
  BY DEF LifeInv, TasksInv, RecordTypes, WithinBounds
<1>2. CASE DOMAIN record' = DOMAIN record
  <2>1. DOMAIN record = 1 .. Len(record) /\ DOMAIN record' = 1 .. Len(record')
    BY <1>1
  <2>2. 1 .. Len(record') = 1 .. Len(record)
    BY <1>2, <2>1
  <2>3. Len(record') = Len(record)
    BY <1>1, <2>2
  <2> QED
    BY <1>1, <2>3
<1>3. ASSUME NEW n \in TaskNames, NEW enabled \in BOOLEAN, add(n, enabled),
             UNCHANGED <<quiet, passes>>
      PROVE  Len(record') <= MaxRecords
  <2>1. Len(record) < MaxRecords
    BY <1>3 DEF add
  <2>2. Len(record') = Len(record) + 1
    BY <1>3, AddKeeps DEF LifeInv
  <2> QED
    BY <1>1, <2>1, <2>2 DEF LifeBounds
<1> QED
  BY <1>2, <1>3

\* The schedule, the runs and the stops: what they do to the records.
LEMMA RecordsNext ==
  ASSUME LifeBounds, LifeInv, TasksInv', [Next]_vars, Heartbeat \in TaskNames
  PROVE  Len(record') <= MaxRecords
<1>1. record' \in Seq(Record)
  BY DEF TasksInv, RecordTypes
<1>2. ASSUME NEW rs, gracefulShutdown(rs), DOMAIN rs = DOMAIN record
      PROVE  DOMAIN record' = DOMAIN record
  BY <1>2 DEF gracefulShutdown, Stopped
<1>3. CASE Startup
  <2>1. CASE ReadApplications
    <3>1. add(Heartbeat, FALSE) /\ UNCHANGED <<quiet, passes>>
      BY <2>1 DEF ReadApplications
    <3> QED
      BY <1>1, <3>1, RecordsBounded
  <2>2. CASE StartupFails
    <3>1. gracefulShutdown(record)
      BY <2>2 DEF StartupFails
    <3> QED
      BY <1>1, <1>2, <3>1, RecordsBounded
  <2>3. CASE initializeModules \/ createPipeline \/ StartParts \/ StartupTimeout
    <3>1. record' = record
      BY <2>3 DEF initializeModules, createPipeline, StartParts, StartupTimeout, schedulerVars
    <3> QED
      BY <1>1, <3>1, RecordsBounded
  <2> QED
    BY <1>3, <2>1, <2>2, <2>3 DEF Startup
<1>4. CASE Signal \/ TaskRejects
  <2>1. CASE Signal
    BY <1>1, <1>2, <2>1, RecordsBounded DEF Signal
  <2>2. CASE TaskRejects
    <3>1. PICK r \in DOMAIN record :
            gracefulShutdown(Collision(r)) \/ gracefulShutdown(Failure(r))
      BY <2>2 DEF TaskRejects
    <3>2. DOMAIN Collision(r) = DOMAIN record /\ DOMAIN Failure(r) = DOMAIN record
      BY DEF Collision, Failure
    <3>3. DOMAIN record' = DOMAIN record
      BY <1>2, <3>1, <3>2
    <3> QED
      BY <1>1, <3>3, RecordsBounded
  <2> QED
    BY <1>4, <2>1, <2>2
<1>5. CASE Shutdown \/ Arrive \/ Answer \/ Ended \/ UNCHANGED vars
  <2>1. record' = record
    BY <1>5 DEF Shutdown, CloseNext, closeClients, closeServer, serverClosed, Exit, Arrive,
                Answer, Ended, vars, schedulerVars
  <2> QED
    BY <1>1, <2>1, RecordsBounded
<1>6. CASE Administer
  <2>1. PICK n \in TaskNames, enabled \in BOOLEAN :
          \/ add(n, enabled) /\ UNCHANGED quiet
          \/ updateSchedule(n, enabled) \/ stopTask(n) \/ runNow(n)
    BY <1>6 DEF Administer
  <2>2. UNCHANGED passes
    BY <1>6 DEF Administer
  <2>3. CASE add(n, enabled) /\ UNCHANGED quiet
    BY <1>1, <2>2, <2>3, RecordsBounded
  <2>4. CASE updateSchedule(n, enabled) \/ stopTask(n) \/ runNow(n)
    <3>1. DOMAIN record' = DOMAIN record
      BY <2>4 DEF updateSchedule, stopTask, runNow
    <3> QED
      BY <1>1, <3>1, RecordsBounded
  <2> QED
    BY <2>1, <2>3, <2>4
<1>7. CASE RunTasks
  <2>1. DOMAIN record' = DOMAIN record
    BY <1>7 DEF RunTasks, Fire, Succeed, FailManual, Failure
  <2> QED
    BY <1>1, <2>1, RecordsBounded
<1> QED
  BY <1>3, <1>4, <1>5, <1>6, <1>7 DEF Next

\* A new pass begins while there is room; the others go on.
LEMMA PassesNext ==
  ASSUME LifeBounds, LifeInv, DrainInv', [Next]_vars
  PROVE  Len(passes') <= MaxPasses
<1>1. /\ passes \in Seq(StepNames \X BOOLEAN) /\ passes' \in Seq(StepNames \X BOOLEAN)
      /\ Len(passes) <= MaxPasses
  BY DEF LifeInv, DrainInv, DrainTypes, WithinBounds
<1>2. CASE DOMAIN passes' = DOMAIN passes
  <2>1. 1 .. Len(passes') = 1 .. Len(passes)
    BY <1>1, <1>2
  <2>2. Len(passes') \in Nat /\ Len(passes) \in Nat
    BY <1>1
  <2>3. Len(passes') = Len(passes)
    BY <2>1, <2>2
  <2> QED
    BY <1>1, <2>3
<1>3. ASSUME NEW rs, gracefulShutdown(rs) PROVE Len(passes') <= MaxPasses
  <2>1. CASE UNCHANGED passes
    BY <1>1, <2>1
  <2>2. CASE Len(passes) < MaxPasses /\ passes' = Append(passes, <<Steps[1], TRUE>>)
    <3> DEFINE v == <<Steps[1], TRUE>>
    <3>1. passes' = Append(passes, v)
      BY <2>2
    <3> HIDE DEF v
    <3>2. Len(passes') = Len(passes) + 1
      BY <1>1, <3>1
    <3> QED
      BY <1>1, <2>2, <3>2 DEF LifeBounds
  <2> QED
    BY <1>3, <2>1, <2>2 DEF gracefulShutdown
<1>4. CASE Startup
  <2>1. CASE StartupFails
    BY <1>3, <2>1 DEF StartupFails
  <2>2. CASE UNCHANGED passes
    BY <1>2, <2>2
  <2> QED
    BY <1>4, <2>1, <2>2
       DEF Startup, ReadApplications, initializeModules, createPipeline, StartParts, StartupTimeout
<1>5. CASE Signal \/ TaskRejects
  BY <1>3, <1>5 DEF Signal, TaskRejects
<1>6. CASE Shutdown
  <2>1. DOMAIN passes' = DOMAIN passes
    BY <1>6 DEF Shutdown, CloseNext, closeClients, closeServer, serverClosed, Exit, Proceeds
  <2> QED
    BY <1>2, <2>1
<1>7. CASE Arrive \/ Answer \/ Administer \/ RunTasks \/ Ended \/ UNCHANGED vars
  <2>1. passes' = passes
    BY <1>7 DEF Arrive, Answer, Administer, RunTasks, Ended, vars
  <2> QED
    BY <1>2, <2>1
<1> QED
  BY <1>4, <1>5, <1>6, <1>7 DEF Next

\* Requests come while there is room, and a pass that gives up keeps their number.
LEMMA RequestsNext ==
  ASSUME LifeBounds, LifeInv, [Next]_vars
  PROVE  InProgress' <= MaxRequests
<1>1. /\ server \in [listening: BOOLEAN, inside: Nat, cut: Nat]
      /\ server.inside \in Nat /\ server.cut \in Nat
      /\ server.inside + server.cut <= MaxRequests
  BY DEF LifeInv, DrainInv, DrainTypes, WithinBounds, InProgress
<1>2. CASE server' = server
  BY <1>1, <1>2 DEF InProgress
<1>3. ASSUME NEW p, closeClients(p), server' # server
      PROVE  InProgress' <= MaxRequests
  <2>1. server' = [server EXCEPT !.inside = 0, !.cut = server.inside + server.cut]
    BY <1>3 DEF closeClients, InProgress
  <2>2. server'.inside = 0 /\ server'.cut = server.inside + server.cut
    BY <1>1, <2>1
  <2> QED
    BY <1>1, <2>2 DEF InProgress
<1>4. CASE (\E p \in DOMAIN passes : closeServer(p)) \/ initializeModules
  <2>1. PICK b \in BOOLEAN : server' = [server EXCEPT !.listening = b]
    BY <1>4 DEF closeServer, initializeModules
  <2>2. server'.inside = server.inside /\ server'.cut = server.cut
    BY <1>1, <2>1
  <2> QED
    BY <1>1, <2>2 DEF InProgress
<1>5. CASE Arrive
  <2>1. server.inside + server.cut < MaxRequests /\ server' = [server EXCEPT !.inside = @ + 1]
    BY <1>5 DEF Arrive, InProgress
  <2>2. server'.inside = server.inside + 1 /\ server'.cut = server.cut
    BY <1>1, <2>1
  <2> QED
    BY <1>1, <2>1, <2>2 DEF InProgress, LifeBounds
<1>6. CASE Answer
  <2>1. PICK place \in {"inside", "cut"} :
          server[place] > 0 /\ server' = [server EXCEPT ![place] = @ - 1]
    BY <1>6 DEF Answer
  <2>2. \/ server'.inside = server.inside - 1 /\ server'.cut = server.cut
        \/ server'.inside = server.inside /\ server'.cut = server.cut - 1
    <3>1. CASE place = "inside"
      BY <1>1, <2>1, <3>1
    <3>2. CASE place = "cut"
      BY <1>1, <2>1, <3>2
    <3> QED
      BY <3>1, <3>2
  <2> QED
    BY <1>1, <2>2 DEF InProgress, LifeBounds
<1>7. CASE Startup
  BY <1>2, <1>4, <1>7 DEF Startup, ReadApplications, createPipeline, StartParts, StartupFails,
                          StartupTimeout
<1>8. CASE Shutdown
  <2>1. PICK p \in DOMAIN passes :
          CloseNext(p) \/ closeClients(p) \/ closeServer(p) \/ serverClosed(p) \/ Exit(p)
    BY <1>8 DEF Shutdown
  <2>2. CASE CloseNext(p) \/ serverClosed(p) \/ Exit(p)
    BY <1>2, <2>2 DEF CloseNext, serverClosed, Exit
  <2> QED
    BY <1>2, <1>3, <1>4, <2>1, <2>2
<1>9. CASE Signal \/ TaskRejects \/ Administer \/ RunTasks \/ Ended \/ UNCHANGED vars
  BY <1>2, <1>9 DEF Signal, TaskRejects, Administer, RunTasks, Ended, vars
<1> QED
  BY <1>5, <1>6, <1>7, <1>8, <1>9 DEF Next

\* Parts come with the startup, and what a pass closes is there.
LEMMA PartsNext == PartsFit /\ Flags /\ [Next]_vars => PartsFit' /\ Flags'
<1> SUFFICES ASSUME PartsFit, Flags, [Next]_vars PROVE PartsFit' /\ Flags'
  OBVIOUS
<1>1. ASSUME NEW rs, gracefulShutdown(rs), UNCHANGED <<parts, gaveUp>>, boot' \in {boot, "failed"}
      PROVE  PartsFit' /\ Flags'
  <2>1. exit' \in {exit, "failure"} /\ (closed' = closed \/ closed' \subseteq closed \cup parts)
    BY <1>1 DEF gracefulShutdown
  <2> QED
    BY <1>1, <2>1 DEF PartsFit, Flags
<1>2. CASE Startup
  <2>1. CASE ReadApplications
    <3>1. /\ boot = "reading" /\ boot' = "loading" /\ UNCHANGED <<closed, exit, gaveUp>>
          /\ parts' = {"scheduler", "watcher", "logger"}
      BY <2>1 DEF ReadApplications
    <3>2. closed = {}
      BY <3>1 DEF PartsFit
    <3> QED
      BY <3>1, <3>2 DEF PartsFit, Flags, Starting, Parts
  <2>2. CASE initializeModules \/ createPipeline \/ StartParts
    <3>1. /\ boot' \in {"manager", "static", "up"} /\ UNCHANGED <<closed, exit, gaveUp>>
          /\ parts \subseteq parts'
          /\ parts' \subseteq parts \cup {"queue", "server", "redis", "pipeline", "database", "outbox"}
      BY <2>2 DEF initializeModules, createPipeline, StartParts
    <3> QED
      BY <3>1 DEF PartsFit, Flags, Starting, Parts
  <2>3. CASE StartupFails
    BY <1>1, <2>3 DEF StartupFails
  <2>4. CASE StartupTimeout
    BY <2>4 DEF StartupTimeout, PartsFit, Flags
  <2> QED
    BY <1>2, <2>1, <2>2, <2>3, <2>4 DEF Startup
<1>3. CASE Signal \/ TaskRejects
  <2>1. PICK rs : gracefulShutdown(rs)
    BY <1>3 DEF Signal, TaskRejects
  <2>2. UNCHANGED <<boot, parts, gaveUp>>
    BY <1>3 DEF Signal, TaskRejects
  <2> QED
    BY <1>1, <2>1, <2>2
<1>4. CASE Shutdown
  <2>1. PICK p \in DOMAIN passes :
          CloseNext(p) \/ closeClients(p) \/ closeServer(p) \/ serverClosed(p) \/ Exit(p)
    BY <1>4 DEF Shutdown
  <2>2. /\ UNCHANGED <<boot, parts>> /\ closed \subseteq closed' /\ closed' \subseteq closed \cup parts
        /\ exit' \in {exit, "success"}
    BY <2>1 DEF CloseNext, closeClients, closeServer, serverClosed, Exit
  <2>3. gaveUp' \in BOOLEAN
    <3>1. UNCHANGED gaveUp \/ gaveUp' = (gaveUp \/ InProgress > 0)
      BY <2>1 DEF CloseNext, closeClients, closeServer, serverClosed, Exit
    <3> QED
      BY <3>1 DEF Flags
  <2> QED
    BY <2>2, <2>3 DEF PartsFit, Flags
<1>5. CASE Arrive \/ Answer \/ Administer \/ RunTasks \/ Ended \/ UNCHANGED vars
  <2>1. UNCHANGED <<boot, parts, closed, exit, gaveUp>>
    BY <1>5 DEF Arrive, Answer, Administer, RunTasks, Ended, vars
  <2> QED
    BY <2>1 DEF PartsFit, Flags
<1> QED
  BY <1>2, <1>3, <1>4, <1>5 DEF Next

\* Whatever interleaves, records, passes and requests stay within their bounds, only what
\* exists is closed, and a task stands for a record there is (application.js, scheduler.js).
THEOREM LifeCycleTypes ==
  ASSUME LifeBounds, Heartbeat \in TaskNames
  PROVE  Spec => []TypeOK
<1>1. Init => LifeInv
  BY LifeInit
<1>2. LifeInv /\ [Next]_vars => LifeInv'
  <2> SUFFICES ASSUME LifeInv, [Next]_vars PROVE LifeInv'
    OBVIOUS
  <2>1. TasksInv'
    BY TasksNext DEF LifeInv
  <2>2. DrainInv'
    BY DrainNext DEF LifeInv
  <2>3. Len(record') <= MaxRecords
    BY <2>1, RecordsNext
  <2>4. Len(passes') <= MaxPasses
    BY <2>2, PassesNext
  <2>5. InProgress' <= MaxRequests
    BY RequestsNext
  <2>6. PartsFit' /\ Flags'
    BY PartsNext DEF LifeInv
  <2> QED
    BY <2>1, <2>2, <2>3, <2>4, <2>5, <2>6 DEF LifeInv, WithinBounds
<1>3. LifeInv => TypeOK
  BY LifeInvIsTyped
<1> QED
  BY <1>1, <1>2, <1>3, PTL DEF Spec

=============================================================================
