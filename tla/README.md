# Verification of ServerLayout

This directory holds TLA+ models of the server in `src/`, the TLC configurations that check
them on small instances, and theorems about them that TLAPS checks.

Paths are given from the directory that holds the repository as `src/`: `src/src/server.js` is
the repository's `src/server.js`.

## 1. Inventory

The server is one Node.js process. An HTTP or WebSocket request reaches a method of the
application through a pipeline that limits concurrency, restores the session and checks the
permissions. Sessions live in Redis, everything else in PostgreSQL. Work that outlives a
request goes through an in-memory queue (notifications), a table (emails) or timers
(scheduler). JavaScript runs one callback at a time, so all interleaving happens at `await`,
at timers and between processes and Redis or PostgreSQL.

| Component | State | Operations | Interacts with | Hard behaviour | What makes it correct |
|---|---|---|---|---|---|
| **Session store** `src/src/sessionManager.js`, session half of `src/src/client.js`, `src/application/api/auth` | `session:<id>`, `user_sessions:<user>`, `metrics:activeSessions` in Redis; locals of each handler | startSession, validateSession (extend, reload, update agent, rotate), keepAlive, signout, destroyAllUserSessions, updateSessionRiskLevel | Redis, by GET, SETEX, MULTI, Lua | several requests of one browser between any two commands; a command that fails; expiry at any instant; rounding of lifetimes | a destroyed session stays destroyed; nothing outlives the absolute end; the index finds every session; the counter is right; a rotation never loses both sessions |
| **RPC server** `src/src/server.js`, `src/src/rpc-pipeline.js` | calls in progress, semaphore, clients | request, rpc, restoreSession, authorize, invoke, shutdown | session store, application methods, semaphore of metautil | six places give a slot back; waiting with a time limit; shutdown while calls run | slots neither leak nor multiply; every request is answered; shutdown waits for the calls inside |
| **Notification queue** `src/lib/notification/queue.js`, `pipeline.js`, `dispatcher.js` | `_queue`, waiting workers and producers, retry timers, metrics | enqueue, process, dequeue, failure and retry, stop | event bus in front, dispatcher behind | two kinds of waiters, hand-over by promises, timers, stop in any state | each item in one place; no lost wake-up; bounded attempts; nothing taken after stop |
| **Email outbox** `src/application/domain/notification/processEmailOutbox.js`, `.../emailOutbox/*.js`, `src/lib/notification/email-outbox-processor.js` | table `notification_email_outbox`, settings, timer | create, listPending, markSending, markSent, markFailed, tick, start, stop | PostgreSQL, SMTP | tick and API call at once; lost replies; errors after commit; shutdown in the middle | one sender per email; bounded attempts; the timer survives; every email is settled |
| **Scheduler** `src/src/scheduler.js` | tasks, their records, timers, running flags | add, runNow, updateSchedule, stopTask, timer, end of a run, stopAll | life cycle, API | overlap of manual and scheduled runs, failing runs, registration again, stop during a run | an enabled task waits for its timer or runs; no timer of a disabled task, none after stopAll but those the code leaves |
| **Life cycle** `src/main.js`, `src/src/application.js` | which parts are up, which are closed | startup, initializeModules, shutdown | all of the above | failures and signals between any two awaits of the startup; a second pass of the shutdown | the stores are closed after the requests are done |
| **Push subscriptions** `src/application/lib/repository/notification`, `src/application/domain/notification` | table PushSubscription, five-minute cache of one query | subscribe, unsubscribe, preferences, broadcast, message to a place, devices that are gone | PostgreSQL, query cache, push service | look up, then write; answers stored after the cache was cleared | one row per device; who is subscribed is sent to |
| **Users and roles** `src/application/domain/user`, `role`, `src/application/lib/repository/user` | tables User, Role, UserRole, permissions, UserActivationAudit | register, activate, delete, changeRole, activateImported, update; create, update, delete, assign, grant | PostgreSQL | count-then-write; look up, then insert or revive | an administrator remains; no row twice; an import is activated once and traced |
| **Departments** `src/application/domain/department`, `departmentRoleTemplate`, `departmentRoleAssignment` | three tables that refer to each other and to User | create, update, delete | PostgreSQL | what depends on a row is counted before it goes | no live row refers to one that is gone |
| **Rate limiter** `src/lib/redis-utils.js` | a sorted set per key | one call | Redis | calls in the same millisecond | no more than the limit in a window |
| **Event bus and streams** `src/lib/event-bus.js`, `event.js` | listeners, buffered events | subscribe, once, publish, publishAsync, clear | pipeline | listeners that settle late or fail; once; the limit of listeners | a publisher that waits waits for all, and no error goes unseen |
| **Code loading** `src/src/loader.js`, `api.js`, `place.js`, `code.js`, `poll-watch.js` | loaded methods | load, reload | file system | reload during a call | a call sees one version |
| Database access, notification services, validation, cookies, configuration, logging, static files, policies, LLM agent, other endpoints | see PROJECT.json | | | | |

The hazards each component is exposed to are listed in `PROJECT.json`, at their lines.

## 2. Modules

| Module | Models | Shape |
|---|---|---|
| `SessionStore` | Redis keyspace of the sessions and the handlers that work on it | one step per Redis command |
| `Delivery` | what the queue promises of each message | abstract specification |
| `NotificationQueue` | `queue.js` driven by `pipeline.js` | one step per run of JavaScript between awaits; implements `Delivery` |
| `EmailOutbox` | table, processing, timer, API call, process | one step per statement |
| `RpcServer` | the way of a call, the semaphore, shutdown | one step per await |
| `Tables` | the tables of users, roles and departments, their constraints, and what all handlers do | statements on records |
| `Accounts`, `AccessControl`, `OrgStructure` | the requests on users; on roles and permissions; on departments, templates and assignments | one step per SQL statement |
| `Administration` | the three together, on the same tables | |
| `Scheduler` | `scheduler.js` | operations on records |
| `LifeCycle` | `main.js` and `application.js` around the scheduler | one step per await |
| `PushSubscriptions` | subscriptions, the query cache, sending | one step per SQL statement or answer of the push service |
| `EventBus` | `event-bus.js` on `event.js` | one step per call or settled listener |
| `Services` | `LifeCycle`, `PushSubscriptions` and `EventBus` | |
| `MC...` | values of the constants for TLC | |
| `SessionStoreProofs`, `NotificationQueueProofs`, `RpcServerProofs`, `EmailOutboxProofs`, `AdministrationProofs`, `LifeCycleProofs`, `PushSubscriptionsProofs`, `ServicesProofs` | theorems about the module they are named after | `ServicesProofs` has those about `EventBus` too |

**SessionStore.** A handler is a record: its program counter names the Redis command it waits
for, `cur` is the id of the cookie, `new` the id it generated, `snap` the session value it
holds in memory. A step executes the command on `store`, `until`, `index`, `indexUntil`,
`metric` and runs the JavaScript up to the next await. `Judge` is the middle of
validateSession (validity, grace period, binding); `Destroy` with the return label `after`
stands for the calls of destroySession. `RedisError` lets one command fail, with what the
nearest `catch` does. `fate` and `born` are history. Not in the model: the extension throttle
(0 by default), the legacy result -2 of the Lua script, the clean-up and reconciliation jobs,
the limiter, sign-out over WebSocket.

**NotificationQueue.** `caller[i]` is the call of `enqueue` for item `i`, `worker[w]` a worker
loop, `job[w]` what its dequeue returned or was promised. Continuations of promises that were
resolved together run in any order. The dispatcher is the handler: it returns or throws.
Delays are not timed: a timer may fire at any later step.

**EmailOutbox.** `row[r]` has the columns the code looks at: `status`, `attempts`, whether
`next_attempt_at` has passed (`due`), and the number of delivery attempts logged. `runner` has
the two callers of processEmailOutbox. `Send` covers resolveDelivery and the SMTP dialogue:
accepted, refused, or accepted with the reply lost. A transaction that fails may have been
committed. `Stop`, `Exit`, `Restart` are the process; a crash does to the rows what `Stop` and
`Exit` do together.

**RpcServer.** `pc[q]` is the last await call `q` passed. The semaphore is metautil's, modelled
from its use: `enter` takes a slot, waits or throws when the queue is full; `leave` hands the
slot to the first waiting call; `empty` is what the shutdown reads. Kinds of requests: `stray`
(no call), `forbidden` (foreign origin), `rejected` (malformed, unknown method), `odd` (method
name that is no string), `call`, `nullish` (method that throws undefined). A call is an HTTP
request on its own connection; messages over WebSocket, streams and broadcast are left out.

**Administration.** `db` is a record of tables, each a function from ids to rows; ids come from
one `serial`, which counts without an end, and are never used again. A handler's `call` has its
request, the statement it is at and what earlier statements found (`saw`). Every statement of
`db.pg` and `db.optimized` runs in autocommit, so it is a step; the transaction of
activateImportedUser is one step, done as a whole or rolled back. `Consistent` and `WellFormed` are the unique indexes and foreign keys: a write against
them is refused. `ON CONFLICT DO NOTHING` inserts nothing or fails; `LIMIT 1` without an order
is any row. Defaults of the schemas are filled in where the code relies on them. Where code and
`auth_schema.sql` disagree about columns, the tables follow the code that uses them. Emails and
user names are a word in one of two spellings, since the code compares some of them without
regard to case. Passwords, names, employee ids, preferences, expiry and the tenant are left out.

**LifeCycle.** `boot` is how far the startup has come, `passes` the step each pass of the
shutdown is about to take, with a flag that tells whether the pass has met a server. `server`
counts the requests in progress with a connection (`inside`) and without one (`cut`). The
scheduler's `record` outlives its name: `add` makes a new record while a run of the old one goes
on. `quiet` is history: the records that stopAll left without a timer. The limit of ten seconds
of `application.shutdown` only logs, so it is no step; its comment expects `main.js` to end the
process then, which it does not. Intervals and counters of tasks are left out, and so is what
the parts do when they are closed: their own modules have it.

**PushSubscriptions.** `rows` is the table; a row is found by endpoint, by owner or by its
position, which is its id. `cache` is what `executeCached` holds for the query of the receivers
of a category, or of all; `Expire` stands for its age, its eviction, and for the many writes to
other tables that clear the whole cache. `overtaken` is history: another statement has written
since the handler, or the cached answer, was read. A check constraint that keeps users and
places of the portal apart is known from a comment of `saveDispatcherSubscription.js` only, and
the unique index on `endpoint` is taken to be dropped, as the error text of
`saveSubscription.js` asks for. The three functions that send have no caller in this
repository; their arguments are those their schemas and checks allow.

**EventBus.** `events[n]` has the listeners of a name and those of them that are for once; a name
without listeners is one that is not in the map, and their order tells nothing, as an emit calls
them all before the first of them has settled. `held` are the names and functions of which some
caller was given the function that unsubscribes, which goes on working after `clear`.
An emit is remembered with the listeners that have not settled. `publish` emits
all three names in one step, `publishAsync` one after the other. Nothing in the repository
publishes; the pipeline subscribes to everything. Listeners settle in any order, with or
without an error.

**Services.** The three parts share no state, so a behaviour moves one of them and leaves the
others as they begin. That explores what their interleaving would, without the product.

## 3. Runs

| Run | Shows | Bounds |
|---|---|---|
| `session_requests` | type invariant; no key outlives its session by more than the rounding | 2 handlers, 1 user, 2 ids, clock 0..6, seconds of 2 ticks so that rounding happens, 3 requests |
| `session_errors` | `AbsoluteCap`, `SuccessorFirst`, `MetricCountsSessions`, `DestroyedStaysDestroyed`, `ValidEndsByUser` | 2 handlers, 3 ids (a rotation and a keep-alive in one behaviour), 3 requests, one failing command |
| `session_resurrected` | **violated**: an update of the user agent writes a destroyed session back | |
| `session_index` | **violated**: sign-out everywhere drops a new session from the index | clock 0..1, so that no session is near its end |
| `session_signout` | **violated**: sign-out from a new address leaves the rotated session usable | |
| `queue` | eight properties, among them the refinement of `Delivery` | 4 items, 2 workers, 1 place, 2 attempts, stop at any moment |
| `outbox` | seven properties | 2 emails, 2 attempts, 1 fault, 2 API calls, 1 stop, 1 change of settings |
| `outbox_durable` | **violated**: a shutdown during a send leaves the row in status sending | no fault |
| `rpc` | six properties | 4 calls of every accepted kind, 2 slots, 1 waiting place |
| `rpc_drain` | **violated**: a foreign-origin request frees a slot it has not taken | 1 slot |
| `administration` | seven properties of users, roles and departments | 2 handlers, 3 requests, every two of 43 requests against each other |
| `services` | five properties of life cycle, scheduler, subscriptions, event bus | 1 task name with 2 records, 2 passes, 1 request in progress; 2 handlers, 3 requests, every two of 15; 2 listeners, 3 subscriptions, 2 emits |

Why these bounds suffice. In the session runs every race the code has is between two requests:
a third would only repeat one of their steps. Three requests allow a sign-in and two that race.
One user is enough since no command touches the keys of two. `session_errors` leaves out the
requests from another user agent, because they break `DestroyedStaysDestroyed` and with it the
counter: `session_resurrected` shows that. In the same way `rpc` leaves out the two kinds of
requests that give back a slot they do not hold, which `rpc_drain` shows. In `queue`, four items are one per worker, one in the
queue and one waiting for space, and two attempts let an item be retried and dropped. In
`outbox` two emails let a batch have a rest, two API calls let one race with the tick and one
follow it. In `rpc` four calls fill two slots and the waiting place, and one is refused.
In `administration` and in the subscriptions of `services` a race is between two requests, and a
third comes before or after: it brings the tables into a state where the race matters, or shows
what the race has done. Two records are a task and what it was registered as before; two passes
let one overtake the other, and a third would do what the second does. One request is enough
for a store to be closed under it. Two emits are one that settles late and the next.
`MaxRecords`, `MaxPasses`, `MaxAdded`, `MaxEmits`, `MaxSid`, `MaxTime`, `MaxRequests`, `MaxErrors`,
`MaxCalls`, `MaxStops`, `MaxSwitches` are the bounds in the guards; each is named where it is declared. Symmetry (handlers, users) is used
in the session runs and in `administration`, where no liveness is checked.

Where the code breaks what one would wish for, and no text of the repository promises it, the
property names the exception it makes. `AdminKept`, `RowsUnique`, `ReferencesKept` and
`DecisionsHold` except the step of a handler whose check another has made untrue since, and
`DecisionsHold` also two rows of one user and role, which two assignments at once may leave;
`DrainedBeforeStores` a pass that overtakes another; `SubscriptionsKept` a read that was
overtaken; `OutcomesSeen` an emit of once-listeners only. Each says with that what the exception
does not cover: nothing goes wrong without one.

**Fairness.** `SessionStore` has none: its properties are about safety. In
`NotificationQueue` a continuation that was scheduled runs, a timer fires, and a handler
returns or throws (the dispatcher awaits `Promise.allSettled` of the channels); and once
`pipeline.stop` has been called and the workers have ended, `application.shutdown` goes on to
`queue.stop`. `pipeline.stop` itself is not fair: the process may run for ever. In `EmailOutbox` awaited
statements return, the SMTP dialogue ends (its time-outs cover all but `QUIT`, see the
hazards), timers fire, time passes, and a stopped process exits and is started again, as
`docker-compose.yml` asks for. In `RpcServer` bodies arrive, awaited calls return, and the
timers of the semaphore and the shutdown fire. No action of a client, an administrator or an
operator is fair, and all fairness is weak: nothing chooses between competing steps for ever.

## 4. What is proved

For every value of the constants that satisfies the named assumptions of each module:

- `SessionStoreProofs`: `TypeCorrect`, `AbsoluteCapHolds`, `SuccessorIsFirst`,
  `KeysEndWithTheirSession`. A session written back, rotated or
  extended comes from a handler's memory, so `AbsoluteCap` alone is not inductive: `IInv` adds
  that what each handler holds ends `AbsoluteTtl` after the sign-in its id belongs to
  (`Sound`), and that ids not yet issued are in no memory (`IdsIssued`). `Story` adds what a
  handler's place tells about its ids: that the new one is stored or not yet (`Follows`), and that
  no two handlers are about to store the same (`Apart`). `DestroyedForGood` and
  `CounterCountsSessions` have a hypothesis, `NoWriteBack`: no request comes from another user
  agent and none has a wrong CSRF token, for these two write a session back that they read before
  (the first is the finding of `session_resurrected`). Then `Clean` can say that no handler is at
  a command that writes back, and with that the count is inductive. `ValidEndsOnlyByUser`, an
  action property, adds `LongLived`: the idle window is at least four ticks, one for each command
  a request sends between its extension and its last check, and the grace is not zero (the code
  counts milliseconds, `IdleTtl` is in seconds, and `client.js` takes 15 for a grace of 0). `Watched`
  says why a handler may destroy what it is about to: its session is past its absolute end or
  gone, for good, or the request is a goodbye or has a successor (`Entitled`); and that no key
  outlives its idle window by more than two ticks (`InTime`), so that Redis has dropped an idle
  session before `validateSession` could find it past its grace. The run has an idle window of
  two ticks, for which the argument of `keepAlive` says nothing and TLC finds nothing.
  `SignoutEndsCookie` follows a sign-out through validateSession, which asks twice and may extend,
  write back, rotate or reject: `Leaving` says that it is never anywhere but on this way, so that
  its only ends are a GET that finds no session and LUA_DESTROY_SESSION. `SignedOutUnlessMoved` is
  `SignedOutIsOut` for requests from the session's own address and no failed command: while no
  command fails, the rotation on the way is all there is to the finding of `session_signout`.
  `IndexKeptWhileYoung` is `IndexCoversLive` up to the moment when a sign-in is older than the
  absolute lifetime less the idle window (`NearEnd`), under `NoWriteBack` and without sign-outs
  everywhere. `Indexed` adds what makes it inductive: an index stays at least as long as each of
  its sessions (`Covered`) and at most an idle window (`InWindow`), so that the EXPIRE of one
  session, which gets the whole window (`FullWindow`), never shortens it for another. Each
  hypothesis is needed: the DEL of a sign-out everywhere is the finding of `session_index`, and
  near the absolute end a window that is cut shortens the index's life below its sessions'.
- `RpcServerProofs`: `SlotsNeverLeak`, `QueueIsRight`, `NoSlotIdle`, `ShutdownWaits`, for kinds
  of requests without `forbidden` and `nullish`: these two give back a slot they do not hold,
  which is the finding of `rpc_drain`. `IInv` joins the type invariant, where the queue is
  exactly the calls that wait, with the count of slots; `SemRight` says what `empty` means.
- `NotificationQueueProofs`: `QueueTypes`, `ItemsInOnePlace`, `NobodySleeps`,
  `StatisticsAddUp`, `NothingTakenAfterStop`, and `QueueDelivers`, the refinement of `Delivery`.
  None of them is inductive alone. `QueueInv` has eight parts: the types, that who waits is a
  worker or a caller there is and waits once (`WorkersWait`, `CallersWait`), that each item that
  was accepted and is not settled is somewhere (`Somewhere`) and no two places have it (`Apart`),
  that its attempts are those of the place it is in (`Attempts`), what `stop` leaves (`Stopping`),
  and `NoIdleWorker` itself. `Stats` adds the counters. The refinement maps each step from
  there: a hand-over, a retry and a wait for space are stutters of `Delivery`.
- `EmailOutboxProofs`: `OutboxTypes`, `NoTwoSenders`, `SentAtMostOnce`, `AttemptsAreBounded`,
  `OneTimer`, `NoRowIsForgotten`.
  `Ownership` says that the row of an email somebody holds is one `markSending` refuses; `Paid`
  that each earlier acceptance of an email still to be sent was paid for by a fault. The timer
  needs its own part, `TimerRight`, because the tick relies on being alone. A row in status
  sending stays somebody's only while nothing fails and nothing stops (`StopsCounted`).
- `AdministrationProofs`: `TablesKeepTypes`, `ReferencesStay`, `ActivationIsAudited`,
  `OneActivation`, `LastAdminStays`, `RowsStayUnique`, `DecisionsAreKept`, for any tables to begin with, any requests and any
  number of handlers. The tables alone are not inductive, because a statement writes what an
  earlier one has found: `Inv` adds `Knows`, which has a clause per request that says what its
  handler has found when it is at each statement, and that is still so whatever the others have
  written since. It is, because no row is ever removed but assignments, and what a row
  joins never changes: `Grows`. Each
  statement is then described by what it does to the tables (`UserRolesSet`, `Granted`,
  `RoleActivated` and the like), and each property is proved from these descriptions, not from the actions.
  `DecisionsAreKept` also needs that a statement is not refused: `ReviveHolds` finds the one case
  in which the unique index refuses one, two rows of a user and role that are not deleted.
  `ActivationIsAudited` supposes that the audit of the first tables is right (`Audited`): its
  rows are of users, by the foreign key of `013_user_import_activation.sql`, and match who was
  activated. `LastAdminStays` supposes `SystemRoles`: the roles `admin` and `super_admin` are
  there, as `001_add_system_roles_super_admin_admin_guest.sql` and `rbac_seed.sql` insert them.
- `LifeCycleProofs`: `TasksAreScheduled`, if the heartbeat is one of the tasks, and
  `StoresOutliveRequests`. `TasksInv` adds to `TasksScheduled` that a name owns its record and no
  record has two (`OwnRecord`), because a run that ends writes to its own record, whatever the name
  has become since, and that no scheduled run of a stopped task is left to set a timer
  (`QuietStays`). `DrainInv` follows a pass of the shutdown: before there is a server there is no
  request (`NoServerYet`), a pass that met the server waits while a request has a connection
  (`SomeoneWaits`), and the stores are closed by a pass that is past that point
  (`StoresClosedByPass`).
- `ServicesProofs`, of the event bus: `PublishersLearn`, an action property. `BusInv` says that
  the promise of an emit is ignored only if its listeners are all for once (`SeenOrOnce`), that a
  publisher waits for an emit it has made (`Waits`), and that an emit has at most one error that
  is counted, however many of its listeners fail (`ErrorsCounted`): it counts the failed emits,
  and a listener that settles adds its emit once. From there no more errors are counted than
  events were emitted, the part of the type invariant that is no matter of types.
- `PushSubscriptionsProofs`: `SubscriptionsAreKept`, if the table starts with rows, the requests
  are those of the schemas, and no user is a place (`Starts`). `PushInv` says of each handler
  that what it read still holds, or it is overtaken (`ReadsFresh`), that it sends only once it
  has its receivers (`SendsInSending`), and that a cached answer fits the rows unless a write is about to clear it
  (`CacheFits`): every write either clears the cache itself or leaves a handler that will.
- `ServicesProofs`: the theorems of the three parts for the composition. A behaviour of
  `Services` is one of each part (`ServicesImplementParts`), so that what holds of a part alone
  holds there. So does its type invariant, `ServicesTypes`, from `LifeCycleTypes`,
  `PushTypesHold` and `BusTypes`. The first adds `WithinBounds`: requests with and without a
  connection are counted together, since a pass that gives up turns the one into the other. The
  second adds that the row a handler is about to write is in the table (`RowsKnown`), that a
  cached answer is one of receivers there are (`CacheTypes`), and that what is sent goes to
  owners of devices (`SendTypes`). The hypotheses, `Bounds`, are that the bounds are numbers, the
  heartbeat is a task, and tables and requests begin as `Starts` says.

The modules prove one lemma per action, or
per kind of action where several do the same to what the invariant speaks of (a statement that
only reads, a write, an end of a run).

Only model-checked: the liveness properties (`WaiterLetIn`, `Settled`, `Settles`, `Answered`)
and everything under fairness, which the prover does not reach. Every invariant and every action
property of a passing run has a theorem.

## 5. Findings

1. `session_resurrected`: `src/src/client.js:304`, SETEX of a value read several awaits before.
2. `session_index`: `src/src/sessionManager.js:769`, DEL of an index that may have grown. With a
   longer clock `IndexCoversLive` fails without a sign-out too: LUA_UPDATE_LAST_SEEN gives the
   index the time to live of the session it extends, and one near its absolute end cuts it for
   a younger one of the same user.
3. `session_signout`: `src/application/api/auth/signout.js`, destroys the id of the cookie only.
4. `outbox_durable`: status `sending` is never listed again after a shutdown.
5. `rpc_drain`: `src/src/server.js:254`, `leave()` without `enter()`.

## 6. Not modelled

- WebSocket messages (several calls of one client, the stale `client.session`), streams and
  broadcast: `RpcServer` is about HTTP calls.
- The rate limiter: one MULTI per call, so that there is nothing between two steps; its count
  of milliseconds is in the hazards.
- The notification log of `domain/notification/send.js`: one caller writes rows of its own.
- Code loading and reload, static files, files and system endpoints: file-system I/O.
- Validation, cookies, configuration, logging, policies: functions of their input.
- The connection pool, prepared statements, statistics: nothing in `src/` decides on them.
- The LLM agent, SMS and email providers: external services.

## 7. Plan

WebSocket messages in `RpcServer`: several calls of one client, and its session.
