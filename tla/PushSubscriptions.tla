------------------------- MODULE PushSubscriptions -------------------------
(***************************************************************************)
(* The devices that get push messages (domain and repository notification) *)
(* and the query cache in front of one of their queries.  A device is an   *)
(* endpoint; a row of PushSubscription gives it to a user, or to a place   *)
(* (an event and a point of it) of the dispatcher portal.  Handlers run    *)
(* their statements one by one, each on its own, and clear the whole cache *)
(* when they are told that a write of theirs is done.                      *)
(***************************************************************************)
EXTENDS Naturals, Sequences, FiniteSets

CONSTANTS
  Users, Places, Endpoints, Categories,
  Handlers,
  FirstRows,     \* the contents the table may start with
  Menus,         \* the sets of requests that are made against each other
  MaxRequests    \* bound on the requests

VARIABLES
  rows,          \* the table; rows are never deleted
  cache,         \* the cached answers: key -> the users and whether a write overtook it
  call,          \* handler -> its request, its next statement, what it read
  sends,         \* handler -> the receivers it is sending to
  menu, left

pushVars == <<rows, cache, call, sends, menu, left>>

Every == "every"         \* a message whose type is of no category
Keys == Categories \cup {Every}
Owners == Users \cup Places

subscribeSchema ==
  [op: {"subscribe"}, owner: Users, endpoint: Endpoints, wants: SUBSET Categories]
updatePreferencesSchema ==
  [op: {"updatePreferences"}, owner: Users, endpoint: Endpoints, wants: SUBSET Categories]
dispatcherSubscribeSchema ==
  [op: {"dispatcher-subscribe"}, owner: Places, endpoint: Endpoints]
dispatcherUnsubscribeSchema ==
  [op: {"dispatcher-unsubscribe"}, owner: Places, endpoint: Endpoints]
\* The key of a message is the category of its type.
broadcastWebPushSchema == [op: {"broadcast"}, key: Keys]
Requests ==
  UNION {subscribeSchema, updatePreferencesSchema, dispatcherSubscribeSchema,
         dispatcherUnsubscribeSchema, broadcastWebPushSchema,
         [op: {"unsubscribe"}, owner: Users, endpoint: Endpoints],
         [op: {"sendDispatcherPush"}, owner: Places]}

Row == [owner: Owners, endpoint: Endpoints, active: BOOLEAN, wants: SUBSET Categories]
Entry == [users: SUBSET Users, overtaken: BOOLEAN]
Send == [todo: SUBSET Endpoints, gone: SUBSET Endpoints, pc: {"read", "push", "clear"}]

NoRequest == [op |-> "none"]
Idle == [req |-> NoRequest, pc |-> "idle", row |-> 0, users |-> {}, overtaken |-> FALSE]
NoSends == << >>

TypeOK ==
  /\ rows \in Seq(Row)
  /\ DOMAIN cache \subseteq Keys /\ \A k \in DOMAIN cache : cache[k] \in Entry
  /\ \A h \in Handlers :
       /\ call[h].req \in menu \cup {NoRequest}
       /\ call[h].row \in 0 .. Len(rows) /\ call[h].users \subseteq Users
       /\ DOMAIN sends[h] \subseteq Owners
       /\ \A o \in DOMAIN sends[h] : sends[h][o] \in Send
  /\ menu \subseteq Requests /\ left \in 0 .. MaxRequests

Init ==
  /\ rows \in FirstRows
  /\ cache = << >>
  /\ call = [h \in Handlers |-> Idle]
  /\ sends = [h \in Handlers |-> NoSends]
  /\ menu \in Menus /\ left = MaxRequests

----------------------------------------------------------------------------
(* Rows *)

Of(endpoint) == {i \in DOMAIN rows : rows[i].endpoint = endpoint}
Inactive(owner) == {i \in DOMAIN rows : rows[i].owner = owner /\ ~rows[i].active}
Active(owner) == {i \in DOMAIN rows : rows[i].owner = owner /\ rows[i].active}

Wants(row, key) == key = Every \/ key \in row.wants
\* Users with a device that wants the messages of the key.
getUsersWithSubscriptionsByCategory(key) ==
  {u \in Users : \E i \in Active(u) : Wants(rows[i], key)}
\* The devices of an owner that get a message of the key; of a place, all.
getSubscriptions(owner, key) ==
  {rows[i].endpoint : i \in {j \in Active(owner) : owner \in Places \/ Wants(rows[j], key)}}

\* The rows after an UPDATE that sets all columns of those in set; one column of them.
Updated(set, row) == [i \in DOMAIN rows |-> IF i \in set THEN row ELSE rows[i]]
Deactivated(endpoint, owner) ==
  [i \in DOMAIN rows |->
     IF i \in Of(endpoint) /\ rows[i].owner = owner
     THEN [rows[i] EXCEPT !.active = FALSE] ELSE rows[i]]
Preferring(set, wants) ==
  [i \in DOMAIN rows |-> IF i \in set THEN [rows[i] EXCEPT !.wants = wants] ELSE rows[i]]

----------------------------------------------------------------------------
(* Handlers *)

At(h, op, pc) == call[h].req.op = op /\ call[h].pc = pc
Goto(h, c) == call' = [call EXCEPT ![h] = c] /\ UNCHANGED <<menu, left>>
Then(h, pc) == [call[h] EXCEPT !.pc = pc]

\* A write of h overtakes the others that have read rows and not yet acted on them.
Overtaken(h, c) ==
  call' = [g \in Handlers |->
    IF g = h THEN c
    ELSE [call[g] EXCEPT !.overtaken =
            @ \/ call[g].pc \in {"update", "inactive", "reuse", "insert", "store"}]]

\* A statement of the request that writes.
Write(h, new, pc) ==
  /\ rows' = new
  /\ Overtaken(h, IF pc = "done" THEN Idle ELSE Then(h, pc))
  /\ UNCHANGED <<cache, sends, menu, left>>
Read(h, c) == Goto(h, c) /\ UNCHANGED <<rows, cache, sends>>
Answer(h) == Read(h, Idle)

Begin(h) ==
  /\ call[h] = Idle /\ left > 0
  /\ \E r \in menu : call' = [call EXCEPT ![h] = [Idle EXCEPT !.req = r, !.pc = "start"]]
  /\ left' = left - 1
  /\ UNCHANGED <<rows, cache, sends, menu>>

\* The write is done: the cache is cleared and the request answered.
ClearCache(h) ==
  /\ call[h].pc = "clear"
  /\ cache' = << >>
  /\ Goto(h, Idle)
  /\ UNCHANGED <<rows, sends>>

----------------------------------------------------------------------------
(* Subscribing *)

Owner(h) == call[h].req.owner
Endpoint(h) == call[h].req.endpoint

\* The row that gives the endpoint of the request to its owner; a user's preferences
\* come with the request.
Given(h) ==
  [owner |-> Owner(h), endpoint |-> Endpoint(h), active |-> TRUE,
   wants |-> IF Owner(h) \in Users THEN call[h].req.wants ELSE Categories]

subscribe(h, pc) == At(h, "subscribe", pc)
dispatcherSubscribe(h, pc) == At(h, "dispatcher-subscribe", pc)
subscribing(h, pc) == subscribe(h, pc) \/ dispatcherSubscribe(h, pc)

\* The portal refuses the endpoint of a user.
FindEndpoint(h) ==
  /\ subscribing(h, "start")
  /\ IF Of(Endpoint(h)) = {}
     THEN Read(h, Then(h, "inactive"))
     ELSE \E i \in Of(Endpoint(h)) :
            IF Owner(h) \in Places /\ rows[i].owner \in Users
            THEN Answer(h) ELSE Read(h, Then(h, "update"))

\* A user takes the endpoint over from any other, unless a place has it: a constraint of
\* the table keeps users and places apart.
saveSubscription(h) ==
  /\ subscribe(h, "update")
  /\ IF \E i \in Of(Endpoint(h)) : rows[i].owner \in Places
     THEN Answer(h)
     ELSE Write(h, Updated(Of(Endpoint(h)), Given(h)), "clear")

saveDispatcherSubscription(h) ==
  LET own == {i \in Of(Endpoint(h)) : rows[i].owner \in Places} IN
  /\ dispatcherSubscribe(h, "update")
  /\ IF own = {} THEN Answer(h) ELSE Write(h, Updated(own, Given(h)), "clear")

\* The code takes the last row that became inactive: one of them.
FindInactive(h) ==
  /\ subscribing(h, "inactive")
  /\ IF Inactive(Owner(h)) = {}
     THEN Read(h, Then(h, "insert"))
     ELSE \E i \in Inactive(Owner(h)) : Read(h, [Then(h, "reuse") EXCEPT !.row = i])

\* The row is found by its id: it stays with the owner it has by now.
Reuse(h) ==
  /\ subscribing(h, "reuse")
  /\ Write(h, Updated({call[h].row},
                      [Given(h) EXCEPT !.owner = rows[call[h].row].owner]), "clear")

Insert(h) ==
  /\ subscribing(h, "insert")
  /\ Write(h, Append(rows, Given(h)), "clear")

----------------------------------------------------------------------------
(* Unsubscribing and preferences *)

Has(endpoint, owner) == \E i \in Of(endpoint) : rows[i].owner = owner

dispatcherUnsubscribe(h) == At(h, "dispatcher-unsubscribe", "start")

\* A row that is not there is an error.
unsubscribe(h) ==
  /\ At(h, "unsubscribe", "start") \/ dispatcherUnsubscribe(h)
  /\ IF Has(Endpoint(h), Owner(h))
     THEN Write(h, Deactivated(Endpoint(h), Owner(h)), "clear")
     ELSE Answer(h)

\* Mutant: the cache is left as it is.
updatePreferencesCached(h) ==
  LET own == Of(Endpoint(h)) \cap Active(Owner(h)) IN
  /\ At(h, "updatePreferences", "start")
  /\ IF own = {} THEN Answer(h)
     ELSE Write(h, Preferring(own, call[h].req.wants), "done")
updatePreferences(h) ==
  LET own == Of(Endpoint(h)) \cap Active(Owner(h)) IN
  /\ At(h, "updatePreferences", "start")
  /\ IF own = {} THEN Answer(h)
     ELSE Write(h, Preferring(own, call[h].req.wants), "clear")

----------------------------------------------------------------------------
(* Sending *)

Key(h) == IF call[h].req.op = "broadcast" THEN call[h].req.key ELSE Every

\* The owners are sent to side by side.
Sending(h, owners) ==
  /\ Goto(h, Then(h, "sending"))
  /\ sends' = [sends EXCEPT ![h] =
       [o \in owners |-> [todo |-> {}, gone |-> {}, pc |-> "read"]]]

\* Who gets a broadcast is a cached query.
CacheHit(h) ==
  /\ At(h, "broadcast", "start")
  /\ Key(h) \in DOMAIN cache
  /\ Sending(h, cache[Key(h)].users)
  /\ UNCHANGED <<rows, cache>>

Query(h) ==
  /\ At(h, "broadcast", "start")
  /\ Key(h) \notin DOMAIN cache
  /\ Read(h, [Then(h, "store") EXCEPT !.users = getUsersWithSubscriptionsByCategory(Key(h))])

cacheResult(h) ==
  /\ At(h, "broadcast", "store")
  /\ cache' = [k \in DOMAIN cache \cup {Key(h)} |->
                 IF k = Key(h) THEN [users |-> call[h].users, overtaken |-> call[h].overtaken]
                 ELSE cache[k]]
  /\ Sending(h, call[h].users)
  /\ UNCHANGED rows

\* An answer is five minutes old, is evicted, or goes with a write to another table.
Expire(key) ==
  /\ key \in DOMAIN cache
  /\ cache' = [k \in DOMAIN cache \ {key} |-> cache[k]]
  /\ UNCHANGED <<rows, call, sends, menu, left>>

\* A message to a place of the portal.
sendDispatcherPush(h) ==
  /\ At(h, "sendDispatcherPush", "start")
  /\ Sending(h, {Owner(h)})
  /\ UNCHANGED <<rows, cache>>

\* The sending of h to o goes on as s; with no device left it is over.
Sends(h, o, s) ==
  sends' = [sends EXCEPT ![h] =
    IF s.pc = "push" /\ s.todo = {} /\ s.gone = {}
    THEN [x \in DOMAIN @ \ {o} |-> @[x]] ELSE [@ EXCEPT ![o] = s]]

sendWebPush(h, o) ==
  /\ sends[h][o].pc = "read"
  /\ Sends(h, o, [todo |-> getSubscriptions(o, Key(h)), gone |-> {}, pc |-> "push"])
  /\ UNCHANGED <<rows, cache, call, menu, left>>

\* The push service answers: only 404 and 410 tell that the device is gone.
Push(h, o, endpoint) ==
  LET s == sends[h][o] IN
  /\ s.pc = "push" /\ endpoint \in s.todo
  /\ \E gone \in {s.gone, s.gone \cup {endpoint}} :
       Sends(h, o, [s EXCEPT !.todo = @ \ {endpoint}, !.gone = gone])
  /\ UNCHANGED <<rows, cache, call, menu, left>>

\* The devices that are gone are unsubscribed one by one; an error is logged.
Deactivate(h, o, endpoint) ==
  LET s == sends[h][o]
      Less(pc) == [todo |-> {}, gone |-> s.gone \ {endpoint}, pc |-> pc]
  IN /\ s.pc = "push" /\ s.todo = {} /\ endpoint \in s.gone
     /\ IF Has(endpoint, o)
        THEN /\ rows' = Deactivated(endpoint, o)
             /\ Overtaken(h, call[h])
             /\ Sends(h, o, Less("clear"))
        ELSE Sends(h, o, Less("push")) /\ UNCHANGED <<rows, call>>
     /\ UNCHANGED <<cache, menu, left>>

ClearAfter(h, o) ==
  /\ sends[h][o].pc = "clear"
  /\ cache' = << >>
  /\ Sends(h, o, [sends[h][o] EXCEPT !.pc = "push"])
  /\ UNCHANGED <<rows, call, menu, left>>

Sent(h) ==
  /\ call[h].pc = "sending" /\ sends[h] = NoSends
  /\ Answer(h)

----------------------------------------------------------------------------
(* Specification *)

Subscribing(h) ==
  \/ FindEndpoint(h) \/ saveSubscription(h) \/ saveDispatcherSubscription(h)
  \/ FindInactive(h) \/ Reuse(h) \/ Insert(h)
  \/ unsubscribe(h) \/ updatePreferences(h)

Broadcasting(h) ==
  \/ CacheHit(h) \/ Query(h) \/ cacheResult(h) \/ sendDispatcherPush(h) \/ Sent(h)
  \/ \E o \in DOMAIN sends[h] :
       \/ sendWebPush(h, o) \/ ClearAfter(h, o)
       \/ \E e \in Endpoints : Push(h, o, e) \/ Deactivate(h, o, e)

Ended ==
  /\ left = 0 /\ \A h \in Handlers : call[h] = Idle
  /\ UNCHANGED pushVars

Next ==
  \/ \E h \in Handlers : Begin(h) \/ ClearCache(h) \/ Subscribing(h) \/ Broadcasting(h)
  \/ \E key \in Keys : Expire(key)
  \/ Ended

Spec == Init /\ [][Next]_pushVars

----------------------------------------------------------------------------
(* Properties *)

\* h saves a device in this step.
Saves(h) ==
  call[h].pc \in {"update", "reuse", "insert"} /\ call'[h].pc = "clear"

\* A device that is saved is active, with its owner, and on no other row than before,
\* unless the rows that were read for it have been overtaken by another write.
Saved(h) ==
  LET e == Endpoint(h) IN
  \/ call[h].overtaken
  \/ /\ \E i \in DOMAIN rows' :
          rows'[i].owner = Owner(h) /\ rows'[i].endpoint = e /\ rows'[i].active
     /\ Cardinality({i \in DOMAIN rows' : rows'[i].endpoint = e}) <= 1 \/ Cardinality(Of(e)) > 1

\* A write is done and its cache not cleared yet.
Clearing ==
  \E h \in Handlers :
    call[h].pc = "clear" \/ \E o \in DOMAIN sends[h] : sends[h][o].pc = "clear"

\* A cached answer is what the query answers now, or a write is about to clear it, or
\* one has overtaken the query that it came from.
CacheAgrees ==
  \A k \in DOMAIN cache :
    \/ cache[k].users = getUsersWithSubscriptionsByCategory(k)
    \/ cache[k].overtaken \/ Clearing

\* The rows and the cache are kept: of the statements that subscribe a device, and of
\* the query that a broadcast caches (saveSubscription.js, query-optimizer.js).
SubscriptionKept == (\A h \in Handlers : Saves(h) => Saved(h)) /\ CacheAgrees'
SubscriptionsKept == [][SubscriptionKept]_pushVars
=============================================================================
