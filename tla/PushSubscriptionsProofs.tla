---------------------- MODULE PushSubscriptionsProofs ----------------------
(***************************************************************************)
(* Devices and cached receivers agree with the subscriptions, for every    *)
(* number of handlers, requests, users, places and devices.                *)
(***************************************************************************)
EXTENDS PushSubscriptions, SequenceTheorems, FiniteSetTheorems, TLAPS

\* What the code may start from: tables of rows, and requests that its schemas accept; a
\* place is no user.
Starts ==
  FirstRows \subseteq Seq(Row) /\ Menus \subseteq SUBSET Requests /\ Users \cap Places = {}

Acting == {"update", "inactive", "reuse", "insert", "store"}
Statements == Acting \cup {"idle", "start", "clear", "sending"}
Call ==
  [req: menu \cup {NoRequest}, pc: Statements, row: Nat, users: SUBSET Users, overtaken: BOOLEAN]

PushTypes ==
  /\ menu \subseteq Requests
  /\ rows \in Seq(Row)
  /\ call \in [Handlers -> Call]
  /\ DOMAIN sends = Handlers

\* What is read of the rows, for rows now or later.
OfIn(rs, e) == {i \in DOMAIN rs : rs[i].endpoint = e}
UsersIn(rs, key) ==
  {u \in Users : \E i \in DOMAIN rs :
     rs[i].owner = u /\ rs[i].active /\ (key = Every \/ key \in rs[i].wants)}

\* What a call has read still holds unless a write has overtaken it.
FreshIn(rs, c) ==
  c.pc \in Acting /\ ~c.overtaken =>
    /\ c.pc \in {"inactive", "reuse", "insert"} => OfIn(rs, c.req.endpoint) = {}
    /\ c.pc = "update" => OfIn(rs, c.req.endpoint) # {}
    /\ c.pc = "reuse" => c.row \in DOMAIN rs /\ rs[c.row].owner = c.req.owner
    /\ c.pc = "store" => c.users = UsersIn(rs, c.req.key)
ReadsFresh == \A h \in Handlers : FreshIn(rows, call[h])

SendsInSending == \A h \in Handlers : call[h].pc # "sending" => sends[h] = NoSends

CacheFits ==
  \A k \in DOMAIN cache :
    cache[k].users = UsersIn(rows, k) \/ cache[k].overtaken \/ Clearing

PushInv == PushTypes /\ ReadsFresh /\ SendsInSending /\ CacheFits

LEMMA RowsRead ==
  /\ \A e : Of(e) = OfIn(rows, e)
  /\ \A key : getUsersWithSubscriptionsByCategory(key) = UsersIn(rows, key)
<1>1. ASSUME NEW e PROVE Of(e) = OfIn(rows, e)
  BY DEF Of, OfIn
<1>2. ASSUME NEW key PROVE getUsersWithSubscriptionsByCategory(key) = UsersIn(rows, key)
  BY DEF getUsersWithSubscriptionsByCategory, UsersIn, Active, Wants
<1> QED
  BY <1>1, <1>2

LEMMA FitsIsAgrees == CacheFits => CacheAgrees
BY RowsRead DEF CacheFits, CacheAgrees

LEMMA IdleIs == Idle \in Call /\ Idle.pc = "idle"
<1>1. "idle" \in Statements
  BY DEF Statements
<1>2. NoRequest \in menu \cup {NoRequest}
  OBVIOUS
<1> QED
  BY <1>1, <1>2 DEF Idle, Call

LEMMA PushInit == Starts /\ Init => PushInv
<1> SUFFICES ASSUME Starts, Init PROVE PushInv
  OBVIOUS
<1>1. /\ rows \in FirstRows /\ cache = << >> /\ menu \in Menus
      /\ call = [h \in Handlers |-> Idle] /\ sends = [h \in Handlers |-> NoSends]
  BY DEF Init
<1>2. PushTypes
  BY <1>1, IdleIs DEF PushTypes, Starts
<1>3. ReadsFresh
  BY <1>1, IdleIs DEF ReadsFresh, FreshIn, Acting
<1>4. SendsInSending
  BY <1>1 DEF SendsInSending
<1>5. CacheFits
  BY <1>1 DEF CacheFits
<1> QED
  BY <1>2, <1>3, <1>4, <1>5 DEF PushInv

\* The fields of a call, and a call at another statement.
LEMMA CallFields ==
  ASSUME NEW c \in Call
  PROVE  /\ c.req \in menu \cup {NoRequest} /\ c.pc \in Statements /\ c.row \in Nat
         /\ c.users \in SUBSET Users /\ c.overtaken \in BOOLEAN
         /\ c = [req |-> c.req, pc |-> c.pc, row |-> c.row, users |-> c.users,
                 overtaken |-> c.overtaken]
BY DEF Call

LEMMA CallAt ==
  ASSUME NEW c \in Call, NEW pc \in Statements, NEW d, d = [c EXCEPT !.pc = pc]
  PROVE  /\ d \in Call /\ d.pc = pc /\ d.req = c.req /\ d.row = c.row /\ d.users = c.users
         /\ d.overtaken = c.overtaken
<1>1. d = [req |-> c.req, pc |-> pc, row |-> c.row, users |-> c.users,
           overtaken |-> c.overtaken]
  BY CallFields
<1> QED
  BY <1>1, CallFields DEF Call
LEMMA CallFor ==
  ASSUME NEW c \in Call, NEW r \in menu, NEW d, d = [c EXCEPT !.req = r]
  PROVE  d \in Call
<1>1. d = [req |-> r, pc |-> c.pc, row |-> c.row, users |-> c.users,
           overtaken |-> c.overtaken]
  BY CallFields
<1> QED
  BY <1>1, CallFields DEF Call

LEMMA CallRead ==
  ASSUME NEW c \in Call, NEW u \in SUBSET Users, NEW d, d = [c EXCEPT !.users = u]
  PROVE  d \in Call /\ d.pc = c.pc /\ d.req = c.req /\ d.users = u
<1>1. d = [req |-> c.req, pc |-> c.pc, row |-> c.row, users |-> u, overtaken |-> c.overtaken]
  BY CallFields
<1> QED
  BY <1>1, CallFields DEF Call

----------------------------------------------------------------------------
(* Kinds of steps *)

Good == PushInv' /\ SubscriptionKept

\* A statement that only reads: the call goes on with what it read.
LEMMA ReadKeeps ==
  ASSUME PushInv, NEW h \in Handlers, NEW c, c \in Call, call' = [call EXCEPT ![h] = c],
         UNCHANGED <<rows, cache, sends, menu>>,
         call[h].pc # "clear", c.pc # "clear",
         c.pc # "sending" => sends[h] = NoSends, FreshIn(rows, c)
  PROVE  Good
<1>1. call \in [Handlers -> Call]
  BY DEF PushInv, PushTypes
<1>2. /\ call' \in [Handlers -> Call] /\ call'[h] = c
      /\ \A g \in Handlers \ {h} : call'[g] = call[g]
  BY <1>1
<1>3. PushTypes'
  BY <1>2 DEF PushInv, PushTypes, Call
<1>4. ReadsFresh'
  BY <1>2 DEF PushInv, ReadsFresh
<1>5. SendsInSending'
  BY <1>2 DEF PushInv, SendsInSending
<1>6. Clearing => Clearing'
  BY <1>2 DEF Clearing
<1>7. CacheFits'
  BY <1>6 DEF PushInv, CacheFits
<1>8. CacheAgrees'
  BY <1>7, FitsIsAgrees, PTL
<1>9. \A g \in Handlers : ~Saves(g)
  BY <1>2 DEF Saves
<1> QED
  BY <1>3, <1>4, <1>5, <1>7, <1>8, <1>9 DEF Good, PushInv, SubscriptionKept

\* A call that begins to send, with a cache that holds what it held or what it just read.
LEMMA SendingKeeps ==
  ASSUME PushInv, NEW h \in Handlers, NEW owners, Sending(h, owners), UNCHANGED rows,
         call[h].pc \notin {"clear", "sending"},
         \A k \in DOMAIN cache' :
           \/ k \in DOMAIN cache /\ cache'[k] = cache[k]
           \/ cache'[k].users = UsersIn(rows, k) \/ cache'[k].overtaken
  PROVE  Good
<1> DEFINE c == Then(h, "sending")
           new == [o \in owners |-> [todo |-> {}, gone |-> {}, pc |-> "read"]]
<1>1. call \in [Handlers -> Call] /\ DOMAIN sends = Handlers
  BY DEF PushInv, PushTypes
<1>2. /\ call' = [call EXCEPT ![h] = c] /\ UNCHANGED menu
      /\ sends' = [sends EXCEPT ![h] = new]
  BY DEF Sending, Goto
<1>3. c \in Call /\ c.pc = "sending"
  <2>1. call[h] \in Call /\ "sending" \in Statements
    BY <1>1 DEF Statements
  <2>2. c = [call[h] EXCEPT !.pc = "sending"]
    BY DEF Then
  <2> HIDE DEF c
  <2> QED
    BY <2>1, <2>2, CallAt
<1> HIDE DEF c, new
<1>4. /\ call' \in [Handlers -> Call] /\ call'[h] = c
      /\ \A g \in Handlers \ {h} : call'[g] = call[g] /\ sends'[g] = sends[g]
      /\ DOMAIN sends' = Handlers
  BY <1>1, <1>2, <1>3
<1>5. PushTypes'
  BY <1>2, <1>4 DEF PushInv, PushTypes, Call
<1>6. ReadsFresh'
  BY <1>3, <1>4 DEF PushInv, ReadsFresh, FreshIn, Acting
<1>7. SendsInSending'
  BY <1>3, <1>4 DEF PushInv, SendsInSending
<1>8. Clearing => Clearing'
  <2>1. sends[h] = NoSends
    BY DEF PushInv, SendsInSending
  <2>2. DOMAIN sends[h] = {}
    BY <2>1 DEF NoSends
  <2> QED
    BY <1>4, <2>2 DEF Clearing
<1>9. CacheFits'
  BY <1>8 DEF PushInv, CacheFits
<1>10. CacheAgrees'
  BY <1>9, FitsIsAgrees, PTL
<1>11. \A g \in Handlers : ~Saves(g)
  BY <1>3, <1>4 DEF Saves
<1> QED
  BY <1>5, <1>6, <1>7, <1>9, <1>10, <1>11 DEF Good, PushInv, SubscriptionKept

\* A step of the sending of h to o, which leaves the rows alone.
LEMMA SendsKeeps ==
  ASSUME PushInv, NEW h \in Handlers, NEW o \in DOMAIN sends[h], NEW s, Sends(h, o, s),
         UNCHANGED <<rows, call, menu>>,
         \/ UNCHANGED cache /\ sends[h][o].pc # "clear"
         \/ cache' = << >>
  PROVE  Good
<1>1. call \in [Handlers -> Call] /\ DOMAIN sends = Handlers
  BY DEF PushInv, PushTypes
<1>2. call[h].pc = "sending"
  <2>1. sends[h] # NoSends
    BY DEF NoSends
  <2> QED
    BY <2>1 DEF PushInv, SendsInSending
<1>3. /\ DOMAIN sends' = Handlers
      /\ \A g \in Handlers \ {h} : sends'[g] = sends[g]
      /\ \A x \in DOMAIN sends[h] \ {o} : x \in DOMAIN sends'[h] /\ sends'[h][x] = sends[h][x]
  <2>1. CASE s.pc = "push" /\ s.todo = {} /\ s.gone = {}
    <3> DEFINE new == [x \in DOMAIN sends[h] \ {o} |-> sends[h][x]]
    <3>1. sends' = [sends EXCEPT ![h] = new]
      BY <2>1 DEF Sends
    <3>2. DOMAIN sends' = Handlers /\ sends'[h] = new
          /\ \A g \in Handlers \ {h} : sends'[g] = sends[g]
      <4> HIDE DEF new
      <4> QED
        BY <1>1, <3>1
    <3> QED
      BY <3>2
  <2>2. CASE ~(s.pc = "push" /\ s.todo = {} /\ s.gone = {})
    <3> DEFINE new == [sends[h] EXCEPT ![o] = s]
    <3>1. sends' = [sends EXCEPT ![h] = new]
      BY <2>2 DEF Sends
    <3>2. DOMAIN sends' = Handlers /\ sends'[h] = new
          /\ \A g \in Handlers \ {h} : sends'[g] = sends[g]
      <4> HIDE DEF new
      <4> QED
        BY <1>1, <3>1
    <3> QED
      BY <3>2
  <2> QED
    BY <2>1, <2>2
<1>4. PushTypes'
  BY <1>3 DEF PushInv, PushTypes, Call
<1>5. ReadsFresh'
  BY DEF PushInv, ReadsFresh
<1>6. SendsInSending'
  BY <1>2, <1>3 DEF PushInv, SendsInSending
<1>7. CacheFits'
  <2>1. CASE cache' = << >>
    BY <2>1 DEF CacheFits
  <2>2. CASE UNCHANGED cache /\ sends[h][o].pc # "clear"
    <3>1. Clearing => Clearing'
      BY <1>1, <1>3, <2>2 DEF Clearing
    <3> QED
      BY <2>2, <3>1 DEF PushInv, CacheFits
  <2> QED
    BY <2>1, <2>2
<1>8. CacheAgrees'
  BY <1>7, FitsIsAgrees, PTL
<1>9. \A g \in Handlers : ~Saves(g)
  BY DEF Saves
<1> QED
  BY <1>4, <1>5, <1>6, <1>7, <1>8, <1>9 DEF Good, PushInv, SubscriptionKept

\* What a write of h leaves of the calls: its own is at c, the others that have read and
\* not yet acted are overtaken.
LEMMA OvertakenIs ==
  ASSUME PushInv, NEW h \in Handlers, NEW c \in Call, c.pc \notin Acting, Overtaken(h, c)
  PROVE  /\ call' \in [Handlers -> Call] /\ call'[h] = c
         /\ \A g \in Handlers \ {h} : call'[g].pc = call[g].pc
         /\ \A rs : \A g \in Handlers : FreshIn(rs, call'[g])
<1> DEFINE over(g) == call[g].overtaken \/ call[g].pc \in Acting
<1>1. call' = [g \in Handlers |-> IF g = h THEN c ELSE [call[g] EXCEPT !.overtaken = over(g)]]
  BY DEF Overtaken, Acting
<1>2. \A g \in Handlers : call[g] \in Call
  BY DEF PushInv, PushTypes
<1>3. ASSUME NEW g \in Handlers \ {h}
      PROVE  /\ call'[g] \in Call /\ call'[g].pc = call[g].pc
             /\ call'[g].pc \in Acting => call'[g].overtaken
  <2> DEFINE b == over(g)
             d == call[g]
             e == [req |-> d.req, pc |-> d.pc, row |-> d.row, users |-> d.users,
                   overtaken |-> b]
  <2>1. b \in BOOLEAN
    <3>1. call[g].overtaken \in BOOLEAN
      BY <1>2, CallFields
    <3> QED
      BY <3>1
  <2>2. call'[g] = [d EXCEPT !.overtaken = b]
    BY <1>1
  <2>3. d \in Call
    BY <1>2
  <2>4. d.pc \in Acting => b
    OBVIOUS
  <2> HIDE DEF b, d, over
  <2>5. [d EXCEPT !.overtaken = b] = e
    BY <2>3, CallFields
  <2>6. e \in Call
    BY <2>1, <2>3, CallFields DEF Call
  <2>7. call'[g] = e
    BY <2>2, <2>5
  <2>8. e.pc = d.pc /\ e.overtaken = b
    OBVIOUS
  <2> HIDE DEF e
  <2> QED
    BY <2>4, <2>6, <2>7, <2>8 DEF d
<1>4. call'[h] = c
  BY <1>1
<1> HIDE DEF over
<1>5. call' \in [Handlers -> Call]
  <2>1. \A g \in Handlers : call'[g] \in Call
    BY <1>3, <1>4
  <2>2. DOMAIN call' = Handlers /\ call' = [g \in Handlers |-> call'[g]]
    BY <1>1
  <2> QED
    BY <2>1, <2>2
<1>6. ASSUME NEW rs, NEW g \in Handlers PROVE FreshIn(rs, call'[g])
  BY <1>3, <1>4 DEF FreshIn
<1> QED
  BY <1>3, <1>4, <1>5, <1>6

\* A request writes, and is about to clear the cache.
LEMMA WriteKeeps ==
  ASSUME PushInv, NEW h \in Handlers, NEW new \in Seq(Row), Write(h, new, "clear"),
         call[h].pc \notin {"clear", "sending"}
  PROVE  /\ PushInv' /\ rows' = new /\ CacheAgrees'
         /\ \A g \in Handlers \ {h} : ~Saves(g)
<1> DEFINE c == Then(h, "clear")
<1>1. c \in Call /\ c.pc = "clear"
  <2>1. call[h] \in Call /\ "clear" \in Statements
    BY DEF PushInv, PushTypes, Statements
  <2>2. c = [call[h] EXCEPT !.pc = "clear"]
    BY DEF Then
  <2> HIDE DEF c
  <2> QED
    BY <2>1, <2>2, CallAt
<1>2. rows' = new /\ Overtaken(h, c) /\ UNCHANGED <<cache, sends, menu>>
  BY DEF Write
<1> HIDE DEF c
<1>3. c.pc \notin Acting
  BY <1>1 DEF Acting
<1>4. /\ call' \in [Handlers -> Call] /\ call'[h] = c
      /\ \A g \in Handlers \ {h} : call'[g].pc = call[g].pc
      /\ \A rs : \A g \in Handlers : FreshIn(rs, call'[g])
  BY <1>1, <1>2, <1>3, OvertakenIs
<1>5. PushTypes'
  BY <1>2, <1>4 DEF PushInv, PushTypes, Call
<1>6. ReadsFresh'
  BY <1>4 DEF ReadsFresh
<1>7. SendsInSending'
  <2>1. sends[h] = NoSends
    BY DEF PushInv, SendsInSending
  <2> QED
    BY <1>2, <1>4, <2>1 DEF PushInv, SendsInSending
<1>8. Clearing'
  BY <1>1, <1>4 DEF Clearing
<1>9. CacheFits'
  BY <1>8 DEF CacheFits
<1>10. CacheAgrees'
  BY <1>9, FitsIsAgrees, PTL
<1>11. \A g \in Handlers \ {h} : ~Saves(g)
  BY <1>4 DEF Saves
<1> QED
  BY <1>2, <1>5, <1>6, <1>7, <1>9, <1>10, <1>11 DEF PushInv

\* The requests that name a device, and the rows they give.
LEMMA DeviceRequests ==
  ASSUME NEW r \in Requests,
         r.op \in {"subscribe", "updatePreferences", "unsubscribe", "dispatcher-subscribe",
                   "dispatcher-unsubscribe"}
  PROVE  /\ r.owner \in Owners /\ r.endpoint \in Endpoints
         /\ r.op \in {"subscribe", "updatePreferences"} =>
              r.owner \in Users /\ r.wants \in SUBSET Categories
         /\ r.op = "dispatcher-subscribe" => r.owner \in Places
<1>1. \/ r \in subscribeSchema \/ r \in updatePreferencesSchema
      \/ r \in dispatcherSubscribeSchema \/ r \in dispatcherUnsubscribeSchema
      \/ r \in broadcastWebPushSchema
      \/ r \in [op: {"unsubscribe"}, owner: Users, endpoint: Endpoints]
      \/ r \in [op: {"sendDispatcherPush"}, owner: Places]
  BY DEF Requests
<1>2. CASE r \in subscribeSchema
  BY <1>2 DEF subscribeSchema, Owners
<1>3. CASE r \in updatePreferencesSchema
  BY <1>3 DEF updatePreferencesSchema, Owners
<1>4. CASE r \in dispatcherSubscribeSchema
  BY <1>4 DEF dispatcherSubscribeSchema, Owners
<1>5. CASE r \in dispatcherUnsubscribeSchema
  BY <1>5 DEF dispatcherUnsubscribeSchema, Owners
<1>6. CASE r \in broadcastWebPushSchema
  BY <1>6 DEF broadcastWebPushSchema
<1>7. CASE r \in [op: {"unsubscribe"}, owner: Users, endpoint: Endpoints]
  BY <1>7 DEF Owners
<1>8. CASE r \in [op: {"sendDispatcherPush"}, owner: Places]
  BY <1>8
<1> QED
  BY <1>1, <1>2, <1>3, <1>4, <1>5, <1>6, <1>7, <1>8

----------------------------------------------------------------------------
(* The steps *)

LEMMA GivenIs ==
  ASSUME Starts, PushInv, NEW h \in Handlers, NEW pc, subscribing(h, pc)
  PROVE  /\ Given(h) \in Row /\ Given(h).owner = Owner(h)
         /\ Given(h).endpoint = Endpoint(h) /\ Given(h).active = TRUE
         /\ Endpoint(h) = call[h].req.endpoint /\ Owner(h) = call[h].req.owner
         /\ call[h].pc = pc
<1> DEFINE r == call[h].req
           wants == IF Owner(h) \in Users THEN r.wants ELSE Categories
<1>1. r.op \in {"subscribe", "dispatcher-subscribe"} /\ call[h].pc = pc
  BY DEF subscribing, subscribe, dispatcherSubscribe, At
<1>2. r \in Requests
  <2>1. call[h] \in Call
    BY DEF PushInv, PushTypes
  <2>2. r \in menu \cup {NoRequest}
    BY <2>1, CallFields
  <2>3. NoRequest.op = "none"
    BY DEF NoRequest
  <2> QED
    BY <1>1, <2>2, <2>3 DEF PushInv, PushTypes
<1> HIDE DEF r
<1>3. /\ r.owner \in Owners /\ r.endpoint \in Endpoints
      /\ r.op = "subscribe" => r.wants \in SUBSET Categories
      /\ r.op = "dispatcher-subscribe" => r.owner \in Places
  BY <1>1, <1>2, DeviceRequests
<1>4. Owner(h) = r.owner /\ Endpoint(h) = r.endpoint
  BY DEF Owner, Endpoint, r
<1>5. wants \in SUBSET Categories
  BY <1>1, <1>3, <1>4 DEF Starts
<1>6. Given(h) = [owner |-> r.owner, endpoint |-> r.endpoint, active |-> TRUE, wants |-> wants]
  BY <1>4 DEF Given, r
<1> HIDE DEF wants
<1>7. Given(h) \in Row
  BY <1>3, <1>5, <1>6 DEF Row
<1>8. Given(h).owner = r.owner /\ Given(h).endpoint = r.endpoint /\ Given(h).active = TRUE
  BY <1>6
<1> QED
  BY <1>1, <1>4, <1>7, <1>8 DEF r

\* A row of the sequence is given to set.
LEMMA UpdatedIs ==
  ASSUME rows \in Seq(Row), NEW set, NEW row, (set \cap DOMAIN rows # {} => row \in Row)
  PROVE  /\ Updated(set, row) \in Seq(Row) /\ DOMAIN Updated(set, row) = DOMAIN rows
         /\ \A i \in DOMAIN rows :
              Updated(set, row)[i] = IF i \in set THEN row ELSE rows[i]
BY DEF Updated

LEMMA OfFinite ==
  ASSUME rows \in Seq(Row), NEW e
  PROVE  Cardinality(OfIn(rows, e)) \in Nat
<1> DEFINE n == Len(rows)
<1>1. n \in Nat /\ DOMAIN rows = 1 .. n
  OBVIOUS
<1>2. IsFiniteSet(1 .. n)
  BY <1>1, FS_Interval
<1>3. OfIn(rows, e) \subseteq 1 .. n
  BY <1>1 DEF OfIn
<1>4. IsFiniteSet(OfIn(rows, e))
  BY <1>2, <1>3, FS_Subset
<1> QED
  BY <1>4, FS_CardinalityType

\* Rows of the device itself are given: it stays on the rows it was on.
LEMMA UpdateSaves ==
  ASSUME Starts, PushInv, NEW h \in Handlers, subscribing(h, "update"),
         NEW set, set \subseteq Of(Endpoint(h)), set = {} => call[h].overtaken,
         Write(h, Updated(set, Given(h)), "clear")
  PROVE  Good
<1> DEFINE e == Endpoint(h)
           g == Given(h)
           new == Updated(set, g)
<1>1. rows \in Seq(Row)
  BY DEF PushInv, PushTypes
<1>2. g \in Row /\ g.owner = Owner(h) /\ g.endpoint = e /\ g.active = TRUE
      /\ call[h].pc = "update"
  BY GivenIs
<1>3. set \subseteq OfIn(rows, e)
  BY RowsRead
<1> HIDE DEF g
<1>4. /\ new \in Seq(Row) /\ DOMAIN new = DOMAIN rows
      /\ \A i \in DOMAIN rows : new[i] = IF i \in set THEN g ELSE rows[i]
  BY <1>1, <1>2, UpdatedIs
<1>5. Write(h, new, "clear")
  BY DEF g
<1> HIDE DEF new
<1>6. PushInv' /\ rows' = new /\ CacheAgrees' /\ \A f \in Handlers \ {h} : ~Saves(f)
  BY <1>2, <1>4, <1>5, WriteKeeps
<1> HIDE DEF e
<1>7. OfIn(rows', e) = OfIn(rows, e)
  BY <1>2, <1>3, <1>4, <1>6 DEF OfIn
<1>8. Cardinality(OfIn(rows, e)) \in Nat
  BY <1>1, OfFinite
<1>9. Saved(h)
  <2> SUFFICES ASSUME ~call[h].overtaken
               PROVE  /\ \E i \in DOMAIN rows' :
                           rows'[i].owner = Owner(h) /\ rows'[i].endpoint = e /\ rows'[i].active
                      /\ \/ Cardinality(OfIn(rows', e)) <= 1
                         \/ Cardinality(OfIn(rows, e)) > 1
    BY RowsRead DEF Saved, OfIn, e
  <2>1. PICK i \in set : TRUE
    OBVIOUS
  <2>2. i \in DOMAIN rows' /\ rows'[i] = g
    BY <1>3, <1>4, <1>6, <2>1 DEF OfIn
  <2> QED
    BY <1>2, <1>7, <1>8, <2>2
<1> QED
  BY <1>6, <1>9 DEF Good, SubscriptionKept

\* A request that is answered without a write.
LEMMA AnswerKeeps ==
  ASSUME PushInv, NEW h \in Handlers, Answer(h), call[h].pc # "clear",
         call[h].pc = "sending" => sends[h] = NoSends
  PROVE  Good
<1>1. /\ call' = [call EXCEPT ![h] = Idle]
      /\ UNCHANGED <<rows, cache, sends, menu>>
  BY DEF Answer, Read, Goto
<1>2. sends[h] = NoSends
  BY DEF PushInv, SendsInSending
<1>3. FreshIn(rows, Idle)
  BY IdleIs DEF FreshIn, Acting
<1> QED
  BY <1>1, <1>2, <1>3, IdleIs, ReadKeeps

LEMMA saveKeeps ==
  ASSUME Starts, PushInv, NEW h \in Handlers, saveSubscription(h)
  PROVE  Good
<1> DEFINE set == Of(Endpoint(h))
<1>1. subscribing(h, "update") /\ call[h].pc = "update"
  BY DEF saveSubscription, subscribing, subscribe, At
<1>2. CASE \E i \in set : rows[i].owner \in Places
  <2>1. Answer(h)
    BY <1>2 DEF saveSubscription
  <2> QED
    BY <1>1, <2>1, AnswerKeeps
<1>3. CASE ~\E i \in set : rows[i].owner \in Places
  <2>1. Write(h, Updated(set, Given(h)), "clear")
    BY <1>3 DEF saveSubscription
  <2>2. set = {} => call[h].overtaken
    <3>1. FreshIn(rows, call[h])
      BY DEF PushInv, ReadsFresh
    <3> QED
      BY <1>1, <3>1, RowsRead DEF FreshIn, Acting, Endpoint
  <2> HIDE DEF set
  <2>3. set \subseteq Of(Endpoint(h))
    BY DEF set
  <2> QED
    BY <1>1, <2>1, <2>2, <2>3, UpdateSaves
<1> QED
  BY <1>2, <1>3

LEMMA saveDispatcherKeeps ==
  ASSUME Starts, PushInv, NEW h \in Handlers, saveDispatcherSubscription(h)
  PROVE  Good
<1> DEFINE own == {i \in Of(Endpoint(h)) : rows[i].owner \in Places}
<1>1. subscribing(h, "update") /\ call[h].pc = "update"
  BY DEF saveDispatcherSubscription, subscribing, dispatcherSubscribe, At
<1>2. CASE own = {}
  <2>1. Answer(h)
    BY <1>2 DEF saveDispatcherSubscription
  <2> QED
    BY <1>1, <2>1, AnswerKeeps
<1>3. CASE own # {}
  <2>1. Write(h, Updated(own, Given(h)), "clear")
    BY <1>3 DEF saveDispatcherSubscription
  <2>2. own \subseteq Of(Endpoint(h))
    OBVIOUS
  <2> HIDE DEF own
  <2> QED
    BY <1>1, <1>3, <2>1, <2>2, UpdateSaves
<1> QED
  BY <1>2, <1>3

\* The last inactive row of the owner is given the device.
LEMMA ReuseKeeps ==
  ASSUME Starts, PushInv, NEW h \in Handlers, Reuse(h)
  PROVE  Good
<1> DEFINE e == Endpoint(h)
           k == call[h].row
           g == Given(h)
           row == [owner |-> rows[k].owner, endpoint |-> g.endpoint, active |-> g.active,
                   wants |-> g.wants]
           new == Updated({k}, row)
<1>1. rows \in Seq(Row) /\ subscribing(h, "reuse")
  BY DEF PushInv, PushTypes, Reuse
<1>2. g \in Row /\ g.endpoint = e /\ g.active = TRUE /\ call[h].pc = "reuse"
      /\ e = call[h].req.endpoint /\ Owner(h) = call[h].req.owner
  BY <1>1, GivenIs
<1>3. [g EXCEPT !.owner = rows[k].owner] = row
  <2> DEFINE o == rows[k].owner
  <2> HIDE DEF o, g
  <2>1. g = [owner |-> g.owner, endpoint |-> g.endpoint, active |-> g.active,
             wants |-> g.wants]
    BY <1>2 DEF Row
  <2>2. [g EXCEPT !.owner = o] = [owner |-> o, endpoint |-> g.endpoint, active |-> g.active,
                                  wants |-> g.wants]
    BY <2>1
  <2> QED
    BY <2>2 DEF o
<1>4. Write(h, new, "clear")
  BY <1>3 DEF Reuse
<1>5. {k} \cap DOMAIN rows # {} => row \in Row
  <2> SUFFICES ASSUME k \in DOMAIN rows PROVE row \in Row
    OBVIOUS
  <2>1. rows[k].owner \in Owners
    <3>1. rows[k] \in Row
      BY <1>1
    <3> QED
      BY <3>1 DEF Row
  <2> HIDE DEF g
  <2>2. g.endpoint \in Endpoints /\ g.active \in BOOLEAN /\ g.wants \in SUBSET Categories
    BY <1>2 DEF Row
  <2> QED
    BY <2>1, <2>2 DEF Row
<1>6. row.owner = rows[k].owner /\ row.endpoint = e
  BY <1>2
<1>7. row.active
  BY <1>2
<1> HIDE DEF row, g
<1>8. /\ new \in Seq(Row) /\ DOMAIN new = DOMAIN rows
      /\ \A i \in DOMAIN rows : new[i] = IF i \in {k} THEN row ELSE rows[i]
  BY <1>1, <1>5, UpdatedIs
<1> HIDE DEF new
<1>9. PushInv' /\ rows' = new /\ CacheAgrees' /\ \A f \in Handlers \ {h} : ~Saves(f)
  BY <1>2, <1>4, <1>8, WriteKeeps
<1>10. Saved(h)
  <2> SUFFICES ASSUME ~call[h].overtaken PROVE Saved(h)
    BY DEF Saved
  <2>1. FreshIn(rows, call[h])
    BY DEF PushInv, ReadsFresh
  <2>2. OfIn(rows, e) = {} /\ k \in DOMAIN rows /\ rows[k].owner = Owner(h)
    BY <1>2, <2>1 DEF FreshIn, Acting
  <2> HIDE DEF e, k
  <2>3. OfIn(rows', e) = {k}
    BY <1>6, <1>8, <1>9, <2>2 DEF OfIn
  <2>4. Cardinality({k}) = 1
    BY FS_Singleton
  <2>5. k \in DOMAIN rows' /\ rows'[k] = row
    BY <1>8, <1>9, <2>2
  <2>6. \E i \in DOMAIN rows' :
          rows'[i].owner = Owner(h) /\ rows'[i].endpoint = e /\ rows'[i].active
    BY <1>6, <1>7, <2>2, <2>5
  <2>7. Cardinality(OfIn(rows', e)) <= 1
    BY <2>3, <2>4
  <2> QED
    BY <2>6, <2>7 DEF Saved, OfIn, e
<1> QED
  BY <1>9, <1>10 DEF Good, SubscriptionKept

LEMMA InsertKeeps ==
  ASSUME Starts, PushInv, NEW h \in Handlers, Insert(h)
  PROVE  Good
<1> DEFINE e == Endpoint(h)
           g == Given(h)
           k == Len(rows) + 1
           new == Append(rows, g)
<1>1. rows \in Seq(Row) /\ subscribing(h, "insert") /\ Write(h, new, "clear")
  BY DEF PushInv, PushTypes, Insert
<1>2. g \in Row /\ g.owner = Owner(h) /\ g.endpoint = e /\ g.active = TRUE
      /\ call[h].pc = "insert" /\ e = call[h].req.endpoint
  BY <1>1, GivenIs
<1> HIDE DEF g
<1>3. /\ new \in Seq(Row) /\ DOMAIN new = DOMAIN rows \cup {k} /\ new[k] = g
      /\ \A i \in DOMAIN rows : new[i] = rows[i]
  BY <1>1, <1>2
<1> HIDE DEF new
<1>4. PushInv' /\ rows' = new /\ CacheAgrees' /\ \A f \in Handlers \ {h} : ~Saves(f)
  BY <1>1, <1>2, <1>3, WriteKeeps
<1>5. Saved(h)
  <2> SUFFICES ASSUME ~call[h].overtaken PROVE Saved(h)
    BY DEF Saved
  <2>1. FreshIn(rows, call[h])
    BY DEF PushInv, ReadsFresh
  <2>2. OfIn(rows, e) = {}
    BY <1>2, <2>1 DEF FreshIn, Acting
  <2> HIDE DEF e, k
  <2>3. OfIn(rows', e) = {k}
    BY <1>2, <1>3, <1>4, <2>2 DEF OfIn
  <2>4. Cardinality({k}) = 1
    BY FS_Singleton
  <2>5. \E i \in DOMAIN rows' :
          rows'[i].owner = Owner(h) /\ rows'[i].endpoint = e /\ rows'[i].active
    BY <1>2, <1>3, <1>4
  <2>6. Cardinality(OfIn(rows', e)) <= 1
    BY <2>3, <2>4
  <2> QED
    BY <2>5, <2>6 DEF Saved, OfIn, e
<1> QED
  BY <1>4, <1>5 DEF Good, SubscriptionKept

\* A statement that looks for rows and goes on to another with what it found.
LEMMA LookKeeps ==
  ASSUME PushInv, NEW h \in Handlers, NEW pc \in Acting, NEW row \in Nat,
         Read(h, [Then(h, pc) EXCEPT !.row = row]) \/ (Read(h, Then(h, pc)) /\ pc # "reuse"),
         call[h].pc \notin {"clear", "sending"}, pc # "store",
         call[h].overtaken \/
           /\ pc \in {"inactive", "reuse", "insert"} => OfIn(rows, call[h].req.endpoint) = {}
           /\ pc = "update" => OfIn(rows, call[h].req.endpoint) # {}
           /\ pc = "reuse" => row \in DOMAIN rows /\ rows[row].owner = call[h].req.owner
  PROVE  Good
<1> DEFINE c == call[h]
           d == Then(h, pc)
           e == [req |-> c.req, pc |-> pc, row |-> row, users |-> c.users,
                 overtaken |-> c.overtaken]
<1>1. c \in Call /\ pc \in Statements
  BY DEF PushInv, PushTypes, Statements
<1>2. d = [c EXCEPT !.pc = pc]
  BY DEF Then
<1>3. sends[h] = NoSends /\ pc # "clear"
  BY DEF PushInv, SendsInSending, Acting
<1> HIDE DEF d, c
<1>4. /\ d \in Call /\ d.pc = pc /\ d.req = c.req /\ d.row = c.row /\ d.users = c.users
      /\ d.overtaken = c.overtaken
  BY <1>1, <1>2, CallAt
<1>5. [d EXCEPT !.row = row] = e
  <2>1. d = [req |-> c.req, pc |-> pc, row |-> c.row, users |-> c.users,
             overtaken |-> c.overtaken]
    BY <1>4, CallFields
  <2> QED
    BY <2>1
<1>6. e \in Call
  BY <1>1, CallFields DEF Call
<1>7. e.pc = pc /\ e.req = c.req /\ e.row = row /\ e.overtaken = c.overtaken
  OBVIOUS
<1> HIDE DEF e
<1>8. FreshIn(rows, e)
  BY <1>7 DEF FreshIn, c
<1>9. pc # "reuse" => FreshIn(rows, d)
  BY <1>4 DEF FreshIn, c
<1>10. CASE Read(h, [Then(h, pc) EXCEPT !.row = row])
  <2>1. call' = [call EXCEPT ![h] = e] /\ UNCHANGED <<rows, cache, sends, menu>>
    BY <1>5, <1>10 DEF Read, Goto, d
  <2> QED
    BY <1>3, <1>6, <1>7, <1>8, <2>1, ReadKeeps
<1>11. CASE Read(h, Then(h, pc)) /\ pc # "reuse"
  <2>1. call' = [call EXCEPT ![h] = d] /\ UNCHANGED <<rows, cache, sends, menu>>
    BY <1>11 DEF Read, Goto, d
  <2> QED
    BY <1>3, <1>4, <1>9, <1>11, <2>1, ReadKeeps
<1> QED
  BY <1>10, <1>11

LEMMA FindEndpointKeeps ==
  ASSUME PushInv, NEW h \in Handlers, FindEndpoint(h)
  PROVE  Good
<1>1. call[h].pc = "start"
  BY DEF FindEndpoint, subscribing, subscribe, dispatcherSubscribe, At
<1>2. Of(Endpoint(h)) = OfIn(rows, call[h].req.endpoint)
  BY RowsRead DEF Endpoint
<1>3. 0 \in Nat /\ "inactive" \in Acting /\ "update" \in Acting
  BY DEF Acting
<1>4. CASE Answer(h)
  BY <1>1, <1>4, AnswerKeeps
<1>5. CASE Of(Endpoint(h)) = {} /\ Read(h, Then(h, "inactive"))
  BY <1>1, <1>2, <1>3, <1>5, LookKeeps
<1>6. CASE Of(Endpoint(h)) # {} /\ Read(h, Then(h, "update"))
  BY <1>1, <1>2, <1>3, <1>6, LookKeeps
<1> QED
  BY <1>4, <1>5, <1>6 DEF FindEndpoint

LEMMA FindInactiveKeeps ==
  ASSUME PushInv, NEW h \in Handlers, FindInactive(h)
  PROVE  Good
<1>1. call[h].pc = "inactive"
  BY DEF FindInactive, subscribing, subscribe, dispatcherSubscribe, At
<1>2. call[h].overtaken \/ OfIn(rows, call[h].req.endpoint) = {}
  <2>1. FreshIn(rows, call[h])
    BY DEF PushInv, ReadsFresh
  <2> QED
    BY <1>1, <2>1 DEF FreshIn, Acting
<1>3. 0 \in Nat /\ "insert" \in Acting /\ "reuse" \in Acting
  BY DEF Acting
<1>4. CASE Read(h, Then(h, "insert"))
  BY <1>1, <1>2, <1>3, <1>4, LookKeeps
<1>5. CASE \E i \in Inactive(Owner(h)) : Read(h, [Then(h, "reuse") EXCEPT !.row = i])
  <2>1. PICK i \in Inactive(Owner(h)) : Read(h, [Then(h, "reuse") EXCEPT !.row = i])
    BY <1>5
  <2>2. i \in DOMAIN rows /\ rows[i].owner = call[h].req.owner
    BY DEF Inactive, Owner
  <2>3. i \in Nat
    BY <2>2 DEF PushInv, PushTypes
  <2> QED
    BY <1>1, <1>2, <1>3, <2>1, <2>2, <2>3, LookKeeps
<1> QED
  BY <1>4, <1>5 DEF FindInactive

\* Rows of which one column changes.
LEMMA ColumnSet ==
  ASSUME rows \in Seq(Row)
  PROVE  /\ \A e, o : Deactivated(e, o) \in Seq(Row)
         /\ \A set : \A wants \in SUBSET Categories : Preferring(set, wants) \in Seq(Row)
<1>1. \A row \in Row : [row EXCEPT !.active = FALSE] \in Row
  BY DEF Row
<1>2. ASSUME NEW e, NEW o PROVE Deactivated(e, o) \in Seq(Row)
  <2>1. \A i \in DOMAIN rows : rows[i] \in Row /\ [rows[i] EXCEPT !.active = FALSE] \in Row
    BY <1>1
  <2> QED
    BY <2>1 DEF Deactivated
<1>3. ASSUME NEW set, NEW wants \in SUBSET Categories
      PROVE  Preferring(set, wants) \in Seq(Row)
  <2>1. \A row \in Row : [row EXCEPT !.wants = wants] \in Row
    BY DEF Row
  <2>2. \A i \in DOMAIN rows : rows[i] \in Row /\ [rows[i] EXCEPT !.wants = wants] \in Row
    BY <2>1
  <2> QED
    BY <2>2 DEF Preferring
<1> QED
  BY <1>2, <1>3

LEMMA unsubscribeKeeps ==
  ASSUME PushInv, NEW h \in Handlers, unsubscribe(h)
  PROVE  Good
<1>1. call[h].pc = "start"
  BY DEF unsubscribe, dispatcherUnsubscribe, At
<1>2. CASE Answer(h)
  BY <1>1, <1>2, AnswerKeeps
<1>3. CASE Write(h, Deactivated(Endpoint(h), Owner(h)), "clear")
  <2> DEFINE new == Deactivated(Endpoint(h), Owner(h))
  <2>1. new \in Seq(Row)
    BY ColumnSet DEF PushInv, PushTypes
  <2> HIDE DEF new
  <2>2. /\ PushInv' /\ CacheAgrees' /\ \A g \in Handlers \ {h} : ~Saves(g)
    BY <1>1, <1>3, <2>1, WriteKeeps DEF new
  <2>3. ~Saves(h)
    BY <1>1 DEF Saves
  <2> QED
    BY <2>2, <2>3 DEF Good, SubscriptionKept
<1> QED
  BY <1>2, <1>3 DEF unsubscribe

LEMMA updatePreferencesKeeps ==
  ASSUME PushInv, NEW h \in Handlers, updatePreferences(h)
  PROVE  Good
<1> DEFINE own == Of(Endpoint(h)) \cap Active(Owner(h))
           wants == call[h].req.wants
<1>1. call[h].pc = "start" /\ call[h].req.op = "updatePreferences"
  BY DEF updatePreferences, At
<1>2. wants \in SUBSET Categories
  <2>1. call[h] \in Call
    BY DEF PushInv, PushTypes
  <2>2. call[h].req \in menu \cup {NoRequest}
    BY <2>1, CallFields
  <2>3. call[h].req \in Requests
    BY <1>1, <2>2 DEF NoRequest, PushInv, PushTypes
  <2> QED
    BY <1>1, <2>3, DeviceRequests
<1>3. CASE Answer(h)
  BY <1>1, <1>3, AnswerKeeps
<1>4. CASE Write(h, Preferring(own, wants), "clear")
  <2> DEFINE new == Preferring(own, wants)
  <2>1. new \in Seq(Row)
    <3> HIDE DEF own, wants
    <3> QED
      BY <1>2, ColumnSet DEF PushInv, PushTypes
  <2> HIDE DEF new
  <2>2. /\ PushInv' /\ CacheAgrees' /\ \A g \in Handlers \ {h} : ~Saves(g)
    BY <1>1, <1>4, <2>1, WriteKeeps DEF new
  <2>3. ~Saves(h)
    BY <1>1 DEF Saves
  <2> QED
    BY <2>2, <2>3 DEF Good, SubscriptionKept
<1> QED
  BY <1>3, <1>4 DEF updatePreferences

LEMMA BeginKeeps ==
  ASSUME PushInv, NEW h \in Handlers, Begin(h)
  PROVE  Good
<1>1. PICK r \in menu : call' = [call EXCEPT ![h] = [Idle EXCEPT !.req = r, !.pc = "start"]]
  BY DEF Begin
<1> DEFINE b == [Idle EXCEPT !.req = r]
           c == [b EXCEPT !.pc = "start"]
<1>2. b \in Call
  BY IdleIs, CallFor
<1>3. "start" \in Statements
  BY DEF Statements
<1> HIDE DEF b
<1>4. c \in Call /\ c.pc = "start"
  BY <1>2, <1>3, CallAt
<1>5. call' = [call EXCEPT ![h] = c] /\ UNCHANGED <<rows, cache, sends, menu>>
  BY <1>1 DEF Begin, b
<1>6. call[h].pc = "idle"
  BY IdleIs DEF Begin
<1>7. sends[h] = NoSends
  BY <1>6 DEF PushInv, SendsInSending
<1> HIDE DEF c
<1>8. FreshIn(rows, c)
  BY <1>4 DEF FreshIn, Acting
<1> QED
  BY <1>4, <1>5, <1>6, <1>7, <1>8, ReadKeeps

LEMMA ClearCacheKeeps ==
  ASSUME PushInv, NEW h \in Handlers, ClearCache(h)
  PROVE  Good
<1>1. /\ call[h].pc = "clear" /\ cache' = << >> /\ call' = [call EXCEPT ![h] = Idle]
      /\ UNCHANGED <<rows, sends, menu>>
  BY DEF ClearCache, Goto
<1>2. call \in [Handlers -> Call]
  BY DEF PushInv, PushTypes
<1>3. /\ call' \in [Handlers -> Call] /\ call'[h] = Idle
      /\ \A g \in Handlers \ {h} : call'[g] = call[g]
  BY <1>1, <1>2, IdleIs
<1>4. PushTypes'
  BY <1>1, <1>3 DEF PushInv, PushTypes, Call
<1>5. FreshIn(rows, Idle)
  BY IdleIs DEF FreshIn, Acting
<1>6. ReadsFresh'
  BY <1>1, <1>3, <1>5 DEF PushInv, ReadsFresh
<1>7. SendsInSending'
  BY <1>1, <1>3 DEF PushInv, SendsInSending
<1>8. CacheFits'
  BY <1>1 DEF CacheFits
<1>9. CacheAgrees'
  BY <1>8, FitsIsAgrees, PTL
<1>10. \A g \in Handlers : ~Saves(g)
  BY <1>1, <1>3, IdleIs DEF Saves
<1> QED
  BY <1>4, <1>6, <1>7, <1>8, <1>9, <1>10 DEF Good, PushInv, SubscriptionKept

LEMMA QueryKeeps ==
  ASSUME PushInv, NEW h \in Handlers, Query(h)
  PROVE  Good
<1> DEFINE key == call[h].req.key
           u == UsersIn(rows, key)
           b == Then(h, "store")
           c == [b EXCEPT !.users = u]
<1>1. call[h].pc = "start" /\ Key(h) = key
  BY DEF Query, At, Key
<1>2. call[h] \in Call /\ "store" \in Statements
  BY DEF PushInv, PushTypes, Statements, Acting
<1>3. b \in Call /\ b.pc = "store" /\ b.req = call[h].req
  <2>1. b = [call[h] EXCEPT !.pc = "store"]
    BY DEF Then
  <2> HIDE DEF b
  <2> QED
    BY <1>2, <2>1, CallAt
<1>4. getUsersWithSubscriptionsByCategory(Key(h)) = u
  BY <1>1, RowsRead
<1>5. Read(h, c)
  BY <1>4 DEF Query
<1>6. u \in SUBSET Users
  BY DEF UsersIn
<1> HIDE DEF b, u
<1>7. c \in Call /\ c.pc = "store" /\ c.req = call[h].req /\ c.users = u
  BY <1>3, <1>6, CallRead
<1> HIDE DEF c
<1>8. FreshIn(rows, c)
  BY <1>7 DEF FreshIn, u
<1>9. call' = [call EXCEPT ![h] = c] /\ UNCHANGED <<rows, cache, sends, menu>>
  BY <1>5 DEF Read, Goto
<1>10. sends[h] = NoSends
  BY <1>1 DEF PushInv, SendsInSending
<1> QED
  BY <1>1, <1>7, <1>8, <1>9, <1>10, ReadKeeps

LEMMA CacheHitKeeps ==
  ASSUME PushInv, NEW h \in Handlers, CacheHit(h) \/ sendDispatcherPush(h)
  PROVE  Good
<1>1. call[h].pc = "start" /\ UNCHANGED <<rows, cache>>
  BY DEF CacheHit, sendDispatcherPush, At
<1>2. PICK owners : Sending(h, owners)
  BY DEF CacheHit, sendDispatcherPush
<1> QED
  BY <1>1, <1>2, SendingKeeps

LEMMA cacheResultKeeps ==
  ASSUME PushInv, NEW h \in Handlers, cacheResult(h)
  PROVE  Good
<1> DEFINE key == Key(h)
           entry == [users |-> call[h].users, overtaken |-> call[h].overtaken]
<1>1. /\ call[h].pc = "store" /\ call[h].req.op = "broadcast" /\ key = call[h].req.key
      /\ cache' = [k \in DOMAIN cache \cup {key} |-> IF k = key THEN entry ELSE cache[k]]
      /\ Sending(h, call[h].users) /\ UNCHANGED rows
  BY DEF cacheResult, At, Key
<1>2. call[h].overtaken \/ call[h].users = UsersIn(rows, key)
  <2>1. FreshIn(rows, call[h])
    BY DEF PushInv, ReadsFresh
  <2> QED
    BY <1>1, <2>1 DEF FreshIn, Acting
<1>3. entry.users = UsersIn(rows, key) \/ entry.overtaken
  <2>1. entry.users = call[h].users
    OBVIOUS
  <2>2. entry.overtaken = call[h].overtaken
    OBVIOUS
  <2> QED
    BY <1>2, <2>1, <2>2
<1> HIDE DEF key, entry
<1>4. \A k \in DOMAIN cache' :
        \/ k \in DOMAIN cache /\ cache'[k] = cache[k]
        \/ cache'[k].users = UsersIn(rows, k) \/ cache'[k].overtaken
  <2> TAKE k \in DOMAIN cache'
  <2>1. CASE k = key
    <3>1. cache'[k] = entry
      BY <1>1, <2>1
    <3> QED
      BY <1>3, <2>1, <3>1
  <2>2. CASE k # key
    <3>1. k \in DOMAIN cache /\ cache'[k] = cache[k]
      BY <1>1, <2>2
    <3> QED
      BY <3>1
  <2> QED
    BY <2>1, <2>2
<1> QED
  BY <1>1, <1>4, SendingKeeps

LEMMA SentKeeps ==
  ASSUME PushInv, NEW h \in Handlers, Sent(h)
  PROVE  Good
BY AnswerKeeps DEF Sent

\* A device that is gone is unsubscribed: a write in the middle of a sending.
LEMMA DeactivateKeeps ==
  ASSUME PushInv, NEW h \in Handlers, NEW o \in DOMAIN sends[h], NEW e, Deactivate(h, o, e)
  PROVE  Good
<1> DEFINE less(pc) == [todo |-> {}, gone |-> sends[h][o].gone \ {e}, pc |-> pc]
<1>1. sends[h][o].pc = "push" /\ UNCHANGED <<cache, menu>>
  BY DEF Deactivate
<1>2. CASE ~Has(e, o)
  <2> DEFINE s == less("push")
  <2>1. Sends(h, o, s) /\ UNCHANGED <<rows, call>>
    BY <1>2 DEF Deactivate
  <2> HIDE DEF s
  <2> QED
    BY <1>1, <2>1, SendsKeeps
<1>3. CASE Has(e, o)
  <2> DEFINE s == less("clear")
             new == [sends[h] EXCEPT ![o] = s]
  <2>1. rows' = Deactivated(e, o) /\ Overtaken(h, call[h]) /\ Sends(h, o, s)
    BY <1>3 DEF Deactivate
  <2>2. s.pc = "clear"
    OBVIOUS
  <2> HIDE DEF s
  <2>3. sends' = [sends EXCEPT ![h] = new]
    BY <2>1, <2>2 DEF Sends
  <2>4. DOMAIN sends' = Handlers /\ sends'[h] = new
        /\ \A g \in Handlers \ {h} : sends'[g] = sends[g]
    <3> HIDE DEF new
    <3> QED
      BY <2>3 DEF PushInv, PushTypes
  <2>5. call[h].pc = "sending" /\ call[h] \in Call
    <3>1. sends[h] # NoSends
      BY DEF NoSends
    <3> QED
      BY <3>1 DEF PushInv, PushTypes, SendsInSending
  <2>6. call[h].pc \notin Acting
    BY <2>5 DEF Acting
  <2>7. /\ call' \in [Handlers -> Call] /\ call'[h] = call[h]
        /\ \A g \in Handlers \ {h} : call'[g].pc = call[g].pc
        /\ \A rs : \A g \in Handlers : FreshIn(rs, call'[g])
    BY <2>1, <2>5, <2>6, OvertakenIs
  <2>8. rows' \in Seq(Row)
    BY <2>1, ColumnSet DEF PushInv, PushTypes
  <2>9. PushTypes'
    BY <1>1, <2>4, <2>7, <2>8 DEF PushInv, PushTypes, Call
  <2>10. ReadsFresh'
    BY <2>7 DEF ReadsFresh
  <2>11. SendsInSending'
    BY <2>4, <2>5, <2>7 DEF PushInv, SendsInSending
  <2>12. Clearing'
    <3>1. o \in DOMAIN sends'[h] /\ sends'[h][o].pc = "clear"
      BY <2>2, <2>4
    <3> QED
      BY <3>1 DEF Clearing
  <2>13. CacheFits'
    BY <2>12 DEF CacheFits
  <2>14. CacheAgrees'
    BY <2>13, FitsIsAgrees, PTL
  <2>15. \A g \in Handlers : ~Saves(g)
    BY <2>5, <2>7 DEF Saves
  <2> QED
    BY <2>9, <2>10, <2>11, <2>13, <2>14, <2>15 DEF Good, PushInv, SubscriptionKept
<1> QED
  BY <1>2, <1>3

LEMMA SendingStepKeeps ==
  ASSUME PushInv, NEW h \in Handlers, NEW o \in DOMAIN sends[h], NEW e,
         sendWebPush(h, o) \/ ClearAfter(h, o) \/ Push(h, o, e)
  PROVE  Good
<1>1. CASE sendWebPush(h, o)
  <2>1. PICK s : Sends(h, o, s)
    BY <1>1 DEF sendWebPush
  <2>2. sends[h][o].pc = "read" /\ UNCHANGED <<rows, cache, call, menu>>
    BY <1>1 DEF sendWebPush
  <2> QED
    BY <2>1, <2>2, SendsKeeps
<1>2. CASE ClearAfter(h, o)
  <2>1. PICK s : Sends(h, o, s)
    BY <1>2 DEF ClearAfter
  <2>2. cache' = << >> /\ UNCHANGED <<rows, call, menu>>
    BY <1>2 DEF ClearAfter
  <2> QED
    BY <2>1, <2>2, SendsKeeps
<1>3. CASE Push(h, o, e)
  <2>1. PICK s : Sends(h, o, s)
    BY <1>3 DEF Push
  <2>2. sends[h][o].pc = "push" /\ UNCHANGED <<rows, cache, call, menu>>
    BY <1>3 DEF Push
  <2> QED
    BY <2>1, <2>2, SendsKeeps
<1> QED
  BY <1>1, <1>2, <1>3

LEMMA ExpireKeeps ==
  ASSUME PushInv, NEW key, Expire(key)
  PROVE  Good
<1>1. UNCHANGED <<rows, call, sends, menu>>
      /\ \A k \in DOMAIN cache' : k \in DOMAIN cache /\ cache'[k] = cache[k]
  BY DEF Expire
<1>2. PushTypes' /\ ReadsFresh' /\ SendsInSending'
  BY <1>1 DEF PushInv, PushTypes, Call, ReadsFresh, SendsInSending
<1>3. CacheFits'
  BY <1>1 DEF PushInv, CacheFits, Clearing
<1>4. CacheAgrees'
  BY <1>3, FitsIsAgrees, PTL
<1>5. \A g \in Handlers : ~Saves(g)
  BY <1>1 DEF Saves
<1> QED
  BY <1>2, <1>3, <1>4, <1>5 DEF Good, PushInv, SubscriptionKept

LEMMA PushNext ==
  Starts /\ PushInv /\ [Next]_pushVars => PushInv' /\ [SubscriptionKept]_pushVars
<1> SUFFICES ASSUME Starts, PushInv, [Next]_pushVars
             PROVE  PushInv' /\ [SubscriptionKept]_pushVars
  OBVIOUS
<1>1. CASE UNCHANGED pushVars
  BY <1>1 DEF pushVars, PushInv, PushTypes, Call, ReadsFresh, SendsInSending, CacheFits, Clearing
<1>2. ASSUME NEW h \in Handlers, Begin(h) \/ ClearCache(h) PROVE Good
  BY <1>2, BeginKeeps, ClearCacheKeeps
<1>3. ASSUME NEW h \in Handlers, Subscribing(h) PROVE Good
  BY <1>3, FindEndpointKeeps, saveKeeps, saveDispatcherKeeps, FindInactiveKeeps, ReuseKeeps,
     InsertKeeps, unsubscribeKeeps, updatePreferencesKeeps DEF Subscribing
<1>4. ASSUME NEW h \in Handlers, Broadcasting(h) PROVE Good
  <2>1. CASE CacheHit(h) \/ Query(h) \/ cacheResult(h) \/ sendDispatcherPush(h) \/ Sent(h)
    BY <2>1, CacheHitKeeps, QueryKeeps, cacheResultKeeps, SentKeeps
  <2>2. ASSUME NEW o \in DOMAIN sends[h], sendWebPush(h, o) \/ ClearAfter(h, o) PROVE Good
    BY <2>2, SendingStepKeeps
  <2>3. ASSUME NEW o \in DOMAIN sends[h], NEW e, Push(h, o, e) \/ Deactivate(h, o, e)
        PROVE  Good
    BY <2>3, SendingStepKeeps, DeactivateKeeps
  <2> QED
    BY <1>4, <2>1, <2>2, <2>3 DEF Broadcasting
<1>5. ASSUME NEW key, Expire(key) PROVE Good
  BY <1>5, ExpireKeeps
<1>6. CASE Ended
  BY <1>1, <1>6 DEF Ended
<1>7. Good => PushInv' /\ [SubscriptionKept]_pushVars
  BY DEF Good
<1> QED
  BY <1>1, <1>2, <1>3, <1>4, <1>5, <1>6, <1>7 DEF Next

\* However the statements of the requests interleave, a device that is saved is active,
\* with its owner and on one row only, unless another write overtook the reads; and a
\* cached answer is the one of the rows, unless a write overtook its query or has yet to
\* clear the cache (saveSubscription.js, query-optimizer.js).
THEOREM SubscriptionsAreKept ==
  ASSUME Starts
  PROVE  Spec => SubscriptionsKept
<1>1. Init => PushInv
  BY PushInit
<1>2. PushInv /\ [Next]_pushVars => PushInv' /\ [SubscriptionKept]_pushVars
  BY PushNext
<1> QED
  BY <1>1, <1>2, PTL DEF Spec, SubscriptionsKept

----------------------------------------------------------------------------
(* Types and bounds *)

\* A row that a call has read is there, as rows are never deleted.
RowsKnown == \A h \in Handlers : call[h].row \in {0} \cup DOMAIN rows
CacheTypes == DOMAIN cache \subseteq Keys /\ \A k \in DOMAIN cache : cache[k] \in Entry
SendsOf(m) == DOMAIN m \subseteq Owners /\ \A o \in DOMAIN m : m[o] \in Send
SendTypes == \A h \in Handlers : SendsOf(sends[h])

TypeInv == RowsKnown /\ CacheTypes /\ SendTypes /\ left \in 0 .. MaxRequests

LEMMA TypeInvIsTyped == PushInv /\ TypeInv => TypeOK
<1> SUFFICES ASSUME PushInv, TypeInv PROVE TypeOK
  OBVIOUS
<1>1. /\ rows \in Seq(Row) /\ menu \subseteq Requests
      /\ \A h \in Handlers : call[h] \in Call
  BY DEF PushInv, PushTypes
<1>2. ASSUME NEW h \in Handlers
      PROVE  /\ call[h].req \in menu \cup {NoRequest}
             /\ call[h].row \in 0 .. Len(rows) /\ call[h].users \subseteq Users
  <2>1. call[h].req \in menu \cup {NoRequest} /\ call[h].users \subseteq Users
    BY <1>1, CallFields
  <2>2. DOMAIN rows = 1 .. Len(rows) /\ Len(rows) \in Nat
    BY <1>1
  <2>3. call[h].row = 0 \/ call[h].row \in 1 .. Len(rows)
    BY <2>2 DEF TypeInv, RowsKnown
  <2> QED
    BY <2>1, <2>2, <2>3
<1> QED
  BY <1>1, <1>2 DEF TypeInv, CacheTypes, SendTypes, SendsOf, TypeOK

LEMMA TypeInit == MaxRequests \in Nat /\ Init => TypeInv
<1> SUFFICES ASSUME MaxRequests \in Nat, Init PROVE TypeInv
  OBVIOUS
<1>1. Idle.row = 0
  BY DEF Idle
<1>2. \A h \in Handlers : call[h] = Idle /\ sends[h] = << >>
  BY DEF Init, NoSends
<1>3. cache = << >> /\ left = MaxRequests
  BY DEF Init
<1> QED
  BY <1>1, <1>2, <1>3 DEF TypeInv, RowsKnown, CacheTypes, SendTypes, SendsOf

\* The requests that send: a broadcast has a key, a message to the portal a place.
LEMMA SendRequests ==
  ASSUME NEW r \in Requests
  PROVE  /\ r.op = "broadcast" => r.key \in Keys
         /\ r.op = "sendDispatcherPush" => r.owner \in Owners
<1>1. \/ r \in subscribeSchema \/ r \in updatePreferencesSchema
      \/ r \in dispatcherSubscribeSchema \/ r \in dispatcherUnsubscribeSchema
      \/ r \in broadcastWebPushSchema
      \/ r \in [op: {"unsubscribe"}, owner: Users, endpoint: Endpoints]
      \/ r \in [op: {"sendDispatcherPush"}, owner: Places]
  BY DEF Requests
<1>2. CASE r \in subscribeSchema \/ r \in updatePreferencesSchema
  BY <1>2 DEF subscribeSchema, updatePreferencesSchema
<1>3. CASE r \in dispatcherSubscribeSchema \/ r \in dispatcherUnsubscribeSchema
  BY <1>3 DEF dispatcherSubscribeSchema, dispatcherUnsubscribeSchema
<1>4. CASE r \in broadcastWebPushSchema
  BY <1>4 DEF broadcastWebPushSchema
<1>5. CASE r \in [op: {"unsubscribe"}, owner: Users, endpoint: Endpoints]
  BY <1>5
<1>6. CASE r \in [op: {"sendDispatcherPush"}, owner: Places]
  BY <1>6 DEF Owners
<1> QED
  BY <1>1, <1>2, <1>3, <1>4, <1>5, <1>6

\* A call goes on with the row it had, with none, or with one of the table.
RowKept(g) == call'[g].row \in {0, call[g].row} \cup DOMAIN rows

LEMMA GotoKeepsRows ==
  ASSUME PushInv, NEW h \in Handlers, NEW c, c.row \in {0, call[h].row} \cup DOMAIN rows,
         call' = [call EXCEPT ![h] = c] \/ Overtaken(h, c)
  PROVE  \A g \in Handlers : RowKept(g)
<1>1. \A g \in Handlers : call[g] \in Call
  BY DEF PushInv, PushTypes
<1>2. DOMAIN call = Handlers
  BY DEF PushInv, PushTypes
<1>3. CASE call' = [call EXCEPT ![h] = c]
  BY <1>2, <1>3 DEF RowKept
<1>4. ASSUME Overtaken(h, c), NEW g \in Handlers PROVE RowKept(g)
  <2>1. CASE g = h
    BY <1>4, <2>1 DEF Overtaken, RowKept
  <2>2. CASE g # h
    <3> DEFINE d == call[g]
               over == d.overtaken \/ d.pc \in {"update", "inactive", "reuse", "insert", "store"}
    <3>1. call'[g] = [d EXCEPT !.overtaken = over]
      BY <1>4, <2>2 DEF Overtaken
    <3>2. d \in Call
      BY <1>1
    <3> HIDE DEF d, over
    <3>3. [d EXCEPT !.overtaken = over].row = d.row
      BY <3>2 DEF Call
    <3> QED
      BY <3>1, <3>3 DEF RowKept, d
  <2> QED
    BY <2>1, <2>2
<1> QED
  BY <1>3, <1>4

LEMMA RowOf ==
  ASSUME PushInv, NEW h \in Handlers
  PROVE  /\ Idle.row = 0
         /\ \A pc : Then(h, pc).row = call[h].row
         /\ \A pc, u : [Then(h, pc) EXCEPT !.users = u].row = call[h].row
         /\ \A pc, i : [Then(h, pc) EXCEPT !.row = i].row = i
<1> DEFINE c == call[h]
<1>1. c \in Call
  BY DEF PushInv, PushTypes
<1> HIDE DEF c
<1>2. \A pc : [c EXCEPT !.pc = pc].row = c.row
  BY <1>1 DEF Call
<1>3. \A pc, u : [[c EXCEPT !.pc = pc] EXCEPT !.users = u].row = c.row
  BY <1>1 DEF Call
<1>4. \A pc, i : [[c EXCEPT !.pc = pc] EXCEPT !.row = i].row = i
  BY <1>1 DEF Call
<1>5. Idle.row = 0
  BY DEF Idle
<1> QED
  BY <1>2, <1>3, <1>4, <1>5 DEF Then, c

LEMMA RowsNext ==
  ASSUME PushInv, RowsKnown, [Next]_pushVars
  PROVE  RowsKnown'
<1>1. rows \in Seq(Row)
  BY DEF PushInv, PushTypes
<1>2. SUFFICES DOMAIN rows \subseteq DOMAIN rows' /\ \A g \in Handlers : RowKept(g)
  BY DEF RowsKnown, RowKept
<1>3. CASE UNCHANGED <<rows, call>>
  BY <1>3 DEF RowKept
<1>4. ASSUME NEW h \in Handlers, Begin(h) \/ ClearCache(h)
      PROVE  DOMAIN rows \subseteq DOMAIN rows' /\ \A g \in Handlers : RowKept(g)
  <2>1. PICK c : call' = [call EXCEPT ![h] = c] /\ c.row = 0
    <3>1. CASE Begin(h)
      <4>1. PICK r \in menu : call' = [call EXCEPT ![h] = [Idle EXCEPT !.req = r, !.pc = "start"]]
        BY <3>1 DEF Begin
      <4>2. [Idle EXCEPT !.req = r, !.pc = "start"].row = 0
        BY DEF Idle
      <4> QED
        BY <4>1, <4>2
    <3>2. CASE ClearCache(h)
      BY <3>2, RowOf DEF ClearCache, Goto
    <3> QED
      BY <1>4, <3>1, <3>2
  <2>2. rows' = rows
    BY <1>4 DEF Begin, ClearCache
  <2> QED
    BY <2>1, <2>2, GotoKeepsRows
<1>5. ASSUME NEW h \in Handlers, NEW c, c.row \in {0, call[h].row} \cup DOMAIN rows, Read(h, c)
      PROVE  DOMAIN rows \subseteq DOMAIN rows' /\ \A g \in Handlers : RowKept(g)
  <2>1. call' = [call EXCEPT ![h] = c] /\ rows' = rows
    BY <1>5 DEF Read, Goto
  <2> QED
    BY <1>5, <2>1, GotoKeepsRows
<1>6. ASSUME NEW h \in Handlers, NEW new, DOMAIN rows \subseteq DOMAIN new, Write(h, new, "clear")
      PROVE  DOMAIN rows \subseteq DOMAIN rows' /\ \A g \in Handlers : RowKept(g)
  <2>1. Overtaken(h, Then(h, "clear")) /\ rows' = new
    BY <1>6 DEF Write
  <2>2. Then(h, "clear").row = call[h].row
    BY RowOf
  <2> QED
    BY <1>6, <2>1, <2>2, GotoKeepsRows
<1>7. ASSUME NEW h \in Handlers, Answer(h)
      PROVE  DOMAIN rows \subseteq DOMAIN rows' /\ \A g \in Handlers : RowKept(g)
  BY <1>5, <1>7, RowOf DEF Answer
<1>8. ASSUME NEW h \in Handlers, NEW pc, Read(h, Then(h, pc))
      PROVE  DOMAIN rows \subseteq DOMAIN rows' /\ \A g \in Handlers : RowKept(g)
  BY <1>5, <1>8, RowOf
<1>9. ASSUME NEW h \in Handlers, NEW owners, Sending(h, owners), rows' = rows
      PROVE  DOMAIN rows \subseteq DOMAIN rows' /\ \A g \in Handlers : RowKept(g)
  <2>1. call' = [call EXCEPT ![h] = Then(h, "sending")]
    BY <1>9 DEF Sending, Goto
  <2>2. Then(h, "sending").row = call[h].row
    BY RowOf
  <2> QED
    BY <1>9, <2>1, <2>2, GotoKeepsRows
<1>10. ASSUME NEW h \in Handlers, Subscribing(h)
       PROVE  DOMAIN rows \subseteq DOMAIN rows' /\ \A g \in Handlers : RowKept(g)
  <2>1. CASE FindEndpoint(h)
    BY <1>7, <1>8, <2>1 DEF FindEndpoint
  <2>2. CASE saveSubscription(h) \/ saveDispatcherSubscription(h) \/ unsubscribe(h)
             \/ updatePreferences(h)
    <3>1. Answer(h) \/ \E new : DOMAIN new = DOMAIN rows /\ Write(h, new, "clear")
      <4>1. \A set, row : DOMAIN Updated(set, row) = DOMAIN rows
        BY DEF Updated
      <4>2. \A e, o : DOMAIN Deactivated(e, o) = DOMAIN rows
        BY DEF Deactivated
      <4>3. \A set, wants : DOMAIN Preferring(set, wants) = DOMAIN rows
        BY DEF Preferring
      <4> QED
        BY <2>2, <4>1, <4>2, <4>3
           DEF saveSubscription, saveDispatcherSubscription, unsubscribe, updatePreferences
    <3> QED
      BY <1>6, <1>7, <3>1
  <2>3. CASE FindInactive(h)
    <3>1. CASE Inactive(Owner(h)) = {}
      BY <1>8, <2>3, <3>1 DEF FindInactive
    <3>2. CASE Inactive(Owner(h)) # {}
      <4>1. PICK i \in Inactive(Owner(h)) : Read(h, [Then(h, "reuse") EXCEPT !.row = i])
        BY <2>3, <3>2 DEF FindInactive
      <4>2. i \in DOMAIN rows
        BY DEF Inactive
      <4>3. [Then(h, "reuse") EXCEPT !.row = i].row = i
        BY RowOf
      <4> QED
        BY <1>5, <4>1, <4>2, <4>3
    <3> QED
      BY <3>1, <3>2
  <2>4. CASE Reuse(h)
    <3>1. PICK new : Write(h, new, "clear") /\ DOMAIN new = DOMAIN rows
      BY <2>4 DEF Reuse, Updated
    <3> QED
      BY <1>6, <3>1
  <2>5. CASE Insert(h)
    <3> DEFINE row == Given(h)
               new == Append(rows, row)
    <3>1. Write(h, new, "clear")
      BY <2>5 DEF Insert
    <3> HIDE DEF row
    <3>2. DOMAIN rows \subseteq DOMAIN new
      BY <1>1
    <3> HIDE DEF new
    <3> QED
      BY <1>6, <3>1, <3>2
  <2> QED
    BY <1>10, <2>1, <2>2, <2>3, <2>4, <2>5 DEF Subscribing
<1>11. ASSUME NEW h \in Handlers, Broadcasting(h)
       PROVE  DOMAIN rows \subseteq DOMAIN rows' /\ \A g \in Handlers : RowKept(g)
  <2>1. CASE CacheHit(h) \/ cacheResult(h) \/ sendDispatcherPush(h)
    BY <1>9, <2>1 DEF CacheHit, cacheResult, sendDispatcherPush
  <2>2. CASE Query(h)
    <3> DEFINE u == getUsersWithSubscriptionsByCategory(Key(h))
    <3>1. Read(h, [Then(h, "store") EXCEPT !.users = u])
      BY <2>2 DEF Query
    <3> HIDE DEF u
    <3>2. [Then(h, "store") EXCEPT !.users = u].row = call[h].row
      BY RowOf
    <3> QED
      BY <1>5, <3>1, <3>2
  <2>3. CASE Sent(h)
    BY <1>7, <2>3 DEF Sent
  <2>4. ASSUME NEW o \in DOMAIN sends[h], NEW e,
               sendWebPush(h, o) \/ ClearAfter(h, o) \/ Push(h, o, e)
        PROVE  UNCHANGED <<rows, call>>
    BY <2>4 DEF sendWebPush, ClearAfter, Push
  <2>5. ASSUME NEW o \in DOMAIN sends[h], NEW e, Deactivate(h, o, e)
        PROVE  DOMAIN rows \subseteq DOMAIN rows' /\ \A g \in Handlers : RowKept(g)
    <3>1. CASE Has(e, o)
      <4>1. rows' = Deactivated(e, o) /\ Overtaken(h, call[h])
        BY <2>5, <3>1 DEF Deactivate
      <4>2. DOMAIN rows' = DOMAIN rows
        BY <4>1 DEF Deactivated
      <4> QED
        BY <4>1, <4>2, GotoKeepsRows
    <3>2. CASE ~Has(e, o)
      BY <1>3, <2>5, <3>2 DEF Deactivate
    <3> QED
      BY <3>1, <3>2
  <2> QED
    BY <1>3, <1>11, <2>1, <2>2, <2>3, <2>4, <2>5 DEF Broadcasting
<1>12. ASSUME NEW key, Expire(key) PROVE UNCHANGED <<rows, call>>
  BY <1>12 DEF Expire
<1>13. Ended \/ UNCHANGED pushVars => UNCHANGED <<rows, call>>
  BY DEF Ended, pushVars
<1> QED
  BY <1>3, <1>4, <1>10, <1>11, <1>12, <1>13 DEF Next

\* The sending of a handler begins, or goes on as s, or no sending changes.
LEMMA BeginsSending ==
  ASSUME PushInv, SendTypes, NEW h \in Handlers, NEW owners, owners \subseteq Owners,
         Sending(h, owners)
  PROVE  SendTypes'
<1> DEFINE new == [o \in owners |-> [todo |-> {}, gone |-> {}, pc |-> "read"]]
<1>1. sends' = [sends EXCEPT ![h] = new] /\ DOMAIN sends = Handlers
  BY DEF Sending, PushInv, PushTypes
<1>2. SendsOf(new)
  BY DEF SendsOf, Send
<1> HIDE DEF new
<1>3. sends'[h] = new /\ \A g \in Handlers \ {h} : sends'[g] = sends[g]
  BY <1>1
<1> QED
  BY <1>2, <1>3 DEF SendTypes

LEMMA GoesOnSending ==
  ASSUME PushInv, SendTypes, NEW h \in Handlers, NEW o \in DOMAIN sends[h], NEW s \in Send,
         Sends(h, o, s)
  PROVE  SendTypes'
<1> DEFINE m == sends[h]
           less == [x \in DOMAIN m \ {o} |-> m[x]]
           more == [m EXCEPT ![o] = s]
<1>1. DOMAIN sends = Handlers /\ SendsOf(m)
  BY DEF PushInv, PushTypes, SendTypes
<1>2. PICK new \in {less, more} : sends' = [sends EXCEPT ![h] = new]
  BY DEF Sends
<1>3. SendsOf(less) /\ SendsOf(more)
  <2>1. o \in DOMAIN m
    OBVIOUS
  <2> HIDE DEF m
  <2> QED
    BY <1>1, <2>1 DEF SendsOf
<1> HIDE DEF less, more
<1>4. sends'[h] = new /\ \A g \in Handlers \ {h} : sends'[g] = sends[g]
  BY <1>1, <1>2
<1> QED
  BY <1>2, <1>3, <1>4 DEF SendTypes

LEMMA SendFields ==
  ASSUME NEW s \in Send
  PROVE  /\ s.todo \in SUBSET Endpoints /\ s.gone \in SUBSET Endpoints
         /\ \A todo \in SUBSET Endpoints, gone \in SUBSET Endpoints :
              [s EXCEPT !.todo = todo, !.gone = gone] \in Send
         /\ [s EXCEPT !.pc = "push"] \in Send
BY DEF Send

LEMMA SendsNext ==
  ASSUME PushInv, TypeInv, [Next]_pushVars
  PROVE  SendTypes'
<1>1. /\ rows \in Seq(Row) /\ menu \subseteq Requests
      /\ \A h \in Handlers : call[h] \in Call
  BY DEF PushInv, PushTypes
<1>2. SendTypes /\ CacheTypes
  BY DEF TypeInv
<1>3. CASE UNCHANGED sends
  BY <1>2, <1>3 DEF SendTypes
<1>4. ASSUME NEW h \in Handlers, CacheHit(h) \/ cacheResult(h) \/ sendDispatcherPush(h)
      PROVE  SendTypes'
  <2>1. CASE CacheHit(h)
    <3>1. Sending(h, cache[Key(h)].users) /\ Key(h) \in DOMAIN cache
      BY <2>1 DEF CacheHit
    <3>2. cache[Key(h)].users \subseteq Owners
      BY <1>2, <3>1 DEF CacheTypes, Entry, Owners
    <3> QED
      BY <1>2, <3>1, <3>2, BeginsSending
  <2>2. CASE cacheResult(h)
    <3>1. Sending(h, call[h].users) /\ call[h].users \subseteq Users
      BY <1>1, <2>2, CallFields DEF cacheResult
    <3> QED
      BY <1>2, <3>1, BeginsSending DEF Owners
  <2>3. CASE sendDispatcherPush(h)
    <3>1. Sending(h, {Owner(h)}) /\ call[h].req.op = "sendDispatcherPush"
      BY <2>3 DEF sendDispatcherPush, At
    <3>2. call[h].req \in Requests
      BY <1>1, <3>1, CallFields DEF NoRequest
    <3>3. Owner(h) \in Owners
      BY <3>1, <3>2, SendRequests DEF Owner
    <3> QED
      BY <1>2, <3>1, <3>3, BeginsSending
  <2> QED
    BY <1>4, <2>1, <2>2, <2>3
<1>5. ASSUME NEW h \in Handlers, NEW o \in DOMAIN sends[h], NEW e,
             sendWebPush(h, o) \/ ClearAfter(h, o) \/ Push(h, o, e) \/ Deactivate(h, o, e)
      PROVE  SendTypes'
  <2>1. sends[h][o] \in Send
    BY <1>2 DEF SendTypes, SendsOf
  <2>2. PICK s \in Send : Sends(h, o, s)
    <3>1. CASE sendWebPush(h, o)
      <4> DEFINE todo == getSubscriptions(o, Key(h))
                 s == [todo |-> todo, gone |-> {}, pc |-> "push"]
      <4>1. todo \in SUBSET Endpoints
        <5>1. \A i \in DOMAIN rows : rows[i] \in Row
          BY <1>1
        <5>2. \A i \in DOMAIN rows : rows[i].endpoint \in Endpoints
          BY <5>1 DEF Row
        <5> QED
          BY <5>2 DEF getSubscriptions, Active
      <4>2. Sends(h, o, s)
        BY <3>1 DEF sendWebPush
      <4> HIDE DEF todo
      <4>3. s \in Send
        BY <4>1 DEF Send
      <4> QED
        BY <4>2, <4>3
    <3>2. CASE ClearAfter(h, o)
      BY <2>1, <3>2, SendFields DEF ClearAfter
    <3>3. CASE Push(h, o, e)
      <4> DEFINE t == sends[h][o]
                 todo == t.todo \ {e}
      <4>0. e \in t.todo
        BY <3>3 DEF Push
      <4>1. PICK gone \in {t.gone, t.gone \cup {e}} :
              Sends(h, o, [t EXCEPT !.todo = todo, !.gone = gone])
        BY <3>3 DEF Push
      <4>2. todo \in SUBSET Endpoints /\ gone \in SUBSET Endpoints
        BY <2>1, <4>0, SendFields
      <4> HIDE DEF t, todo
      <4>3. t \in Send
        BY <2>1 DEF t
      <4>4. [t EXCEPT !.todo = todo, !.gone = gone] \in Send
        BY <4>2, <4>3, SendFields
      <4> QED
        BY <4>1, <4>4
    <3>4. CASE Deactivate(h, o, e)
      <4> DEFINE gone == sends[h][o].gone \ {e}
                 less(pc) == [todo |-> {}, gone |-> gone, pc |-> pc]
      <4>1. gone \in SUBSET Endpoints
        BY <2>1, SendFields
      <4>2. Sends(h, o, less("clear")) \/ Sends(h, o, less("push"))
        BY <3>4 DEF Deactivate
      <4> HIDE DEF gone
      <4>3. less("clear") \in Send /\ less("push") \in Send
        BY <4>1 DEF Send
      <4> HIDE DEF less
      <4> QED
        BY <4>2, <4>3
    <3> QED
      BY <1>5, <3>1, <3>2, <3>3, <3>4
  <2> QED
    BY <1>2, <2>2, GoesOnSending
<1>6. ASSUME NEW h \in Handlers,
             Begin(h) \/ ClearCache(h) \/ Subscribing(h) \/ Query(h) \/ Sent(h)
      PROVE  UNCHANGED sends
  BY <1>6 DEF Begin, ClearCache, Subscribing, FindEndpoint, saveSubscription,
       saveDispatcherSubscription, FindInactive, Reuse, Insert, unsubscribe, updatePreferences,
       Query, Sent, Answer, Read, Write
<1>7. ASSUME NEW key, Expire(key) PROVE UNCHANGED sends
  BY <1>7 DEF Expire
<1>8. Ended \/ UNCHANGED pushVars => UNCHANGED sends
  BY DEF Ended, pushVars
<1> QED
  BY <1>3, <1>4, <1>5, <1>6, <1>7, <1>8 DEF Next, Broadcasting

\* Answers are cached under keys and are sets of users; requests are counted down.
LEMMA CacheNext ==
  ASSUME PushInv, TypeInv, MaxRequests \in Nat, [Next]_pushVars
  PROVE  CacheTypes' /\ left' \in 0 .. MaxRequests
<1>1. CacheTypes /\ left \in 0 .. MaxRequests
  BY DEF TypeInv
<1>2. CASE UNCHANGED <<cache, left>>
  BY <1>1, <1>2 DEF CacheTypes
<1>3. ASSUME NEW h \in Handlers, Begin(h) PROVE CacheTypes' /\ left' \in 0 .. MaxRequests
  BY <1>1, <1>3 DEF Begin, CacheTypes
<1>4. ASSUME cache' = << >>, UNCHANGED left PROVE CacheTypes' /\ left' \in 0 .. MaxRequests
  BY <1>1, <1>4 DEF CacheTypes
<1>5. ASSUME NEW h \in Handlers, cacheResult(h)
      PROVE  CacheTypes' /\ left' \in 0 .. MaxRequests
  <2> DEFINE key == Key(h)
             entry == [users |-> call[h].users, overtaken |-> call[h].overtaken]
  <2>1. /\ call[h].req.op = "broadcast" /\ UNCHANGED left
        /\ cache' = [k \in DOMAIN cache \cup {key} |-> IF k = key THEN entry ELSE cache[k]]
    BY <1>5 DEF cacheResult, At, Sending, Goto
  <2>2. call[h] \in Call /\ menu \subseteq Requests
    BY DEF PushInv, PushTypes
  <2>3. call[h].req \in Requests
    BY <2>1, <2>2, CallFields DEF NoRequest
  <2>4. key \in Keys
    BY <2>1, <2>3, SendRequests DEF Key
  <2>5. entry \in Entry
    <3> DEFINE a == call[h].users
               b == call[h].overtaken
    <3>1. a \in SUBSET Users /\ b \in BOOLEAN
      BY <2>2, CallFields
    <3> HIDE DEF a, b
    <3>2. [users |-> a, overtaken |-> b] \in Entry
      BY <3>1 DEF Entry
    <3> QED
      BY <3>2 DEF a, b
  <2> HIDE DEF key, entry
  <2> QED
    BY <1>1, <2>1, <2>4, <2>5 DEF CacheTypes
<1>6. ASSUME NEW key, Expire(key) PROVE CacheTypes' /\ left' \in 0 .. MaxRequests
  BY <1>1, <1>6 DEF Expire, CacheTypes
<1>7. ASSUME NEW h \in Handlers, Subscribing(h) PROVE UNCHANGED <<cache, left>>
  BY <1>7 DEF Subscribing, FindEndpoint, saveSubscription, saveDispatcherSubscription,
       FindInactive, Reuse, Insert, unsubscribe, updatePreferences, Answer, Read, Write, Goto
<1>8. ASSUME NEW h \in Handlers, CacheHit(h) \/ Query(h) \/ sendDispatcherPush(h) \/ Sent(h)
      PROVE  UNCHANGED <<cache, left>>
  BY <1>8 DEF CacheHit, Query, sendDispatcherPush, Sent, Sending, Answer, Read, Goto
<1>9. ASSUME NEW h \in Handlers, NEW o, NEW e, sendWebPush(h, o) \/ Push(h, o, e) \/ Deactivate(h, o, e)
      PROVE  UNCHANGED <<cache, left>>
  BY <1>9 DEF sendWebPush, Push, Deactivate
<1>10. ASSUME NEW h \in Handlers, NEW o, ClearAfter(h, o) \/ ClearCache(h)
       PROVE  cache' = << >> /\ UNCHANGED left
  BY <1>10 DEF ClearAfter, ClearCache, Goto
<1>11. Ended \/ UNCHANGED pushVars => UNCHANGED <<cache, left>>
  BY DEF Ended, pushVars
<1> QED
  BY <1>2, <1>3, <1>4, <1>5, <1>6, <1>7, <1>8, <1>9, <1>10, <1>11 DEF Next, Broadcasting

\* However the statements interleave, a row that a call has read is one of the table, the
\* cached answers are sets of users under known keys, and a sending is of owners and their
\* devices (saveSubscription.js, query-optimizer.js, sendWebPush.js).
THEOREM PushTypesHold ==
  ASSUME Starts, MaxRequests \in Nat
  PROVE  Spec => []TypeOK
<1>1. Init => PushInv /\ TypeInv
  BY PushInit, TypeInit
<1>2. PushInv /\ TypeInv /\ [Next]_pushVars => PushInv' /\ TypeInv'
  <2> SUFFICES ASSUME PushInv, TypeInv, [Next]_pushVars PROVE PushInv' /\ TypeInv'
    OBVIOUS
  <2>1. PushInv'
    BY PushNext
  <2>2. RowsKnown'
    BY RowsNext DEF TypeInv
  <2>3. SendTypes'
    BY SendsNext
  <2>4. CacheTypes' /\ (left \in 0 .. MaxRequests)'
    BY CacheNext
  <2> QED
    BY <2>1, <2>2, <2>3, <2>4 DEF TypeInv
<1>3. PushInv /\ TypeInv => TypeOK
  BY TypeInvIsTyped
<1> QED
  BY <1>1, <1>2, <1>3, PTL DEF Spec

=============================================================================
