------------------------------ MODULE EventBus ------------------------------
(***************************************************************************)
(* The event bus (event-bus.js) on its Emitter (event.js): a published     *)
(* event is emitted under three names, and each emit calls every listener  *)
(* of the name, of which it takes those of once off the list.  Listeners   *)
(* are asynchronous: what they return settles later, and the caller of     *)
(* publishAsync waits for it.  Listeners do not call the bus back before   *)
(* their first await, as none of the program does.                         *)
(***************************************************************************)
EXTENDS Naturals, Sequences, FiniteSets

CONSTANTS
  Listeners, Entities, Actions,
  MaxListeners,    \* the limit of a name, above which adding one throws
  MaxAdded,        \* bound on the calls that add a listener
  MaxEmits         \* bound on the emits

VARIABLES
  events,          \* name -> its listeners, and those of them that are for once
  held,            \* the names and functions of which a caller can take a listener off
  emits,           \* the emits so far: the listeners to settle and who awaits them
  publishers,      \* the calls of publishAsync
  errors,          \* stats.errors
  added,           \* the calls that have added a listener
  lost             \* the emits of which a listener failed and no one handles the error

busVars == <<events, held, emits, publishers, errors, added, lost>>

All == "*"
EventNames == ((Entities \X (Actions \cup {All})) \cup {<<All, All>>})
getEventNames(entity, action) == << <<entity, action>>, <<entity, All>>, <<All, All>> >>

\* A name without listeners may as well not be in the map; their order tells nothing,
\* as all are called at once.
Event == [on: SUBSET Listeners, once: SUBSET Listeners]
NoListeners == [on |-> {}, once |-> {}]

\* An emit that has called the functions of calls; of those, left have not settled.  Its
\* promise is rejected by the first that fails; it is seen if it depends on them at all.
Emit == [calls: SUBSET Listeners, left: SUBSET Listeners, once: BOOLEAN,
         seen: BOOLEAN, failed: BOOLEAN]
\* The names a publishAsync has not come to, the emits it has made, whether it is done.
Publisher == [left: Seq(EventNames), made: Seq(DOMAIN emits), done: BOOLEAN]

TypeOK ==
  /\ events \in [EventNames -> Event]
  /\ \A n \in EventNames : events[n].once \subseteq events[n].on
  /\ held \subseteq EventNames \X Listeners
  /\ emits \in Seq(Emit)
  /\ publishers \in Seq(Publisher)
  /\ errors \in 0 .. Len(emits)
  /\ added \in 0 .. MaxAdded
  /\ lost \subseteq DOMAIN emits

Init ==
  /\ events = [n \in EventNames |-> NoListeners] /\ held = {}
  /\ emits = << >> /\ publishers = << >>
  /\ errors = 0 /\ added = 0 /\ lost = {}

----------------------------------------------------------------------------
(* Emitter *)

Others(event) == event.on \ event.once

\* The listeners a name has left when it has been emitted.
Remaining(event) == [on |-> Others(event), once |-> {}]

\* Mutant: the promise depends on the listeners only if none of them is for once.
SeenIfNoneOnce(event) == event.once = {}
\* Emit answers at once when it has called only listeners of once.
Seen(event) == event.once = {} \/ Others(event) # {}

Emitted(event) ==
  [calls |-> event.on, left |-> event.on, once |-> Others(event) = {},
   seen |-> Seen(event), failed |-> FALSE]

\* on and once: a listener that is on the list already is refused; one that makes the
\* list too long stays on it although the call throws, and its caller cannot take it off.
addListener(n, fn, isOnce) ==
  /\ fn \notin events[n].on
  /\ added < MaxAdded /\ added' = added + 1
  /\ events' = [events EXCEPT ![n] =
       [on |-> @.on \cup {fn}, once |-> IF isOnce THEN @.once \cup {fn} ELSE @.once]]
  /\ held' = IF Cardinality(events[n].on) < MaxListeners THEN held \cup {<<n, fn>>} ELSE held
  /\ UNCHANGED <<emits, publishers, errors, lost>>

\* Mutant: a listener of once is still one when it has been taken off.
offTheList(n, fn) ==
  /\ <<n, fn>> \in held /\ fn \in events[n].on
  /\ events' = [events EXCEPT ![n].on = @ \ {fn}]
  /\ UNCHANGED <<held, emits, publishers, errors, added, lost>>
\* What subscribing has returned works as long as its caller has it.
off(n, fn) ==
  /\ <<n, fn>> \in held /\ fn \in events[n].on
  /\ events' = [events EXCEPT ![n] = [on |-> @.on \ {fn}, once |-> @.once \ {fn}]]
  /\ UNCHANGED <<held, emits, publishers, errors, added, lost>>

\* A listener of emit e settles; Promise.all takes the first failure only.
Settle(e, fn, fails) ==
  /\ fn \in emits[e].left
  /\ emits' = [emits EXCEPT ![e].left = @ \ {fn}, ![e].failed = @ \/ fails]
  /\ errors' = IF fails /\ emits[e].seen /\ ~emits[e].failed THEN errors + 1 ELSE errors
  /\ lost' = IF fails /\ ~emits[e].seen THEN lost \cup {e} ELSE lost
  /\ UNCHANGED <<events, held, publishers, added>>

----------------------------------------------------------------------------
(* EventBus *)

subscribe(entity, action, fn) == addListener(<<entity, action>>, fn, FALSE)
once(entity, action, fn) == addListener(<<entity, action>>, fn, TRUE)
subscribeAll(fn) == addListener(<<All, All>>, fn, FALSE)

clearEvent(n) ==
  /\ events[n].on # {}
  /\ events' = [events EXCEPT ![n] = NoListeners]
  /\ UNCHANGED <<held, emits, publishers, errors, added, lost>>

clear ==
  /\ events' = [n \in EventNames |-> NoListeners]
  /\ errors' = 0
  /\ UNCHANGED <<held, emits, publishers, added, lost>>

Heard(n) == events[n].on # {}

\* A name without listeners is nothing to emit.
Emission(n) == IF Heard(n) THEN <<Emitted(events[n])>> ELSE << >>

\* All names are emitted at once and nobody waits.
publish(entity, action) ==
  LET names == getEventNames(entity, action)
      Named(n) == \E i \in 1 .. 3 : names[i] = n
  IN /\ \E i \in 1 .. 3 : Heard(names[i])
     /\ emits' = emits \o Emission(names[1]) \o Emission(names[2]) \o Emission(names[3])
     /\ Len(emits') <= MaxEmits
     /\ events' = [n \in EventNames |-> IF Named(n) THEN Remaining(events[n]) ELSE events[n]]
     /\ UNCHANGED <<held, publishers, errors, added, lost>>

\* The promise of the emit is settled.
Resolved(e) == ~emits[e].seen \/ emits[e].failed \/ emits[e].left = {}

\* Of the calls of publishAsync, p goes on to the first that has listeners.
Going(all, p) ==
  LET q == all[p]
      next == {i \in DOMAIN q.left : Heard(q.left[i])}
      k == CHOOSE i \in next : \A j \in next : i <= j
  IN IF next = {}
     THEN /\ publishers' = [all EXCEPT ![p] =
               [left |-> << >>, made |-> q.made, done |-> TRUE]]
          /\ UNCHANGED <<events, emits>>
     ELSE /\ Len(emits) < MaxEmits
          /\ publishers' = [all EXCEPT ![p] =
               [left |-> SubSeq(q.left, k + 1, Len(q.left)),
                made |-> Append(q.made, Len(emits) + 1), done |-> FALSE]]
          /\ emits' = Append(emits, Emitted(events[q.left[k]]))
          /\ events' = [events EXCEPT ![q.left[k]] = Remaining(@)]

publishAsync(entity, action) ==
  /\ \E i \in 1 .. 3 : Heard(getEventNames(entity, action)[i])
  /\ Going(Append(publishers, [left |-> getEventNames(entity, action), made |-> << >>,
                               done |-> FALSE]), Len(publishers) + 1)
  /\ UNCHANGED <<held, errors, added, lost>>

Resume(p) ==
  /\ ~publishers[p].done
  /\ Resolved(publishers[p].made[Len(publishers[p].made)])
  /\ Going(publishers, p)
  /\ UNCHANGED <<held, errors, added, lost>>

Next ==
  \/ \E fn \in Listeners, entity \in Entities, action \in Actions \cup {All} :
       subscribe(entity, action, fn) \/ once(entity, action, fn)
  \/ \E fn \in Listeners : subscribeAll(fn)
  \/ \E n \in EventNames : clearEvent(n) \/ \E fn \in Listeners : off(n, fn)
  \/ clear
  \/ \E entity \in Entities, action \in Actions :
       publish(entity, action) \/ publishAsync(entity, action)
  \/ \E p \in DOMAIN publishers : Resume(p)
  \/ \E e \in DOMAIN emits, fn \in Listeners, fails \in BOOLEAN : Settle(e, fn, fails)

Spec == Init /\ [][Next]_busVars

----------------------------------------------------------------------------
(* Properties *)

\* publishAsync goes on only when every listener of its last emit has settled, and the
\* first error of an emit is counted; an emit whose listeners were all for once is the
\* exception, and then nobody handles its errors; a first error ends the waiting too.
OutcomeSeen ==
  /\ \A p \in DOMAIN publishers :
       publishers'[p] # publishers[p] =>
         LET last == emits[publishers[p].made[Len(publishers[p].made)]]
         IN last.left = {} \/ last.failed \/ last.once
  /\ \A e \in DOMAIN emits :
       emits'[e].failed /\ ~emits[e].failed =>
         errors' = errors + 1 \/ (emits[e].once /\ e \in lost')
OutcomesSeen == [][OutcomeSeen]_busVars
=============================================================================
