--------------------------- MODULE ServicesProofs ---------------------------
(***************************************************************************)
(* The parts behave together as they do alone: a behaviour of Services is  *)
(* one of each part, so what is proved of a part holds of Services.        *)
(***************************************************************************)
EXTENDS Services, SequenceTheorems, FiniteSetTheorems, WellFoundedInduction, TLAPS

----------------------------------------------------------------------------
(* The event bus: names, emits and publishers *)

\* Listeners for once are listeners.
EventsOk ==
  /\ events \in [Bus!EventNames -> Bus!Event]
  /\ \A n \in Bus!EventNames : events[n].once \subseteq events[n].on
  /\ held \subseteq Bus!EventNames \X Listeners
\* Emits of which nobody depends on one only when its listeners were all for once.
SeenOrOnce(s) ==
  /\ s \in Seq(Bus!Emit)
  /\ \A e \in DOMAIN s : s[e].seen \/ s[e].once
\* Publishers whose emits are of s.
PublisherOf(s) == [left: Seq(Bus!EventNames), made: Seq(DOMAIN s), done: BOOLEAN]
\* A publisher that is not done waits for an emit of its own.
Waits(p, s) == ~p.done => p.made # << >> /\ p.made[Len(p.made)] \in DOMAIN s
PublishersOk ==
  /\ publishers \in Seq(PublisherOf(emits))
  /\ \A p \in DOMAIN publishers : Waits(publishers[p], emits)
\* An emit has one error that is counted, however many of its listeners fail.
Failed(s) == {e \in DOMAIN s : s[e].failed /\ s[e].seen}
ErrorsCounted(n, s) == n \in Nat /\ n <= Cardinality(Failed(s))

BusInv ==
  /\ EventsOk /\ SeenOrOnce(emits) /\ PublishersOk
  /\ ErrorsCounted(errors, emits) /\ lost \subseteq DOMAIN emits

LEMMA BusInit == Bus!Init => BusInv
<1> SUFFICES ASSUME Bus!Init PROVE BusInv
  OBVIOUS
<1>1. /\ emits = << >> /\ publishers = << >> /\ lost = {} /\ errors = 0 /\ held = {}
      /\ events = [n \in Bus!EventNames |-> Bus!NoListeners]
  BY DEF Bus!Init
<1>2. EventsOk
  BY <1>1 DEF EventsOk, Bus!NoListeners, Bus!Event
<1>3. SeenOrOnce(emits)
  BY <1>1 DEF SeenOrOnce
<1>4. PublishersOk
  BY <1>1 DEF PublishersOk
<1>5. Failed(emits) = {}
  BY <1>1 DEF Failed
<1>6. ErrorsCounted(errors, emits)
  BY <1>1, <1>5, FS_EmptySet DEF ErrorsCounted
<1> QED
  BY <1>1, <1>2, <1>3, <1>4, <1>6 DEF BusInv

LEMMA NamesAre ==
  ASSUME NEW entity \in Entities, NEW action \in Actions
  PROVE  /\ Bus!getEventNames(entity, action) \in Seq(Bus!EventNames)
         /\ DOMAIN Bus!getEventNames(entity, action) = 1 .. 3
         /\ \A i \in 1 .. 3 : Bus!getEventNames(entity, action)[i] \in Bus!EventNames
<1> DEFINE a == <<entity, action>>
           b == <<entity, Bus!All>>
           c == <<Bus!All, Bus!All>>
<1>1. a \in Bus!EventNames /\ b \in Bus!EventNames /\ c \in Bus!EventNames
  BY DEF Bus!EventNames
<1>2. Bus!getEventNames(entity, action) = <<a, b, c>>
  BY DEF Bus!getEventNames
<1> HIDE DEF a, b, c
<1> QED
  BY <1>1, <1>2

\* An emit of a name: its listeners are called and none has settled.
LEMMA EmittedIs ==
  ASSUME NEW event \in Bus!Event
  PROVE  /\ Bus!Emitted(event) \in Bus!Emit
         /\ Bus!Emitted(event).seen \/ Bus!Emitted(event).once
         /\ ~Bus!Emitted(event).failed
<1> DEFINE F == event.on
           forOnce == Bus!Others(event) = {}
           depends == Bus!Seen(event)
<1>1. Bus!Emitted(event) = [calls |-> F, left |-> F, once |-> forOnce, seen |-> depends,
                            failed |-> FALSE]
  BY DEF Bus!Emitted
<1>2. forOnce \in BOOLEAN
  OBVIOUS
<1>3. depends \in BOOLEAN
  BY DEF Bus!Seen
<1>4. depends \/ forOnce
  BY DEF Bus!Seen
<1>5. F \in SUBSET Listeners
  BY DEF Bus!Event
<1> HIDE DEF F, forOnce, depends
<1>6. Bus!Emitted(event) \in Bus!Emit
  BY <1>1, <1>2, <1>3, <1>5 DEF Bus!Emit
<1>7. /\ Bus!Emitted(event).seen = depends /\ Bus!Emitted(event).once = forOnce
      /\ Bus!Emitted(event).failed = FALSE
  BY <1>1
<1> QED
  BY <1>4, <1>6, <1>7

\* The emits of s are the first of t, and none of the others has failed.
Begins(s, t) ==
  /\ \A e \in DOMAIN s : e \in DOMAIN t /\ t[e] = s[e]
  /\ Failed(t) = Failed(s)

LEMMA EmitAdded ==
  ASSUME NEW s, SeenOrOnce(s), NEW event \in Bus!Event, NEW t, t = Append(s, Bus!Emitted(event))
  PROVE  SeenOrOnce(t) /\ Begins(s, t) /\ Len(s) + 1 \in DOMAIN t
<1> DEFINE m == Bus!Emitted(event)
<1>1. s \in Seq(Bus!Emit)
  BY DEF SeenOrOnce
<1>2. m \in Bus!Emit /\ (m.seen \/ m.once) /\ ~m.failed
  BY EmittedIs
<1>3. t = Append(s, m)
  OBVIOUS
<1> HIDE DEF m
<1>4. /\ t \in Seq(Bus!Emit) /\ DOMAIN t = DOMAIN s \cup {Len(s) + 1}
      /\ t[Len(s) + 1] = m
      /\ \A e \in DOMAIN s : t[e] = s[e]
  BY <1>1, <1>2, <1>3
<1>5. \A e \in DOMAIN t : t[e].seen \/ t[e].once
  BY <1>2, <1>4 DEF SeenOrOnce
<1>6. Failed(t) = Failed(s)
  BY <1>2, <1>4 DEF Failed
<1> QED
  BY <1>4, <1>5, <1>6 DEF SeenOrOnce, Begins

\* A name with or without listeners is emitted.
LEMMA EmissionAdded ==
  ASSUME NEW s, SeenOrOnce(s), NEW n, events[n] \in Bus!Event
  PROVE  SeenOrOnce(s \o Bus!Emission(n)) /\ Begins(s, s \o Bus!Emission(n))
<1> DEFINE m == Bus!Emitted(events[n])
<1>1. s \in Seq(Bus!Emit)
  BY DEF SeenOrOnce
<1>2. m \in Bus!Emit
  BY EmittedIs
<1>3. CASE Bus!Heard(n)
  <2>1. Bus!Emission(n) = <<m>>
    BY <1>3 DEF Bus!Emission
  <2> HIDE DEF m
  <2> DEFINE t == Append(s, m)
  <2>2. s \o <<m>> = t
    BY <1>1, <1>2
  <2>3. SeenOrOnce(t) /\ Begins(s, t)
    <3>1. t = Append(s, Bus!Emitted(events[n]))
      BY DEF m
    <3> HIDE DEF t
    <3> QED
      BY <3>1, EmitAdded
  <2> QED
    BY <2>1, <2>2, <2>3
<1>4. CASE ~Bus!Heard(n)
  <2>1. Bus!Emission(n) = << >>
    BY <1>4 DEF Bus!Emission
  <2>2. s \o << >> = s
    BY <1>1
  <2> QED
    BY <2>1, <2>2 DEF Begins
<1> QED
  BY <1>3, <1>4

\* Publishers stay what they are when there are more emits.
LEMMA PublishersStay ==
  ASSUME NEW s, NEW t, DOMAIN s \subseteq DOMAIN t, NEW all \in Seq(PublisherOf(s))
  PROVE  all \in Seq(PublisherOf(t))
<1> DEFINE A == PublisherOf(s)
           B == PublisherOf(t)
<1>1. Seq(DOMAIN s) \subseteq Seq(DOMAIN t)
  <2> DEFINE C == DOMAIN s
             D == DOMAIN t
  <2>1. C \subseteq D
    OBVIOUS
  <2> HIDE DEF C, D
  <2>2. Seq(C) \subseteq Seq(D)
    BY <2>1, SeqMonotonic
  <2> QED
    BY <2>2 DEF C, D
<1>2. A \subseteq B
  BY <1>1 DEF PublisherOf
<1>3. all \in Seq(A)
  OBVIOUS
<1> HIDE DEF A, B
<1>4. all \in Seq(B)
  BY <1>2, <1>3, SeqMonotonic
<1> QED
  BY <1>4 DEF B

\* Emitting takes the listeners for once off.
LEMMA RemainingOk ==
  ASSUME NEW event \in Bus!Event
  PROVE  /\ Bus!Remaining(event) \in Bus!Event
         /\ Bus!Remaining(event).once \subseteq Bus!Remaining(event).on
BY DEF Bus!Remaining, Bus!Others, Bus!Event

LEMMA EventsChanged ==
  ASSUME EventsOk, NEW n \in Bus!EventNames, NEW event \in Bus!Event,
         event.once \subseteq event.on, events' = [events EXCEPT ![n] = event],
         held' \subseteq Bus!EventNames \X Listeners
  PROVE  EventsOk'
BY DEF EventsOk

\* A set of numbers has a least one.
LEMMA LeastOf ==
  ASSUME NEW T, T \subseteq Nat, T # {}
  PROVE  \E x \in T : \A y \in T : x <= y
<1> DEFINE R == OpToRel(<, Nat)
<1>1. IsWellFoundedOn(R, Nat)
  BY NatLessThanWellFounded
<1>2. \A x, y \in Nat : x < y => <<x, y>> \in R
  BY DEF OpToRel
<1> HIDE DEF R
<1>3. PICK x \in T : \A y \in T : ~(<<y, x>> \in R)
  BY <1>1, WFMin
<1>4. \A y \in T : ~(y < x)
  BY <1>2, <1>3, Zenon
<1>5. \A y \in T : y \in Nat /\ x \in Nat
  OBVIOUS
<1> QED
  BY <1>4, <1>5

\* A publisher goes on or is done, and the others are as they were.
LEMMA GoingKeeps ==
  ASSUME EventsOk, SeenOrOnce(emits), NEW all \in Seq(PublisherOf(emits)), NEW p \in DOMAIN all,
         \A q \in DOMAIN all \ {p} : Waits(all[q], emits),
         Bus!Going(all, p), UNCHANGED held
  PROVE  /\ EventsOk' /\ SeenOrOnce(emits') /\ PublishersOk'
         /\ \A q \in DOMAIN all \ {p} : publishers'[q] = all[q]
         /\ Begins(emits, emits')
<1> DEFINE q == all[p]
           next == {i \in DOMAIN q.left : Bus!Heard(q.left[i])}
           k == CHOOSE i \in next : \A j \in next : i <= j
           n == q.left[k]
           rest == SubSeq(q.left, k + 1, Len(q.left))
           over == [left |-> << >>, made |-> q.made, done |-> TRUE]
           made == Append(q.made, Len(emits) + 1)
           more == [left |-> rest, made |-> made, done |-> FALSE]
<1>1. q.made \in Seq(DOMAIN emits) /\ q.left \in Seq(Bus!EventNames)
  <2>1. q \in PublisherOf(emits)
    OBVIOUS
  <2> HIDE DEF q
  <2> QED
    BY <2>1 DEF PublisherOf
<1>2. Len(emits) \in Nat
  BY DEF SeenOrOnce
<1>3. CASE next = {}
  <2>1. publishers' = [all EXCEPT ![p] = over] /\ UNCHANGED <<emits, events>>
    BY <1>3 DEF Bus!Going
  <2>2. over \in PublisherOf(emits) /\ over.done = TRUE
    <3> DEFINE a == q.made
    <3>1. a \in Seq(DOMAIN emits)
      BY <1>1
    <3> HIDE DEF a
    <3>2. [left |-> << >>, made |-> a, done |-> TRUE] \in PublisherOf(emits)
      BY <3>1 DEF PublisherOf
    <3> QED
      BY <3>2 DEF a
  <2> HIDE DEF over
  <2>3. /\ publishers' \in Seq(PublisherOf(emits)) /\ DOMAIN publishers' = DOMAIN all
        /\ publishers'[p] = over
        /\ \A o \in DOMAIN all \ {p} : publishers'[o] = all[o]
    <3> DEFINE B == PublisherOf(emits)
    <3>1. all \in Seq(B) /\ over \in B
      BY <2>2
    <3> HIDE DEF B
    <3>2. /\ publishers' \in Seq(B) /\ DOMAIN publishers' = DOMAIN all
          /\ publishers'[p] = over
          /\ \A o \in DOMAIN all \ {p} : publishers'[o] = all[o]
      BY <2>1, <3>1
    <3> QED
      BY <3>2 DEF B
  <2>4. PublishersOk'
    BY <2>1, <2>2, <2>3 DEF PublishersOk, Waits, PublisherOf
  <2>5. EventsOk'
    BY <2>1 DEF EventsOk
  <2> QED
    BY <2>1, <2>3, <2>4, <2>5 DEF Begins
<1>4. CASE next # {}
  <2>1. /\ publishers' = [all EXCEPT ![p] = more]
        /\ emits' = Append(emits, Bus!Emitted(events[n]))
        /\ events' = [events EXCEPT ![n] = Bus!Remaining(events[n])]
    BY <1>4 DEF Bus!Going
  <2>2. k \in DOMAIN q.left
    <3> DEFINE L == q.left
    <3>1. next \subseteq DOMAIN L /\ L \in Seq(Bus!EventNames)
      BY <1>1
    <3>2. \A i \in next : i \in Nat
      BY <3>1
    <3> HIDE DEF next, L
    <3>3. next \in SUBSET Nat /\ next # {}
      BY <1>4, <3>2
    <3>4. \E i \in next : \A j \in next : i <= j
      BY <3>3, LeastOf
    <3>5. k \in next
      BY <3>4
    <3> QED
      BY <3>1, <3>5 DEF L
  <2>3. n \in Bus!EventNames
    <3> DEFINE L == q.left
    <3>1. L \in Seq(Bus!EventNames) /\ k \in DOMAIN L
      BY <1>1, <2>2
    <3> HIDE DEF L, k
    <3>2. L[k] \in Bus!EventNames
      BY <3>1
    <3> QED
      BY <3>2 DEF L
  <2>4. rest \in Seq(Bus!EventNames)
    <3> DEFINE L == q.left
               W == Bus!EventNames
    <3>1. L \in Seq(W) /\ k \in DOMAIN L
      BY <1>1, <2>2
    <3> HIDE DEF L, k, W
    <3>2. k \in 1 .. Len(L) /\ Len(L) \in Nat
      BY <3>1
    <3>3. k + 1 \in 1 .. Len(L) + 1
      BY <3>2
    <3>4. SubSeq(L, k + 1, Len(L)) \in Seq(W)
      BY <3>1, <3>2, <3>3
    <3> QED
      BY <3>4 DEF L, W
  <2>5. events[n] \in Bus!Event
    BY <2>3 DEF EventsOk
  <2>6. SeenOrOnce(emits') /\ Begins(emits, emits') /\ Len(emits) + 1 \in DOMAIN emits'
    BY <2>1, <2>5, EmitAdded
  <2>7. EventsOk'
    BY <2>1, <2>3, <2>5, RemainingOk DEF EventsOk
  <2>8. /\ made \in Seq(DOMAIN emits') /\ made # << >>
        /\ made[Len(made)] = Len(emits) + 1
    <3> DEFINE a == q.made
               e == Len(emits) + 1
               D == DOMAIN emits'
               longer == Append(a, e)
    <3>1. a \in Seq(DOMAIN emits) /\ DOMAIN emits \subseteq D /\ e \in D
      BY <1>1, <2>6 DEF Begins
    <3> HIDE DEF a, e, D
    <3>2. a \in Seq(D)
      BY <3>1, SeqMonotonic
    <3>3. longer \in Seq(D) /\ Len(longer) = Len(a) + 1 /\ longer[Len(a) + 1] = e
          /\ longer # << >>
      BY <3>1, <3>2
    <3> QED
      BY <3>3 DEF a, e, D
  <2>9. /\ more \in PublisherOf(emits') /\ more.made = made /\ more.done = FALSE
    <3> HIDE DEF rest, made
    <3> QED
      BY <2>4, <2>8 DEF PublisherOf
  <2>10. all \in Seq(PublisherOf(emits'))
    BY <2>6, PublishersStay DEF Begins
  <2> HIDE DEF more, made
  <2>11. /\ publishers' \in Seq(PublisherOf(emits')) /\ DOMAIN publishers' = DOMAIN all
         /\ publishers'[p] = more
         /\ \A o \in DOMAIN all \ {p} : publishers'[o] = all[o]
    <3> DEFINE B == PublisherOf(emits')
    <3>1. all \in Seq(B) /\ more \in B
      BY <2>9, <2>10
    <3> HIDE DEF B
    <3>2. /\ publishers' \in Seq(B) /\ DOMAIN publishers' = DOMAIN all
          /\ publishers'[p] = more
          /\ \A o \in DOMAIN all \ {p} : publishers'[o] = all[o]
      BY <2>1, <3>1
    <3> QED
      BY <3>2 DEF B
  <2>12. \A o \in DOMAIN publishers' : Waits(publishers'[o], emits')
    BY <2>6, <2>8, <2>9, <2>11 DEF Waits, Begins
  <2>13. PublishersOk'
    BY <2>11, <2>12 DEF PublishersOk, PublisherOf
  <2> QED
    BY <2>6, <2>7, <2>11, <2>13
<1> QED
  BY <1>3, <1>4


\* Steps that make emits for nobody, and steps that make none.
LEMMA ErrorsStay ==
  ASSUME BusInv, Begins(emits, emits'), UNCHANGED <<errors, lost>>
  PROVE  ErrorsCounted(errors', emits') /\ lost' \subseteq DOMAIN emits'
BY DEF BusInv, Begins, ErrorsCounted

LEMMA publishKeeps ==
  ASSUME BusInv, NEW entity \in Entities, NEW action \in Actions, Bus!publish(entity, action)
  PROVE  BusInv' /\ Begins(emits, emits') /\ UNCHANGED publishers
<1> DEFINE names == Bus!getEventNames(entity, action)
           named(n) == \E i \in 1 .. 3 : names[i] = n
           a == names[1]
           b == names[2]
           c == names[3]
           s == emits \o Bus!Emission(a)
           t == s \o Bus!Emission(b)
           u == t \o Bus!Emission(c)
<1>1. /\ emits' = u /\ UNCHANGED <<held, publishers, errors, lost>>
      /\ events' = [n \in Bus!EventNames |->
                     IF named(n) THEN Bus!Remaining(events[n]) ELSE events[n]]
  BY DEF Bus!publish
<1>2. SeenOrOnce(emits) /\ EventsOk
  BY DEF BusInv
<1>3. events[a] \in Bus!Event /\ events[b] \in Bus!Event /\ events[c] \in Bus!Event
  BY <1>2, NamesAre DEF EventsOk
<1> HIDE DEF named, names, a, b, c
<1>4. SeenOrOnce(s) /\ Begins(emits, s)
  BY <1>2, <1>3, EmissionAdded
<1> HIDE DEF s
<1>5. SeenOrOnce(t) /\ Begins(s, t)
  BY <1>3, <1>4, EmissionAdded
<1> HIDE DEF t
<1>6. SeenOrOnce(u) /\ Begins(t, u)
  BY <1>3, <1>5, EmissionAdded
<1> HIDE DEF u
<1>7. Begins(emits, emits')
  BY <1>1, <1>4, <1>5, <1>6 DEF Begins
<1>8. EventsOk'
  <2>1. \A n \in Bus!EventNames :
          /\ events'[n] \in Bus!Event /\ events'[n].once \subseteq events'[n].on
    <3> TAKE n \in Bus!EventNames
    <3>1. events[n] \in Bus!Event /\ events[n].once \subseteq events[n].on
      BY <1>2 DEF EventsOk
    <3>2. events'[n] = Bus!Remaining(events[n]) \/ events'[n] = events[n]
      BY <1>1
    <3> QED
      BY <3>1, <3>2, RemainingOk
  <2> QED
    BY <1>1, <1>2, <2>1 DEF EventsOk
<1>9. PublishersOk'
  <2>1. DOMAIN emits \subseteq DOMAIN emits'
    BY <1>7 DEF Begins
  <2>2. publishers \in Seq(PublisherOf(emits))
    BY DEF BusInv, PublishersOk
  <2>3. publishers \in Seq(PublisherOf(emits'))
    BY <2>1, <2>2, PublishersStay
  <2> QED
    BY <1>1, <2>1, <2>3 DEF BusInv, PublishersOk, Waits, PublisherOf
<1>10. ErrorsCounted(errors', emits') /\ lost' \subseteq DOMAIN emits'
  BY <1>1, <1>7, ErrorsStay
<1>11. SeenOrOnce(emits)'
  BY <1>1, <1>6
<1> QED
  BY <1>1, <1>7, <1>8, <1>9, <1>10, <1>11 DEF BusInv, ErrorsCounted

\* A publisher that waits is told of the end of its emit.
LEMMA ResumeSeen ==
  ASSUME BusInv, NEW p \in DOMAIN publishers, Bus!Resume(p)
  PROVE  BusInv' /\ Bus!OutcomeSeen
<1> DEFINE e == publishers[p].made[Len(publishers[p].made)]
<1>1. /\ Bus!Going(publishers, p) /\ ~publishers[p].done /\ Bus!Resolved(e)
      /\ UNCHANGED <<held, errors, lost>>
  BY DEF Bus!Resume
<1>2. e \in DOMAIN emits
  BY <1>1 DEF BusInv, PublishersOk, Waits
<1>3. emits[e].left = {} \/ emits[e].failed \/ emits[e].once
  BY <1>1, <1>2 DEF Bus!Resolved, BusInv, SeenOrOnce
<1>4. /\ EventsOk /\ SeenOrOnce(emits) /\ publishers \in Seq(PublisherOf(emits))
      /\ \A q \in DOMAIN publishers \ {p} : Waits(publishers[q], emits)
  BY DEF BusInv, PublishersOk
<1>5. /\ EventsOk' /\ SeenOrOnce(emits') /\ PublishersOk'
      /\ \A q \in DOMAIN publishers \ {p} : publishers'[q] = publishers[q]
      /\ Begins(emits, emits')
  BY <1>1, <1>4, GoingKeeps
<1>6. ErrorsCounted(errors', emits') /\ lost' \subseteq DOMAIN emits'
  BY <1>1, <1>5, ErrorsStay
<1>7. BusInv'
  BY <1>5, <1>6 DEF BusInv, SeenOrOnce, ErrorsCounted, Failed
<1> QED
  BY <1>3, <1>5, <1>7 DEF Bus!OutcomeSeen, Begins

LEMMA publishAsyncSeen ==
  ASSUME BusInv, NEW entity \in Entities, NEW action \in Actions,
         Bus!publishAsync(entity, action)
  PROVE  BusInv' /\ Bus!OutcomeSeen
<1> DEFINE names == Bus!getEventNames(entity, action)
           new == [left |-> names, made |-> << >>, done |-> FALSE]
           all == Append(publishers, new)
           p == Len(publishers) + 1
           B == PublisherOf(emits)
<1>1. Bus!Going(all, p) /\ UNCHANGED <<held, errors, lost>>
  BY DEF Bus!publishAsync
<1>2. publishers \in Seq(B) /\ EventsOk /\ SeenOrOnce(emits)
  BY DEF BusInv, PublishersOk
<1>3. new \in B
  <2>1. names \in Seq(Bus!EventNames)
    BY NamesAre
  <2> HIDE DEF names
  <2> QED
    BY <2>1 DEF PublisherOf
<1>4. /\ all \in Seq(B) /\ DOMAIN all = DOMAIN publishers \cup {p}
      /\ \A q \in DOMAIN publishers : all[q] = publishers[q]
      /\ p \notin DOMAIN publishers
  <2> HIDE DEF new, B
  <2> QED
    BY <1>2, <1>3
<1> HIDE DEF new, all, p
<1>5. \A q \in DOMAIN all \ {p} : Waits(all[q], emits)
  BY <1>4 DEF BusInv, PublishersOk
<1>6. /\ EventsOk' /\ SeenOrOnce(emits') /\ PublishersOk'
      /\ \A q \in DOMAIN all \ {p} : publishers'[q] = all[q]
      /\ Begins(emits, emits')
  <2>1. p \in DOMAIN all /\ all \in Seq(PublisherOf(emits))
    BY <1>4
  <2> QED
    BY <1>1, <1>2, <1>5, <2>1, GoingKeeps
<1>7. ErrorsCounted(errors', emits') /\ lost' \subseteq DOMAIN emits'
  BY <1>1, <1>6, ErrorsStay
<1>8. BusInv'
  BY <1>6, <1>7 DEF BusInv, SeenOrOnce, ErrorsCounted, Failed
<1>9. \A q \in DOMAIN publishers : publishers'[q] = publishers[q]
  BY <1>4, <1>6
<1> QED
  BY <1>6, <1>8, <1>9 DEF Bus!OutcomeSeen, Begins

\* The errors that are counted are those of as many emits, or of one more.
LEMMA ErrorCounted ==
  ASSUME NEW s, SeenOrOnce(s), NEW t, SeenOrOnce(t), NEW n, ErrorsCounted(n, s),
         Failed(s) \subseteq Failed(t)
  PROVE  /\ ErrorsCounted(n, t)
         /\ \A e : e \in Failed(t) /\ e \notin Failed(s) => ErrorsCounted(n + 1, t)
<1>1. IsFiniteSet(DOMAIN s) /\ IsFiniteSet(DOMAIN t)
  <2>1. DOMAIN s = 1 .. Len(s) /\ DOMAIN t = 1 .. Len(t) /\ Len(s) \in Nat /\ Len(t) \in Nat
    BY DEF SeenOrOnce
  <2>2. IsFiniteSet(1 .. Len(s)) /\ IsFiniteSet(1 .. Len(t))
    BY <2>1, FS_Interval
  <2> QED
    BY <2>1, <2>2
<1>2. Failed(s) \subseteq DOMAIN s /\ Failed(t) \subseteq DOMAIN t
  BY DEF Failed
<1> DEFINE A == Failed(s)
           B == Failed(t)
<1>3. IsFiniteSet(A) /\ IsFiniteSet(B)
  BY <1>1, <1>2, FS_Subset
<1>4. A \subseteq B
  OBVIOUS
<1> HIDE DEF A, B
<1>5. Cardinality(A) <= Cardinality(B)
  BY <1>3, <1>4, FS_Subset
<1>6. Cardinality(A) \in Nat /\ Cardinality(B) \in Nat
  BY <1>3, FS_CardinalityType
<1>7. n \in Nat /\ n <= Cardinality(A)
  BY DEF ErrorsCounted, A
<1>8. ErrorsCounted(n, t)
  BY <1>5, <1>6, <1>7 DEF ErrorsCounted, B
<1>9. ASSUME NEW e, e \in B, e \notin A PROVE ErrorsCounted(n + 1, t)
  <2>1. A \cup {e} \subseteq B
    BY <1>4, <1>9
  <2>2. Cardinality(A \cup {e}) = Cardinality(A) + 1
    BY <1>3, <1>9, FS_AddElement
  <2>3. Cardinality(A \cup {e}) <= Cardinality(B)
    BY <1>3, <2>1, FS_Subset
  <2>4. n + 1 \in Nat /\ n + 1 <= Cardinality(B)
    BY <1>6, <1>7, <2>2, <2>3
  <2> QED
    BY <2>4 DEF ErrorsCounted, B
<1> QED
  BY <1>8, <1>9 DEF A, B

\* A listener settles: its emit has one less to wait for, and its error is counted or,
\* with an emit of listeners for once, lost.
LEMMA SettleSeen ==
  ASSUME BusInv, NEW e \in DOMAIN emits, NEW fn, NEW fails \in BOOLEAN, Bus!Settle(e, fn, fails)
  PROVE  BusInv' /\ Bus!OutcomeSeen
<1>1. emits \in Seq(Bus!Emit) /\ SeenOrOnce(emits)
  BY DEF BusInv, SeenOrOnce
<1> DEFINE m == emits[e]
           left1 == m.left \ {fn}
           failed1 == (m.failed \/ fails)
           m1 == [calls |-> m.calls, left |-> left1, once |-> m.once, seen |-> m.seen,
                  failed |-> failed1]
<1>2. m \in Bus!Emit
  BY <1>1
<1>3. /\ m.calls \in SUBSET Listeners /\ m.left \in SUBSET Listeners /\ m.once \in BOOLEAN
      /\ m.seen \in BOOLEAN /\ m.failed \in BOOLEAN
  <2> HIDE DEF m
  <2> QED
    BY <1>2 DEF Bus!Emit
<1>4. m1 \in Bus!Emit /\ m1.seen = m.seen /\ m1.once = m.once /\ m1.failed = failed1
  <2> HIDE DEF m
  <2>1. m1 \in Bus!Emit
    BY <1>3 DEF Bus!Emit
  <2> QED
    BY <2>1
<1>5. UNCHANGED <<events, held, publishers>>
  BY DEF Bus!Settle
<1>6. emits' = [emits EXCEPT ![e] = m1]
  <2> DEFINE m0 == [calls |-> m.calls, left |-> left1, once |-> m.once, seen |-> m.seen,
                    failed |-> m.failed]
  <2>1. emits' = [emits EXCEPT ![e] = [[m EXCEPT !.left = left1] EXCEPT !.failed = failed1]]
    BY <1>1 DEF Bus!Settle
  <2>2. m = [calls |-> m.calls, left |-> m.left, once |-> m.once, seen |-> m.seen,
             failed |-> m.failed]
    <3> HIDE DEF m
    <3> QED
      BY <1>2 DEF Bus!Emit
  <2> HIDE DEF m, left1, failed1
  <2>3. [m EXCEPT !.left = left1] = m0
    BY <2>2
  <2>4. [m0 EXCEPT !.failed = failed1] = m1
    OBVIOUS
  <2> QED
    BY <2>1, <2>3, <2>4
<1> HIDE DEF m1
<1>7. /\ emits' \in Seq(Bus!Emit) /\ DOMAIN emits' = DOMAIN emits
      /\ emits'[e] = m1
      /\ \A d \in DOMAIN emits \ {e} : emits'[d] = emits[d]
  BY <1>1, <1>4, <1>6
<1>8. SeenOrOnce(emits')
  BY <1>4, <1>7 DEF BusInv, SeenOrOnce
<1>9. PublishersOk'
  <2>1. publishers \in Seq(PublisherOf(emits)) /\ DOMAIN emits \subseteq DOMAIN emits'
    BY <1>7 DEF BusInv, PublishersOk
  <2>2. publishers \in Seq(PublisherOf(emits'))
    BY <2>1, PublishersStay
  <2> QED
    BY <1>5, <1>7, <2>2 DEF BusInv, PublishersOk, Waits, PublisherOf
<1>10. EventsOk'
  BY <1>5 DEF BusInv, EventsOk
<1>11. failed1 /\ ~m.failed => errors' = errors + 1 \/ (m.once /\ e \in lost')
  <2> SUFFICES ASSUME fails, ~m.failed PROVE errors' = errors + 1 \/ (m.once /\ e \in lost')
    OBVIOUS
  <2>1. CASE m.seen
    BY <2>1 DEF Bus!Settle
  <2>2. CASE ~m.seen
    BY <2>2 DEF Bus!Settle, BusInv, SeenOrOnce
  <2> QED
    BY <2>1, <2>2
<1>12. \A d \in DOMAIN emits : emits'[d].failed /\ ~emits[d].failed =>
         errors' = errors + 1 \/ (emits[d].once /\ d \in lost')
  <2> HIDE DEF failed1
  <2> QED
    BY <1>4, <1>7, <1>11
<1>13. Failed(emits) \subseteq Failed(emits')
  BY <1>3, <1>4, <1>7 DEF Failed
<1>14. ErrorsCounted(errors', emits')
  <2>1. ErrorsCounted(errors, emits)
    BY DEF BusInv
  <2>2. CASE fails /\ m.seen /\ ~m.failed
    <3>1. errors' = errors + 1
      BY <2>2 DEF Bus!Settle
    <3>2. e \in Failed(emits') /\ e \notin Failed(emits)
      BY <1>4, <1>7, <2>2 DEF Failed
    <3> HIDE DEF m
    <3> QED
      BY <1>1, <1>8, <1>13, <2>1, <3>1, <3>2, ErrorCounted
  <2>3. CASE ~(fails /\ m.seen /\ ~m.failed)
    <3>1. errors' = errors
      BY <2>3 DEF Bus!Settle
    <3> HIDE DEF m
    <3> QED
      BY <1>1, <1>8, <1>13, <2>1, <3>1, ErrorCounted
  <2> QED
    BY <2>2, <2>3
<1>15. lost' \subseteq DOMAIN emits'
  <2>1. lost' \subseteq lost \cup {e}
    BY DEF Bus!Settle
  <2> QED
    BY <1>7, <2>1 DEF BusInv
<1>16. BusInv'
  BY <1>8, <1>9, <1>10, <1>14, <1>15 DEF BusInv, SeenOrOnce, ErrorsCounted, Failed
<1> QED
  BY <1>5, <1>12, <1>16 DEF Bus!OutcomeSeen

\* The names of what is subscribed to.
LEMMA SubscribedNames ==
  /\ \A entity \in Entities, action \in Actions \cup {Bus!All} :
       <<entity, action>> \in Bus!EventNames
  /\ <<Bus!All, Bus!All>> \in Bus!EventNames
BY DEF Bus!EventNames

\* Steps that only change who listens.
LEMMA ListenersKeep ==
  ASSUME BusInv, NEW n \in Bus!EventNames, NEW fn \in Listeners, NEW isOnce \in BOOLEAN,
         Bus!addListener(n, fn, isOnce) \/ Bus!off(n, fn)
  PROVE  BusInv' /\ Bus!OutcomeSeen
<1>1. EventsOk /\ events[n] \in Bus!Event /\ events[n].once \subseteq events[n].on
  BY DEF BusInv, EventsOk
<1> DEFINE event == events[n]
<1>2. event.on \in SUBSET Listeners /\ event.once \in SUBSET Listeners
  BY <1>1 DEF Bus!Event
<1>3. CASE Bus!addListener(n, fn, isOnce)
  <2> DEFINE on == event.on \cup {fn}
             once == IF isOnce THEN event.once \cup {fn} ELSE event.once
             new == [on |-> on, once |-> once]
  <2>1. /\ events' = [events EXCEPT ![n] = new]
        /\ held' \subseteq held \cup {<<n, fn>>}
        /\ UNCHANGED <<emits, publishers, errors, lost>>
    BY <1>3 DEF Bus!addListener
  <2>2. on \in SUBSET Listeners /\ once \in SUBSET Listeners /\ once \subseteq on
    BY <1>1, <1>2
  <2> HIDE DEF on, once, event
  <2>3. new \in Bus!Event /\ new.once \subseteq new.on
    BY <2>2 DEF Bus!Event
  <2> HIDE DEF new
  <2>4. held' \subseteq Bus!EventNames \X Listeners
    BY <2>1 DEF BusInv, EventsOk
  <2>5. EventsOk'
    BY <1>1, <2>1, <2>3, <2>4, EventsChanged
  <2> QED
    BY <2>1, <2>5 DEF BusInv, SeenOrOnce, PublishersOk, PublisherOf, Waits, ErrorsCounted, Failed,
                      Bus!OutcomeSeen
<1>4. CASE Bus!off(n, fn)
  <2> DEFINE on == event.on \ {fn}
             once == event.once \ {fn}
             new == [on |-> on, once |-> once]
  <2>1. /\ events' = [events EXCEPT ![n] = new]
        /\ UNCHANGED <<held, emits, publishers, errors, lost>>
    BY <1>4 DEF Bus!off
  <2>2. on \in SUBSET Listeners /\ once \in SUBSET Listeners /\ once \subseteq on
    BY <1>1, <1>2
  <2> HIDE DEF on, once, event
  <2>3. new \in Bus!Event /\ new.once \subseteq new.on
    BY <2>2 DEF Bus!Event
  <2> HIDE DEF new
  <2>4. held' \subseteq Bus!EventNames \X Listeners
    BY <2>1 DEF BusInv, EventsOk
  <2>5. EventsOk'
    BY <1>1, <2>1, <2>3, <2>4, EventsChanged
  <2> QED
    BY <2>1, <2>5 DEF BusInv, SeenOrOnce, PublishersOk, PublisherOf, Waits, ErrorsCounted, Failed,
                      Bus!OutcomeSeen
<1> QED
  BY <1>3, <1>4

LEMMA ClearingKeeps ==
  ASSUME BusInv, NEW n \in Bus!EventNames, Bus!clearEvent(n) \/ Bus!clear
  PROVE  BusInv' /\ Bus!OutcomeSeen
<1>1. EventsOk
  BY DEF BusInv
<1>2. Bus!NoListeners \in Bus!Event /\ Bus!NoListeners.once \subseteq Bus!NoListeners.on
  BY DEF Bus!NoListeners, Bus!Event
<1>3. CASE Bus!clearEvent(n)
  <2>1. /\ events' = [events EXCEPT ![n] = Bus!NoListeners]
        /\ UNCHANGED <<held, emits, publishers, errors, lost>>
    BY <1>3 DEF Bus!clearEvent
  <2>2. held' \subseteq Bus!EventNames \X Listeners
    BY <2>1 DEF BusInv, EventsOk
  <2>3. EventsOk'
    BY <1>1, <1>2, <2>1, <2>2, EventsChanged
  <2> QED
    BY <2>1, <2>3 DEF BusInv, SeenOrOnce, PublishersOk, PublisherOf, Waits, ErrorsCounted, Failed,
                      Bus!OutcomeSeen
<1>4. CASE Bus!clear
  <2>1. /\ events' = [x \in Bus!EventNames |-> Bus!NoListeners] /\ errors' = 0
        /\ UNCHANGED <<held, emits, publishers, lost>>
    BY <1>4 DEF Bus!clear
  <2>2. EventsOk'
    BY <1>2, <2>1 DEF BusInv, EventsOk
  <2>3. ErrorsCounted(0, emits)
    <3>1. ErrorsCounted(errors, emits) /\ Cardinality(Failed(emits)) \in Nat
      <4>1. emits \in Seq(Bus!Emit)
        BY DEF BusInv, SeenOrOnce
      <4>2. DOMAIN emits = 1 .. Len(emits) /\ Len(emits) \in Nat
        BY <4>1
      <4>3. IsFiniteSet(1 .. Len(emits))
        BY <4>2, FS_Interval
      <4>4. Failed(emits) \subseteq 1 .. Len(emits)
        BY <4>2 DEF Failed
      <4> QED
        BY <4>3, <4>4, FS_Subset, FS_CardinalityType DEF BusInv
    <3> QED
      BY <3>1 DEF ErrorsCounted
  <2> QED
    BY <2>1, <2>2, <2>3 DEF BusInv, SeenOrOnce, PublishersOk, PublisherOf, Waits, ErrorsCounted,
                            Failed, Bus!OutcomeSeen
<1> QED
  BY <1>3, <1>4

LEMMA BusNext == BusInv /\ [Bus!Next]_(Bus!busVars) => BusInv' /\ [Bus!OutcomeSeen]_(Bus!busVars)
<1> SUFFICES ASSUME BusInv, [Bus!Next]_(Bus!busVars) PROVE BusInv' /\ [Bus!OutcomeSeen]_(Bus!busVars)
  OBVIOUS
<1>1. ASSUME NEW fn \in Listeners, NEW entity \in Entities, NEW action \in Actions \cup {Bus!All},
             Bus!subscribe(entity, action, fn) \/ Bus!once(entity, action, fn)
      PROVE  BusInv' /\ Bus!OutcomeSeen
  BY <1>1, SubscribedNames, ListenersKeep DEF Bus!subscribe, Bus!once
<1>2. ASSUME NEW fn \in Listeners, Bus!subscribeAll(fn)
      PROVE  BusInv' /\ Bus!OutcomeSeen
  BY <1>2, SubscribedNames, ListenersKeep DEF Bus!subscribeAll
<1>3. ASSUME NEW n \in Bus!EventNames, Bus!clearEvent(n) \/ Bus!clear
      PROVE  BusInv' /\ Bus!OutcomeSeen
  BY <1>3, ClearingKeeps
<1>4. ASSUME NEW n \in Bus!EventNames, NEW fn \in Listeners, Bus!off(n, fn)
      PROVE  BusInv' /\ Bus!OutcomeSeen
  BY <1>4, ListenersKeep
<1>5. ASSUME NEW entity \in Entities, NEW action \in Actions, Bus!publish(entity, action)
      PROVE  BusInv' /\ Bus!OutcomeSeen
  BY <1>5, publishKeeps DEF Bus!OutcomeSeen, Begins
<1>6. ASSUME NEW entity \in Entities, NEW action \in Actions, Bus!publishAsync(entity, action)
      PROVE  BusInv' /\ Bus!OutcomeSeen
  BY <1>6, publishAsyncSeen
<1>7. ASSUME NEW p \in DOMAIN publishers, Bus!Resume(p)
      PROVE  BusInv' /\ Bus!OutcomeSeen
  BY <1>7, ResumeSeen
<1>8. ASSUME NEW e \in DOMAIN emits, NEW fn, NEW fails \in BOOLEAN, Bus!Settle(e, fn, fails)
      PROVE  BusInv' /\ Bus!OutcomeSeen
  BY <1>8, SettleSeen
<1>9. CASE UNCHANGED Bus!busVars
  BY <1>9 DEF Bus!busVars, BusInv, EventsOk, SeenOrOnce, PublishersOk, PublisherOf, Waits,
              ErrorsCounted, Failed
<1> QED
  BY <1>1, <1>2, <1>3, <1>4, <1>5, <1>6, <1>7, <1>8, <1>9, SubscribedNames DEF Bus!Next

\* Whatever is subscribed, cleared and published meanwhile, publishAsync goes on only when
\* its last emit has an outcome (event-bus.js publishAsync, event.js emit).
LEMMA PublishersOfTheBus == Bus!Spec => Bus!OutcomesSeen
<1>1. Bus!Init => BusInv
  BY BusInit
<1>2. BusInv /\ [Bus!Next]_(Bus!busVars) => BusInv' /\ [Bus!OutcomeSeen]_(Bus!busVars)
  BY BusNext
<1> QED
  BY <1>1, <1>2, PTL DEF Bus!Spec, Bus!OutcomesSeen

\* The bound of what has been added is kept by the guard of addListener alone.
LEMMA AddedWithin ==
  ASSUME MaxAdded \in Nat, added \in 0 .. MaxAdded, [Bus!Next]_(Bus!busVars)
  PROVE  added' \in 0 .. MaxAdded
<1>1. CASE \E n, fn, isOnce : Bus!addListener(n, fn, isOnce)
  BY <1>1 DEF Bus!addListener
<1>2. CASE UNCHANGED added
  BY <1>2
<1>3. CASE UNCHANGED Bus!busVars
  BY <1>2, <1>3 DEF Bus!busVars
<1>4. CASE Bus!Next
  BY <1>1, <1>2, <1>4
     DEF Bus!Next, Bus!subscribe, Bus!once, Bus!subscribeAll, Bus!clearEvent, Bus!off, Bus!clear,
         Bus!publish, Bus!publishAsync, Bus!Resume, Bus!Settle
<1> QED
  BY <1>3, <1>4

\* There are no more errors than emits, and all is of its type.
LEMMA BusInvTypes == BusInv /\ added \in 0 .. MaxAdded => Bus!TypeOK
<1> SUFFICES ASSUME BusInv, added \in 0 .. MaxAdded PROVE Bus!TypeOK
  OBVIOUS
<1>1. emits \in Seq(Bus!Emit)
  BY DEF BusInv, SeenOrOnce
<1>2. DOMAIN emits = 1 .. Len(emits) /\ Len(emits) \in Nat
  BY <1>1
<1>3. IsFiniteSet(1 .. Len(emits)) /\ Cardinality(1 .. Len(emits)) = Len(emits)
  <2> DEFINE n == Len(emits)
  <2>1. n \in Nat
    BY <1>2
  <2> HIDE DEF n
  <2>2. /\ IsFiniteSet(1 .. n)
        /\ Cardinality(1 .. n) = IF 1 > n THEN 0 ELSE n - 1 + 1
    BY <2>1, FS_Interval
  <2>3. Cardinality(1 .. n) = n
    BY <2>1, <2>2
  <2> QED
    BY <2>2, <2>3 DEF n
<1>4. Failed(emits) \subseteq 1 .. Len(emits)
  BY <1>2 DEF Failed
<1>5. Cardinality(Failed(emits)) \in Nat /\ Cardinality(Failed(emits)) <= Len(emits)
  BY <1>3, <1>4, FS_Subset, FS_CardinalityType
<1>6. errors \in 0 .. Len(emits)
  BY <1>2, <1>5 DEF BusInv, ErrorsCounted
<1>7. publishers \in Seq(Bus!Publisher)
  BY DEF BusInv, PublishersOk, PublisherOf, Bus!Publisher
<1> QED
  BY <1>1, <1>6, <1>7 DEF BusInv, EventsOk, Bus!TypeOK

LEMMA BusTypes ==
  ASSUME MaxAdded \in Nat
  PROVE  Bus!Spec => []Bus!TypeOK
<1>1. Bus!Init => BusInv /\ added \in 0 .. MaxAdded
  BY BusInit DEF Bus!Init
<1>2. BusInv /\ [Bus!Next]_(Bus!busVars) => BusInv'
  BY BusNext
<1>3. added \in 0 .. MaxAdded /\ [Bus!Next]_(Bus!busVars) => (added \in 0 .. MaxAdded)'
  BY AddedWithin
<1>4. BusInv /\ added \in 0 .. MaxAdded => Bus!TypeOK
  BY BusInvTypes
<1> QED
  BY <1>1, <1>2, <1>3, <1>4, PTL DEF Bus!Spec

----------------------------------------------------------------------------
(* The parts *)

LEMMA PartsSteps ==
  ASSUME [Next]_vars
  PROVE  /\ [Process!Next]_(Process!vars)
         /\ [Push!Next]_(Push!pushVars)
         /\ [Bus!Next]_(Bus!busVars)
<1> USE DEF processVars, pushVars, busVars, Process!vars, Push!pushVars, Bus!busVars
<1>1. CASE part = "process" /\ Process!Next /\ UNCHANGED <<part, pushVars, busVars>>
  BY <1>1
<1>2. CASE part = "push" /\ Push!Next /\ UNCHANGED <<part, processVars, busVars>>
  BY <1>2
<1>3. CASE part = "bus" /\ Bus!Next /\ UNCHANGED <<part, processVars, pushVars>>
  BY <1>3
<1>4. CASE UNCHANGED vars
  BY <1>4 DEF vars
<1> QED
  BY <1>1, <1>2, <1>3, <1>4 DEF Next

LEMMA ServicesImplementParts == Spec => Process!Spec /\ Push!Spec /\ Bus!Spec
<1>1. Init => Process!Init /\ Push!Init /\ Bus!Init
  BY DEF Init
<1>2. [Next]_vars => /\ [Process!Next]_(Process!vars)
                     /\ [Push!Next]_(Push!pushVars)
                     /\ [Bus!Next]_(Bus!busVars)
  BY PartsSteps
<1> QED
  BY <1>1, <1>2, PTL DEF Spec, Process!Spec, Push!Spec, Bus!Spec

\* An enabled task waits for its timer or runs until the process shuts down, and no timer
\* is left for a task that is not enabled, whatever calls are made (scheduler.js).
THEOREM TasksAreScheduled ==
  ASSUME Heartbeat \in TaskNames
  PROVE  Spec => []TasksScheduled
<1>1. Process!Spec => []Process!TasksScheduled
  BY Process!TasksAreScheduled
<1> QED
  BY <1>1, ServicesImplementParts, PTL DEF TasksScheduled

\* Redis and the database are closed under a request in progress only if a pass of the
\* shutdown gave up waiting, met no server or overtakes one that waits (application.js).
THEOREM StoresOutliveRequests == Spec => []DrainedBeforeStores
<1>1. Process!Spec => []Process!DrainedBeforeStores
  BY Process!StoresOutliveRequests
<1> QED
  BY <1>1, ServicesImplementParts, PTL DEF DrainedBeforeStores

\* A device that is saved is active, its owner's and not given a second row, and a cached
\* answer is the query's, unless a write overtook what was read (saveSubscription.js,
\* query-optimizer.js).
THEOREM SubscriptionsAreKept ==
  ASSUME Push!Starts
  PROVE  Spec => SubscriptionsKept
<1>1. Push!Spec => Push!SubscriptionsKept
  BY Push!SubscriptionsAreKept
<1> QED
  BY <1>1, ServicesImplementParts, PTL DEF SubscriptionsKept

\* A publisher that waits goes on only with the outcome of its last emit, and the first
\* error of an emit is counted, unless its listeners were all for once (event-bus.js).
THEOREM PublishersLearn == Spec => OutcomesSeen
<1>1. Bus!Spec => Bus!OutcomesSeen
  BY PublishersOfTheBus
<1> QED
  BY <1>1, ServicesImplementParts, PTL DEF OutcomesSeen

\* Counters have bounds, the heartbeat is one of the tasks, and the tables and requests are
\* those the push subscriptions may start from.
Bounds ==
  /\ Push!Starts /\ Heartbeat \in TaskNames
  /\ MaxRecords \in Nat /\ MaxCalls \in Nat /\ MaxPasses \in Nat
  /\ MaxRequests \in Nat /\ MaxAdded \in Nat

\* Whatever its parts do, each keeps its state of its type: tasks and stores (scheduler.js,
\* application.js), rows, cache and calls (saveSubscription.js), listeners, emits and
\* publishers, with no more errors counted than events emitted (event-bus.js).
THEOREM ServicesTypes ==
  ASSUME Bounds
  PROVE  Spec => []TypeOK
<1> USE DEF Bounds
<1>1. Process!Spec => []Process!TypeOK
  BY Process!LifeCycleTypes DEF Process!LifeBounds
<1>2. Push!Spec => []Push!TypeOK
  BY Push!PushTypesHold
<1>3. Bus!Spec => []Bus!TypeOK
  BY BusTypes
<1> QED
  BY <1>1, <1>2, <1>3, ServicesImplementParts, PTL DEF TypeOK
=============================================================================
