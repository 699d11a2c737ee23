----------------------- MODULE NotificationQueueProofs -----------------------
(***************************************************************************)
(* What the queue guarantees for every number of items, workers, places    *)
(* and attempts: each item is in one place, no worker sleeps on an item,   *)
(* the statistics add up, and the queue implements Delivery.               *)
(***************************************************************************)
EXTENDS NotificationQueue, SequenceTheorems, FiniteSetTheorems, TLAPS

Elements(s) == {s[k] : k \in DOMAIN s}
NoRepeat(s) == \A k, l \in DOMAIN s : s[k] = s[l] => k = l

\* The type invariant but for the statistics.
Types ==
    /\ caller \in [Items -> Callers]
    /\ queue \in Seq(Items) /\ waiting \in Seq(Workers) /\ spaceWaiters \in Seq(Items)
    /\ timers \in SUBSET Items /\ closing \in SUBSET Items
    /\ attempt \in [Items -> Nat] /\ calls \in [Items -> Nat]
    /\ worker \in [Workers -> Loops] /\ job \in [Workers -> Items \cup {NoItem}]
    /\ settled \in [Items -> Fates]
    /\ aborted \in BOOLEAN /\ stopped \in BOOLEAN
    /\ \A w \in Workers :
          /\ worker[w] = "busy" => job[w] # NoItem
          /\ worker[w] \in {"waiting", "ended"} => job[w] = NoItem

\* The workers in _waiting are those whose loop waits, the callers in _spaceWaiters
\* those whose enqueue waits, each once.
WorkersWait ==
    /\ NoRepeat(waiting)
    /\ \A w \in Workers : worker[w] = "waiting" <=> w \in Elements(waiting)
CallersWait ==
    /\ NoRepeat(spaceWaiters)
    /\ \A i \in Items : caller[i] = "waiting" <=> i \in Elements(spaceWaiters)

\* An item that was accepted is somewhere, in one place only.
Held(i) == \E w \in Workers : job[w] = i
Somewhere ==
    \A i \in Items :
        caller[i] = "in" <=> i \in Elements(queue) \/ Held(i) \/ i \in timers \/ settled[i] # "no"
Apart ==
    /\ \A i \in Elements(queue) : ~Held(i) /\ i \notin timers /\ settled[i] = "no"
    /\ \A w \in Workers : job[w] # NoItem => job[w] \notin timers /\ settled[job[w]] = "no"
    /\ \A i \in timers : settled[i] = "no"
    /\ NoRepeat(queue)
    /\ \A v, w \in Workers : job[v] = job[w] => v = w \/ job[w] = NoItem

\* How many times the handler was called with an item, where the item is.
Attempts ==
    /\ \A i \in Items : caller[i] # "in" => attempt[i] = 0 /\ calls[i] = 0
    /\ \A i \in Elements(queue) : calls[i] = attempt[i] /\ attempt[i] < MaxAttempts
    /\ \A i \in timers : calls[i] = attempt[i] + 1 /\ calls[i] < MaxAttempts
    /\ \A w \in Workers : job[w] # NoItem =>
          /\ calls[job[w]] = attempt[job[w]] + IF worker[w] = "busy" THEN 1 ELSE 0
          /\ attempt[job[w]] < MaxAttempts

\* The workers that the abort woke up find no item, and nothing moves after the stop.
Stopping ==
    /\ aborted => waiting = <<>>
    /\ stopped =>
          /\ aborted /\ queue = <<>> /\ timers = {} /\ spaceWaiters = <<>>
          /\ \A w \in Workers : worker[w] = "ended"
          /\ \A i \in Items : caller[i] # "granted"

QueueInv ==
    Types /\ WorkersWait /\ CallersWait /\ Somewhere /\ Apart /\ Attempts /\ Stopping
    /\ NoIdleWorker

-----------------------------------------------------------------------------
(* Sequences without repetition.                                            *)

LEMMA EmptyElements ==
    /\ Elements(<<>>) = {} /\ NoRepeat(<<>>)
    /\ \A S : \A s \in Seq(S) : Elements(s) = {} => s = <<>>
<1>1. Elements(<<>>) = {} /\ NoRepeat(<<>>)
    BY DEF Elements, NoRepeat
<1>2. ASSUME NEW S, NEW s \in Seq(S), s # <<>> PROVE Elements(s) # {}
  <2>1. 1 \in DOMAIN s
    BY <1>2, EmptySeq, LenProperties
  <2> QED
    BY <2>1 DEF Elements
<1> QED
    BY <1>1, <1>2

LEMMA ElementsAre ==
    ASSUME NEW S, NEW s \in Seq(S)
    PROVE  Elements(s) \subseteq S
BY LenProperties, ElementOfSeq DEF Elements

LEMMA AppendElements ==
    ASSUME NEW S, NEW s \in Seq(S), NEW e \in S
    PROVE  /\ Append(s, e) \in Seq(S) /\ Append(s, e) # <<>>
           /\ Elements(Append(s, e)) = Elements(s) \cup {e}
           /\ NoRepeat(s) /\ e \notin Elements(s) => NoRepeat(Append(s, e))
<1> DEFINE t == Append(s, e)
<1>1. /\ t \in Seq(S) /\ t # <<>> /\ Len(t) = Len(s) + 1 /\ Len(s) \in Nat
      /\ \A k \in 1..Len(s) : t[k] = s[k]
      /\ t[Len(s) + 1] = e
      /\ DOMAIN t = 1..Len(s) + 1 /\ DOMAIN s = 1..Len(s)
    BY AppendProperties, LenProperties
<1> HIDE DEF t
<1>2. Elements(t) = Elements(s) \cup {e}
    BY <1>1 DEF Elements
<1>3. NoRepeat(s) /\ e \notin Elements(s) => NoRepeat(t)
    BY <1>1 DEF NoRepeat, Elements
<1> QED
    BY <1>1, <1>2, <1>3 DEF t

LEMMA PrependElements ==
    ASSUME NEW S, NEW s \in Seq(S), NEW e \in S
    PROVE  /\ <<e>> \o s \in Seq(S) /\ <<e>> \o s # <<>>
           /\ Elements(<<e>> \o s) = Elements(s) \cup {e}
           /\ NoRepeat(s) /\ e \notin Elements(s) => NoRepeat(<<e>> \o s)
<1> DEFINE t == <<e>> \o s
<1>1. /\ t \in Seq(S) /\ Len(t) = Len(s) + 1 /\ Len(s) \in Nat
      /\ t[1] = e
      /\ \A k \in 1..Len(s) : t[k + 1] = s[k]
      /\ DOMAIN t = 1..Len(s) + 1 /\ DOMAIN s = 1..Len(s)
  <2>1. <<e>> \in Seq(S) /\ Len(<<e>>) = 1 /\ <<e>>[1] = e
    OBVIOUS
  <2>2. t \in Seq(S) /\ Len(t) = 1 + Len(s)
    BY <2>1, ConcatProperties
  <2>3. \A k \in 1..1 + Len(s) : t[k] = IF k <= 1 THEN e ELSE s[k - 1]
    BY <2>1, ConcatProperties
  <2> HIDE DEF t
  <2> QED
    BY <2>2, <2>3, LenProperties
<1> HIDE DEF t
<1>2. Elements(t) = Elements(s) \cup {e}
  <2>1. \A k \in 2..Len(s) + 1 : k - 1 \in 1..Len(s) /\ t[k] = s[k - 1]
    <3> SUFFICES ASSUME NEW k \in 2..Len(s) + 1 PROVE k - 1 \in 1..Len(s) /\ t[k] = s[k - 1]
        OBVIOUS
    <3>1. k - 1 \in 1..Len(s) /\ (k - 1) + 1 = k
        BY <1>1
    <3> QED
        BY <1>1, <3>1
  <2>2. Elements(t) \subseteq Elements(s) \cup {e}
    BY <1>1, <2>1 DEF Elements
  <2>3. e \in Elements(t)
    BY <1>1 DEF Elements
  <2>4. Elements(s) \subseteq Elements(t)
    <3> SUFFICES ASSUME NEW k \in 1..Len(s) PROVE s[k] \in Elements(t)
        BY <1>1 DEF Elements
    <3>1. k + 1 \in DOMAIN t
        BY <1>1
    <3> QED
        BY <1>1, <3>1 DEF Elements
  <2> QED
    BY <2>2, <2>3, <2>4
<1>3. NoRepeat(s) /\ e \notin Elements(s) => NoRepeat(t)
  <2> SUFFICES ASSUME NoRepeat(s), e \notin Elements(s), NEW k \in DOMAIN t, NEW l \in DOMAIN t,
                      t[k] = t[l]
               PROVE  k = l
    BY DEF NoRepeat
  <2>1. \A j \in DOMAIN t : j = 1 \/ (j - 1 \in DOMAIN s /\ t[j] = s[j - 1] /\ t[j] # e)
    <3> SUFFICES ASSUME NEW j \in DOMAIN t, j # 1
                 PROVE  j - 1 \in DOMAIN s /\ t[j] = s[j - 1] /\ t[j] # e
        OBVIOUS
    <3>1. j - 1 \in 1..Len(s) /\ (j - 1) + 1 = j
        BY <1>1
    <3> QED
        BY <1>1, <3>1 DEF Elements
  <2> QED
    BY <1>1, <2>1 DEF NoRepeat
<1> QED
    BY <1>1, <1>2, <1>3 DEF t

LEMMA TailElements ==
    ASSUME NEW S, NEW s \in Seq(S), s # <<>>, NoRepeat(s)
    PROVE  /\ Head(s) \in S /\ Head(s) \in Elements(s) /\ Tail(s) \in Seq(S)
           /\ Elements(Tail(s)) = Elements(s) \ {Head(s)}
           /\ NoRepeat(Tail(s))
<1> DEFINE t == Tail(s)
<1>1. /\ t \in Seq(S) /\ Len(s) \in Nat \ {0} /\ Head(s) = s[1] /\ Head(s) \in S
      /\ \A k \in 1..Len(s) - 1 : t[k] = s[k + 1]
      /\ DOMAIN t = 1..Len(s) - 1 /\ DOMAIN s = 1..Len(s)
    BY HeadTailProperties, LenProperties, EmptySeq
<1> HIDE DEF t
<1>2. Elements(t) = Elements(s) \ {s[1]}
  <2>1. \A k \in 2..Len(s) : k - 1 \in DOMAIN t /\ t[k - 1] = s[k]
    BY <1>1
  <2>2. Elements(s) \ {s[1]} \subseteq Elements(t)
    <3> SUFFICES ASSUME NEW k \in DOMAIN s, k # 1 PROVE s[k] \in Elements(t)
        BY DEF Elements
    <3>1. k \in 2..Len(s)
        BY <1>1
    <3>2. k - 1 \in DOMAIN t /\ t[k - 1] = s[k]
        BY <2>1, <3>1
    <3> QED
        BY <3>2 DEF Elements
  <2>3. Elements(t) \subseteq Elements(s) \ {s[1]}
    <3> SUFFICES ASSUME NEW k \in DOMAIN t PROVE t[k] \in Elements(s) \ {s[1]}
        BY DEF Elements
    <3>1. k + 1 \in DOMAIN s /\ 1 \in DOMAIN s /\ k + 1 # 1 /\ t[k] = s[k + 1]
        BY <1>1
    <3> QED
        BY <3>1 DEF Elements, NoRepeat
  <2> QED
    BY <2>2, <2>3
<1>3. NoRepeat(t)
  <2> SUFFICES ASSUME NEW k \in DOMAIN t, NEW l \in DOMAIN t, t[k] = t[l]
               PROVE  k = l
    BY DEF NoRepeat
  <2>1. k + 1 \in DOMAIN s /\ l + 1 \in DOMAIN s /\ s[k + 1] = s[l + 1]
    BY <1>1
  <2>2. k + 1 = l + 1
    BY <2>1 DEF NoRepeat
  <2> QED
    BY <1>1, <2>2
<1>4. Head(s) \in Elements(s)
    BY <1>1 DEF Elements
<1>5. Head(s) \in S /\ t \in Seq(S) /\ Elements(t) = Elements(s) \ {Head(s)}
    BY <1>1, <1>2
<1> QED
    BY <1>3, <1>4, <1>5, Zenon DEF t
-----------------------------------------------------------------------------
(* What the parts of a step do, in terms of sets.                           *)

\* The item i gets into _queue, or to a worker that waits when _queue is empty.
JoinsQueue(i) ==
    /\ queue' \in Seq(Items) /\ Elements(queue') = Elements(queue) \cup {i}
    /\ i \notin Elements(queue) => NoRepeat(queue')
    /\ waiting = <<>> /\ UNCHANGED <<waiting, worker, job>>
JoinsWorker(i, w) ==
    /\ queue = <<>> /\ queue' = <<>>
    /\ worker[w] = "waiting" /\ ~aborted
    /\ waiting' \in Seq(Workers) /\ NoRepeat(waiting')
    /\ Elements(waiting') = Elements(waiting) \ {w}
    /\ worker' = [worker EXCEPT ![w] = "resumed"]
    /\ job' = [job EXCEPT ![w] = i]
Joins(i) == JoinsQueue(i) \/ \E w \in Workers : JoinsWorker(i, w)

LEMMA FlushJoins ==
    ASSUME QueueInv, NEW i \in Items, NEW q,
           q = Append(queue, i) \/ q = <<i>> \o queue, Flush(q)
    PROVE  Joins(i)
<1> DEFINE n == IF Len(q) <= Len(waiting) THEN Len(q) ELSE Len(waiting)
           Served(w) == \E k \in 1..n : waiting[k] = w
           ItemFor(w) == q[CHOOSE k \in 1..n : waiting[k] = w]
<1>1. /\ queue \in Seq(Items) /\ waiting \in Seq(Workers) /\ NoRepeat(waiting)
      /\ worker \in [Workers -> Loops] /\ job \in [Workers -> Items \cup {NoItem}]
      /\ NoRepeat(queue) /\ (queue # <<>> => waiting = <<>>)
      /\ \A w \in Workers : worker[w] = "waiting" <=> w \in Elements(waiting)
      /\ aborted => waiting = <<>>
    BY DEF QueueInv, Types, WorkersWait, Apart, NoIdleWorker, Stopping
<1>2. /\ q \in Seq(Items) /\ q # <<>> /\ Elements(q) = Elements(queue) \cup {i}
      /\ i \notin Elements(queue) => NoRepeat(q)
  <2>1. CASE q = Append(queue, i)
    <3>1. /\ Append(queue, i) \in Seq(Items) /\ Append(queue, i) # <<>>
          /\ Elements(Append(queue, i)) = Elements(queue) \cup {i}
          /\ NoRepeat(queue) /\ i \notin Elements(queue) => NoRepeat(Append(queue, i))
        BY <1>1, AppendElements
    <3> QED
        BY <1>1, <2>1, <3>1, Zenon
  <2>2. CASE q = <<i>> \o queue
    <3>1. /\ <<i>> \o queue \in Seq(Items) /\ <<i>> \o queue # <<>>
          /\ Elements(<<i>> \o queue) = Elements(queue) \cup {i}
          /\ NoRepeat(queue) /\ i \notin Elements(queue) => NoRepeat(<<i>> \o queue)
        BY <1>1, PrependElements
    <3> QED
        BY <1>1, <2>2, <3>1, Zenon
  <2> QED
    BY <2>1, <2>2
<1>3. /\ queue' = SubSeq(q, n + 1, Len(q))
      /\ waiting' = SubSeq(waiting, n + 1, Len(waiting))
      /\ worker' = [w \in Workers |-> IF Served(w) THEN "resumed" ELSE worker[w]]
      /\ job' = [w \in Workers |-> IF Served(w) THEN ItemFor(w) ELSE job[w]]
    BY DEF Flush
<1>4. Len(q) \in Nat \ {0} /\ Len(waiting) \in Nat
    BY <1>1, <1>2, LenProperties, EmptySeq
<1>5. CASE waiting = <<>>
  <2>1. n = 0 /\ \A w : ~Served(w)
    BY <1>4, <1>5, EmptySeq
  <2>2. queue' = q
    <3> HIDE DEF n
    <3>1. queue' = SubSeq(q, 1, Len(q))
        BY <1>3, <2>1
    <3>2. SubSeq(q, 1, Len(q)) = q
        BY <1>2, SubSeqFull
    <3> QED
        BY <3>1, <3>2
  <2>3. waiting' = waiting
    <3> HIDE DEF n
    <3>1. waiting' = SubSeq(waiting, 1, Len(waiting))
        BY <1>3, <2>1
    <3>2. SubSeq(waiting, 1, Len(waiting)) = waiting
        BY <1>1, SubSeqFull
    <3> QED
        BY <3>1, <3>2
  <2>4. worker' = worker /\ job' = job
    BY <1>1, <1>3, <2>1
  <2> QED
    BY <1>2, <1>5, <2>2, <2>3, <2>4 DEF Joins, JoinsQueue, JoinsWorker
<1>6. CASE waiting # <<>>
  <2> DEFINE w == Head(waiting)
  <2>1. queue = <<>> /\ ~aborted
    BY <1>1, <1>6
  <2>2. q = <<i>>
    <3>1. CASE q = Append(queue, i)
        BY <2>1, <3>1
    <3>2. CASE q = <<i>> \o queue
        BY <2>1, <3>2, ConcatEmptySeq, <<i>> \in Seq(Items)
    <3> QED
        BY <3>1, <3>2
  <2>3. Len(waiting) \in Nat \ {0} /\ Len(q) = 1 /\ q[1] = i
    BY <1>1, <1>6, <2>2, EmptySeq
  <2>4. n = 1
    BY <2>3
  <2>5. queue' = <<>>
    BY <1>3, <2>3, <2>4, SubSeqEmpty
  <2>6. waiting' = Tail(waiting)
    <3> HIDE DEF n
    <3>1. waiting' = SubSeq(waiting, 2, Len(waiting))
        BY <1>3, <2>4
    <3>2. Tail(waiting) = SubSeq(waiting, 2, Len(waiting))
        BY <1>1, <1>6, TailIsSubSeq
    <3> QED
        BY <3>1, <3>2
  <2>7. /\ w \in Workers /\ w \in Elements(waiting)
        /\ Tail(waiting) \in Seq(Workers)
        /\ Elements(Tail(waiting)) = Elements(waiting) \ {w}
        /\ NoRepeat(Tail(waiting))
    BY <1>1, <1>6, TailElements
  <2>8. w = waiting[1]
    BY <1>6
  <2>9. \A v : Served(v) <=> v = w
    BY <2>4, <2>8
  <2>10. ItemFor(w) = i
    <3>1. (CHOOSE k \in 1..n : waiting[k] = w) = 1
        BY <2>4, <2>8
    <3> QED
        BY <2>3, <3>1
  <2> HIDE DEF w, Served, ItemFor, n
  <2>11. worker' = [worker EXCEPT ![w] = "resumed"] /\ job' = [job EXCEPT ![w] = i]
    BY <1>1, <1>3, <2>9, <2>10
  <2> QED
    BY <1>1, <2>1, <2>5, <2>6, <2>7, <2>11 DEF Joins, JoinsQueue, JoinsWorker
<1> QED
    BY <1>5, <1>6

\* The worker w, done with its item, ends, takes an item of _queue, or waits for one.
Continues(w) ==
    \/ /\ aborted /\ worker' = [worker EXCEPT ![w] = "ended"]
       /\ job' = [job EXCEPT ![w] = NoItem] /\ UNCHANGED <<queue, waiting>>
    \/ \E i \in Elements(queue) :
          /\ ~aborted /\ queue' \in Seq(Items) /\ NoRepeat(queue')
          /\ Elements(queue') = Elements(queue) \ {i}
          /\ queue # <<>>
          /\ worker' = [worker EXCEPT ![w] = "resumed"]
          /\ job' = [job EXCEPT ![w] = i] /\ UNCHANGED waiting
    \/ /\ ~aborted /\ queue = <<>>
       /\ waiting' \in Seq(Workers) /\ NoRepeat(waiting')
       /\ Elements(waiting') = Elements(waiting) \cup {w}
       /\ worker' = [worker EXCEPT ![w] = "waiting"]
       /\ job' = [job EXCEPT ![w] = NoItem] /\ UNCHANGED queue

LEMMA LoopGoesOn ==
    ASSUME QueueInv, NEW w \in Workers, worker[w] = "busy", Loop(w)
    PROVE  Continues(w)
<1>1. /\ queue \in Seq(Items) /\ waiting \in Seq(Workers) /\ NoRepeat(waiting)
      /\ NoRepeat(queue) /\ ~stopped /\ w \notin Elements(waiting)
    BY DEF QueueInv, Types, WorkersWait, Apart, Stopping
<1>2. CASE aborted
    BY <1>2 DEF Loop, Continues
<1>3. CASE ~aborted /\ queue # <<>>
  <2>1. /\ Head(queue) \in Elements(queue) /\ Tail(queue) \in Seq(Items)
        /\ Elements(Tail(queue)) = Elements(queue) \ {Head(queue)} /\ NoRepeat(Tail(queue))
    BY <1>1, <1>3, TailElements
  <2> QED
    BY <1>3, <2>1 DEF Loop, Continues
<1>4. CASE ~aborted /\ queue = <<>>
  <2>1. /\ Append(waiting, w) \in Seq(Workers) /\ NoRepeat(Append(waiting, w))
        /\ Elements(Append(waiting, w)) = Elements(waiting) \cup {w}
    BY <1>1, AppendElements
  <2> QED
    BY <1>1, <1>4, <2>1 DEF Loop, Continues
<1> QED
    BY <1>2, <1>3, <1>4

\* Room is left to nobody, or to one caller that waits.
Grants ==
    \/ UNCHANGED <<spaceWaiters, caller>>
    \/ \E i \in Items :
          /\ caller[i] = "waiting" /\ ~stopped
          /\ caller' = [caller EXCEPT ![i] = "granted"]
          /\ spaceWaiters' \in Seq(Items) /\ NoRepeat(spaceWaiters')
          /\ Elements(spaceWaiters') = Elements(spaceWaiters) \ {i}

LEMMA SpaceIsGranted ==
    ASSUME QueueInv, ResolveSpace
    PROVE  Grants
<1>1. CASE spaceWaiters = <<>> \/ Full
    BY <1>1 DEF ResolveSpace, Grants
<1>2. CASE ~(spaceWaiters = <<>> \/ Full)
  <2>1. /\ spaceWaiters \in Seq(Items) /\ NoRepeat(spaceWaiters) /\ ~stopped
        /\ \A i \in Items : caller[i] = "waiting" <=> i \in Elements(spaceWaiters)
    BY <1>2 DEF QueueInv, Types, CallersWait, Stopping
  <2>2. /\ Head(spaceWaiters) \in Items /\ Head(spaceWaiters) \in Elements(spaceWaiters)
        /\ Tail(spaceWaiters) \in Seq(Items) /\ NoRepeat(Tail(spaceWaiters))
        /\ Elements(Tail(spaceWaiters)) = Elements(spaceWaiters) \ {Head(spaceWaiters)}
    BY <1>2, <2>1, TailElements
  <2> QED
    BY <1>2, <2>1, <2>2 DEF ResolveSpace, Grants
<1> QED
    BY <1>1, <1>2
-----------------------------------------------------------------------------
(* The actions keep the invariant.                                          *)

\* An item that is nowhere else joins: it is new, or its timer has fired.
LEMMA JoinKeeps ==
    ASSUME QueueInv, NEW i \in Items, Joins(i), ~stopped,
           i \notin Elements(queue), ~Held(i), settled[i] = "no", caller[i] # "waiting",
           timers' = timers \ {i}, caller' = [caller EXCEPT ![i] = "in"],
           attempt' \in [Items -> Nat], \A j \in Items \ {i} : attempt'[j] = attempt[j],
           attempt'[i] = calls[i], calls[i] < MaxAttempts,
           UNCHANGED <<spaceWaiters, closing, settled, calls, aborted, stopped>>
    PROVE  QueueInv'
<1>1. \A j \in Items : caller'[j] # "in" => attempt'[j] = 0 /\ calls[j] = 0
    BY DEF QueueInv, Types, Attempts
<1>2. \A j \in timers' : calls[j] = attempt'[j] + 1 /\ calls[j] < MaxAttempts
    BY DEF QueueInv, Types, Attempts
<1>3. CASE JoinsQueue(i)
  <2>1. \A j : Held(j)' <=> Held(j)
    BY <1>3 DEF JoinsQueue, Held
  <2>2. Types'
    BY <1>3 DEF QueueInv, Types, JoinsQueue, Callers
  <2>3. WorkersWait' /\ CallersWait'
    BY <1>3 DEF QueueInv, Types, WorkersWait, CallersWait, JoinsQueue
  <2>4. Somewhere'
    BY <1>3, <2>1 DEF QueueInv, Types, Somewhere, JoinsQueue
  <2>5. Apart'
    <3>1. \A j \in Elements(queue') : ~Held(j) /\ j \notin timers' /\ settled[j] = "no"
        BY <1>3 DEF QueueInv, Apart, JoinsQueue
    <3>2. \A w \in Workers : job[w] # NoItem => job[w] \notin timers' /\ settled[job[w]] = "no"
        BY DEF QueueInv, Apart
    <3>3. (\A j \in timers' : settled[j] = "no") /\ NoRepeat(queue')
        BY <1>3 DEF QueueInv, Apart, JoinsQueue
    <3>4. \A v, w \in Workers : job[v] = job[w] => v = w \/ job[w] = NoItem
        BY DEF QueueInv, Apart
    <3> QED
        BY <1>3, <2>1, <3>1, <3>2, <3>3, <3>4 DEF Apart, JoinsQueue
  <2>6. Attempts'
    <3>1. ASSUME NEW j \in Elements(queue')
          PROVE  calls[j] = attempt'[j] /\ attempt'[j] < MaxAttempts
      <4>1. j = i \/ (j # i /\ j \in Elements(queue) /\ j \in Items)
        BY <1>3, <3>1, ElementsAre DEF JoinsQueue, QueueInv, Types
      <4> QED
        BY <4>1 DEF QueueInv, Attempts
    <3>2. ASSUME NEW v \in Workers, job[v] # NoItem
          PROVE  /\ calls[job[v]] = attempt'[job[v]] + IF worker[v] = "busy" THEN 1 ELSE 0
                 /\ attempt'[job[v]] < MaxAttempts
      <4>1. job[v] \in Items \ {i}
        BY <3>2 DEF QueueInv, Types, Held
      <4> QED
        BY <3>2, <4>1 DEF QueueInv, Attempts
    <3> QED
        BY <1>1, <1>2, <1>3, <3>1, <3>2 DEF Attempts, JoinsQueue
  <2>7. Stopping' /\ NoIdleWorker'
    BY <1>3 DEF QueueInv, Types, Stopping, NoIdleWorker, JoinsQueue
  <2> QED
    BY <2>2, <2>3, <2>4, <2>5, <2>6, <2>7 DEF QueueInv
<1>4. ASSUME NEW w \in Workers, JoinsWorker(i, w) PROVE QueueInv'
  <2>1. job[w] = NoItem /\ i # NoItem /\ job' = [job EXCEPT ![w] = i]
    BY <1>4, QueueAssumption DEF QueueInv, Types, JoinsWorker
  <2>2. \A j \in Items : Held(j)' <=> Held(j) \/ j = i
    BY <2>1, QueueAssumption DEF QueueInv, Types, Held
  <2>3. Types'
    BY <1>4 DEF QueueInv, Types, JoinsWorker, Callers, Loops
  <2>4. WorkersWait' /\ CallersWait'
    BY <1>4 DEF QueueInv, Types, WorkersWait, CallersWait, JoinsWorker, Loops
  <2>5. queue = <<>> /\ queue' = <<>> /\ Elements(queue) = {} /\ Elements(queue') = {}
    BY <1>4, EmptyElements DEF JoinsWorker
  <2>6. Somewhere'
    BY <2>2, <2>5 DEF QueueInv, Types, Somewhere
  <2>7. Apart'
    <3>1. \A v \in Workers : job'[v] = IF v = w THEN i ELSE job[v]
        BY <2>1 DEF QueueInv, Types
    <3> QED
        BY <2>1, <2>5, <3>1, EmptyElements DEF QueueInv, Types, Apart, Held
  <2>8. Attempts'
    <3>1. \A v \in Workers : job'[v] = IF v = w THEN i ELSE job[v]
        BY <2>1 DEF QueueInv, Types
    <3>2. \A v \in Workers : worker'[v] = IF v = w THEN "resumed" ELSE worker[v]
        BY <1>4 DEF QueueInv, Types, JoinsWorker
    <3>3. ASSUME NEW v \in Workers, job'[v] # NoItem
          PROVE  /\ calls[job'[v]] = attempt'[job'[v]] + IF worker'[v] = "busy" THEN 1 ELSE 0
                 /\ attempt'[job'[v]] < MaxAttempts
      <4>1. CASE v = w
        BY <2>1, <3>1, <3>2, <4>1 DEF QueueInv, Types
      <4>2. CASE v # w
        <5>1. job'[v] = job[v] /\ worker'[v] = worker[v] /\ job[v] # i /\ job[v] \in Items
            BY <3>1, <3>2, <3>3, <4>2 DEF Held, QueueInv, Types
        <5> QED
            BY <3>3, <5>1 DEF QueueInv, Attempts
      <4> QED
        BY <4>1, <4>2
    <3> QED
        BY <1>1, <1>2, <2>5, <3>3 DEF Attempts
  <2>9. Stopping' /\ NoIdleWorker'
    BY <1>4 DEF QueueInv, Types, Stopping, NoIdleWorker, JoinsWorker
  <2> QED
    BY <2>3, <2>4, <2>6, <2>7, <2>8, <2>9 DEF QueueInv
<1> QED
    BY <1>3, <1>4 DEF Joins

\* A step that moves callers to and from the places where they wait, and no item.
LEMMA CallersMove ==
    ASSUME QueueInv, caller' \in [Items -> Callers], spaceWaiters' \in Seq(Items),
           closing' \in SUBSET Items, CallersWait',
           \A i \in Items : caller'[i] = "in" <=> caller[i] = "in",
           stopped => spaceWaiters' = <<>> /\ \A i \in Items : caller'[i] # "granted",
           UNCHANGED <<queue, waiting, timers, attempt, work, settled, calls, aborted, stopped>>
    PROVE  QueueInv'
<1>1. UNCHANGED <<worker, job>>
    BY DEF work
<1>2. Types'
    BY <1>1 DEF QueueInv, Types
<1>3. WorkersWait' /\ Stopping' /\ NoIdleWorker'
    BY <1>1 DEF QueueInv, WorkersWait, Stopping, NoIdleWorker
<1>4. Somewhere' /\ Apart' /\ Attempts'
    BY <1>1 DEF QueueInv, Somewhere, Apart, Attempts, Held
<1> QED
    BY <1>2, <1>3, <1>4 DEF QueueInv

LEMMA PublishKeeps ==
    ASSUME QueueInv, NEW i \in Items, Publish(i)
    PROVE  QueueInv'
<1>1. caller' = [caller EXCEPT ![i] = "new"] /\ caller[i] = "none"
    BY DEF Publish
<1>2. caller' \in [Items -> Callers] /\ \A j \in Items : caller'[j] = "in" <=> caller[j] = "in"
    BY <1>1 DEF QueueInv, Types, Callers
<1>3. CallersWait'
    BY <1>1 DEF QueueInv, Types, CallersWait, Publish
<1>4. stopped => spaceWaiters' = <<>> /\ \A j \in Items : caller'[j] # "granted"
    BY <1>1 DEF QueueInv, Types, Stopping, Publish
<1>5. spaceWaiters' \in Seq(Items) /\ closing' \in SUBSET Items
    BY DEF QueueInv, Types, Publish
<1> QED
    BY <1>2, <1>3, <1>4, <1>5, CallersMove DEF Publish

\* What Push does, for a caller that is not stopped.
LEMMA PushKeeps ==
    ASSUME QueueInv, NEW i \in Items, caller[i] \in {"new", "granted"}, ~stopped, Push(i)
    PROVE  QueueInv' /\ Joins(i)
<1>1. /\ caller' = [caller EXCEPT ![i] = "in"]
      /\ UNCHANGED <<spaceWaiters, timers, attempt, closing, settled, calls, aborted, stopped>>
    BY DEF Push
<1>2. Joins(i)
  <2>1. Flush(Append(queue, i))
    BY DEF Push
  <2> QED
    BY <2>1, FlushJoins
<1>3. i \notin Elements(queue) /\ ~Held(i) /\ settled[i] = "no" /\ i \notin timers
    BY DEF QueueInv, Somewhere
<1>4. attempt[i] = 0 /\ calls[i] = 0 /\ 0 < MaxAttempts
    BY QueueAssumption DEF QueueInv, Attempts
<1>5. timers' = timers \ {i}
    BY <1>1, <1>3
<1>6. attempt' \in [Items -> Nat] /\ \A j \in Items \ {i} : attempt'[j] = attempt[j]
    BY <1>1 DEF QueueInv, Types
<1>7. attempt'[i] = calls[i] /\ calls[i] < MaxAttempts /\ caller[i] # "waiting"
    BY <1>1, <1>4
<1> QED
    BY <1>1, <1>2, <1>3, <1>5, <1>6, <1>7, JoinKeeps

LEMMA EnqueueKeeps ==
    ASSUME QueueInv, NEW i \in Items, Enqueue(i)
    PROVE  QueueInv'
<1>1. caller[i] = "new"
    BY DEF Enqueue
<1>2. CASE stopped
  <2>1. /\ caller' = [caller EXCEPT ![i] = "refused"]
        /\ UNCHANGED <<queue, waiting, spaceWaiters, timers, attempt, work,
                       closing, settled, calls, metrics, aborted, stopped>>
    BY <1>2 DEF Enqueue
  <2>2. caller' \in [Items -> Callers] /\ \A j \in Items : caller'[j] = "in" <=> caller[j] = "in"
    BY <1>1, <2>1 DEF QueueInv, Types, Callers
  <2>3. CallersWait'
    BY <1>1, <2>1 DEF QueueInv, Types, CallersWait
  <2>4. stopped => spaceWaiters' = <<>> /\ \A j \in Items : caller'[j] # "granted"
    BY <2>1 DEF QueueInv, Types, Stopping
  <2>5. spaceWaiters' \in Seq(Items) /\ closing' \in SUBSET Items
    BY <2>1 DEF QueueInv, Types
  <2> QED
    BY <2>1, <2>2, <2>3, <2>4, <2>5, CallersMove
<1>3. CASE ~stopped /\ Full
  <2>1. /\ caller' = [caller EXCEPT ![i] = "waiting"]
        /\ spaceWaiters' = Append(spaceWaiters, i)
        /\ UNCHANGED <<queue, waiting, timers, attempt, work,
                       closing, settled, calls, metrics, aborted, stopped>>
    BY <1>3 DEF Enqueue
  <2>2. caller' \in [Items -> Callers] /\ \A j \in Items : caller'[j] = "in" <=> caller[j] = "in"
    BY <1>1, <2>1 DEF QueueInv, Types, Callers
  <2>3. /\ spaceWaiters \in Seq(Items) /\ NoRepeat(spaceWaiters)
        /\ i \notin Elements(spaceWaiters)
    BY <1>1 DEF QueueInv, Types, CallersWait
  <2>4. /\ spaceWaiters' \in Seq(Items) /\ NoRepeat(spaceWaiters')
        /\ Elements(spaceWaiters') = Elements(spaceWaiters) \cup {i}
    BY <2>1, <2>3, AppendElements
  <2>5. CallersWait'
    BY <2>1, <2>4 DEF QueueInv, Types, CallersWait
  <2>6. closing' \in SUBSET Items
    BY <2>1 DEF QueueInv, Types
  <2> QED
    BY <1>3, <2>1, <2>2, <2>4, <2>5, <2>6, CallersMove
<1>4. CASE ~stopped /\ ~Full
  <2>1. Push(i)
    BY <1>4 DEF Enqueue
  <2> QED
    BY <1>1, <1>4, <2>1, PushKeeps
<1> QED
    BY <1>2, <1>3, <1>4

LEMMA GrantedKeeps ==
    ASSUME QueueInv, NEW i \in Items, Granted(i)
    PROVE  QueueInv'
<1>1. caller[i] = "granted" /\ Push(i)
    BY DEF Granted
<1>2. ~stopped
    BY <1>1 DEF QueueInv, Stopping
<1> QED
    BY <1>1, <1>2, PushKeeps

\* A caller that is granted room leaves the callers that wait.
LEMMA GrantKeeps ==
    ASSUME QueueInv, Grants
    PROVE  /\ caller' \in [Items -> Callers] /\ spaceWaiters' \in Seq(Items) /\ CallersWait'
           /\ \A i \in Items : caller'[i] = "in" <=> caller[i] = "in"
           /\ \A i \in Items : caller'[i] = caller[i]
                                  \/ (caller[i] = "waiting" /\ caller'[i] = "granted")
           /\ stopped => UNCHANGED <<caller, spaceWaiters>>
<1>1. CASE UNCHANGED <<spaceWaiters, caller>>
    BY <1>1 DEF QueueInv, Types, CallersWait
<1>2. ASSUME NEW i \in Items, caller[i] = "waiting", ~stopped,
             caller' = [caller EXCEPT ![i] = "granted"],
             spaceWaiters' \in Seq(Items), NoRepeat(spaceWaiters'),
             Elements(spaceWaiters') = Elements(spaceWaiters) \ {i}
      PROVE  /\ caller' \in [Items -> Callers] /\ CallersWait'
             /\ \A j \in Items : caller'[j] = "in" <=> caller[j] = "in"
             /\ \A j \in Items : caller'[j] = caller[j]
                                    \/ (caller[j] = "waiting" /\ caller'[j] = "granted")
    BY <1>2 DEF QueueInv, Types, CallersWait, Callers
<1> QED
    BY <1>1, <1>2 DEF Grants

LEMMA ClosedKeeps ==
    ASSUME QueueInv, NEW i \in Items, Closed(i)
    PROVE  QueueInv'
<1>1. Grants
    BY SpaceIsGranted DEF Closed
<1>2. /\ caller' \in [Items -> Callers] /\ spaceWaiters' \in Seq(Items) /\ CallersWait'
      /\ \A j \in Items : caller'[j] = "in" <=> caller[j] = "in"
      /\ stopped => UNCHANGED <<caller, spaceWaiters>>
    BY <1>1, GrantKeeps
<1>3. stopped => spaceWaiters' = <<>> /\ \A j \in Items : caller'[j] # "granted"
    BY <1>2 DEF QueueInv, Stopping
<1>4. closing' \in SUBSET Items
    BY DEF Closed, QueueInv, Types
<1> QED
    BY <1>2, <1>3, <1>4, CallersMove DEF Closed

LEMMA RetryKeeps ==
    ASSUME QueueInv, NEW i \in Items, Retry(i)
    PROVE  QueueInv' /\ Joins(i)
<1>1. /\ i \in timers /\ timers' = timers \ {i}
      /\ attempt' = [attempt EXCEPT ![i] = @ + 1] /\ Flush(<<i>> \o queue)
      /\ UNCHANGED <<caller, spaceWaiters, closing, settled, calls, metrics, aborted, stopped>>
    BY DEF Retry
<1>2. Joins(i)
    BY <1>1, FlushJoins
<1>3. i \notin Elements(queue) /\ ~Held(i) /\ settled[i] = "no"
  <2>1. i # NoItem
    BY QueueAssumption
  <2> QED
    BY <1>1, <2>1 DEF QueueInv, Apart, Held
<1>4. ~stopped
    BY <1>1 DEF QueueInv, Stopping
<1>5. caller[i] = "in"
    BY <1>1 DEF QueueInv, Somewhere
<1>6. caller' = [caller EXCEPT ![i] = "in"]
    BY <1>1, <1>5 DEF QueueInv, Types
<1>7. /\ attempt' \in [Items -> Nat] /\ \A j \in Items \ {i} : attempt'[j] = attempt[j]
      /\ attempt'[i] = attempt[i] + 1
    BY <1>1 DEF QueueInv, Types
<1>8. calls[i] = attempt[i] + 1 /\ calls[i] < MaxAttempts
    BY <1>1 DEF QueueInv, Attempts
<1>9. attempt'[i] = calls[i] /\ caller[i] # "waiting"
    BY <1>5, <1>7, <1>8
<1> QED
    BY <1>1, <1>2, <1>3, <1>4, <1>6, <1>7, <1>8, <1>9, JoinKeeps

\* The worker w is done with its item, which is settled or behind a timer, and
\* goes on with x: an item of _queue, or none.
LEMMA FinishKeeps ==
    ASSUME QueueInv, NEW w \in Workers, worker[w] = "busy", Continues(w),
           caller' \in [Items -> Callers], spaceWaiters' \in Seq(Items), CallersWait',
           \A i \in Items : caller'[i] = "in" <=> caller[i] = "in",
           closing' \in SUBSET Items,
           timers' \in SUBSET Items, settled' \in [Items -> Fates],
           \A i \in Items \ {job[w]} : (i \in timers' <=> i \in timers) /\ settled'[i] = settled[i],
           \/ job[w] \notin timers' /\ settled'[job[w]] # "no"
           \/ job[w] \in timers' /\ settled'[job[w]] = "no"
              /\ attempt[job[w]] + 1 < MaxAttempts,
           UNCHANGED <<attempt, calls, aborted, stopped>>
    PROVE  QueueInv'
<1> DEFINE j == job[w]
<1>1. /\ j \in Items /\ j # NoItem /\ caller[j] = "in"
      /\ j \notin Elements(queue) /\ j \notin timers /\ settled[j] = "no"
      /\ \A v \in Workers \ {w} : job[v] # j
    BY QueueAssumption DEF QueueInv, Types, Apart, Somewhere, Held
<1>2. calls[j] = attempt[j] + 1 /\ calls[j] \in Nat /\ attempt[j] \in Nat
    BY <1>1 DEF QueueInv, Types, Attempts
<1>3. ~stopped /\ Elements(queue) \subseteq Items
    BY ElementsAre DEF QueueInv, Types, Stopping
<1>4. PICK x \in Items \cup {NoItem} :
          /\ x = NoItem \/ x \in Elements(queue)
          /\ job' = [job EXCEPT ![w] = x]
          /\ queue' \in Seq(Items) /\ NoRepeat(queue')
          /\ Elements(queue') = Elements(queue) \ {x}
  <2>1. CASE UNCHANGED queue /\ job' = [job EXCEPT ![w] = NoItem]
    <3>1. NoItem \notin Elements(queue)
        BY <1>3, QueueAssumption
    <3>2. queue' \in Seq(Items) /\ NoRepeat(queue') /\ Elements(queue') = Elements(queue)
        BY <2>1 DEF QueueInv, Types, Apart
    <3>3. Elements(queue') = Elements(queue) \ {NoItem}
        BY <3>1, <3>2
    <3> QED
        BY <2>1, <3>2, <3>3, Zenon
  <2>2. ASSUME NEW i \in Elements(queue), queue' \in Seq(Items), NoRepeat(queue'),
               Elements(queue') = Elements(queue) \ {i}, job' = [job EXCEPT ![w] = i]
        PROVE  /\ i \in Items \cup {NoItem}
               /\ job' = [job EXCEPT ![w] = i]
               /\ queue' \in Seq(Items) /\ NoRepeat(queue')
               /\ Elements(queue') = Elements(queue) \ {i}
    BY <1>3, <2>2
  <2> QED
    BY <2>1, <2>2 DEF Continues
<1>5. \A v \in Workers : job'[v] = IF v = w THEN x ELSE job[v]
    BY <1>4 DEF QueueInv, Types
<1>6. PICK l \in {"ended", "resumed", "waiting"} : worker' = [worker EXCEPT ![w] = l]
    BY DEF Continues
<1>7. \A v \in Workers : worker'[v] = IF v = w THEN l ELSE worker[v]
    BY <1>6 DEF QueueInv, Types
<1>8. worker'[w] \in {"waiting", "ended"} => job'[w] = NoItem
    BY DEF QueueInv, Types, Continues
<1> HIDE DEF j
<1>9. Types'
  <2>1. waiting' \in Seq(Workers)
    BY DEF QueueInv, Types, Continues
  <2>2. worker' \in [Workers -> Loops] /\ job' \in [Workers -> Items \cup {NoItem}]
    BY <1>4, <1>6 DEF QueueInv, Types, Loops
  <2>3. \A v \in Workers :
           /\ worker'[v] = "busy" => job'[v] # NoItem
           /\ worker'[v] \in {"waiting", "ended"} => job'[v] = NoItem
    BY <1>5, <1>6, <1>7, <1>8 DEF QueueInv, Types
  <2> QED
    BY <1>4, <2>1, <2>2, <2>3 DEF QueueInv, Types
<1>10. WorkersWait'
  <2>1. NoRepeat(waiting')
    BY DEF QueueInv, WorkersWait, Continues
  <2>2. w \notin Elements(waiting) /\ \A v \in Workers : worker[v] = "waiting" <=> v \in Elements(waiting)
    BY DEF QueueInv, WorkersWait
  <2>3. CASE UNCHANGED waiting /\ worker'[w] # "waiting"
    BY <1>7, <2>1, <2>2, <2>3 DEF WorkersWait
  <2>4. CASE Elements(waiting') = Elements(waiting) \cup {w} /\ worker'[w] = "waiting"
    BY <1>7, <2>1, <2>2, <2>4 DEF WorkersWait
  <2> QED
    BY <2>3, <2>4 DEF Continues, QueueInv, Types
<1>11. \A i \in Items : Held(i)' <=> (i = x \/ (Held(i) /\ i # j))
    BY <1>1, <1>5 DEF Held, j
<1>12. Somewhere'
  <2>1. \A i \in Items \ {j} : (i \in timers' <=> i \in timers) /\ settled'[i] = settled[i]
    BY DEF j
  <2>2. j \in timers' \/ settled'[j] # "no"
    BY DEF j
  <2>3. ASSUME NEW i \in Items
        PROVE  caller'[i] = "in" <=> i \in Elements(queue') \/ Held(i)' \/ i \in timers'
                                     \/ settled'[i] # "no"
    <3>1. CASE i = j
        BY <1>1, <2>2, <3>1
    <3>2. CASE i # j
      <4>1. caller[i] = "in" <=> i \in Elements(queue) \/ Held(i) \/ i \in timers
                                   \/ settled[i] # "no"
        BY DEF QueueInv, Somewhere
      <4>2. Held(i)' <=> (i = x \/ Held(i))
        BY <1>11, <3>2
      <4>3. i \in Elements(queue') \/ i = x <=> i \in Elements(queue) \/ i = x
        BY <1>4
      <4>4. i = x => i \in Elements(queue)
        BY <1>4, QueueAssumption
      <4> QED
        BY <2>1, <3>2, <4>1, <4>2, <4>3, <4>4
    <3> QED
        BY <3>1, <3>2
  <2> QED
    BY <2>3 DEF Somewhere
<1>13. Apart'
  <2>1. \A i \in Items \ {j} : (i \in timers' <=> i \in timers) /\ settled'[i] = settled[i]
    BY DEF j
  <2>2. j \in timers' => settled'[j] = "no"
    BY DEF j
  <2>3. \A i \in Elements(queue') : ~Held(i)' /\ i \notin timers' /\ settled'[i] = "no"
    BY <1>1, <1>3, <1>4, <1>11, <2>1 DEF QueueInv, Apart
  <2>4. ASSUME NEW v \in Workers, job'[v] # NoItem
        PROVE  job'[v] \notin timers' /\ settled'[job'[v]] = "no"
    <3>1. CASE v = w
        BY <1>1, <1>3, <1>4, <1>5, <2>1, <2>4, <3>1 DEF QueueInv, Apart
    <3>2. CASE v # w
        BY <1>1, <1>5, <2>1, <2>4, <3>2 DEF QueueInv, Types, Apart
    <3> QED
        BY <3>1, <3>2
  <2>5. \A i \in timers' : settled'[i] = "no"
    BY <2>1, <2>2 DEF QueueInv, Apart
  <2>6. ASSUME NEW u \in Workers, NEW v \in Workers, job'[u] = job'[v], job'[v] # NoItem
        PROVE  u = v
    <3>1. \A k \in Workers : job[k] # NoItem => job[k] \notin Elements(queue)
        BY DEF QueueInv, Apart, Held
    <3> QED
        BY <1>4, <1>5, <2>6, <3>1 DEF QueueInv, Apart
  <2> QED
    BY <1>4, <2>3, <2>4, <2>5, <2>6 DEF Apart
<1>14. Attempts'
  <2>1. \A i \in Items : caller'[i] # "in" => attempt[i] = 0 /\ calls[i] = 0
    BY DEF QueueInv, Attempts
  <2>2. \A i \in Elements(queue') : calls[i] = attempt[i] /\ attempt[i] < MaxAttempts
    BY <1>4 DEF QueueInv, Attempts
  <2>3. ASSUME NEW i \in timers' PROVE calls[i] = attempt[i] + 1 /\ calls[i] < MaxAttempts
    BY <1>2, <2>3 DEF QueueInv, Attempts, j
  <2>4. ASSUME NEW v \in Workers, job'[v] # NoItem
        PROVE  /\ calls[job'[v]] = attempt[job'[v]] + IF worker'[v] = "busy" THEN 1 ELSE 0
               /\ attempt[job'[v]] < MaxAttempts
    <3>1. CASE v = w
      <4>1. job'[v] \in Elements(queue) /\ worker'[v] # "busy" /\ job'[v] \in Items
        BY <1>3, <1>4, <1>5, <1>6, <1>7, <2>4, <3>1
      <4>2. attempt[job'[v]] \in Nat
        BY <4>1 DEF QueueInv, Types
      <4> QED
        BY <4>1, <4>2 DEF QueueInv, Attempts
    <3>2. CASE v # w
        BY <1>5, <1>7, <2>4, <3>2 DEF QueueInv, Attempts
    <3> QED
        BY <3>1, <3>2
  <2> QED
    BY <2>1, <2>2, <2>3, <2>4 DEF Attempts
<1>15. Stopping' /\ NoIdleWorker'
  <2>1. aborted' => waiting' = <<>>
    BY DEF QueueInv, Stopping, Continues
  <2>2. queue' # <<>> => waiting' = <<>>
    BY DEF QueueInv, NoIdleWorker, Continues
  <2> QED
    BY <1>3, <2>1, <2>2 DEF Stopping, NoIdleWorker
<1> QED
    BY <1>9, <1>10, <1>12, <1>13, <1>14, <1>15 DEF QueueInv

LEMMA SucceedKeeps ==
    ASSUME QueueInv, NEW w \in Workers, Succeed(w)
    PROVE  QueueInv' /\ Continues(w) /\ Grants
<1>1. /\ worker[w] = "busy" /\ settled' = [settled EXCEPT ![job[w]] = "processed"]
      /\ ResolveSpace /\ Loop(w) /\ UNCHANGED <<timers, attempt, closing, calls, aborted, stopped>>
    BY DEF Succeed
<1>2. Continues(w) /\ Grants
    BY <1>1, LoopGoesOn, SpaceIsGranted
<1>3. /\ caller' \in [Items -> Callers] /\ spaceWaiters' \in Seq(Items) /\ CallersWait'
      /\ \A j \in Items : caller'[j] = "in" <=> caller[j] = "in"
    BY <1>2, GrantKeeps
<1>4. job[w] \in Items /\ job[w] \notin timers
    BY <1>1 DEF QueueInv, Types, Apart
<1>5. /\ closing' \in SUBSET Items /\ timers' \in SUBSET Items /\ settled' \in [Items -> Fates]
      /\ \A i \in Items \ {job[w]} : (i \in timers' <=> i \in timers) /\ settled'[i] = settled[i]
      /\ job[w] \notin timers' /\ settled'[job[w]] # "no"
    BY <1>1, <1>4 DEF QueueInv, Types, Fates
<1> QED
    BY <1>1, <1>2, <1>3, <1>5, FinishKeeps

LEMMA FailKeeps ==
    ASSUME QueueInv, NEW w \in Workers, Fail(w)
    PROVE  QueueInv' /\ Continues(w)
<1>1. /\ worker[w] = "busy" /\ Loop(w)
      /\ UNCHANGED <<caller, spaceWaiters, attempt, calls, aborted, stopped>>
    BY DEF Fail
<1>2. Continues(w)
    BY <1>1, LoopGoesOn
<1>3. /\ caller' \in [Items -> Callers] /\ spaceWaiters' \in Seq(Items) /\ CallersWait'
      /\ \A j \in Items : caller'[j] = "in" <=> caller[j] = "in"
    BY <1>1 DEF QueueInv, Types, CallersWait
<1>4. job[w] \in Items /\ job[w] \notin timers /\ settled[job[w]] = "no" /\ attempt[job[w]] \in Nat
    BY <1>1 DEF QueueInv, Types, Apart
<1>5. CASE attempt[job[w]] + 1 >= MaxAttempts
  <2>1. /\ settled' = [settled EXCEPT ![job[w]] = "dropped"]
        /\ closing' = closing \cup {job[w]} /\ timers' = timers
    BY <1>5 DEF Fail, Discard
  <2>2. /\ closing' \in SUBSET Items /\ timers' \in SUBSET Items /\ settled' \in [Items -> Fates]
        /\ \A i \in Items \ {job[w]} : (i \in timers' <=> i \in timers) /\ settled'[i] = settled[i]
        /\ job[w] \notin timers' /\ settled'[job[w]] # "no"
    BY <1>4, <2>1 DEF QueueInv, Types, Fates
  <2> QED
    BY <1>1, <1>2, <1>3, <2>2, FinishKeeps
<1>6. CASE ~(attempt[job[w]] + 1 >= MaxAttempts)
  <2>1. timers' = timers \cup {job[w]} /\ settled' = settled /\ closing' = closing
    BY <1>6 DEF Fail, Reschedule
  <2>2. attempt[job[w]] + 1 < MaxAttempts
    BY <1>4, <1>6, QueueAssumption
  <2>3. /\ closing' \in SUBSET Items /\ timers' \in SUBSET Items /\ settled' \in [Items -> Fates]
        /\ \A i \in Items \ {job[w]} : (i \in timers' <=> i \in timers) /\ settled'[i] = settled[i]
        /\ job[w] \in timers' /\ settled'[job[w]] = "no"
    BY <1>4, <2>1 DEF QueueInv, Types
  <2> QED
    BY <1>1, <1>2, <1>3, <2>2, <2>3, FinishKeeps
<1> QED
    BY <1>2, <1>5, <1>6

LEMMA StartKeeps ==
    ASSUME QueueInv, NEW w \in Workers, Start(w)
    PROVE  QueueInv'
<1> DEFINE l == IF job[w] = NoItem THEN "ended" ELSE "busy"
<1>1. /\ worker[w] = "resumed" /\ worker' = [worker EXCEPT ![w] = l]
      /\ calls' = [i \in Items |-> IF i = job[w] THEN calls[i] + 1 ELSE calls[i]]
      /\ UNCHANGED <<caller, queue, waiting, spaceWaiters, timers, attempt, job,
                     closing, settled, aborted, stopped>>
    BY DEF Start
<1>2. \A v \in Workers : worker'[v] = IF v = w THEN l ELSE worker[v]
    BY <1>1 DEF QueueInv, Types
<1>3. ~stopped
    BY <1>1 DEF QueueInv, Stopping
<1>4. l \in {"ended", "busy"} /\ (l = "busy" <=> job[w] # NoItem)
    OBVIOUS
<1> HIDE DEF l
<1>5. Types'
  <2>1. worker' \in [Workers -> Loops] /\ calls' \in [Items -> Nat]
    BY <1>1, <1>4 DEF QueueInv, Types, Loops
  <2>2. \A v \in Workers :
           /\ worker'[v] = "busy" => job'[v] # NoItem
           /\ worker'[v] \in {"waiting", "ended"} => job'[v] = NoItem
    BY <1>1, <1>2, <1>4 DEF QueueInv, Types
  <2> QED
    BY <1>1, <2>1, <2>2 DEF QueueInv, Types
<1>6. WorkersWait'
    BY <1>1, <1>2, <1>4 DEF QueueInv, WorkersWait
<1>7. CallersWait' /\ Somewhere' /\ Apart' /\ NoIdleWorker'
    BY <1>1 DEF QueueInv, CallersWait, Somewhere, Apart, Held, NoIdleWorker
<1>8. Attempts'
  <2>1. \A i \in Items : i # job[w] => calls'[i] = calls[i]
    BY <1>1
  <2>2. job[w] # NoItem => /\ job[w] \in Items /\ caller[job[w]] = "in"
                           /\ job[w] \notin Elements(queue) /\ job[w] \notin timers
                           /\ \A v \in Workers : job[v] = job[w] => v = w
                           /\ calls'[job[w]] = calls[job[w]] + 1
                           /\ calls[job[w]] = attempt[job[w]] /\ attempt[job[w]] \in Nat
    <3> SUFFICES ASSUME job[w] # NoItem
                 PROVE  /\ job[w] \in Items /\ caller[job[w]] = "in"
                        /\ job[w] \notin Elements(queue) /\ job[w] \notin timers
                        /\ \A v \in Workers : job[v] = job[w] => v = w
                        /\ calls'[job[w]] = calls[job[w]] + 1
                        /\ calls[job[w]] = attempt[job[w]] /\ attempt[job[w]] \in Nat
        OBVIOUS
    <3>1. job[w] \in Items /\ attempt[job[w]] \in Nat /\ calls'[job[w]] = calls[job[w]] + 1
        BY <1>1 DEF QueueInv, Types
    <3>2. caller[job[w]] = "in" /\ job[w] \notin Elements(queue) /\ job[w] \notin timers
        BY <3>1 DEF QueueInv, Somewhere, Apart, Held
    <3>3. \A v \in Workers : job[v] = job[w] => v = w
        BY DEF QueueInv, Apart
    <3>4. calls[job[w]] = attempt[job[w]]
        BY <1>1, <3>1 DEF QueueInv, Attempts
    <3> QED
        BY <3>1, <3>2, <3>3, <3>4
  <2>3. \A i \in Items : caller[i] # "in" => attempt[i] = 0 /\ calls'[i] = 0
    <3>1. \A i \in Items : caller[i] # "in" => i # job[w]
        BY <2>2, QueueAssumption
    <3> QED
        BY <2>1, <3>1 DEF QueueInv, Attempts
  <2>4. \A i \in Elements(queue) : calls'[i] = attempt[i] /\ attempt[i] < MaxAttempts
    <3>1. \A i \in Elements(queue) : i \in Items /\ i # job[w]
        BY <2>2, ElementsAre, QueueAssumption DEF QueueInv, Types
    <3> QED
        BY <2>1, <3>1 DEF QueueInv, Attempts
  <2>5. \A i \in timers : calls'[i] = attempt[i] + 1 /\ calls'[i] < MaxAttempts
    <3>1. \A i \in timers : i \in Items /\ i # job[w]
        BY <2>2, QueueAssumption DEF QueueInv, Types
    <3> QED
        BY <2>1, <3>1 DEF QueueInv, Attempts
  <2>6. ASSUME NEW v \in Workers, job[v] # NoItem
        PROVE  /\ calls'[job[v]] = attempt[job[v]] + IF worker'[v] = "busy" THEN 1 ELSE 0
               /\ attempt[job[v]] < MaxAttempts
    <3>1. CASE v = w
        BY <1>2, <1>4, <2>2, <2>6, <3>1 DEF QueueInv, Attempts
    <3>2. CASE v # w
      <4>1. job[v] \in Items /\ job[v] # job[w] /\ worker'[v] = worker[v]
        BY <1>2, <2>6, <3>2 DEF QueueInv, Types, Apart
      <4> QED
        BY <2>1, <2>6, <4>1 DEF QueueInv, Attempts
    <3> QED
        BY <3>1, <3>2
  <2> QED
    BY <1>1, <2>3, <2>4, <2>5, <2>6 DEF Attempts
<1>9. Stopping'
    BY <1>1, <1>3 DEF QueueInv, Stopping
<1> QED
    BY <1>5, <1>6, <1>7, <1>8, <1>9 DEF QueueInv

\* The callers that wait are sent away.
LEMMA RejectKeeps ==
    ASSUME QueueInv, RejectCallers
    PROVE  /\ caller' \in [Items -> Callers] /\ spaceWaiters' = <<>> /\ CallersWait'
           /\ \A i \in Items : caller'[i] = "in" <=> caller[i] = "in"
           /\ \A i \in Items : caller'[i] = "granted" <=> caller[i] = "granted"
<1>1. caller' = [i \in Items |-> IF caller[i] = "waiting" THEN "refused" ELSE caller[i]]
    BY DEF RejectCallers
<1>2. caller' \in [Items -> Callers]
    BY <1>1 DEF QueueInv, Types, Callers
<1>3. /\ \A i \in Items : caller'[i] = "in" <=> caller[i] = "in"
      /\ \A i \in Items : caller'[i] = "granted" <=> caller[i] = "granted"
      /\ \A i \in Items : caller'[i] # "waiting"
    BY <1>1
<1>4. spaceWaiters' = <<>>
    BY DEF RejectCallers
<1>5. CallersWait'
    BY <1>3, <1>4, EmptyElements DEF CallersWait
<1> QED
    BY <1>2, <1>3, <1>4, <1>5

LEMMA StopProcessingKeeps ==
    ASSUME QueueInv, StopProcessing
    PROVE  QueueInv'
<1>1. /\ ~aborted /\ aborted' = TRUE /\ waiting' = <<>> /\ RejectCallers
      /\ worker' = [w \in Workers |-> IF worker[w] = "waiting" THEN "resumed" ELSE worker[w]]
      /\ UNCHANGED <<queue, timers, attempt, job, closing, settled, calls, metrics, stopped>>
    BY DEF StopProcessing
<1>2. ~stopped
    BY <1>1 DEF QueueInv, Stopping
<1>3. /\ caller' \in [Items -> Callers] /\ spaceWaiters' = <<>> /\ CallersWait'
      /\ \A i \in Items : caller'[i] = "in" <=> caller[i] = "in"
    BY <1>1, RejectKeeps
<1>4. \A w \in Workers : worker'[w] = IF worker[w] = "waiting" THEN "resumed" ELSE worker[w]
    BY <1>1
<1>5. Types'
  <2>1. worker' \in [Workers -> Loops]
    BY <1>1 DEF QueueInv, Types, Loops
  <2>2. \A v \in Workers :
           /\ worker'[v] = "busy" => job'[v] # NoItem
           /\ worker'[v] \in {"waiting", "ended"} => job'[v] = NoItem
    BY <1>1, <1>4 DEF QueueInv, Types
  <2>3. waiting' \in Seq(Workers) /\ spaceWaiters' \in Seq(Items)
    BY <1>1, <1>3
  <2> QED
    BY <1>1, <1>3, <2>1, <2>2, <2>3 DEF QueueInv, Types
<1>6. WorkersWait'
    BY <1>1, <1>4, EmptyElements DEF WorkersWait
<1>7. Somewhere' /\ Apart'
    BY <1>1, <1>3 DEF QueueInv, Somewhere, Apart, Held
<1>8. Attempts'
  <2>1. \A w \in Workers : worker'[w] = "busy" <=> worker[w] = "busy"
    BY <1>4
  <2> QED
    BY <1>1, <1>3, <2>1 DEF QueueInv, Attempts
<1>9. Stopping' /\ NoIdleWorker'
    BY <1>1, <1>2 DEF Stopping, NoIdleWorker
<1> QED
    BY <1>3, <1>5, <1>6, <1>7, <1>8, <1>9 DEF QueueInv

LEMMA StopQueueKeeps ==
    ASSUME QueueInv, StopQueue
    PROVE  QueueInv'
<1>1. /\ aborted /\ ~stopped /\ stopped' = TRUE /\ RejectCallers /\ timers' = {} /\ queue' = <<>>
      /\ \A w \in Workers : worker[w] = "ended"
      /\ \A i \in Items : caller[i] # "granted"
      /\ settled' = [i \in Items |-> IF caller[i] = "in" /\ settled[i] = "no"
                                     THEN "lost" ELSE settled[i]]
      /\ UNCHANGED <<waiting, attempt, worker, job, closing, calls, metrics, aborted>>
    BY DEF StopQueue, work
<1>2. /\ caller' \in [Items -> Callers] /\ spaceWaiters' = <<>> /\ CallersWait'
      /\ \A i \in Items : caller'[i] = "in" <=> caller[i] = "in"
      /\ \A i \in Items : caller'[i] = "granted" <=> caller[i] = "granted"
    BY <1>1, RejectKeeps
<1>3. \A w \in Workers : job[w] = NoItem
    BY <1>1 DEF QueueInv, Types
<1>4. Types'
  <2>1. settled' \in [Items -> Fates]
    BY <1>1 DEF QueueInv, Types, Fates
  <2>2. queue' \in Seq(Items) /\ spaceWaiters' \in Seq(Items) /\ timers' \in SUBSET Items
    BY <1>1, <1>2
  <2> QED
    BY <1>1, <1>2, <2>1, <2>2 DEF QueueInv, Types
<1>5. WorkersWait' /\ NoIdleWorker'
    BY <1>1 DEF QueueInv, WorkersWait, NoIdleWorker
<1>6. \A i \in Items : ~Held(i) /\ ~Held(i)'
    BY <1>1, <1>3, QueueAssumption DEF Held
<1>7. Elements(queue') = {} /\ NoRepeat(queue')
    BY <1>1, EmptyElements
<1>8. Somewhere'
  <2>1. \A i \in Items : settled[i] # "no" => caller[i] = "in"
    BY DEF QueueInv, Somewhere
  <2> QED
    BY <1>1, <1>2, <1>6, <1>7, <2>1 DEF Somewhere
<1>9. Apart' /\ Attempts'
    BY <1>1, <1>2, <1>3, <1>7 DEF QueueInv, Apart, Attempts
<1>10. Stopping'
    BY <1>1, <1>2 DEF QueueInv, Stopping
<1> QED
    BY <1>2, <1>4, <1>5, <1>8, <1>9, <1>10 DEF QueueInv

\* The workers are started in some order: as many places as there are workers, and
\* each of them somewhere, so each is there once.
LEMMA Begins == Init => QueueInv
<1> SUFFICES ASSUME Init PROVE QueueInv
    OBVIOUS
<1> DEFINE n == Cardinality(Workers)
<1>1. n \in Nat /\ IsFiniteSet(Workers)
    BY QueueAssumption, FS_CardinalityType
<1>2. waiting \in [1..n -> Workers] /\ \A w \in Workers : \E k \in 1..n : waiting[k] = w
    BY DEF Init
<1>3. IsFiniteSet(1..n) /\ Cardinality(1..n) = n
  <2> HIDE DEF n
  <2> QED
    BY <1>1, FS_Interval
<1>4. waiting \in Surjection(1..n, Workers)
  <2> HIDE DEF n
  <2> QED
    BY <1>2 DEF Surjection
<1>5. waiting \in Injection(1..n, Workers)
    BY <1>1, <1>3, <1>4, FS_SurjSameCardinalityImpliesInj
<1> HIDE DEF n
<1>6. NoRepeat(waiting) /\ waiting \in Seq(Workers) /\ Elements(waiting) = Workers
  <2>1. DOMAIN waiting = 1..n
    BY <1>2
  <2>2. NoRepeat(waiting)
    BY <1>5, <2>1 DEF Injection, IsInjective, NoRepeat
  <2>3. waiting \in Seq(Workers)
    BY <1>1, <1>2, SeqDef
  <2> QED
    BY <1>2, <2>1, <2>2, <2>3 DEF Elements
<1>7. /\ caller = [i \in Items |-> "none"] /\ queue = <<>> /\ spaceWaiters = <<>>
      /\ timers = {} /\ attempt = [i \in Items |-> 0]
      /\ worker = [w \in Workers |-> "waiting"] /\ job = [w \in Workers |-> NoItem]
      /\ closing = {} /\ settled = [i \in Items |-> "no"] /\ calls = [i \in Items |-> 0]
      /\ aborted = FALSE /\ stopped = FALSE
    BY DEF Init
<1>8. Types
  <2>1. queue \in Seq(Items) /\ waiting \in Seq(Workers) /\ spaceWaiters \in Seq(Items)
    BY <1>6, <1>7
  <2>2. /\ caller \in [Items -> Callers] /\ settled \in [Items -> Fates]
        /\ worker \in [Workers -> Loops]
    BY <1>7 DEF Callers, Loops, Fates
  <2>3. /\ attempt \in [Items -> Nat] /\ calls \in [Items -> Nat]
        /\ job \in [Workers -> Items \cup {NoItem}]
    BY <1>7
  <2>4. \A w \in Workers : worker[w] = "waiting" /\ job[w] = NoItem
    BY <1>7
  <2> QED
    BY <1>7, <2>1, <2>2, <2>3, <2>4 DEF Types
<1>9. WorkersWait /\ CallersWait
    BY <1>6, <1>7, EmptyElements DEF WorkersWait, CallersWait
<1>10. Somewhere /\ Apart /\ Attempts
  <2>1. \A i \in Items : ~Held(i)
    BY <1>7, QueueAssumption DEF Held
  <2> QED
    BY <1>7, <2>1, EmptyElements DEF Somewhere, Apart, Attempts
<1>11. Stopping /\ NoIdleWorker
    BY <1>7 DEF Stopping, NoIdleWorker
<1> QED
    BY <1>8, <1>9, <1>10, <1>11 DEF QueueInv

LEMMA StepKeeps == QueueInv /\ [Next]_vars => QueueInv'
<1> SUFFICES ASSUME QueueInv, [Next]_vars PROVE QueueInv'
    OBVIOUS
<1>1. CASE UNCHANGED vars
  <2>1. UNCHANGED <<caller, queue, waiting, spaceWaiters, timers, attempt, worker, job, closing,
                    settled, calls, aborted, stopped>>
    BY <1>1 DEF vars, work
  <2>2. Types' /\ WorkersWait' /\ CallersWait'
    BY <2>1 DEF QueueInv, Types, WorkersWait, CallersWait
  <2>3. Somewhere' /\ Apart' /\ Attempts' /\ Stopping' /\ NoIdleWorker'
    BY <2>1 DEF QueueInv, Somewhere, Apart, Attempts, Stopping, NoIdleWorker, Held
  <2> QED
    BY <2>2, <2>3 DEF QueueInv
<1>2. ASSUME NEW i \in Items, Publish(i) \/ Enqueue(i) \/ Granted(i) \/ Closed(i) \/ Retry(i)
      PROVE  QueueInv'
    BY <1>2, PublishKeeps, EnqueueKeeps, GrantedKeeps, ClosedKeeps, RetryKeeps
<1>3. ASSUME NEW w \in Workers, Start(w) \/ Succeed(w) \/ Fail(w) PROVE QueueInv'
    BY <1>3, StartKeeps, SucceedKeeps, FailKeeps
<1>4. CASE StopProcessing
    BY <1>4, StopProcessingKeeps
<1>5. CASE StopQueue
    BY <1>5, StopQueueKeeps
<1>6. CASE Done
    BY <1>1, <1>6 DEF Done
<1> QED
    BY <1>1, <1>2, <1>3, <1>4, <1>5, <1>6 DEF Next

LEMMA AlwaysInv == Spec => []QueueInv
BY Begins, StepKeeps, PTL DEF Spec
-----------------------------------------------------------------------------
(* One place.                                                               *)

LEMMA AtMostOne ==
    ASSUME NEW S, \A a, b \in S : a = b
    PROVE  Cardinality(S) = IF S = {} THEN 0 ELSE 1
<1>1. CASE S = {}
    BY <1>1, FS_EmptySet
<1>2. CASE S # {}
  <2>1. PICK a \in S : S = {a}
    BY <1>2
  <2> QED
    BY <1>2, <2>1, FS_Singleton
<1> QED
    BY <1>1, <1>2

LEMMA OnePlace == QueueInv => SinglePlace
<1> SUFFICES ASSUME QueueInv, NEW i \in Items
             PROVE  Places(i) = IF caller[i] = "in" THEN 1 ELSE 0
    BY DEF SinglePlace
<1>1. i # NoItem
    BY QueueAssumption
<1>2. Cardinality(InQueue(i)) = IF i \in Elements(queue) THEN 1 ELSE 0
  <2>1. \A k, l \in InQueue(i) : k = l
    BY DEF InQueue, QueueInv, Apart, NoRepeat
  <2>2. InQueue(i) = {} <=> i \notin Elements(queue)
    BY DEF InQueue, Elements
  <2> QED
    BY <2>1, <2>2, AtMostOne
<1>3. Cardinality(HeldBy(i)) = IF Held(i) THEN 1 ELSE 0
  <2>1. \A v, w \in HeldBy(i) : v = w
    BY <1>1 DEF HeldBy, QueueInv, Apart
  <2>2. HeldBy(i) = {} <=> ~Held(i)
    BY DEF HeldBy, Held
  <2> QED
    BY <2>1, <2>2, AtMostOne
<1>4. caller[i] = "in" <=> i \in Elements(queue) \/ Held(i) \/ i \in timers \/ settled[i] # "no"
    BY DEF QueueInv, Somewhere
<1>5. /\ i \in Elements(queue) => ~Held(i) /\ i \notin timers /\ settled[i] = "no"
      /\ Held(i) => i \notin timers /\ settled[i] = "no"
      /\ i \in timers => settled[i] = "no"
    BY <1>1 DEF QueueInv, Apart, Held
<1> QED
    BY <1>2, <1>3, <1>4, <1>5 DEF Places
-----------------------------------------------------------------------------
(* The statistics.                                                          *)

Statistics == [enqueued: Nat, processed: Nat, retried: Nat, dropped: Nat, inFlight: Nat]
Stats == metrics \in Statistics /\ Accounting
Ended(f) == {i \in Items : settled[i] = f}

LEMMA AddOne ==
    ASSUME NEW S, IsFiniteSet(S), NEW T \in SUBSET S, NEW x, x \notin T
    PROVE  Cardinality(T \cup {x}) = Cardinality(T) + 1 /\ Cardinality(T) \in Nat
<1>1. IsFiniteSet(T)
    BY FS_Subset
<1> QED
    BY <1>1, FS_AddElement, FS_CardinalityType

LEMMA RemoveOne ==
    ASSUME NEW S, IsFiniteSet(S), NEW T \in SUBSET S, NEW x \in T
    PROVE  /\ Cardinality(T \ {x}) = Cardinality(T) - 1
           /\ Cardinality(T) \in Nat /\ Cardinality(T \ {x}) \in Nat
<1>1. IsFiniteSet(T)
    BY FS_Subset
<1>2. /\ IsFiniteSet(T \ {x}) /\ Cardinality(T \ {x}) = Cardinality(T) - 1
    BY <1>1, FS_RemoveElement
<1>3. Cardinality(T) \in Nat /\ Cardinality(T \ {x}) \in Nat
    BY <1>1, <1>2, FS_CardinalityType
<1> QED
    BY <1>2, <1>3

\* A step that accepts, settles, starts and ends nothing.
LEMMA SameStats ==
    ASSUME Stats, metrics' = metrics,
           Accepted' = Accepted, Ended("processed")' = Ended("processed"),
           Ended("dropped")' = Ended("dropped"), Busy' = Busy
    PROVE  Stats'
BY DEF Stats, Accounting, Statistics, Ended

LEMMA PushCounts ==
    ASSUME QueueInv, Stats, NEW i \in Items, caller[i] \in {"new", "granted"}, ~stopped, Push(i)
    PROVE  Stats'
<1>1. caller' = [caller EXCEPT ![i] = "in"] /\ settled' = settled /\ metrics' = Count("enqueued", 1)
    BY DEF Push
<1>2. metrics' = [enqueued |-> metrics.enqueued + 1, processed |-> metrics.processed,
                  retried |-> metrics.retried, dropped |-> metrics.dropped,
                  inFlight |-> metrics.inFlight]
    BY <1>1 DEF Count, Stats, Statistics
<1>3. Accepted' = Accepted \cup {i} /\ i \notin Accepted /\ Accepted \in SUBSET Items
    BY <1>1 DEF Accepted, QueueInv, Types
<1>4. Cardinality(Accepted') = Cardinality(Accepted) + 1
    BY <1>3, AddOne, QueueAssumption
<1>5. Busy' = Busy
  <2>1. Joins(i)
    BY PushKeeps
  <2>2. CASE JoinsQueue(i)
    BY <2>2 DEF JoinsQueue, Busy
  <2>3. ASSUME NEW w \in Workers, JoinsWorker(i, w) PROVE Busy' = Busy
    BY <2>3 DEF JoinsWorker, Busy, QueueInv, Types
  <2> QED
    BY <2>1, <2>2, <2>3 DEF Joins
<1>6. Ended("processed")' = Ended("processed") /\ Ended("dropped")' = Ended("dropped")
    BY <1>1 DEF Ended
<1>7. metrics' \in Statistics
    BY <1>2 DEF Stats, Statistics
<1> QED
    BY <1>2, <1>4, <1>5, <1>6, <1>7 DEF Stats, Accounting, Ended

LEMMA StartCounts ==
    ASSUME QueueInv, Stats, NEW w \in Workers, Start(w)
    PROVE  Stats'
<1>1. /\ worker[w] = "resumed"
      /\ worker' = [worker EXCEPT ![w] = IF job[w] = NoItem THEN "ended" ELSE "busy"]
      /\ UNCHANGED <<caller, settled>>
    BY DEF Start
<1>2. Accepted' = Accepted
    BY <1>1 DEF Accepted
<1>3. Ended("processed")' = Ended("processed") /\ Ended("dropped")' = Ended("dropped")
    BY <1>1 DEF Ended
<1>4. CASE job[w] = NoItem
  <2>1. metrics' = metrics /\ worker' = [worker EXCEPT ![w] = "ended"]
    BY <1>1, <1>4 DEF Start
  <2>2. Busy' = Busy
    BY <1>1, <2>1 DEF Busy, QueueInv, Types
  <2> QED
    BY <1>2, <1>3, <2>1, <2>2, SameStats
<1>5. CASE job[w] # NoItem
  <2>1. metrics' = Count("inFlight", 1) /\ worker' = [worker EXCEPT ![w] = "busy"]
    BY <1>1, <1>5 DEF Start
  <2>2. metrics' = [enqueued |-> metrics.enqueued, processed |-> metrics.processed,
                    retried |-> metrics.retried, dropped |-> metrics.dropped,
                    inFlight |-> metrics.inFlight + 1]
    BY <2>1 DEF Count, Stats, Statistics
  <2>3. Busy' = Busy \cup {w} /\ w \notin Busy /\ Busy \in SUBSET Workers
    BY <1>1, <2>1 DEF Busy, QueueInv, Types
  <2>4. Cardinality(Busy') = Cardinality(Busy) + 1
    BY <2>3, AddOne, QueueAssumption
  <2>5. metrics' \in Statistics
    BY <2>2 DEF Stats, Statistics
  <2> QED
    BY <1>2, <1>3, <2>2, <2>4, <2>5 DEF Stats, Accounting, Ended
<1> QED
    BY <1>4, <1>5

\* The worker that is done with its item is not busy any more.
LEMMA LeavesBusy ==
    ASSUME QueueInv, NEW w \in Workers, worker[w] = "busy", Continues(w)
    PROVE  /\ Busy' = Busy \ {w} /\ w \in Busy /\ Busy \in SUBSET Workers
           /\ Cardinality(Busy') = Cardinality(Busy) - 1
           /\ Cardinality(Busy) \in Nat /\ Cardinality(Busy') \in Nat
<1>1. \E l \in {"ended", "resumed", "waiting"} : worker' = [worker EXCEPT ![w] = l]
    BY DEF Continues
<1>2. Busy' = Busy \ {w} /\ w \in Busy /\ Busy \in SUBSET Workers
    BY <1>1 DEF Busy, QueueInv, Types
<1>3. Cardinality(Busy \ {w}) = Cardinality(Busy) - 1
      /\ Cardinality(Busy) \in Nat /\ Cardinality(Busy \ {w}) \in Nat
    BY <1>2, RemoveOne, QueueAssumption
<1> QED
    BY <1>2, <1>3

LEMMA SucceedCounts ==
    ASSUME QueueInv, Stats, NEW w \in Workers, Succeed(w)
    PROVE  Stats'
<1>1. /\ worker[w] = "busy" /\ settled' = [settled EXCEPT ![job[w]] = "processed"]
      /\ metrics' = [metrics EXCEPT !.processed = @ + 1, !.inFlight = @ - 1]
    BY DEF Succeed
<1>2. Continues(w) /\ Grants
    BY SucceedKeeps
<1>3. metrics' = [enqueued |-> metrics.enqueued, processed |-> metrics.processed + 1,
                  retried |-> metrics.retried, dropped |-> metrics.dropped,
                  inFlight |-> metrics.inFlight - 1]
    BY <1>1 DEF Stats, Statistics
<1>4. job[w] \in Items /\ settled[job[w]] = "no"
    BY <1>1 DEF QueueInv, Types, Apart
<1>5. /\ Ended("processed")' = Ended("processed") \cup {job[w]}
      /\ job[w] \notin Ended("processed") /\ Ended("processed") \in SUBSET Items
      /\ Ended("dropped")' = Ended("dropped")
    BY <1>1, <1>4 DEF Ended, QueueInv, Types
<1>6. Cardinality(Ended("processed")') = Cardinality(Ended("processed")) + 1
    BY <1>5, AddOne, QueueAssumption
<1>7. Cardinality(Busy') = Cardinality(Busy) - 1 /\ Cardinality(Busy') \in Nat
    BY <1>1, <1>2, LeavesBusy
<1>8. Accepted' = Accepted
    BY <1>2, GrantKeeps DEF Accepted
<1>9. metrics.inFlight = Cardinality(Busy)
    BY DEF Stats, Accounting
<1>10. metrics' \in Statistics
    BY <1>3, <1>7, <1>9 DEF Stats, Statistics
<1> QED
    BY <1>3, <1>5, <1>6, <1>7, <1>8, <1>10 DEF Stats, Accounting, Ended

LEMMA FailCounts ==
    ASSUME QueueInv, Stats, NEW w \in Workers, Fail(w)
    PROVE  Stats'
<1>1. worker[w] = "busy" /\ caller' = caller
    BY DEF Fail
<1>2. Continues(w)
    BY FailKeeps
<1>3. job[w] \in Items /\ settled[job[w]] = "no"
    BY <1>1 DEF QueueInv, Types, Apart
<1>4. /\ Cardinality(Busy') = Cardinality(Busy) - 1 /\ Cardinality(Busy') \in Nat
      /\ metrics.inFlight = Cardinality(Busy)
    BY <1>1, <1>2, LeavesBusy DEF Stats, Accounting
<1>5. Accepted' = Accepted
    BY <1>1 DEF Accepted
<1>6. CASE Discard(job[w])
  <2>1. /\ settled' = [settled EXCEPT ![job[w]] = "dropped"]
        /\ metrics' = [enqueued |-> metrics.enqueued, processed |-> metrics.processed,
                       retried |-> metrics.retried, dropped |-> metrics.dropped + 1,
                       inFlight |-> metrics.inFlight - 1]
    BY <1>6 DEF Discard, Stats, Statistics
  <2>2. /\ Ended("dropped")' = Ended("dropped") \cup {job[w]}
        /\ job[w] \notin Ended("dropped") /\ Ended("dropped") \in SUBSET Items
        /\ Ended("processed")' = Ended("processed")
    BY <1>3, <2>1 DEF Ended, QueueInv, Types
  <2>3. Cardinality(Ended("dropped")') = Cardinality(Ended("dropped")) + 1
    BY <2>2, AddOne, QueueAssumption
  <2>4. metrics' \in Statistics
    BY <1>4, <2>1 DEF Stats, Statistics
  <2> QED
    BY <1>4, <1>5, <2>1, <2>2, <2>3, <2>4 DEF Stats, Accounting, Ended
<1>7. CASE Reschedule(job[w]) /\ settled' = settled
  <2>1. metrics' = [enqueued |-> metrics.enqueued, processed |-> metrics.processed,
                    retried |-> metrics.retried + 1, dropped |-> metrics.dropped,
                    inFlight |-> metrics.inFlight - 1]
    BY <1>7 DEF Reschedule, Stats, Statistics
  <2>2. Ended("processed")' = Ended("processed") /\ Ended("dropped")' = Ended("dropped")
    BY <1>7 DEF Ended
  <2>3. metrics' \in Statistics
    BY <1>4, <2>1 DEF Stats, Statistics
  <2> QED
    BY <1>4, <1>5, <2>1, <2>2, <2>3 DEF Stats, Accounting, Ended
<1> QED
    BY <1>6, <1>7 DEF Fail

LEMMA CountsStart == Init => Stats
<1> SUFFICES ASSUME Init PROVE Stats
    OBVIOUS
<1>1. Accepted = {} /\ Ended("processed") = {} /\ Ended("dropped") = {} /\ Busy = {}
    BY DEF Init, Accepted, Ended, Busy
<1>2. Cardinality({}) = 0
    BY FS_EmptySet
<1> QED
    BY <1>1, <1>2 DEF Init, Stats, Statistics, Accounting, Ended

LEMMA StepCounts == QueueInv /\ Stats /\ [Next]_vars => Stats'
<1> SUFFICES ASSUME QueueInv, Stats, [Next]_vars PROVE Stats'
    OBVIOUS
<1>1. ASSUME UNCHANGED <<settled, worker, metrics>>,
             \A i \in Items : caller'[i] = "in" <=> caller[i] = "in"
      PROVE  Stats'
  <2>1. Accepted' = Accepted /\ Busy' = Busy
    BY <1>1 DEF Accepted, Busy
  <2>2. Ended("processed")' = Ended("processed") /\ Ended("dropped")' = Ended("dropped")
    BY <1>1 DEF Ended
  <2> QED
    BY <1>1, <2>1, <2>2, SameStats
<1>2. CASE UNCHANGED vars
    BY <1>1, <1>2 DEF vars, work
<1>3. ASSUME NEW i \in Items, Publish(i) PROVE Stats'
    BY <1>1, <1>3 DEF Publish, work, QueueInv, Types
<1>4. ASSUME NEW i \in Items, Enqueue(i) PROVE Stats'
  <2>1. CASE ~stopped /\ ~Full
    BY <1>4, <2>1, PushCounts DEF Enqueue
  <2>2. CASE stopped \/ Full
    BY <1>1, <1>4, <2>2 DEF Enqueue, work, QueueInv, Types
  <2> QED
    BY <2>1, <2>2
<1>5. ASSUME NEW i \in Items, Granted(i) PROVE Stats'
    BY <1>5, PushCounts DEF Granted, QueueInv, Stopping
<1>6. ASSUME NEW i \in Items, Closed(i) PROVE Stats'
  <2>1. \A j \in Items : caller'[j] = "in" <=> caller[j] = "in"
    BY <1>6, SpaceIsGranted, GrantKeeps DEF Closed
  <2> QED
    BY <1>1, <1>6, <2>1 DEF Closed, work
<1>7. ASSUME NEW i \in Items, Retry(i) PROVE Stats'
  <2>1. Joins(i) /\ UNCHANGED <<caller, settled, metrics>>
    BY <1>7, RetryKeeps DEF Retry
  <2>2. CASE JoinsQueue(i)
    BY <1>1, <2>1, <2>2 DEF JoinsQueue
  <2>3. ASSUME NEW w \in Workers, JoinsWorker(i, w) PROVE Stats'
    <3>1. Busy' = Busy
        BY <2>3 DEF JoinsWorker, Busy, QueueInv, Types
    <3>2. Accepted' = Accepted /\ Ended("processed")' = Ended("processed")
          /\ Ended("dropped")' = Ended("dropped")
        BY <2>1 DEF Accepted, Ended
    <3> QED
        BY <2>1, <3>1, <3>2, SameStats
  <2> QED
    BY <2>1, <2>2, <2>3 DEF Joins
<1>8. ASSUME NEW w \in Workers, Start(w) \/ Succeed(w) \/ Fail(w) PROVE Stats'
    BY <1>8, StartCounts, SucceedCounts, FailCounts
<1>9. CASE StopProcessing
  <2>1. \A i \in Items : caller'[i] = "in" <=> caller[i] = "in"
    BY <1>9, RejectKeeps DEF StopProcessing
  <2>2. Accepted' = Accepted
    BY <2>1 DEF Accepted
  <2>3. Busy' = Busy
    BY <1>9 DEF StopProcessing, Busy
  <2>4. metrics' = metrics /\ Ended("processed")' = Ended("processed")
        /\ Ended("dropped")' = Ended("dropped")
    BY <1>9 DEF StopProcessing, Ended
  <2> QED
    BY <2>2, <2>3, <2>4, SameStats
<1>10. CASE StopQueue
  <2>1. \A i \in Items : caller'[i] = "in" <=> caller[i] = "in"
    BY <1>10, RejectKeeps DEF StopQueue
  <2>2. Accepted' = Accepted
    BY <2>1 DEF Accepted
  <2>3. metrics' = metrics /\ Busy' = Busy
    BY <1>10 DEF StopQueue, Busy, work
  <2>4. Ended("processed")' = Ended("processed") /\ Ended("dropped")' = Ended("dropped")
    BY <1>10 DEF StopQueue, Ended
  <2> QED
    BY <2>2, <2>3, <2>4, SameStats
<1>11. CASE Done
    BY <1>2, <1>11 DEF Done
<1> QED
    BY <1>2, <1>3, <1>4, <1>5, <1>6, <1>7, <1>8, <1>9, <1>10, <1>11 DEF Next
-----------------------------------------------------------------------------
(* The refinement: what each step is for Delivery.                          *)

\* A step that leaves the fates, the calls and the stop alone, and lets no caller
\* in or out, is no step of Delivery.
LEMMA Stutters ==
    ASSUME UNCHANGED <<settled, calls, stopped>>,
           \A i \in Items : /\ caller'[i] = "in" <=> caller[i] = "in"
                            /\ caller'[i] = "refused" <=> caller[i] = "refused",
           caller \in [Items -> Callers], caller' \in [Items -> Callers]
    PROVE  UNCHANGED D!vars
<1>1. \A i \in Items : Status(i)' = Status(i)
    BY DEF Status, Callers
<1>2. [i \in Items |-> Status(i)]' = [i \in Items |-> Status(i)]
    BY <1>1
<1> QED
    BY <1>2 DEF D!vars

\* The status of an item whose caller and fate stay, stays.
LEMMA StatusStays ==
    ASSUME NEW i \in Items, caller'[i] = caller[i], settled'[i] = settled[i]
    PROVE  Status(i)' = Status(i)
BY Zenon DEF Status

LEMMA StatusOfRefused ==
    ASSUME NEW i \in Items, caller'[i] = "refused"
    PROVE  Status(i)' = "refused"
BY DEF Status

LEMMA PushAccepts ==
    ASSUME QueueInv, NEW i \in Items, caller[i] \in {"new", "granted"}, Push(i)
    PROVE  D!Accept(i)
<1>1. caller' = [caller EXCEPT ![i] = "in"] /\ UNCHANGED <<settled, calls, stopped>>
    BY DEF Push
<1>2. settled[i] = "no"
    BY DEF QueueInv, Somewhere
<1>3. ASSUME NEW j \in Items
      PROVE  Status(j)' = IF j = i THEN "accepted" ELSE Status(j)
  <2>1. CASE j = i
    <3>1. caller'[j] = "in" /\ settled'[j] = "no"
        BY <1>1, <1>2, <2>1 DEF QueueInv, Types
    <3>2. Status(j)' = "accepted"
        BY <3>1 DEF Status
    <3> QED
        BY <2>1, <3>2
  <2>2. CASE j # i
    <3>1. caller'[j] = caller[j] /\ settled'[j] = settled[j]
        BY <1>1, <2>2 DEF QueueInv, Types
    <3> QED
        BY <2>2, <3>1, StatusStays
  <2> QED
    BY <2>1, <2>2
<1>4. Status(i) = "outside"
    BY DEF Status
<1>5. [j \in Items |-> Status(j)]' = [[j \in Items |-> Status(j)] EXCEPT ![i] = "accepted"]
    BY <1>3
<1> QED
    BY <1>1, <1>4, <1>5 DEF D!Accept, D!Becomes

LEMMA EnqueueDelivers ==
    ASSUME QueueInv, NEW i \in Items, Enqueue(i)
    PROVE  D!Accept(i) \/ D!Refuse \/ UNCHANGED D!vars
<1>1. caller[i] = "new" /\ caller \in [Items -> Callers]
    BY DEF Enqueue, QueueInv, Types
<1>2. CASE stopped
  <2>1. caller' = [caller EXCEPT ![i] = "refused"] /\ UNCHANGED <<settled, calls, stopped>>
    BY <1>2 DEF Enqueue
  <2>2. ASSUME NEW j \in Items
        PROVE  Status(j)' = IF j = i THEN "refused" ELSE Status(j)
    <3>1. caller'[i] = "refused" /\ (j # i => caller'[j] = caller[j]) /\ settled'[j] = settled[j]
        BY <1>1, <2>1
    <3> QED
        BY <3>1, StatusStays, StatusOfRefused
  <2>3. Status(i) = "outside"
    BY <1>1 DEF Status
  <2>4. [j \in Items |-> Status(j)]' = [j \in Items |-> IF j \in {i} THEN "refused"
                                                       ELSE [k \in Items |-> Status(k)][j]]
    BY <2>2
  <2>5. {i} \in SUBSET {j \in Items : [k \in Items |-> Status(k)][j] = "outside"}
    BY <2>3
  <2> QED
    BY <2>1, <2>4, <2>5 DEF D!Refuse
<1>3. CASE ~stopped /\ Full
  <2>1. caller' = [caller EXCEPT ![i] = "waiting"] /\ UNCHANGED <<settled, calls, stopped>>
    BY <1>3 DEF Enqueue
  <2>2. caller' \in [Items -> Callers] /\ \A j \in Items :
            /\ caller'[j] = "in" <=> caller[j] = "in"
            /\ caller'[j] = "refused" <=> caller[j] = "refused"
    BY <1>1, <2>1 DEF Callers
  <2> QED
    BY <1>1, <2>1, <2>2, Stutters
<1>4. CASE ~stopped /\ ~Full
    BY <1>1, <1>4, PushAccepts DEF Enqueue
<1> QED
    BY <1>2, <1>3, <1>4

LEMMA StartTries ==
    ASSUME QueueInv, NEW w \in Workers, Start(w)
    PROVE  (\E i \in Items : D!Try(i)) \/ UNCHANGED D!vars
<1>1. /\ UNCHANGED <<caller, settled, stopped>> /\ worker[w] = "resumed"
      /\ calls' = [i \in Items |-> IF i = job[w] THEN calls[i] + 1 ELSE calls[i]]
      /\ caller \in [Items -> Callers] /\ calls \in [Items -> Nat]
      /\ job[w] \in Items \cup {NoItem}
    BY DEF Start, QueueInv, Types
<1>2. [i \in Items |-> Status(i)]' = [i \in Items |-> Status(i)]
    BY <1>1 DEF Status
<1>3. CASE job[w] = NoItem
  <2>1. calls' = calls
    BY <1>1, <1>3, QueueAssumption
  <2> QED
    BY <1>1, <1>2, <2>1 DEF D!vars
<1>4. CASE job[w] \in Items
  <2>0. calls' = [calls EXCEPT ![job[w]] = @ + 1]
    BY <1>1, <1>4
  <2>1. calls[job[w]] = attempt[job[w]] /\ attempt[job[w]] < MaxAttempts
    <3>1. attempt[job[w]] \in Nat /\ job[w] # NoItem
        BY <1>4, QueueAssumption DEF QueueInv, Types
    <3> QED
        BY <1>1, <3>1 DEF QueueInv, Attempts
  <2>2. caller[job[w]] = "in" /\ settled[job[w]] = "no"
    BY <1>4, QueueAssumption DEF QueueInv, Somewhere, Apart, Held
  <2>3. [i \in Items |-> Status(i)][job[w]] = "accepted"
    BY <1>4, <2>2 DEF Status
  <2> QED
    BY <1>1, <1>2, <1>4, <2>0, <2>1, <2>3 DEF D!Try
<1> QED
    BY <1>1, <1>3, <1>4

\* The item of a worker that is done with it for good.
LEMMA SettlesOne ==
    ASSUME QueueInv, NEW w \in Workers, worker[w] = "busy", NEW j \in Items, j = job[w],
           NEW f \in {"processed", "dropped"}, settled' = [settled EXCEPT ![j] = f],
           \A i \in Items : /\ caller'[i] = "in" <=> caller[i] = "in"
                            /\ caller'[i] = "refused" <=> caller[i] = "refused",
           caller' \in [Items -> Callers]
    PROVE  /\ [i \in Items |-> Status(i)][j] = "accepted"
           /\ [i \in Items |-> Status(i)]' =
                  [[i \in Items |-> Status(i)] EXCEPT
                      ![j] = IF f = "processed" THEN "delivered" ELSE "dropped"]
           /\ calls[j] = attempt[j] + 1 /\ attempt[j] \in Nat /\ attempt[j] < MaxAttempts
<1>1. /\ caller[j] = "in" /\ settled[j] = "no" /\ j # NoItem
      /\ caller \in [Items -> Callers] /\ settled \in [Items -> Fates]
    BY QueueAssumption DEF QueueInv, Types, Somewhere, Apart, Held
<1>2. calls[j] = attempt[j] + 1 /\ attempt[j] \in Nat /\ attempt[j] < MaxAttempts
    BY <1>1 DEF QueueInv, Types, Attempts
<1>3. Status(j)' = IF f = "processed" THEN "delivered" ELSE "dropped"
  <2>1. caller'[j] = "in" /\ settled'[j] = f
    BY <1>1
  <2> QED
    BY <2>1 DEF Status
<1>4. Status(j) = "accepted"
    BY <1>1 DEF Status
<1>5. ASSUME NEW i \in Items, i # j PROVE Status(i)' = Status(i)
  <2>1. settled'[i] = settled[i] /\ caller'[i] \in Callers /\ caller[i] \in Callers
    BY <1>1, <1>5
  <2>2. CASE caller[i] = "in"
    BY <2>1, <2>2, StatusStays
  <2>3. CASE caller[i] = "refused"
    BY <2>1, <2>3, StatusStays
  <2>4. CASE caller[i] \notin {"in", "refused"}
    <3>1. caller[i] \in {"none", "new", "waiting", "granted"}
          /\ caller'[i] \in {"none", "new", "waiting", "granted"}
        BY <2>1, <2>4 DEF Callers
    <3> QED
        BY <3>1 DEF Status
  <2> QED
    BY <2>2, <2>3, <2>4
<1>6. [i \in Items |-> Status(i)]' =
          [[i \in Items |-> Status(i)] EXCEPT
              ![j] = IF f = "processed" THEN "delivered" ELSE "dropped"]
    BY <1>3, <1>5
<1> QED
    BY <1>2, <1>4, <1>6

LEMMA SucceedDelivers ==
    ASSUME QueueInv, NEW w \in Workers, Succeed(w)
    PROVE  \E i \in Items : D!Deliver(i)
<1>1. /\ worker[w] = "busy" /\ settled' = [settled EXCEPT ![job[w]] = "processed"]
      /\ UNCHANGED <<calls, stopped>> /\ Grants
    BY SucceedKeeps DEF Succeed
<1>2. caller' \in [Items -> Callers] /\ \A i \in Items :
          /\ caller'[i] = "in" <=> caller[i] = "in"
          /\ caller'[i] = "refused" <=> caller[i] = "refused"
    BY <1>1, GrantKeeps
<1>3. PICK j \in Items : j = job[w]
    BY <1>1 DEF QueueInv, Types
<1>4. /\ [i \in Items |-> Status(i)][j] = "accepted"
      /\ [i \in Items |-> Status(i)]' = [[i \in Items |-> Status(i)] EXCEPT ![j] = "delivered"]
      /\ calls[j] = attempt[j] + 1 /\ attempt[j] \in Nat
    BY <1>1, <1>2, <1>3, SettlesOne
<1>5. calls[j] > 0
    BY <1>4
<1> QED
    BY <1>1, <1>4, <1>5 DEF D!Deliver, D!Becomes

LEMMA FailDrops ==
    ASSUME QueueInv, NEW w \in Workers, Fail(w)
    PROVE  (\E i \in Items : D!Drop(i)) \/ UNCHANGED D!vars
<1>1. worker[w] = "busy" /\ UNCHANGED <<caller, calls, stopped>> /\ caller \in [Items -> Callers]
    BY DEF Fail, QueueInv, Types
<1>2. CASE attempt[job[w]] + 1 >= MaxAttempts
  <2>1. PICK j \in Items : j = job[w]
    BY <1>1 DEF QueueInv, Types
  <2>2. settled' = [settled EXCEPT ![j] = "dropped"]
    BY <1>2, <2>1 DEF Fail, Discard
  <2>3. /\ [i \in Items |-> Status(i)][j] = "accepted"
        /\ [i \in Items |-> Status(i)]' = [[i \in Items |-> Status(i)] EXCEPT ![j] = "dropped"]
        /\ calls[j] = attempt[j] + 1 /\ attempt[j] \in Nat /\ attempt[j] < MaxAttempts
    BY <1>1, <2>1, <2>2, SettlesOne
  <2>4. calls[j] = MaxAttempts
    BY <1>2, <2>1, <2>3, QueueAssumption
  <2> QED
    BY <1>1, <2>3, <2>4 DEF D!Drop, D!Becomes
<1>3. CASE ~(attempt[job[w]] + 1 >= MaxAttempts)
    BY <1>1, <1>3, Stutters DEF Fail
<1> QED
    BY <1>2, <1>3

LEMMA StopProcessingRefuses ==
    ASSUME QueueInv, StopProcessing
    PROVE  D!Refuse
<1>1. /\ caller' = [i \in Items |-> IF caller[i] = "waiting" THEN "refused" ELSE caller[i]]
      /\ UNCHANGED <<settled, calls, stopped>>
    BY DEF StopProcessing, RejectCallers
<1> DEFINE S == {i \in Items : caller[i] = "waiting"}
<1>2. S \in SUBSET {i \in Items : [k \in Items |-> Status(k)][i] = "outside"}
    BY DEF Status
<1>3. ASSUME NEW i \in Items
      PROVE  Status(i)' = IF i \in S THEN "refused" ELSE Status(i)
  <2>1. settled'[i] = settled[i] /\ caller'[i] = IF i \in S THEN "refused" ELSE caller[i]
    BY <1>1
  <2> QED
    BY <2>1, StatusStays, StatusOfRefused
<1>4. [i \in Items |-> Status(i)]' = [i \in Items |-> IF i \in S THEN "refused"
                                                     ELSE [k \in Items |-> Status(k)][i]]
    BY <1>3
<1> QED
    BY <1>1, <1>2, <1>4 DEF D!Refuse

LEMMA StopQueueShutsDown ==
    ASSUME QueueInv, StopQueue
    PROVE  D!Shutdown
<1>1. /\ caller' = [i \in Items |-> IF caller[i] = "waiting" THEN "refused" ELSE caller[i]]
      /\ settled' = [i \in Items |-> IF caller[i] = "in" /\ settled[i] = "no"
                                     THEN "lost" ELSE settled[i]]
      /\ calls' = calls /\ ~stopped /\ stopped' = TRUE
      /\ caller \in [Items -> Callers] /\ settled \in [Items -> Fates]
    BY DEF StopQueue, RejectCallers, QueueInv, Types
<1> DEFINE S == {i \in Items : caller[i] = "waiting"}
<1>2. S \in SUBSET {i \in Items : [k \in Items |-> Status(k)][i] = "outside"}
    BY DEF Status
<1>3. \A i \in Items : i \in S => Status(i)' = "refused"
    BY <1>1 DEF Status
<1>4. \A i \in Items : Status(i) = "accepted" <=> caller[i] = "in" /\ settled[i] = "no"
    BY <1>1 DEF Status, Callers, Fates
<1>5. \A i \in Items : Status(i) = "accepted" => i \notin S /\ Status(i)' = "lost"
    BY <1>1, <1>4 DEF Status
<1>6. \A i \in Items : i \notin S /\ Status(i) # "accepted" => Status(i)' = Status(i)
    BY <1>1, <1>4 DEF Status
<1>7. [i \in Items |-> Status(i)]' =
          [i \in Items |-> CASE i \in S -> "refused"
                             [] [k \in Items |-> Status(k)][i] = "accepted" -> "lost"
                             [] OTHER -> [k \in Items |-> Status(k)][i]]
    BY <1>3, <1>5, <1>6
<1> QED
    BY <1>1, <1>2, <1>7 DEF D!Shutdown

LEMMA StepDelivers == QueueInv /\ [Next]_vars => [D!Next]_(D!vars)
<1> SUFFICES ASSUME QueueInv, [Next]_vars PROVE [D!Next]_(D!vars)
    OBVIOUS
<1>0. caller \in [Items -> Callers]
    BY DEF QueueInv, Types
<1>1. CASE UNCHANGED vars
    BY <1>0, <1>1, Stutters DEF vars
<1>2. ASSUME NEW i \in Items, Publish(i) PROVE UNCHANGED D!vars
    BY <1>0, <1>2, Stutters DEF Publish, Callers
<1>3. ASSUME NEW i \in Items, Enqueue(i) PROVE [D!Next]_(D!vars)
    BY <1>3, EnqueueDelivers DEF D!Next
<1>4. ASSUME NEW i \in Items, Granted(i) PROVE [D!Next]_(D!vars)
    BY <1>4, PushAccepts DEF D!Next, Granted
<1>5. ASSUME NEW i \in Items, Closed(i) PROVE UNCHANGED D!vars
  <2>1. caller' \in [Items -> Callers] /\ \A j \in Items :
            /\ caller'[j] = "in" <=> caller[j] = "in"
            /\ caller'[j] = "refused" <=> caller[j] = "refused"
    BY <1>5, SpaceIsGranted, GrantKeeps DEF Closed
  <2> QED
    BY <1>0, <1>5, <2>1, Stutters DEF Closed
<1>6. ASSUME NEW i \in Items, Retry(i) PROVE UNCHANGED D!vars
    BY <1>0, <1>6, Stutters DEF Retry
<1>7. ASSUME NEW w \in Workers, Start(w) \/ Succeed(w) \/ Fail(w) PROVE [D!Next]_(D!vars)
    BY <1>7, StartTries, SucceedDelivers, FailDrops DEF D!Next
<1>8. CASE StopProcessing
    BY <1>8, StopProcessingRefuses DEF D!Next
<1>9. CASE StopQueue
    BY <1>9, StopQueueShutsDown DEF D!Next
<1>10. CASE Done
    BY <1>1, <1>10 DEF Done
<1> QED
    BY <1>1, <1>2, <1>3, <1>4, <1>5, <1>6, <1>7, <1>8, <1>9, <1>10 DEF Next

LEMMA BeginsOutside == Init => D!Init
<1> SUFFICES ASSUME Init PROVE D!Init
    OBVIOUS
<1>1. [i \in Items |-> Status(i)] = [i \in Items |-> "outside"]
    BY DEF Init, Status
<1> QED
    BY <1>1 DEF Init, D!Init
-----------------------------------------------------------------------------
(* The theorems.                                                            *)

\* The variables of the queue have their types, whatever the interleaving: a busy
\* worker of process() has an item, one that waits or has ended has none.
THEOREM QueueTypes == Spec => []TypeOK
<1>1. QueueInv /\ Stats => TypeOK
  <2> SUFFICES ASSUME QueueInv, Stats PROVE TypeOK
    OBVIOUS
  <2>1. \A w \in Workers : worker[w] = "busy" => job[w] \in Items
    BY DEF QueueInv, Types
  <2> QED
    BY <2>1 DEF QueueInv, Types, Stats, Statistics, TypeOK
<1> QED
    BY <1>1, Begins, StepKeeps, CountsStart, StepCounts, PTL DEF Spec

\* Through retries, hand-overs to waiting workers and the shutdown, an item that
\* enqueue accepted is in exactly one place: once in _queue, with one worker, behind
\* one timer of _timers, or settled.
THEOREM ItemsInOnePlace == Spec => []SinglePlace
BY AlwaysInv, OnePlace, PTL

\* No push, retry or dequeue loses a wake-up: while an item is in _queue, no worker
\* is in _waiting.
THEOREM NobodySleeps == Spec => []NoIdleWorker
<1>1. QueueInv => NoIdleWorker
    BY DEF QueueInv
<1> QED
    BY <1>1, AlwaysInv, PTL

\* What getStats reports adds up: what is enqueued, processed, dropped and in flight
\* are the numbers of the items accepted, processed and dropped, and of the workers
\* that run a handler.
THEOREM StatisticsAddUp == Spec => []Accounting
<1>1. Stats => Accounting
    BY DEF Stats
<1> QED
    BY <1>1, Begins, StepKeeps, CountsStart, StepCounts, PTL DEF Spec

\* Once pipeline.stop has been called, no worker that has no item gets one: neither
\* _flushWaiting nor dequeue hands one over.
THEOREM NothingTakenAfterStop == Spec => StopTakesNothing
<1> DEFINE TakesNothing == \A w \in Workers : aborted /\ job[w] = NoItem => job'[w] = NoItem
<1>1. QueueInv /\ [Next]_vars => [TakesNothing]_vars
  <2> SUFFICES ASSUME QueueInv, [Next]_vars, NEW w \in Workers, aborted, job[w] = NoItem
               PROVE  job'[w] = NoItem
    OBVIOUS
  <2>1. ASSUME NEW i \in Items, Joins(i) PROVE job'[w] = NoItem
    BY <2>1 DEF Joins, JoinsQueue, JoinsWorker
  <2>2. ASSUME NEW v \in Workers, Continues(v) PROVE job'[w] = NoItem
    BY <2>2 DEF Continues, QueueInv, Types
  <2>3. ASSUME UNCHANGED job PROVE job'[w] = NoItem
    BY <2>3
  <2>4. ASSUME NEW i \in Items, Publish(i) \/ Enqueue(i) \/ Granted(i) \/ Closed(i) \/ Retry(i)
        PROVE  job'[w] = NoItem
    <3>1. CASE Publish(i) \/ Closed(i)
        BY <2>3, <3>1 DEF Publish, Closed, work
    <3>2. CASE Enqueue(i)
      <4>1. CASE ~stopped /\ ~Full
        BY <2>1, <3>2, <4>1, PushKeeps DEF Enqueue
      <4>2. CASE stopped \/ Full
        BY <2>3, <3>2, <4>2 DEF Enqueue, work
      <4> QED
        BY <4>1, <4>2
    <3>3. CASE Granted(i)
        BY <2>1, <3>3, PushKeeps DEF Granted, QueueInv, Stopping
    <3>4. CASE Retry(i)
        BY <2>1, <3>4, RetryKeeps
    <3> QED
        BY <2>4, <3>1, <3>2, <3>3, <3>4
  <2>5. ASSUME NEW v \in Workers, Start(v) \/ Succeed(v) \/ Fail(v) PROVE job'[w] = NoItem
    BY <2>2, <2>3, <2>5, SucceedKeeps, FailKeeps DEF Start
  <2>6. CASE StopProcessing \/ StopQueue \/ Done \/ UNCHANGED vars
    BY <2>3, <2>6 DEF StopProcessing, StopQueue, Done, vars, work
  <2> QED
    BY <2>4, <2>5, <2>6 DEF Next
<1>2. Spec => [][TakesNothing]_vars
    BY <1>1, AlwaysInv, PTL DEF Spec
<1> QED
    BY <1>2 DEF StopTakesNothing

\* The queue implements Delivery: the handler is called with a message at most
\* MaxAttempts times; a message is delivered once, or dropped after exactly that
\* many failed calls; only queue.stop loses one, and a refused one is never handled.
THEOREM QueueDelivers == Spec => Implements
<1>1. Spec => D!Init /\ [][D!Next]_(D!vars)
    BY AlwaysInv, BeginsOutside, StepDelivers, PTL DEF Spec
<1> QED
    BY <1>1 DEF Implements, D!Spec
=============================================================================
