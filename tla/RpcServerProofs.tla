-------------------------- MODULE RpcServerProofs ---------------------------
(***************************************************************************)
(* Theorems about RpcServer: while no request leaves a semaphore it has    *)
(* not entered, no slot is lost or handed out twice, for any number of     *)
(* calls, slots and waiting places.                                        *)
(***************************************************************************)
EXTENDS RpcServer, TLAPS, FiniteSetTheorems

\* Every request gives back what it took, and no more.
Balanced == kind \in [Calls -> AllKinds \ {"forbidden", "nullish"}]

IInv == TypeOK /\ SlotsConserved /\ Balanced
-----------------------------------------------------------------------------
(* Queues without repetitions.                                              *)

\* A call that is appended to a queue it is not in.
LEMMA AppendedQueue ==
  ASSUME NEW S, NEW s \in Seq(S), NEW x \in S, IsInjective(s), x \notin ToSet(s)
  PROVE  /\ Append(s, x) \in Seq(S)
         /\ Len(Append(s, x)) = Len(s) + 1
         /\ ToSet(Append(s, x)) = ToSet(s) \cup {x}
         /\ IsInjective(Append(s, x))
  <1> DEFINE t == Append(s, x)
  <1>1. t \in Seq(S) /\ Len(t) = Len(s) + 1 /\ t[Len(s) + 1] = x
        /\ \A k \in 1..Len(s) : t[k] = s[k]
    OBVIOUS
  <1>2. DOMAIN t = 1..(Len(s) + 1) /\ DOMAIN s = 1..Len(s) /\ Len(s) \in Nat
    BY <1>1
  <1>3. \A k \in 1..(Len(s) + 1) : k \in 1..Len(s) \/ k = Len(s) + 1
    BY <1>2
  <1> HIDE DEF t
  <1>4. ToSet(t) = ToSet(s) \cup {x}
    <2>1. ToSet(t) \subseteq ToSet(s) \cup {x}
      BY <1>1, <1>2, <1>3 DEF ToSet
    <2>2. ToSet(s) \cup {x} \subseteq ToSet(t)
      BY <1>1, <1>2 DEF ToSet
    <2> QED BY <2>1, <2>2
  <1>5. IsInjective(t)
    BY <1>1, <1>2, <1>3 DEF ToSet, IsInjective
  <1> QED BY <1>1, <1>4, <1>5 DEF t

\* The first call leaves a queue.
LEMMA TailOfQueue ==
  ASSUME NEW S, NEW s \in Seq(S), s # <<>>, IsInjective(s)
  PROVE  /\ Tail(s) \in Seq(S)
         /\ Len(Tail(s)) = Len(s) - 1
         /\ Head(s) \in ToSet(s)
         /\ ToSet(Tail(s)) = ToSet(s) \ {Head(s)}
         /\ IsInjective(Tail(s))
  <1> DEFINE t == Tail(s)
  <1>1. t \in Seq(S) /\ Len(t) = Len(s) - 1 /\ Head(s) = s[1]
        /\ \A k \in 1..Len(t) : t[k] = s[k + 1]
    OBVIOUS
  <1>2. DOMAIN t = 1..(Len(s) - 1) /\ DOMAIN s = 1..Len(s) /\ Len(s) \in Nat /\ Len(s) >= 1
    BY <1>1
  <1>3. \A k \in 1..Len(s) : k = 1 \/ (k - 1 \in 1..(Len(s) - 1) /\ (k - 1) + 1 = k)
    BY <1>2
  <1>4. \A k \in 1..(Len(s) - 1) : k + 1 \in 1..Len(s) /\ k + 1 # 1
    BY <1>2
  <1> HIDE DEF t
  <1>5. Head(s) \in ToSet(s)
    BY <1>1, <1>2 DEF ToSet
  <1>6. ToSet(t) = ToSet(s) \ {Head(s)}
    <2>1. ToSet(t) \subseteq ToSet(s) \ {Head(s)}
      BY <1>1, <1>2, <1>4 DEF ToSet, IsInjective
    <2>2. ASSUME NEW x \in ToSet(s), x # Head(s) PROVE x \in ToSet(t)
      <3>1. PICK k \in 1..Len(s) : x = s[k]
        BY <1>2 DEF ToSet
      <3>2. k - 1 \in 1..(Len(s) - 1) /\ (k - 1) + 1 = k
        BY <1>1, <1>3, <2>2, <3>1
      <3>3. t[k - 1] = x
        BY <1>1, <3>1, <3>2
      <3> QED BY <1>2, <3>2, <3>3 DEF ToSet
    <2> QED BY <2>1, <2>2
  <1>7. IsInjective(t)
    BY <1>1, <1>2, <1>4 DEF IsInjective
  <1> QED BY <1>1, <1>5, <1>6, <1>7 DEF t
-----------------------------------------------------------------------------
(* The semaphore.                                                           *)

LEMMA InsideFinite == IsFiniteSet(Inside) /\ IsFiniteSet(Inside')
  BY ServerAssumption, FS_Subset DEF Inside

\* A call that comes in finds a slot, waits, or is refused.
LEMMA EnterKeeps ==
  ASSUME IInv, NEW q \in Calls, pc[q] = "body", Enter(q), UNCHANGED rest
  PROVE  IInv'
  <1> USE DEF IInv, TypeOK, rest, Balanced
  <1>1. CASE counter > 0
    <2>1. /\ counter' = counter - 1 /\ empty' = FALSE /\ queue' = queue
          /\ pc' = [pc EXCEPT ![q] = "entered"]
      BY <1>1 DEF Enter
    <2>2. Inside' = Inside \cup {q} /\ q \notin Inside /\ Queued' = Queued
      BY <2>1 DEF Inside, Queued
    <2>3. Cardinality(Inside') = Cardinality(Inside) + 1
      BY <2>2, FS_AddElement, InsideFinite
    <2>4. SlotsConserved'
      BY <2>1, <2>3, <1>1, InsideFinite, FS_CardinalityType, ServerAssumption DEF SlotsConserved
    <2>5. pc' \in [Calls -> Places] /\ counter' \in Int
      BY <2>1 DEF Places
    <2>6. ToSet(queue') = Queued' /\ IsInjective(queue')
      BY <2>1, <2>2 DEF Queued
    <2>7. queue' \in Seq(Calls) /\ Len(queue') <= QueueSize /\ empty' \in BOOLEAN
      BY <2>1
    <2>8. TypeOK'
      BY <2>5, <2>6, <2>7
    <2> QED BY <2>4, <2>8
  <1>2. CASE ~(counter > 0) /\ Len(queue) >= QueueSize
    <2>1. pc' = [pc EXCEPT ![q] = "answered"] /\ UNCHANGED sem
      BY <1>2 DEF Enter
    <2>2. Inside' = Inside /\ Queued' = Queued
      BY <2>1 DEF Inside, Queued
    <2> QED BY <2>1, <2>2 DEF sem, Places, SlotsConserved, Queued
  <1>3. CASE ~(counter > 0) /\ ~(Len(queue) >= QueueSize)
    <2>1. /\ queue' = Append(queue, q) /\ empty' = FALSE /\ counter' = counter
          /\ pc' = [pc EXCEPT ![q] = "queued"]
      BY <1>3 DEF Enter
    <2>2. Inside' = Inside /\ Queued' = Queued \cup {q} /\ q \notin Queued
      BY <2>1 DEF Inside, Queued
    <2>3. /\ queue' \in Seq(Calls) /\ Len(queue') = Len(queue) + 1
          /\ ToSet(queue') = ToSet(queue) \cup {q} /\ IsInjective(queue')
      BY <2>1, <2>2, AppendedQueue
    <2>4. Len(queue') <= QueueSize
      BY <2>3, <1>3, ServerAssumption
    <2> QED BY <2>1, <2>2, <2>3, <2>4 DEF Places, SlotsConserved
  <1> QED BY <1>1, <1>2, <1>3

\* A call that leaves gives its slot to the first that waits, or frees it.
LEMMA LeaveKeeps ==
  ASSUME IInv, NEW q \in Inside, NEW place \in {"answered", "failed"},
         Leave(q, place), UNCHANGED rest
  PROVE  IInv'
  <1> USE DEF IInv, TypeOK, rest, Balanced
  <1>q. q \in Calls /\ pc[q] \in {"entered", "restoring", "invoking"}
    BY DEF Inside
  <1>1. CASE queue = <<>>
    <2>1. /\ counter' = counter + 1 /\ empty' = (counter + 1 = Concurrency)
          /\ pc' = [pc EXCEPT ![q] = place] /\ queue' = queue
      BY <1>1 DEF Leave
    <2>2. Inside' = Inside \ {q} /\ Queued' = Queued
      BY <2>1, <1>q DEF Inside, Queued
    <2>3. Cardinality(Inside') = Cardinality(Inside) - 1
      BY <2>2, FS_RemoveElement, InsideFinite
    <2>4. SlotsConserved'
      BY <2>1, <2>3, InsideFinite, FS_CardinalityType, ServerAssumption DEF SlotsConserved
    <2> QED BY <2>1, <2>2, <2>4, <1>q DEF Places
  <1>2. CASE queue # <<>>
    <2> DEFINE first == Head(queue)
    <2>1. /\ queue' = Tail(queue) /\ counter' = counter
          /\ empty' = (Tail(queue) = <<>> /\ counter = Concurrency)
          /\ pc' = [pc EXCEPT ![q] = place, ![first] = "entered"]
      BY <1>2 DEF Leave
    <2>2. /\ queue' \in Seq(Calls) /\ Len(queue') = Len(queue) - 1
          /\ first \in Queued /\ IsInjective(queue')
          /\ ToSet(queue') = ToSet(queue) \ {first}
      BY <2>1, <1>2, TailOfQueue
    <2> HIDE DEF first
    <2>3. first \in Calls /\ first # q /\ first \notin Inside /\ q \notin Queued
      BY <2>2, <1>q DEF Queued, Inside
    <2>4. /\ pc' \in [Calls -> Places]
          /\ pc'[q] = place /\ pc'[first] = "entered"
          /\ \A c \in Calls : c # q /\ c # first => pc'[c] = pc[c]
      BY <2>1, <2>3, <1>q DEF Places
    <2>5. Inside' = (Inside \ {q}) \cup {first}
      BY <2>3, <2>4, <1>q DEF Inside
    <2>6. Queued' = Queued \ {first}
      BY <2>2, <2>3, <2>4, <1>q DEF Queued
    <2>7. Cardinality(Inside') = Cardinality(Inside)
      <3>1. IsFiniteSet(Inside \ {q}) /\ Cardinality(Inside \ {q}) = Cardinality(Inside) - 1
        BY FS_RemoveElement, InsideFinite
      <3>2. Cardinality(Inside') = Cardinality(Inside \ {q}) + 1
        BY <3>1, <2>3, <2>5, FS_AddElement
      <3> QED BY <3>1, <3>2, FS_CardinalityType, InsideFinite
    <2>8. SlotsConserved'
      BY <2>1, <2>7 DEF SlotsConserved
    <2>9. Len(queue') <= QueueSize
      BY <2>2, ServerAssumption
    <2> QED BY <2>1, <2>2, <2>4, <2>6, <2>8, <2>9
  <1> QED BY <1>1, <1>2

\* A call that goes on with its slot, or without one, changes nothing.
LEMMA GoOnKeeps ==
  ASSUME IInv, NEW q \in Calls, NEW place \in Places,
         pc' = [pc EXCEPT ![q] = place], UNCHANGED <<sem, rest>>,
         pc[q] # "queued", place # "queued",
         q \in Inside <=> place \in {"entered", "restoring", "invoking"}
  PROVE  IInv'
  <1> USE DEF IInv, TypeOK, rest, Balanced, sem
  <1>1. Inside' = Inside /\ Queued' = Queued
    BY DEF Inside, Queued
  <1> QED BY <1>1 DEF SlotsConserved
-----------------------------------------------------------------------------
LEMMA InitIInv ==
  ASSUME Kinds \cap {"forbidden", "nullish"} = {}, Init
  PROVE  IInv
  <1>1. Inside = {} /\ Queued = {}
    BY DEF Init, Inside, Queued
  <1>2. ToSet(queue) = {} /\ IsInjective(queue) /\ queue \in Seq(Calls) /\ Len(queue) = 0
    BY DEF Init, ToSet, IsInjective
  <1>3. TypeOK
    <2>1. pc \in [Calls -> Places] /\ kind \in [Calls -> AllKinds]
      BY ServerAssumption DEF Init, Places
    <2>2. counter \in Int /\ Len(queue) <= QueueSize
      BY <1>2, ServerAssumption DEF Init
    <2> QED BY <1>1, <1>2, <2>1, <2>2 DEF Init, TypeOK
  <1>4. SlotsConserved
    BY <1>1, FS_EmptySet, ServerAssumption DEF Init, SlotsConserved
  <1>5. Balanced
    BY ServerAssumption DEF Init, Balanced
  <1> QED BY <1>3, <1>4, <1>5 DEF IInv

LEMMA NextIInv ==
  ASSUME IInv, [Next]_vars
  PROVE  IInv'
  <1>k. \A q \in Calls : kind[q] # "forbidden" /\ kind[q] # "nullish"
    BY DEF IInv, Balanced
  <1>1. ASSUME NEW q \in Calls, Arrive(q) PROVE IInv'
    <2>1. /\ pc' = [pc EXCEPT ![q] = "body"] /\ pc[q] = "none" /\ UNCHANGED <<sem, rest>>
      BY <1>1 DEF Arrive
    <2>2. q \notin Inside
      BY <2>1 DEF Inside
    <2> QED BY <2>1, <2>2, GoOnKeeps DEF Places
  <1>2. ASSUME NEW q \in Calls, Request(q) PROVE IInv'
    <2>1. pc[q] = "body" /\ UNCHANGED rest /\ q \notin Inside
      BY <1>2 DEF Request, Inside
    <2>2. CASE kind[q] = "stray"
      <3>1. pc' = [pc EXCEPT ![q] = "answered"] /\ UNCHANGED sem
        BY <1>2, <2>2 DEF Request
      <3> QED BY <2>1, <3>1, GoOnKeeps DEF Places
    <2>3. CASE kind[q] # "stray"
      <3>1. Enter(q)
        BY <1>2, <1>k, <2>3 DEF Request
      <3> QED BY <2>1, <3>1, EnterKeeps
    <2> QED BY <2>2, <2>3
  <1>3. ASSUME NEW q \in Calls, Dispatch(q) PROVE IInv'
    <2>1. pc[q] = "entered" /\ UNCHANGED rest /\ q \in Inside
      BY <1>3 DEF Dispatch, Inside
    <2>2. CASE kind[q] \in {"rejected", "odd"}
      <3>1. Leave(q, "answered") \/ Leave(q, "failed")
        BY <1>3, <2>2 DEF Dispatch
      <3> QED BY <2>1, <3>1, LeaveKeeps
    <2>3. CASE kind[q] \notin {"rejected", "odd"}
      <3>1. pc' = [pc EXCEPT ![q] = "restoring"] /\ UNCHANGED sem
        BY <1>3, <2>3 DEF Dispatch
      <3> QED BY <2>1, <3>1, GoOnKeeps DEF Places
    <2> QED BY <2>2, <2>3
  <1>4. ASSUME NEW q \in Calls, Authorize(q) PROVE IInv'
    <2>1. pc[q] = "restoring" /\ UNCHANGED rest /\ q \in Inside
      BY <1>4 DEF Authorize, Inside
    <2>2. CASE pc' = [pc EXCEPT ![q] = "invoking"] /\ UNCHANGED sem
      BY <2>1, <2>2, GoOnKeeps DEF Places
    <2>3. CASE Leave(q, "answered") \/ Leave(q, "failed")
      BY <2>1, <2>3, LeaveKeeps
    <2> QED BY <1>4, <2>2, <2>3 DEF Authorize
  <1>5. ASSUME NEW q \in Calls, Return(q) PROVE IInv'
    <2>1. pc[q] = "invoking" /\ UNCHANGED rest /\ q \in Inside /\ Leave(q, "answered")
      BY <1>5, <1>k DEF Return, Inside
    <2> QED BY <2>1, LeaveKeeps
  <1>6. CASE TimeOut
    <2> USE DEF IInv, TypeOK, rest, Balanced
    <2> DEFINE first == Head(queue)
    <2>1. /\ queue # <<>> /\ queue' = Tail(queue) /\ counter' = counter
          /\ empty' = (Tail(queue) = <<>> /\ counter = Concurrency)
          /\ pc' = [pc EXCEPT ![first] = "answered"] /\ UNCHANGED rest
      BY <1>6 DEF TimeOut
    <2>2. /\ queue' \in Seq(Calls) /\ Len(queue') = Len(queue) - 1
          /\ first \in Queued /\ IsInjective(queue')
          /\ ToSet(queue') = ToSet(queue) \ {first}
      BY <2>1, TailOfQueue
    <2> HIDE DEF first
    <2>3. Inside' = Inside /\ Queued' = Queued \ {first}
      BY <2>1, <2>2 DEF Inside, Queued
    <2>4. Len(queue') <= QueueSize
      BY <2>2, ServerAssumption
    <2> QED BY <2>1, <2>2, <2>3, <2>4 DEF Places, SlotsConserved, Queued
  <1>7. CASE UNCHANGED <<pc, kind, sem>> /\ phase' \in {"running", "draining", "closed"}
             /\ expired' \in BOOLEAN /\ cut' \subseteq Calls
    <2>1. Inside' = Inside /\ Queued' = Queued
      BY <1>7 DEF Inside, Queued
    <2> QED BY <1>7, <2>1 DEF IInv, TypeOK, Balanced, SlotsConserved, sem
  <1>8. ASSUME Shutdown \/ Drained \/ Expire \/ Done \/ UNCHANGED vars PROVE IInv'
    BY <1>7, <1>8 DEF Shutdown, Drained, Expire, Done, CloseAll, vars, IInv, TypeOK
  <1> QED BY <1>1, <1>2, <1>3, <1>4, <1>5, <1>6, <1>8 DEF Next

\* Whatever way a call takes out of rpc(), authorize or invoke, the slots of the
\* semaphore neither leak nor multiply, unless a request of a foreign origin leaves
\* without having entered or a method throws undefined.
THEOREM SlotsNeverLeak ==
  ASSUME Kinds \cap {"forbidden", "nullish"} = {}
  PROVE  Spec => []SlotsConserved
  <1>1. Init => IInv
    BY InitIInv
  <1>2. IInv /\ [Next]_vars => IInv'
    BY NextIInv
  <1>3. IInv => SlotsConserved
    BY DEF IInv
  <1> QED BY <1>1, <1>2, <1>3, PTL DEF Spec

\* The semaphore's queue holds exactly the calls that wait, each once, and never more
\* than its size.
THEOREM QueueIsRight ==
  ASSUME Kinds \cap {"forbidden", "nullish"} = {}
  PROVE  Spec => []TypeOK
  <1>1. Init => IInv
    BY InitIInv
  <1>2. IInv /\ [Next]_vars => IInv'
    BY NextIInv
  <1>3. IInv => TypeOK
    BY DEF IInv
  <1> QED BY <1>1, <1>2, <1>3, PTL DEF Spec
-----------------------------------------------------------------------------
(* What the shutdown looks at.                                              *)

SemRight ==
    /\ WaitsOnlyWhenFull
    /\ empty <=> queue = <<>> /\ counter = Concurrency

\* An empty semaphore has nobody inside.
LEMMA EmptyMeansIdle ==
  ASSUME IInv, SemRight
  PROVE  EmptyIsIdle
  <1>1. counter = Concurrency <=> Cardinality(Inside) = 0
    BY InsideFinite, FS_CardinalityType, ServerAssumption DEF IInv, TypeOK, SlotsConserved
  <1>2. Cardinality(Inside) = 0 <=> Inside = {}
    BY InsideFinite, FS_EmptySet
  <1> QED BY <1>1, <1>2 DEF SemRight, EmptyIsIdle

LEMMA NextSemRight ==
  ASSUME IInv, SemRight, [Next]_vars
  PROVE  SemRight'
  <1> USE DEF IInv, TypeOK, SlotsConserved, SemRight, WaitsOnlyWhenFull
  <1>k. \A q \in Calls : kind[q] # "forbidden" /\ kind[q] # "nullish"
    BY DEF Balanced
  <1>1. ASSUME NEW q \in Calls, Enter(q) PROVE SemRight'
    <2>1. Append(queue, q) # <<>>
      OBVIOUS
    <2>2. CASE counter > 0
      BY <1>1, <2>2, InsideFinite, FS_CardinalityType, ServerAssumption DEF Enter
    <2>3. CASE ~(counter > 0)
      BY <1>1, <2>1, <2>3 DEF Enter, sem
    <2> QED BY <2>2, <2>3
  <1>2. ASSUME NEW q \in Calls, NEW place, Leave(q, place) PROVE SemRight'
    <2>1. CASE queue = <<>>
      BY <1>2, <2>1 DEF Leave
    <2>2. CASE queue # <<>>
      BY <1>2, <2>2 DEF Leave
    <2> QED BY <2>1, <2>2
  <1>3. CASE UNCHANGED sem
    BY <1>3 DEF sem
  <1>4. CASE TimeOut
    BY <1>4 DEF TimeOut
  <1>5. ASSUME NEW q \in Calls,
               Arrive(q) \/ Request(q) \/ Dispatch(q) \/ Authorize(q) \/ Return(q)
        PROVE  SemRight'
    <2>1. CASE Arrive(q)
      BY <1>3, <2>1 DEF Arrive
    <2>2. CASE Request(q)
      BY <1>1, <1>3, <1>k, <2>2 DEF Request
    <2>3. CASE Dispatch(q)
      BY <1>2, <1>3, <2>3 DEF Dispatch
    <2>4. CASE Authorize(q)
      BY <1>2, <1>3, <2>4 DEF Authorize
    <2>5. CASE Return(q)
      BY <1>2, <1>k, <2>5 DEF Return
    <2> QED BY <1>5, <2>1, <2>2, <2>3, <2>4, <2>5
  <1>6. CASE Shutdown \/ Drained \/ Expire \/ Done \/ UNCHANGED vars
    BY <1>3, <1>6 DEF Shutdown, Drained, Expire, Done, vars, sem
  <1> QED BY <1>4, <1>5, <1>6 DEF Next

\* A call waits only while all slots are taken: no wake-up of the semaphore is lost.
THEOREM NoSlotIdle ==
  ASSUME Kinds \cap {"forbidden", "nullish"} = {}
  PROVE  Spec => []WaitsOnlyWhenFull
  <1>1. Init => IInv /\ SemRight
    BY InitIInv, ServerAssumption DEF Init, SemRight, WaitsOnlyWhenFull
  <1>2. IInv /\ SemRight /\ [Next]_vars => (IInv /\ SemRight)'
    BY NextIInv, NextSemRight
  <1>3. SemRight => WaitsOnlyWhenFull
    BY DEF SemRight
  <1> QED BY <1>1, <1>2, <1>3, PTL DEF Spec

\* What application.shutdown looks at is right: semaphore.empty says exactly that no call
\* is inside or waits, however calls came in, were refused, gave up or left.
THEOREM EmptyTellsTheTruth ==
  ASSUME Kinds \cap {"forbidden", "nullish"} = {}
  PROVE  Spec => []EmptyIsIdle
  <1>1. Init => IInv /\ SemRight
    BY InitIInv, ServerAssumption DEF Init, SemRight, WaitsOnlyWhenFull
  <1>2. IInv /\ SemRight /\ [Next]_vars => (IInv /\ SemRight)'
    BY NextIInv, NextSemRight
  <1>3. IInv /\ SemRight => EmptyIsIdle
    BY EmptyMeansIdle
  <1> QED BY <1>1, <1>2, <1>3, PTL DEF Spec

\* The shutdown closes no connection of a call that is inside or waits, unless its five
\* seconds are over, however many calls there are.
THEOREM ShutdownWaits ==
  ASSUME Kinds \cap {"forbidden", "nullish"} = {}
  PROVE  Spec => DrainWaits
  <1>1. Init => IInv /\ SemRight
    BY InitIInv, ServerAssumption DEF Init, SemRight, WaitsOnlyWhenFull
  <1>2. IInv /\ SemRight /\ [Next]_vars => (IInv /\ SemRight)'
    BY NextIInv, NextSemRight
  <1>3. IInv /\ SemRight /\ [Next]_vars
          => [phase # "closed" /\ phase' = "closed" /\ ~expired'
                => Inside = {} /\ queue = <<>>]_vars
    <2> SUFFICES ASSUME IInv, SemRight, Next, phase # "closed", phase' = "closed", ~expired'
                 PROVE  Inside = {} /\ queue = <<>>
      BY DEF vars
    <2>1. empty
      <3>1. ASSUME NEW q \in Calls,
                   Arrive(q) \/ Request(q) \/ Dispatch(q) \/ Authorize(q) \/ Return(q)
            PROVE  FALSE
        BY <3>1 DEF Arrive, Request, Dispatch, Authorize, Return, rest
      <3>2. CASE TimeOut
        BY <3>2 DEF TimeOut, rest
      <3>3. CASE Shutdown
        BY <3>3 DEF Shutdown
      <3>4. CASE Drained
        BY <3>4 DEF Drained
      <3>5. CASE Expire
        BY <3>5 DEF Expire
      <3>6. CASE Done
        BY <3>6 DEF Done, vars
      <3> QED BY <3>1, <3>2, <3>3, <3>4, <3>5, <3>6 DEF Next
    <2> QED BY <2>1, EmptyMeansIdle DEF EmptyIsIdle
  <1> QED BY <1>1, <1>2, <1>3, PTL DEF Spec, DrainWaits
=============================================================================
