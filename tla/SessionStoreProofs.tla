------------------------- MODULE SessionStoreProofs -------------------------
(***************************************************************************)
(* Theorems about SessionStore: no handler ever goes on without the        *)
(* session or the id it needs, no chain of rotations, extensions and       *)
(* write-backs moves the absolute end of a session or outlasts it in       *)
(* Redis, a rotation never gives up a session before its successor is      *)
(* stored, and, unless a handler writes a value back, a destroyed session  *)
(* stays destroyed, the counter of sessions is right, and a valid session  *)
(* ends by its own user only; a sign-out ends the session of its cookie;   *)
(* and the index of a user's sessions names each of them until one is near *)
(* its end, unless the user signs out everywhere.                          *)
(***************************************************************************)
EXTENDS SessionStore, TLAPS, FiniteSetTheorems

LoginLabels == {"rotate.get", "rotate.create", "rotate.only", "destroy.get", "destroy.eval"}
Destroying == {"destroy.get", "destroy.eval"}

\* The id whose sign-in the session value in memory goes back to.
Origin(r) == IF r.method = "login" THEN r.new ELSE r.cur

\* A handler's record, when i ids have been issued and b says when their users
\* signed in: the shape its label promises, and a value in memory that ends when
\* the sign-in it goes back to says.
Shape(r) ==
    /\ r \in Handler
    /\ r.pc = "idle" => r = Idle
    /\ r.pc # "idle" => r.method # "none"
    /\ r.pc \in HoldsSession => r.snap # NoSession
    /\ r.pc \in HoldsNew => r.new # NoSid
    /\ r.pc # "idle" /\ r.cur = NoSid => r.method = "login" /\ r.pc = "rotate.only"
    /\ r.pc \in Destroying /\ r.after = "reload" => r.new # NoSid
    /\ r.method = "login" => /\ r.pc \in LoginLabels
                             /\ r.new # NoSid
                             /\ r.pc \in Destroying => r.after = "done"

Sound(r, i, b) ==
    /\ Shape(r)
    /\ r.cur <= i
    /\ r.new <= i
    /\ r.snap # NoSession => r.snap.exp = b[Origin(r)] + AbsoluteTtl * Second
    /\ r.method # "login" /\ r.new # NoSid => b[r.new] = b[r.cur]

\* No id is in use before it is issued.
IdsIssued ==
    /\ \A s \in Live : s <= issued
    /\ \A s \in Sid : fate[s] # "unborn" => s <= issued

IInv ==
    /\ TypeOK
    /\ IdsIssued
    /\ AbsoluteCap
    /\ \A p \in Handlers : Sound(h[p], issued, born)
-----------------------------------------------------------------------------
(* Arithmetic of the times to live.                                         *)

LEMMA Products == \A a, b \in Nat : a * b \in Nat
  OBVIOUS

LEMMA TimeTypes ==
  /\ Second \in Nat \ {0}
  /\ IdleTtl \in Nat
  /\ AbsoluteTtl * Second \in Nat
  BY ConstantsAssumption, Products

LEMMA TtlTypes ==
  ASSUME NEW session \in Session, NEW t \in Nat
  PROVE  /\ SessionTtl(session, t) \in Nat
         /\ LuaTtl(session, t) \in Nat
         /\ RiskTtl(session, t) \in Int
<1>1. /\ session.exp \in Nat
      /\ Second \in Nat \ {0}
      /\ IdleTtl \in Nat
  BY TimeTypes DEF Session
<1>2. /\ (session.exp - t) \div Second \in Int
      /\ session.exp \div Second \in Int
      /\ t \div Second \in Int
      /\ IdleTtl \div 2 \in Int
  BY <1>1
<1> QED
  BY <1>1, <1>2 DEF SessionTtl, LuaTtl, RiskTtl, SecondsLeft, ExpSec, Smaller, Larger
-----------------------------------------------------------------------------
(* What a command may do to the keyspace.                                   *)

RedisTypes ==
    /\ store \in [Sid -> Session \cup {NoSession}]
    /\ until \in [Sid -> Nat]
    /\ index \in [Users -> SUBSET Sid]
    /\ indexUntil \in [Users -> Nat]
    /\ metric \in Int
    /\ fate \in [Sid -> {"unborn", "live", "lapsed", "destroyed"}]

\* Every value it leaves under a key was there before or ends with the sign-in of
\* the id, and it concerns ids that were issued.
KeysKept ==
    /\ RedisTypes'
    /\ \A s \in Sid :
          /\ store'[s] # NoSession =>
                /\ s <= issued
                /\ store'[s] = store[s] \/ store'[s].exp = born[s] + AbsoluteTtl * Second
          /\ fate'[s] # "unborn" => s <= issued

LEMMA NothingKeeps ==
  ASSUME IInv, UNCHANGED <<redis, fate>>
  PROVE  KeysKept
  BY DEF IInv, TypeOK, IdsIssued, Live, KeysKept, RedisTypes, redis

LEMMA SetExTypes ==
  ASSUME TypeOK, NEW s \in Sid, NEW session \in Session, NEW ttl \in Nat,
         SetEx(s, session, ttl)
  PROVE  /\ store' \in [Sid -> Session \cup {NoSession}]
         /\ until' \in [Sid -> Nat]
         /\ store'[s] = session
         /\ \A x \in Sid \ {s} : store'[x] = store[x]
<1>1. now + ttl * Second \in Nat
  <2>1. ttl * Second \in Nat
    BY Products, TimeTypes
  <2> QED BY <2>1 DEF TypeOK
<1> QED
  BY <1>1 DEF SetEx, TypeOK

LEMMA ExpireIndexTypes ==
  ASSUME TypeOK, NEW u \in Users, NEW ttl \in Nat, ExpireIndex(u, ttl)
  PROVE  indexUntil' \in [Users -> Nat]
<1>1. now + ttl * Second \in Nat
  <2>1. ttl * Second \in Nat
    BY Products, TimeTypes
  <2> QED BY <2>1 DEF TypeOK
<1> QED
  BY <1>1 DEF ExpireIndex, TypeOK

LEMMA SetExKeeps ==
  ASSUME IInv, NEW s \in Sid, NEW session \in Session, NEW ttl \in Nat,
         s <= issued, session.exp = born[s] + AbsoluteTtl * Second,
         SetEx(s, session, ttl), UNCHANGED <<index, indexUntil, metric, fate>>
  PROVE  KeysKept
<1>1. TypeOK
  BY DEF IInv
<1>2. /\ store' \in [Sid -> Session \cup {NoSession}]
      /\ until' \in [Sid -> Nat]
      /\ store'[s] = session
      /\ \A x \in Sid \ {s} : store'[x] = store[x]
  BY <1>1, SetExTypes
<1> QED
  BY <1>1, <1>2 DEF KeysKept, RedisTypes, IInv, IdsIssued, Live, TypeOK

LEMMA CreateKeeps ==
  ASSUME IInv, NEW s \in Sid, NEW session \in Session, NEW t \in Nat,
         s <= issued, session.exp = born[s] + AbsoluteTtl * Second,
         CreateKeys(s, session, t)
  PROVE  KeysKept
<1>1. TypeOK
  BY DEF IInv
<1>2. SessionTtl(session, t) \in Nat /\ session.user \in Users
  BY TtlTypes DEF Session
<1>3. /\ store' \in [Sid -> Session \cup {NoSession}]
      /\ until' \in [Sid -> Nat]
      /\ store'[s] = session
      /\ \A x \in Sid \ {s} : store'[x] = store[x]
  BY <1>1, <1>2, SetExTypes DEF CreateKeys
<1>4. indexUntil' \in [Users -> Nat]
  BY <1>1, <1>2, ExpireIndexTypes DEF CreateKeys
<1>5. /\ index' \in [Users -> SUBSET Sid]
      /\ metric' \in Int
      /\ fate' \in [Sid -> {"unborn", "live", "lapsed", "destroyed"}]
      /\ \A x \in Sid \ {s} : fate'[x] = fate[x]
  BY <1>1, <1>2 DEF CreateKeys, TypeOK
<1> QED
  BY <1>1, <1>3, <1>4, <1>5 DEF KeysKept, RedisTypes, IInv, IdsIssued, Live

LEMMA DestroyKeeps ==
  ASSUME IInv, NEW s \in Sid, DestroyKeys(s)
  PROVE  KeysKept
<1>1. TypeOK
  BY DEF IInv
<1>2. CASE s \notin Live
  BY <1>2, NothingKeeps DEF DestroyKeys
<1>3. CASE s \in Live
  <2>1. store[s].user \in Users
    BY <1>1, <1>3 DEF Live, TypeOK, Session
  <2>2. /\ store' = [store EXCEPT ![s] = NoSession]
        /\ metric' = metric - 1
        /\ index' = [index EXCEPT ![store[s].user] = @ \ {s}]
        /\ fate' = [fate EXCEPT ![s] = "destroyed"]
        /\ until' = [until EXCEPT ![s] = 0]
        /\ indexUntil' = [u \in Users |-> IF index'[u] = {} THEN 0 ELSE indexUntil[u]]
    BY <1>3 DEF DestroyKeys
  <2>3. RedisTypes'
    BY <1>1, <2>1, <2>2 DEF RedisTypes, TypeOK
  <2>4. s <= issued
    BY <1>3 DEF IInv, IdsIssued
  <2> QED
    BY <1>1, <2>2, <2>3, <2>4 DEF KeysKept, IInv, IdsIssued, Live, TypeOK
<1> QED
  BY <1>2, <1>3
-----------------------------------------------------------------------------
(* What a handler may go on with.                                           *)

\* A record that handler p, no longer starting a session, works with between two
\* commands: its ids are those of h[p], and a value in it is of the same sign-in.
Carrier(p, r) ==
    /\ r \in Handler
    /\ r.method \in AllMethods
    /\ r.cur # NoSid /\ r.cur <= issued
    /\ r.new = h[p].new /\ r.new <= issued
    /\ r.new # NoSid => born[r.new] = born[r.cur]
    /\ r.snap # NoSession => r.snap.exp = born[r.cur] + AbsoluteTtl * Second

\* What Continue may be given.
Proper(p, r) ==
    \/ r = Idle
    \/ r.pc # "idle" /\ r.new = h[p].new /\ Sound(r, issued, born)
    \/ /\ r.pc # "idle"
       /\ Fresh <= MaxSid => Shape(r)
       /\ r.method # "login"
       /\ r.cur # NoSid /\ r.cur <= issued
       /\ r.new = Fresh
       /\ r.snap # NoSession => r.snap.exp = born[r.cur] + AbsoluteTtl * Second

LEMMA IdleIsSound == \A i \in Nat : \A b : Sound(Idle, i, b)
  BY DEF Sound, Shape, Idle, Handler, Labels, AllMethods, AllBindings, Returns, NoSid,
         HoldsSession, HoldsNew, Destroying, LoginLabels

LEMMA BusyIsCarrier ==
  ASSUME IInv, NEW p \in Handlers, h[p].pc # "idle", h[p].method # "login"
  PROVE  Carrier(p, h[p])
  BY DEF IInv, Sound, Shape, Carrier, Origin, Handler

\* A carrier may take up a stored value of the same sign-in, or none.
LEMMA ReadIsCarrier ==
  ASSUME IInv, NEW p \in Handlers, h[p].pc # "idle", h[p].method # "login",
         NEW s \in {h[p].cur, h[p].new}, s # NoSid
  PROVE  Carrier(p, [h[p] EXCEPT !.snap = store[s]])
<1>1. Carrier(p, h[p])
  BY BusyIsCarrier
<1>2. s \in Sid /\ born[s] = born[h[p].cur]
  BY <1>1 DEF Carrier, Handler, NoSid
<1>3. store[s] \in Session \cup {NoSession}
  BY <1>2 DEF IInv, TypeOK
<1>4. store[s] # NoSession => store[s].exp = born[s] + AbsoluteTtl * Second
  BY <1>2 DEF IInv, AbsoluteCap, Live
<1> QED
  BY <1>1, <1>2, <1>3, <1>4 DEF Carrier, Handler

LEMMA ReadCookie ==
  ASSUME IInv, NEW p \in Handlers, h[p].pc # "idle", Carrier(p, h[p])
  PROVE  /\ Carrier(p, [h[p] EXCEPT !.snap = store[h[p].cur]])
         /\ [h[p] EXCEPT !.snap = store[h[p].cur]].snap = store[h[p].cur]
         /\ h[p].cur \in Live => store[h[p].cur] # NoSession
<1>1. h[p].method # "login" /\ h[p].cur # NoSid
  BY DEF Carrier, AllMethods
<1>2. Carrier(p, [h[p] EXCEPT !.snap = store[h[p].cur]])
  BY <1>1, ReadIsCarrier
<1>3. [h[p] EXCEPT !.snap = store[h[p].cur]].snap = store[h[p].cur]
  BY DEF Carrier, Handler
<1> QED
  BY <1>2, <1>3 DEF Live

LEMMA DestroyIsProper ==
  ASSUME NEW p \in Handlers, NEW r, Carrier(p, r), NEW after \in Returns,
         after = "reload" => r.new # NoSid
  PROVE  Proper(p, Destroy(r, after))
  BY DEF Carrier, AllMethods, Destroy, Proper, Sound, Shape, Handler, Labels, HoldsSession, HoldsNew,
         Destroying, NoSid, Session, Returns

LEMMA RejectIsProper ==
  ASSUME NEW p \in Handlers, NEW r, Carrier(p, r)
  PROVE  Proper(p, Reject(r))
<1>1. Proper(p, Idle)
  BY DEF Proper
<1>2. Proper(p, Destroy(r, "done"))
  BY DestroyIsProper DEF Returns
<1>3. Proper(p, [r EXCEPT !.pc = "validate.get", !.retried = TRUE])
  BY DEF AllMethods, Carrier, Proper, Sound, Shape, Handler, Labels, HoldsSession, HoldsNew,
         Destroying, NoSid, Session, Origin
<1> QED
  BY <1>1, <1>2, <1>3 DEF Reject

LEMMA ToIsProper ==
  ASSUME NEW p \in Handlers, NEW r, Carrier(p, r), NEW label \in Labels,
         label # "idle", label \notin Destroying,
         label \in HoldsSession => r.snap # NoSession,
         label \in HoldsNew => r.new # NoSid
  PROVE  Proper(p, To(r, label))
  BY DEF AllMethods, Carrier, To, Proper, Sound, Shape, Handler, Labels, HoldsSession, HoldsNew,
         Destroying, NoSid, Session, Origin

LEMMA AcceptIsProper ==
  ASSUME NEW p \in Handlers, NEW r, Carrier(p, r), r.snap # NoSession
  PROVE  Proper(p, Accept(r))
  BY DEF AllMethods, Carrier, Accept, Proper, Sound, Shape, Handler, Labels, AllBindings, HoldsSession,
         HoldsNew, Destroying, NoSid, Session, Origin

LEMMA ReturnIsProper ==
  ASSUME NEW p \in Handlers, NEW r, Carrier(p, r), r.after = "reload" => r.new # NoSid
  PROVE  Proper(p, Return(r))
<1>1. Proper(p, Reject(r))
  BY RejectIsProper
<1>2. r.after = "reload" => Proper(p, To(r, "rotate.reload"))
  BY ToIsProper DEF Labels, Destroying, HoldsSession
<1>3. Proper(p, Destroy(r, "done"))
  BY DestroyIsProper DEF Returns
<1>4. Proper(p, Idle)
  BY DEF Proper
<1>5. r.after \in Returns
  BY DEF Carrier, Handler
<1> QED
  BY <1>1, <1>2, <1>3, <1>4, <1>5 DEF Return, Returns

\* A rotation takes up a fresh id, and a value that ends when the old one did.
LEMMA RotationIsProper ==
  ASSUME IInv, NEW p \in Handlers, NEW r, Carrier(p, r), r.snap # NoSession,
         NEW label \in {"rotate.get", "keep.create"}
  PROVE  Proper(p, [r EXCEPT !.pc = label, !.snap = Renewed(@), !.new = Fresh])
<1> DEFINE next == [r EXCEPT !.pc = label, !.snap = Renewed(@), !.new = Fresh]
<1>1. r.snap \in Session /\ now \in Nat /\ issued \in Nat
  BY DEF Carrier, Handler, IInv, TypeOK
<1>2. Renewed(r.snap) \in Session /\ Renewed(r.snap).exp = r.snap.exp
  BY <1>1 DEF Renewed, Session
<1>3. Renewed(r.snap) # NoSession
  BY <1>2, ConstantsAssumption
<1> HIDE DEF next
<1>4. /\ next \in [pc: {label}, at: {r.at}, method: {r.method}, binding: {r.binding},
                   retried: {r.retried}, cur: {r.cur}, new: {Fresh},
                   snap: {Renewed(r.snap)}, todo: {r.todo}, after: {r.after}]
  BY DEF next, Carrier, Handler
<1>5. Fresh <= MaxSid => Shape(next)
  BY <1>1, <1>2, <1>3, <1>4 DEF AllMethods, Carrier, Shape, Handler, Labels, HoldsSession, HoldsNew,
         Destroying, NoSid, Fresh, Sid
<1> QED
  BY <1>1, <1>2, <1>4, <1>5 DEF AllMethods, Carrier, Proper, next, Fresh, Handler
-----------------------------------------------------------------------------
(* A step of a handler: a command that keeps the keyspace sound, and a      *)
(* continuation that is proper.                                            *)

\* Later ids do not touch what a handler knows.
LEMMA SoundLasts ==
  ASSUME NEW r, NEW i \in Nat, NEW j \in Nat, i <= j, NEW b, NEW c,
         Sound(r, i, b), \A s \in Sid : s <= i => c[s] = b[s]
  PROVE  Sound(r, j, c)
<1>1. /\ Shape(r) /\ r.cur \in Sid \cup {NoSid} /\ r.new \in Sid \cup {NoSid}
      /\ r.cur \in Nat /\ r.new \in Nat
  BY DEF Sound, Shape, Handler, Sid, NoSid
<1>2. r.cur <= i /\ r.new <= i
  BY DEF Sound
<1>3. (r.cur # NoSid => c[r.cur] = b[r.cur]) /\ (r.new # NoSid => c[r.new] = b[r.new])
  BY <1>1, <1>2
<1>4. r.snap # NoSession => Origin(r) # NoSid
  BY <1>1 DEF Shape, Origin, Idle
<1>5. r.method # "login" /\ r.new # NoSid => r.cur # NoSid
  BY <1>1 DEF Shape, Idle
<1> QED
  BY <1>1, <1>2, <1>3, <1>4, <1>5 DEF Sound, Origin

LEMMA SoundLater ==
  ASSUME NEW r, NEW i, NEW b, Sound(r, i, b), r.pc # "idle", NEW t \in Nat
  PROVE  Sound([r EXCEPT !.at = t], i, b)
<1> DEFINE next == [r EXCEPT !.at = t]
<1>1. r \in Handler
  BY DEF Sound, Shape
<1>2. /\ next \in Handler
      /\ next.pc = r.pc /\ next.method = r.method /\ next.cur = r.cur /\ next.new = r.new
      /\ next.snap = r.snap /\ next.after = r.after
  BY <1>1 DEF Handler
<1> HIDE DEF next
<1>3. Sound(next, i, b)
  BY <1>2 DEF Sound, Shape, Origin
<1> QED
  BY <1>3 DEF next

LEMMA StepKeeps ==
  ASSUME IInv, NEW p \in Handlers, NEW r, Proper(p, r), Continue(p, r), KeysKept
  PROVE  IInv'
<1> USE DEF NoSid
<1>1. TypeOK /\ IdsIssued /\ AbsoluteCap /\ \A q \in Handlers : Sound(h[q], issued, born)
  BY DEF IInv
<1>2. h' = [h EXCEPT ![p] = IF r.pc = "idle" THEN Idle ELSE [r EXCEPT !.at = now]]
  BY DEF Continue
<1>3. now \in Nat /\ issued \in Nat /\ issued <= MaxSid /\ MaxSid \in Nat
  BY <1>1, ConstantsAssumption DEF TypeOK
<1>4. h[p].new \in Sid \cup {NoSid} /\ h[p].new <= issued
  BY <1>1 DEF Sound, Shape, Handler
<1>5. \/ r = Idle \/ r.pc # "idle"
  BY DEF Proper
<1>6. /\ issued' \in 0..MaxSid
      /\ issued <= issued'
      /\ born' \in [Sid -> Nat]
      /\ \A s \in Sid : s <= issued => born'[s] = born[s]
      /\ h'[p] = Idle \/ (r.pc # "idle" /\ Sound(r, issued', born'))
  <2>1. CASE r = Idle
    <3>1. UNCHANGED <<issued, born>>
      BY <2>1 DEF Continue, Idle
    <3> QED
      BY <1>1, <1>2, <1>3, <2>1, <3>1 DEF TypeOK, Idle
  <2>2. CASE r.pc # "idle" /\ r.new = h[p].new /\ Sound(r, issued, born)
    <3>1. UNCHANGED <<issued, born>>
      BY <2>2 DEF Continue
    <3> QED
      BY <1>1, <1>3, <2>2, <3>1 DEF TypeOK
  <2>3. CASE /\ r.pc # "idle"
             /\ Fresh <= MaxSid => Shape(r)
             /\ r.method # "login"
             /\ r.cur # NoSid /\ r.cur <= issued
             /\ r.new = Fresh
             /\ r.snap # NoSession => r.snap.exp = born[r.cur] + AbsoluteTtl * Second
    <3>1. r.new = issued + 1 /\ r.new <= MaxSid /\ Shape(r)
      BY <2>3 DEF Continue, Fresh
    <3>2. /\ r.new \notin {h[p].new, NoSid}
          /\ r.new \in Sid
      BY <1>3, <1>4, <3>1 DEF Sid
    <3>3. issued' = r.new /\ born' = [born EXCEPT ![r.new] = born[r.cur]]
      BY <3>2 DEF Continue
    <3>4. r.cur \in Sid /\ r.cur \in Nat
      BY <3>1, <2>3 DEF Shape, Handler, Sid
    <3>5. born' \in [Sid -> Nat]
      BY <1>1, <3>2, <3>3, <3>4 DEF TypeOK
    <3>6. \A s \in Sid : s <= issued => born'[s] = born[s]
      BY <1>1, <1>3, <3>1, <3>3 DEF TypeOK, Sid
    <3>7. born'[r.new] = born[r.cur] /\ born'[r.cur] = born[r.cur]
      BY <1>1, <2>3, <3>2, <3>3, <3>4, <3>6 DEF TypeOK
    <3>8. Sound(r, issued', born')
      BY <1>3, <2>3, <3>1, <3>3, <3>4, <3>7 DEF Sound, Origin
    <3> QED
      BY <1>3, <2>3, <3>1, <3>3, <3>5, <3>6, <3>8 DEF Sid
  <2> QED
    BY <2>1, <2>2, <2>3 DEF Proper
<1>7. \A q \in Handlers : Sound(h'[q], issued', born')
  <2> TAKE q \in Handlers
  <2>1. CASE q # p
    <3>1. h'[q] = h[q]
      BY <1>1, <1>2, <2>1 DEF TypeOK
    <3> QED
      BY <1>1, <1>3, <1>6, <3>1, SoundLasts
  <2>2. CASE q = p /\ h'[p] = Idle
    BY <1>6, <2>2, IdleIsSound
  <2>3. CASE q = p /\ r.pc # "idle" /\ Sound(r, issued', born')
    <3>1. h'[q] = [r EXCEPT !.at = now]
      BY <1>1, <1>2, <2>3 DEF TypeOK
    <3> QED
      BY <1>3, <2>3, <3>1, SoundLater
  <2> QED
    BY <1>6, <2>1, <2>2, <2>3
<1>8. h' \in [Handlers -> Handler]
  <2>1. h'[p] \in Handler
    BY <1>7 DEF Sound, Shape
  <2> QED
    BY <1>1, <1>2, <2>1 DEF TypeOK
<1>9. \A q \in Handlers : /\ h'[q].pc \in HoldsSession => h'[q].snap # NoSession
                          /\ h'[q].pc \in HoldsNew => h'[q].new # NoSid
                          /\ h'[q].pc \notin {"idle", "rotate.only"} => h'[q].cur # NoSid
  BY <1>7 DEF Sound, Shape
<1>10. UNCHANGED <<now, requests, errors>>
  BY DEF Continue
<1>11. TypeOK'
  BY <1>1, <1>6, <1>8, <1>9, <1>10 DEF TypeOK, KeysKept, RedisTypes
<1>12. \A s \in Sid : s \in Nat
  BY DEF Sid
<1>13. IdsIssued'
  BY <1>3, <1>6, <1>12 DEF IdsIssued, KeysKept, Live
<1>14. AbsoluteCap'
  BY <1>1, <1>6 DEF AbsoluteCap, KeysKept, Live
<1> QED
  BY <1>7, <1>11, <1>13, <1>14 DEF IInv

LEMMA LocalKeeps ==
  ASSUME IInv, NEW p \in Handlers, NEW r, Proper(p, r), Local(p, r)
  PROVE  IInv'
  BY NothingKeeps, StepKeeps DEF Local

LEMMA GetKeeps ==
  ASSUME IInv, NEW p \in Handlers, NEW s \in Sid, NEW missing, NEW found,
         Get(p, s, missing, found),
         s \notin Live => Proper(p, missing),
         s \in Live => Proper(p, found)
  PROVE  IInv'
<1>1. KeysKept
  BY NothingKeeps DEF Get
<1>2. Continue(p, IF s \in Live THEN found ELSE missing)
  BY DEF Get
<1>3. CASE s \in Live
  BY <1>1, <1>2, <1>3, StepKeeps
<1>4. CASE s \notin Live
  BY <1>1, <1>2, <1>4, StepKeeps
<1> QED
  BY <1>3, <1>4

LEMMA JudgeIsProper ==
  ASSUME IInv, NEW p \in Handlers, NEW r, Carrier(p, r), r.snap # NoSession
  PROVE  Proper(p, Judge(r))
<1>1. Proper(p, Accept(r))
  BY AcceptIsProper
<1>2. Proper(p, Destroy(r, "reject"))
  BY DestroyIsProper DEF Returns
<1>3. Proper(p, To(r, "agent.setex"))
  BY ToIsProper DEF Labels, Destroying, HoldsNew
<1>4. Proper(p, [r EXCEPT !.pc = "rotate.get", !.snap = Renewed(@), !.new = Fresh])
  BY RotationIsProper
<1>5. r.binding \in AllBindings
  BY DEF Carrier, Handler
<1> QED
  BY <1>1, <1>2, <1>3, <1>4, <1>5 DEF Judge, AllBindings

\* What is known of a handler that is past its login, waiting at a label.
LEMMA Waiting ==
  ASSUME IInv, NEW p \in Handlers, h[p].pc # "idle", h[p].pc \notin LoginLabels
  PROVE  /\ Carrier(p, h[p])
         /\ h[p].cur \in Sid
         /\ h[p].method \in AllMethods
         /\ h[p].pc \in HoldsSession => h[p].snap # NoSession /\ h[p].snap \in Session
         /\ h[p].pc \in HoldsNew => h[p].new \in Sid
<1>1. Sound(h[p], issued, born)
  BY DEF IInv
<1>2. h[p].method # "login" /\ h[p] \in Handler /\ h[p].cur # NoSid
  BY <1>1 DEF Sound, Shape, LoginLabels
<1>3. Carrier(p, h[p])
  BY <1>2, BusyIsCarrier
<1> QED
  BY <1>1, <1>2, <1>3 DEF Carrier, Handler, NoSid, Sound, Shape

LEMMA ValidateKeeps ==
  ASSUME IInv, NEW p \in Handlers,
         ValidateGet(p) \/ ExtendGet(p) \/ ReloadGet(p) \/ RecheckGet(p)
  PROVE  IInv'
<1> DEFINE read == [h[p] EXCEPT !.snap = store[h[p].cur]]
<1>1. h[p].pc \in {"validate.get", "extend.get", "reload.get", "recheck.get"}
  BY DEF ValidateGet, ExtendGet, ReloadGet, RecheckGet, At
<1>2. Carrier(p, h[p]) /\ h[p].cur \in Sid
  BY <1>1, Waiting DEF LoginLabels
<1>3. Carrier(p, read) /\ (h[p].cur \in Live => read.snap # NoSession)
  BY <1>1, <1>2, ReadCookie
<1>4. /\ Proper(p, Reject(h[p]))
      /\ Proper(p, To(h[p], "recheck.get"))
      /\ Proper(p, To(h[p], "extend.eval"))
      /\ Proper(p, To(read, "extend.get"))
  BY <1>2, <1>3, RejectIsProper, ToIsProper DEF Labels, Destroying, HoldsSession, HoldsNew
<1>5. Proper(p, Destroy(read, "reject"))
  BY <1>3, DestroyIsProper DEF Returns
<1>6. h[p].cur \in Live => Proper(p, Judge(read))
  BY <1>3, JudgeIsProper
<1> HIDE DEF read
<1>7. CASE ValidateGet(p)
  <2>1. Get(p, h[p].cur, Reject(h[p]),
            IF ShouldExtend(read.method) THEN To(read, "extend.get") ELSE Judge(read))
    BY <1>7 DEF ValidateGet, read
  <2> QED
    BY <1>2, <1>4, <1>6, <2>1, GetKeeps
<1>8. CASE ExtendGet(p)
  BY <1>2, <1>4, <1>8, GetKeeps DEF ExtendGet
<1>9. CASE ReloadGet(p)
  <2>1. Get(p, h[p].cur, Reject(h[p]), Judge(read))
    BY <1>9 DEF ReloadGet, read
  <2> QED
    BY <1>2, <1>4, <1>6, <2>1, GetKeeps
<1>10. CASE RecheckGet(p)
  <2>1. Get(p, h[p].cur, Reject(h[p]),
            IF IsSessionValid(read.snap, now) THEN Judge(read) ELSE Destroy(read, "reject"))
    BY <1>10 DEF RecheckGet, read
  <2> QED
    BY <1>2, <1>4, <1>5, <1>6, <2>1, GetKeeps
<1> QED
  BY <1>7, <1>8, <1>9, <1>10

LEMMA ExtendEvalKeeps ==
  ASSUME IInv, NEW p \in Handlers, ExtendEval(p)
  PROVE  IInv'
<1> DEFINE s == h[p].cur
           t == h[p].at
<1>1. h[p].pc = "extend.eval"
  BY DEF ExtendEval, At
<1>2. Carrier(p, h[p]) /\ s \in Sid /\ t \in Nat /\ s <= issued
  BY <1>1, Waiting DEF LoginLabels, Carrier, Handler
<1>3. Proper(p, To(h[p], "reload.get")) /\ Proper(p, To(h[p], "recheck.get"))
  BY <1>2, ToIsProper DEF Labels, Destroying, HoldsSession, HoldsNew
<1>4. CASE ~Extendable(s, t)
  <2>1. Local(p, To(h[p], "recheck.get"))
    BY <1>4 DEF ExtendEval
  <2> QED
    BY <1>3, <2>1, LocalKeeps
<1>5. CASE Extendable(s, t)
  <2> DEFINE session == [store[s] EXCEPT !.seen = t]
             ttl == LuaTtl(store[s], t)
  <2>1. UpdateLastSeenKeys(s, t) /\ Continue(p, To(h[p], "reload.get"))
    BY <1>5 DEF ExtendEval
  <2>2. TypeOK /\ store[s] \in Session /\ s \in Live
    BY <1>2, <1>5 DEF Extendable, Live, IInv, TypeOK
  <2>3. session \in Session /\ session.exp = store[s].exp /\ store[s].user \in Users
    BY <1>2, <2>2 DEF Session
  <2>4. store[s].exp = born[s] + AbsoluteTtl * Second
    BY <2>2 DEF IInv, AbsoluteCap
  <2>5. ttl \in Nat
    BY <1>2, <2>2, TtlTypes
  <2>6. /\ SetEx(s, session, ttl)
        /\ UNCHANGED <<index, metric, fate>>
        /\ ExpireIndex(store[s].user, ttl)
    BY <2>1 DEF UpdateLastSeenKeys
  <2> HIDE DEF session, ttl
  <2>7. /\ store' \in [Sid -> Session \cup {NoSession}]
        /\ until' \in [Sid -> Nat]
        /\ store'[s] = session
        /\ \A x \in Sid \ {s} : store'[x] = store[x]
    BY <1>2, <2>2, <2>3, <2>5, <2>6, SetExTypes
  <2>8. indexUntil' \in [Users -> Nat]
    BY <2>2, <2>3, <2>5, <2>6, ExpireIndexTypes
  <2>9. KeysKept
    BY <1>2, <2>2, <2>3, <2>4, <2>6, <2>7, <2>8
       DEF KeysKept, RedisTypes, TypeOK, IInv, IdsIssued, Live
  <2> QED
    BY <1>3, <2>1, <2>9, StepKeeps
<1> QED
  BY <1>4, <1>5

\* A handler may write back the value it holds: it is of the sign-in of its cookie.
LEMMA HeldValue ==
  ASSUME IInv, NEW p \in Handlers, h[p].pc \in HoldsSession, h[p].pc \notin LoginLabels
  PROVE  /\ Carrier(p, h[p])
         /\ h[p].cur \in Sid /\ h[p].cur <= issued
         /\ h[p].snap \in Session /\ h[p].snap # NoSession
         /\ h[p].snap.exp = born[h[p].cur] + AbsoluteTtl * Second
         /\ h[p].at \in Nat
<1>1. h[p].pc # "idle"
  BY DEF HoldsSession
<1> QED
  BY <1>1, Waiting DEF Carrier, Handler

LEMMA AgentKeeps ==
  ASSUME IInv, NEW p \in Handlers, AgentSetEx(p) \/ AgentExpire(p)
  PROVE  IInv'
<1> DEFINE ttl == SessionTtl(h[p].snap, h[p].at)
<1>1. h[p].pc \in {"agent.setex", "agent.expire"}
  BY DEF AgentSetEx, AgentExpire, At
<1>2. /\ Carrier(p, h[p])
      /\ h[p].cur \in Sid /\ h[p].cur <= issued
      /\ h[p].snap \in Session /\ h[p].snap # NoSession
      /\ h[p].snap.exp = born[h[p].cur] + AbsoluteTtl * Second
      /\ h[p].at \in Nat
  BY <1>1, HeldValue DEF HoldsSession, LoginLabels
<1>3. ttl \in Nat /\ h[p].snap.user \in Users
  BY <1>2, TtlTypes DEF Session
<1>4. CASE AgentSetEx(p)
  <2>1. /\ SetEx(h[p].cur, h[p].snap, ttl)
        /\ Continue(p, To(h[p], "agent.expire"))
        /\ UNCHANGED <<index, indexUntil, metric, fate>>
    BY <1>4 DEF AgentSetEx, To
  <2>2. Proper(p, To(h[p], "agent.expire"))
    BY <1>2, ToIsProper DEF Labels, Destroying, HoldsNew
  <2> QED
    BY <1>2, <1>3, <2>1, <2>2, SetExKeeps, StepKeeps
<1>5. CASE AgentExpire(p)
  <2>1. /\ UNCHANGED <<store, until, index, metric, fate>>
        /\ ExpireIndex(h[p].snap.user, ttl)
        /\ Continue(p, Accept(h[p]))
    BY <1>5 DEF AgentExpire
  <2>2. indexUntil' \in [Users -> Nat]
    BY <1>3, <2>1, ExpireIndexTypes DEF IInv
  <2>3. KeysKept
    BY <2>1, <2>2 DEF KeysKept, RedisTypes, IInv, TypeOK, IdsIssued, Live
  <2> QED
    BY <1>2, <2>1, <2>3, AcceptIsProper, StepKeeps
<1> QED
  BY <1>4, <1>5

LEMMA RiskKeeps ==
  ASSUME IInv, NEW p \in Handlers, RiskGet(p) \/ RiskSetEx(p)
  PROVE  IInv'
<1>1. h[p].pc \in {"risk.get", "risk.setex"}
  BY DEF RiskGet, RiskSetEx, At
<1>2. Carrier(p, h[p]) /\ h[p].cur \in Sid
  BY <1>1, Waiting DEF LoginLabels
<1>3. Proper(p, Idle)
  BY DEF Proper
<1>4. CASE RiskGet(p)
  <2> DEFINE read == [h[p] EXCEPT !.snap = store[h[p].cur]]
             raised == [read EXCEPT !.pc = "risk.setex", !.snap.high = TRUE]
             value == [read.snap EXCEPT !.high = TRUE]
             raise == [read EXCEPT !.snap = value]
  <2>1. Get(p, h[p].cur, Idle, IF read.snap.high THEN Idle ELSE raised)
    <3>1. read.cur = h[p].cur
      BY <1>2 DEF Carrier, Handler
    <3> QED
      BY <1>4, <3>1 DEF RiskGet
  <2>2. /\ Carrier(p, read)
        /\ read.snap = store[h[p].cur]
        /\ h[p].cur \in Live => read.snap \in Session
    BY <1>1, <1>2, ReadCookie DEF IInv, TypeOK, Live
  <2>3. ASSUME h[p].cur \in Live PROVE Proper(p, raised)
    <3>1. value \in Session /\ value.exp = read.snap.exp
      BY <2>2, <2>3 DEF Session
    <3>2. Carrier(p, raise) /\ raise.snap # NoSession
      <4>1. value # NoSession /\ read.snap # NoSession
        BY <2>2, <2>3, <3>1, ConstantsAssumption
      <4> HIDE DEF value, read
      <4> QED
        BY <2>2, <3>1, <4>1 DEF Carrier, Handler
    <3>3. Proper(p, To(raise, "risk.setex"))
      BY <3>2, ToIsProper DEF Labels, Destroying, HoldsNew
    <3>4. raised = To(raise, "risk.setex")
      BY <2>2 DEF To, Carrier, Handler
    <3> QED
      BY <3>3, <3>4
  <2> HIDE DEF raised, read
  <2> QED
    BY <1>2, <1>3, <2>1, <2>3, GetKeeps
<1>5. CASE RiskSetEx(p)
  <2> DEFINE ttl == RiskTtl(h[p].snap, h[p].at)
  <2>1. /\ h[p].cur <= issued
        /\ h[p].snap \in Session
        /\ h[p].snap.exp = born[h[p].cur] + AbsoluteTtl * Second
        /\ h[p].at \in Nat
    BY <1>5, HeldValue DEF RiskSetEx, At, HoldsSession, LoginLabels
  <2>2. ttl \in Int
    BY <2>1, TtlTypes
  <2>3. CASE ttl <= 0
    BY <1>3, <1>5, <2>3, LocalKeeps DEF RiskSetEx
  <2>4. CASE ~(ttl <= 0)
    <3>1. /\ SetEx(h[p].cur, h[p].snap, ttl)
          /\ Continue(p, Idle)
          /\ UNCHANGED <<index, indexUntil, metric, fate>>
      BY <1>5, <2>4 DEF RiskSetEx
    <3>2. ttl \in Nat
      BY <2>2, <2>4
    <3> QED
      BY <1>2, <1>3, <2>1, <3>1, <3>2, SetExKeeps, StepKeeps
  <2> QED
    BY <2>3, <2>4
<1> QED
  BY <1>4, <1>5
-----------------------------------------------------------------------------
(* Rotation, also by a login: the handler may still be starting a session.  *)

LEMMA LoginTo ==
  ASSUME IInv, NEW p \in Handlers, h[p].pc \in {"rotate.get", "rotate.create", "rotate.only"},
         NEW label \in {"rotate.create", "rotate.only"},
         label = "rotate.create" => h[p].cur # NoSid
  PROVE  Proper(p, To(h[p], label))
<1> DEFINE next == To(h[p], label)
<1>1. Sound(h[p], issued, born) /\ h[p] \in Handler
  BY DEF IInv, Sound, Shape
<1>2. /\ next \in Handler
      /\ next.pc = label /\ next.method = h[p].method /\ next.cur = h[p].cur
      /\ next.new = h[p].new /\ next.snap = h[p].snap /\ next.after = h[p].after
  BY <1>1 DEF To, Handler, Labels
<1> HIDE DEF next
<1>3. Sound(next, issued, born)
  BY <1>1, <1>2 DEF Sound, Shape, Origin, HoldsSession, HoldsNew, Destroying, LoginLabels
<1> QED
  BY <1>2, <1>3 DEF Proper, next

LEMMA LoginDestroy ==
  ASSUME IInv, NEW p \in Handlers, h[p].pc \in LoginLabels, h[p].method = "login",
         h[p].cur # NoSid
  PROVE  Proper(p, Destroy(h[p], "done"))
<1> DEFINE next == Destroy(h[p], "done")
<1>1. Sound(h[p], issued, born) /\ h[p] \in Handler
  BY DEF IInv, Sound, Shape
<1>2. /\ next \in Handler
      /\ next.pc = "destroy.get" /\ next.method = h[p].method /\ next.cur = h[p].cur
      /\ next.new = h[p].new /\ next.snap = NoSession /\ next.after = "done"
  BY <1>1 DEF Destroy, Handler, Labels, Returns
<1> HIDE DEF next
<1>3. Sound(next, issued, born)
  BY <1>1, <1>2 DEF Sound, Shape, Origin, HoldsSession, HoldsNew, Destroying, LoginLabels
<1> QED
  BY <1>2, <1>3 DEF Proper, next

LEMMA CreateFailedIsProper ==
  ASSUME IInv, NEW p \in Handlers, h[p].pc # "idle"
  PROVE  Proper(p, CreateFailed(h[p]))
<1>1. h[p].method # "login" => Proper(p, Reject(h[p]))
  BY BusyIsCarrier, RejectIsProper
<1> QED
  BY <1>1 DEF CreateFailed, Proper

\* createSession stores a value of the sign-in of the id it is stored under.
LEMMA CreateStep ==
  ASSUME IInv, NEW p \in Handlers,
         h[p].pc \in {"rotate.create", "rotate.only", "keep.create"},
         NEW failed, Proper(p, failed), NEW created, Proper(p, created),
         Create(p, failed, created)
  PROVE  IInv'
<1>1. Sound(h[p], issued, born) /\ h[p] \in Handler
  BY DEF IInv, Sound, Shape
<1>2. /\ h[p].new \in Sid /\ h[p].new <= issued
      /\ h[p].snap \in Session
      /\ h[p].at \in Nat
      /\ h[p].snap.exp = born[h[p].new] + AbsoluteTtl * Second
  BY <1>1 DEF Sound, Shape, HoldsSession, HoldsNew, Handler, NoSid, Origin
<1>3. CASE Expired(h[p].snap, h[p].at)
  BY <1>3, LocalKeeps DEF Create
<1>4. CASE ~Expired(h[p].snap, h[p].at)
  <2>1. CreateKeys(h[p].new, h[p].snap, h[p].at) /\ Continue(p, created)
    BY <1>4 DEF Create
  <2>2. KeysKept
    BY <1>2, <2>1, CreateKeeps
  <2> QED
    BY <2>1, <2>2, StepKeeps
<1> QED
  BY <1>3, <1>4

LEMMA RotateKeeps ==
  ASSUME IInv, NEW p \in Handlers,
         RotateGet(p) \/ RotateCreate(p) \/ RotateOnly(p) \/ RotateReload(p)
  PROVE  IInv'
<1>1. Sound(h[p], issued, born) /\ h[p] \in Handler
  BY DEF IInv, Sound, Shape
<1>2. CASE RotateGet(p)
  <2>1. h[p].pc = "rotate.get" /\ h[p].cur \in Sid
    BY <1>1, <1>2 DEF RotateGet, At, Sound, Shape, Handler, NoSid
  <2>2. Proper(p, To(h[p], "rotate.only")) /\ Proper(p, To(h[p], "rotate.create"))
    BY <2>1, LoginTo DEF NoSid, Sid
  <2> QED
    BY <1>2, <2>1, <2>2, GetKeeps DEF RotateGet
<1>3. CASE RotateCreate(p)
  <2>1. h[p].pc = "rotate.create" /\ h[p].cur # NoSid /\ h[p].new # NoSid
    BY <1>1, <1>3 DEF RotateCreate, At, Sound, Shape, HoldsNew
  <2>2. h[p].method = "login" => Proper(p, Destroy(h[p], "done"))
    BY <2>1, LoginDestroy DEF LoginLabels
  <2>3. h[p].method # "login" => Proper(p, Destroy(h[p], "reload"))
    BY <2>1, BusyIsCarrier, DestroyIsProper DEF Returns
  <2>4. Proper(p, Destroy(h[p], IF h[p].method = "login" THEN "done" ELSE "reload"))
    BY <2>2, <2>3
  <2>5. Proper(p, CreateFailed(h[p]))
    BY <2>1, CreateFailedIsProper
  <2> QED
    BY <1>3, <2>1, <2>4, <2>5, CreateStep DEF RotateCreate
<1>4. CASE RotateOnly(p)
  <2> DEFINE next == [h[p] EXCEPT !.pc = "rotate.reload", !.snap = NoSession]
  <2>1. h[p].pc = "rotate.only" /\ h[p].new # NoSid
    BY <1>1, <1>4 DEF RotateOnly, At, Sound, Shape, HoldsNew
  <2>2. ASSUME h[p].method # "login" PROVE Proper(p, next)
    <3>1. Carrier(p, h[p])
      BY <2>1, <2>2, BusyIsCarrier
    <3> QED
      BY <2>1, <3>1 DEF AllMethods, Carrier, Proper, Sound, Shape, Handler, Labels,
         HoldsSession, HoldsNew, Destroying, NoSid
  <2>3. Proper(p, CreateFailed(h[p])) /\ Proper(p, Idle)
    BY <2>1, CreateFailedIsProper DEF Proper
  <2> HIDE DEF next
  <2>4. Proper(p, IF h[p].method = "login" THEN Idle ELSE next)
    BY <2>2, <2>3
  <2> QED
    BY <1>4, <2>1, <2>3, <2>4, CreateStep DEF RotateOnly, next
<1>5. CASE RotateReload(p)
  <2> DEFINE read == [h[p] EXCEPT !.snap = store[h[p].new]]
  <2>1. h[p].pc = "rotate.reload"
    BY <1>5 DEF RotateReload, At
  <2>2. Carrier(p, h[p]) /\ h[p].new \in Sid /\ h[p].new # NoSid
    BY <2>1, Waiting DEF LoginLabels, HoldsNew, Sid, NoSid
  <2>3. Carrier(p, read) /\ read.snap = store[h[p].new]
    BY <2>1, <2>2, ReadIsCarrier DEF Carrier, AllMethods, Handler
  <2> HIDE DEF read
  <2>4. h[p].new \in Live => Proper(p, Accept(read))
    BY <2>3, AcceptIsProper DEF Live
  <2>5. Proper(p, Reject(h[p]))
    BY <2>2, RejectIsProper
  <2>6. Get(p, h[p].new, Reject(h[p]), Accept(read))
    BY <1>5 DEF RotateReload, read
  <2> QED
    BY <2>2, <2>4, <2>5, <2>6, GetKeeps
<1> QED
  BY <1>2, <1>3, <1>4, <1>5

\* destroySession returns to the login that called it, or to a later step.
LEMMA AfterDestroy ==
  ASSUME IInv, NEW p \in Handlers, h[p].pc \in Destroying
  PROVE  /\ Proper(p, Return(h[p]))
         /\ Proper(p, To(h[p], "destroy.eval"))
         /\ h[p].cur \in Sid
<1>1. Sound(h[p], issued, born) /\ h[p] \in Handler
  BY DEF IInv, Sound, Shape
<1>2. h[p].cur \in Sid /\ (h[p].after = "reload" => h[p].new # NoSid) /\ h[p].pc # "idle"
  BY <1>1 DEF Sound, Shape, Handler, NoSid, Destroying
<1>3. Proper(p, Return(h[p]))
  <2>1. CASE h[p].method # "login"
    BY <1>2, <2>1, BusyIsCarrier, ReturnIsProper
  <2>2. CASE h[p].method = "login"
    <3>1. h[p].after = "done"
      BY <1>1, <2>2 DEF Sound, Shape
    <3> QED
      BY <3>1 DEF Return, Proper
  <2> QED
    BY <2>1, <2>2
<1>4. Proper(p, To(h[p], "destroy.eval"))
  <2> DEFINE next == To(h[p], "destroy.eval")
  <2>1. /\ next \in Handler
        /\ next.pc = "destroy.eval" /\ next.method = h[p].method /\ next.cur = h[p].cur
        /\ next.new = h[p].new /\ next.snap = h[p].snap /\ next.after = h[p].after
    BY <1>1 DEF To, Handler, Labels
  <2> HIDE DEF next
  <2>2. Sound(next, issued, born)
    BY <1>1, <1>2, <2>1
       DEF Sound, Shape, Origin, HoldsSession, HoldsNew, Destroying, LoginLabels
  <2> QED
    BY <2>1, <2>2 DEF Proper, next
<1> QED
  BY <1>2, <1>3, <1>4

LEMMA DestroyStepKeeps ==
  ASSUME IInv, NEW p \in Handlers, DestroyGet(p) \/ DestroyEval(p)
  PROVE  IInv'
<1>1. h[p].pc \in Destroying
  BY DEF DestroyGet, DestroyEval, At, Destroying
<1>2. /\ Proper(p, Return(h[p]))
      /\ Proper(p, To(h[p], "destroy.eval"))
      /\ h[p].cur \in Sid
  BY <1>1, AfterDestroy
<1>3. CASE DestroyGet(p)
  BY <1>2, <1>3, GetKeeps DEF DestroyGet
<1>4. CASE DestroyEval(p)
  BY <1>2, <1>4, DestroyKeeps, StepKeeps DEF DestroyEval
<1> QED
  BY <1>3, <1>4
-----------------------------------------------------------------------------
(* The methods.                                                             *)

LEMMA InvokeKeeps ==
  ASSUME IInv, NEW p \in Handlers, Invoke(p)
  PROVE  IInv'
<1> DEFINE next == CASE h[p].method \in {"read", "write"} -> Idle
                     [] h[p].method = "signout" -> Destroy(h[p], "done")
                     [] h[p].method = "signoutAll" -> To(h[p], "all.members")
                     [] h[p].method = "keepAlive" -> To(h[p], "keep.get")
                     [] h[p].method = "badCsrf" -> To(h[p], "risk.get")
<1>1. h[p].pc = "invoke" /\ Local(p, next)
  BY DEF Invoke, At
<1>2. /\ Carrier(p, h[p])
      /\ h[p].method \in AllMethods
      /\ h[p].snap # NoSession
  BY <1>1, Waiting DEF LoginLabels, HoldsSession
<1>3. Proper(p, Destroy(h[p], "done"))
  BY <1>2, DestroyIsProper DEF Returns
<1>4. /\ Proper(p, To(h[p], "all.members"))
      /\ Proper(p, To(h[p], "keep.get"))
      /\ Proper(p, To(h[p], "risk.get"))
  BY <1>2, ToIsProper DEF Labels, Destroying, HoldsSession, HoldsNew
<1>5. Proper(p, Idle)
  BY DEF Proper
<1>6. Proper(p, next)
  BY <1>2, <1>3, <1>4, <1>5 DEF AllMethods
<1> HIDE DEF next
<1> QED
  BY <1>1, <1>6, LocalKeeps

LEMMA SignoutAllKeeps ==
  ASSUME IInv, NEW p \in Handlers, AllMembers(p) \/ AllEval(p) \/ AllDel(p)
  PROVE  IInv'
<1>1. h[p].pc \in {"all.members", "all.eval", "all.del"}
  BY DEF AllMembers, AllEval, AllDel, At
<1>2. /\ Carrier(p, h[p]) /\ h[p] \in Handler
      /\ h[p].snap \in Session /\ h[p].snap # NoSession
  BY <1>1, HeldValue DEF HoldsSession, LoginLabels, Carrier
<1>3. Proper(p, Idle)
  BY DEF Proper
<1>4. ASSUME NEW label \in {"all.eval", "all.del"}, NEW todo \in SUBSET Sid
      PROVE  Proper(p, [h[p] EXCEPT !.todo = todo, !.pc = label])
  BY <1>2 DEF AllMethods, Carrier, Proper, Sound, Shape, Handler, Labels, HoldsSession,
              HoldsNew, Destroying, NoSid, Origin
<1>5. CASE AllMembers(p)
  <2> DEFINE ids == index[h[p].snap.user]
             next == [h[p] EXCEPT !.todo = ids, !.pc = "all.eval"]
  <2>1. ids \in SUBSET Sid
    BY <1>2 DEF Session, IInv, TypeOK
  <2>2. Proper(p, next)
    BY <1>4, <2>1
  <2>3. next = [h[p] EXCEPT !.pc = "all.eval", !.todo = ids]
    BY <1>2, <2>1 DEF Handler, Labels
  <2>4. Local(p, IF ids = {} THEN Idle ELSE next)
    BY <1>5, <2>3 DEF AllMembers
  <2> HIDE DEF next, ids
  <2> QED
    BY <1>3, <2>2, <2>4, LocalKeeps
<1>6. CASE AllEval(p)
  <2>1. PICK s \in h[p].todo :
          /\ DestroyKeys(s)
          /\ Continue(p, [h[p] EXCEPT !.todo = @ \ {s},
                                      !.pc = IF h[p].todo = {s} THEN "all.del" ELSE @])
    BY <1>6 DEF AllEval
  <2> DEFINE label == IF h[p].todo = {s} THEN "all.del" ELSE "all.eval"
             next == [h[p] EXCEPT !.todo = h[p].todo \ {s}, !.pc = label]
  <2>2. s \in Sid /\ h[p].todo \ {s} \in SUBSET Sid
    BY <1>2 DEF Handler
  <2>3. Proper(p, next)
    BY <1>4, <2>2
  <2>4. Continue(p, next)
    BY <1>6, <2>1 DEF AllEval, At
  <2> HIDE DEF next
  <2> QED
    BY <2>1, <2>2, <2>3, <2>4, DestroyKeeps, StepKeeps
<1>7. CASE AllDel(p)
  <2>1. /\ index' = [index EXCEPT ![h[p].snap.user] = {}]
        /\ indexUntil' = [indexUntil EXCEPT ![h[p].snap.user] = 0]
        /\ UNCHANGED <<store, until, metric, fate>>
        /\ Continue(p, Idle)
    BY <1>7 DEF AllDel
  <2>2. KeysKept
    BY <2>1 DEF KeysKept, RedisTypes, IInv, TypeOK, IdsIssued, Live
  <2> QED
    BY <1>3, <2>1, <2>2, StepKeeps
<1> QED
  BY <1>5, <1>6, <1>7

LEMMA KeepAliveKeeps ==
  ASSUME IInv, NEW p \in Handlers, KeepGet(p) \/ KeepCreate(p)
  PROVE  IInv'
<1>1. h[p].pc \in {"keep.get", "keep.create"}
  BY DEF KeepGet, KeepCreate, At
<1>2. Carrier(p, h[p]) /\ h[p].cur \in Sid /\ h[p] \in Handler
  BY <1>1, Waiting DEF LoginLabels, Carrier
<1>3. Proper(p, Idle)
  BY DEF Proper
<1>4. CASE KeepGet(p)
  <2> DEFINE read == [h[p] EXCEPT !.snap = store[h[p].cur]]
             next == [read EXCEPT !.pc = "keep.create", !.snap = Renewed(@), !.new = Fresh]
  <2>1. Carrier(p, read) /\ (h[p].cur \in Live => read.snap # NoSession)
    BY <1>1, <1>2, ReadCookie
  <2>2. Get(p, h[p].cur, Idle,
            IF read.snap.exp < now
            THEN Destroy(read, "again")
            ELSE IF now - read.snap.seen > IdleTtl * Second
            THEN Destroy(read, "done")
            ELSE next)
    <3>1. read.cur = h[p].cur
      BY <1>2 DEF Handler
    <3> QED
      BY <1>4, <3>1 DEF KeepGet
  <2>3. Proper(p, Destroy(read, "again")) /\ Proper(p, Destroy(read, "done"))
    BY <2>1, DestroyIsProper DEF Returns
  <2>4. h[p].cur \in Live => Proper(p, next)
    <3> HIDE DEF read
    <3> QED
      BY <2>1, RotationIsProper
  <2> HIDE DEF next, read
  <2> QED
    BY <1>2, <1>3, <2>2, <2>3, <2>4, GetKeeps
<1>5. CASE KeepCreate(p)
  <2>1. Create(p, Idle, Destroy(h[p], "done")) /\ h[p].pc = "keep.create"
    BY <1>5 DEF KeepCreate, At
  <2>2. Proper(p, Destroy(h[p], "done"))
    BY <1>2, DestroyIsProper DEF Returns
  <2> QED
    BY <1>3, <2>1, <2>2, CreateStep
<1> QED
  BY <1>4, <1>5
-----------------------------------------------------------------------------
(* Requests, failures and time.                                             *)

LEMMA ArrivedTypes ==
  ASSUME now \in Nat, NEW pc \in Labels, NEW m \in AllMethods \cup {"none", "login"},
         NEW b \in AllBindings, NEW s \in Sid \cup {NoSid}, NEW id \in Sid \cup {NoSid},
         NEW value \in Session \cup {NoSession}
  PROVE  /\ Arrived(pc, m, b, s, id, value) \in Handler
         /\ Arrived(pc, m, b, s, id, value).pc = pc
         /\ Arrived(pc, m, b, s, id, value).method = m
         /\ Arrived(pc, m, b, s, id, value).cur = s
         /\ Arrived(pc, m, b, s, id, value).new = id
         /\ Arrived(pc, m, b, s, id, value).snap = value
         /\ Arrived(pc, m, b, s, id, value).after = "done"
  BY DEF Arrived, Handler, Returns

LEMMA RequestKeeps ==
  ASSUME IInv, NEW p \in Handlers, NEW m \in Methods, NEW b \in Bindings,
         NEW s \in Cookies, Request(p, m, b, s)
  PROVE  IInv'
<1> DEFINE r == Arrived("validate.get", m, b, s, NoSid, NoSession)
<1>1. m \in AllMethods /\ b \in AllBindings
  BY ConstantsAssumption
<1>2. s \in Sid /\ s <= issued /\ s # NoSid /\ now \in Nat /\ issued \in Nat
  BY DEF Cookies, IInv, IdsIssued, TypeOK, Sid, NoSid
<1>3. Sound(r, issued, born)
  <2>1. /\ r \in Handler
        /\ r.pc = "validate.get" /\ r.method = m /\ r.cur = s /\ r.new = NoSid
        /\ r.snap = NoSession
    BY <1>1, <1>2, ArrivedTypes DEF Labels
  <2> HIDE DEF r
  <2> QED
    BY <1>1, <1>2, <2>1 DEF Sound, Shape, AllMethods, NoSid, HoldsSession, HoldsNew,
       Destroying, LoginLabels
<1>4. /\ h' = [h EXCEPT ![p] = r]
      /\ UNCHANGED <<now, redis, issued, errors, fate, born>>
      /\ requests' = requests + 1
  BY DEF Request
<1> HIDE DEF r
<1>5. \A q \in Handlers : Sound(h'[q], issued, born)
  BY <1>3, <1>4 DEF IInv, TypeOK
<1>6. TypeOK'
  BY <1>3, <1>4, <1>5 DEF IInv, TypeOK, redis, Sound, Shape
<1> QED
  BY <1>4, <1>5, <1>6 DEF IInv, IdsIssued, AbsoluteCap, Live, redis

LEMMA StartSessionKeeps ==
  ASSUME IInv, NEW p \in Handlers, NEW u \in Users, NEW s \in Cookies \cup {NoSid},
         StartSession(p, u, s)
  PROVE  IInv'
<1> USE DEF NoSid
<1> DEFINE session == [user |-> u, seen |-> now, exp |-> now + AbsoluteTtl * Second,
                       high |-> FALSE]
           label == IF s = NoSid THEN "rotate.only" ELSE "rotate.get"
           r == Arrived(label, "login", "same", s, Fresh, session)
<1>1. /\ s \in Sid \cup {NoSid} /\ s <= issued /\ now \in Nat
      /\ issued \in Nat /\ MaxSid \in Nat
  BY ConstantsAssumption DEF Cookies, IInv, IdsIssued, TypeOK
<1>2. session \in Session /\ session # NoSession /\ session.exp = now + AbsoluteTtl * Second
  <2>1. now + AbsoluteTtl * Second \in Nat
    BY <1>1, TimeTypes
  <2>2. session \in Session
    BY <1>1, <2>1 DEF Session
  <2> QED
    BY <2>2, ConstantsAssumption
<1> HIDE DEF session
<1>3. Needs(r) = 1 /\ Affordable(r)
  BY DEF StartSession, Needs, Arrived, session
<1>4. Fresh \in Sid /\ Fresh = issued + 1
  <2>1. Reserved \in Nat
    <3> DEFINE S == {x \in Busy \X (1..3) : x[2] <= Needs(h[x[1]])}
    <3>1. IsFiniteSet(Busy)
      BY ConstantsAssumption, FS_Subset DEF Busy
    <3>2. IsFiniteSet(Busy \X (1..3))
      <4>1. IsFiniteSet(1..3)
        BY 1 \in Int, 3 \in Int, FS_Interval
      <4> QED
        BY <3>1, <4>1, FS_Product
    <3>3. IsFiniteSet(S)
      BY <3>2, FS_Subset
    <3> QED
      BY <3>3, FS_CardinalityType DEF Reserved
  <2> QED
    BY <1>1, <1>3, <2>1 DEF Affordable, Fresh, Sid
<1>5. /\ h' = [h EXCEPT ![p] = r]
      /\ issued' = Fresh
      /\ born' = [born EXCEPT ![Fresh] = now]
      /\ UNCHANGED <<now, redis, errors, fate>>
      /\ requests' = requests + 1
  BY DEF StartSession, session
<1>6. /\ born'[Fresh] = now
      /\ born' \in [Sid -> Nat]
      /\ \A x \in Sid : x <= issued => born'[x] = born[x]
  BY <1>1, <1>4, <1>5 DEF IInv, TypeOK
<1>7. Sound(r, issued', born')
  <2>1. /\ r \in Handler
        /\ r.pc = label
        /\ r.method = "login" /\ r.cur = s /\ r.new = Fresh /\ r.snap = session
    <3>1. label \in Labels /\ "login" \in AllMethods \cup {"none", "login"}
             /\ "same" \in AllBindings
      BY DEF Labels, AllBindings
    <3>2. /\ now \in Nat /\ s \in Sid \cup {NoSid} /\ Fresh \in Sid \cup {NoSid}
          /\ session \in Session \cup {NoSession}
      BY <1>1, <1>2, <1>4
    <3> HIDE DEF label
    <3> QED
      BY <3>1, <3>2 DEF Arrived, Handler, Returns
  <2> HIDE DEF r
  <2> QED
    BY <1>1, <1>2, <1>4, <1>5, <1>6, <2>1 DEF Sound, Shape, HoldsSession, HoldsNew,
       Destroying, LoginLabels, Origin
<1> HIDE DEF r
<1>8. \A q \in Handlers : Sound(h'[q], issued', born')
  <2> TAKE q \in Handlers
  <2>1. h'[q] = IF q = p THEN r ELSE h[q]
    BY <1>5 DEF IInv, TypeOK
  <2>2. Sound(h[q], issued, born)
    BY DEF IInv
  <2>3. issued' \in Nat /\ issued <= issued'
    BY <1>1, <1>4, <1>5
  <2>4. Sound(h[q], issued', born')
    BY <1>1, <1>6, <2>2, <2>3, SoundLasts
  <2> QED
    BY <1>7, <2>1, <2>4
<1>9. TypeOK'
  BY <1>1, <1>4, <1>5, <1>6, <1>7, <1>8 DEF IInv, TypeOK, redis, Sound, Shape, Sid
<1>10. AbsoluteCap'
  BY <1>5, <1>6 DEF IInv, IdsIssued, AbsoluteCap, Live, redis
<1>11. IdsIssued'
  BY <1>1, <1>4, <1>5 DEF IInv, IdsIssued, Live, redis, Sid
<1> QED
  BY <1>8, <1>9, <1>10, <1>11 DEF IInv

LEMMA ErrorIsProper ==
  ASSUME IInv, NEW p \in Busy, h[p].pc # "invoke"
  PROVE  Proper(p, OnError(h[p]))
<1>1. p \in Handlers /\ h[p].pc # "idle" /\ h[p].pc \in Labels
  BY DEF Busy, IInv, TypeOK, Handler
<1>2. h[p].pc \notin LoginLabels =>
        Proper(p, Reject(h[p])) /\ Proper(p, To(h[p], "recheck.get"))
  BY <1>1, Waiting, RejectIsProper, ToIsProper DEF Labels, Destroying, HoldsSession, HoldsNew
<1>3. h[p].pc = "rotate.get" => Proper(p, To(h[p], "rotate.only"))
  BY <1>1, LoginTo
<1>4. Proper(p, CreateFailed(h[p]))
  BY <1>1, CreateFailedIsProper
<1>5. h[p].pc \in Destroying => Proper(p, Return(h[p]))
  BY <1>1, AfterDestroy
<1>6. Proper(p, Idle)
  BY DEF Proper
<1> QED
  BY <1>1, <1>2, <1>3, <1>4, <1>5, <1>6 DEF OnError, Labels, LoginLabels, Destroying

LEMMA RedisErrorKeeps ==
  ASSUME IInv, NEW p \in Handlers, RedisError(p)
  PROVE  IInv'
<1> DEFINE r == OnError(h[p])
<1>1. p \in Busy /\ h[p].pc # "invoke"
  BY DEF RedisError, At
<1>2. /\ h' = [h EXCEPT ![p] = IF r.pc = "idle" THEN Idle ELSE [r EXCEPT !.at = now]]
      /\ errors' = errors + 1
      /\ UNCHANGED <<now, redis, issued, requests, fate, born>>
  BY DEF RedisError
<1>3. r = Idle \/ (r.pc # "idle" /\ Sound(r, issued, born))
  <2>1. h[p] \in Handler /\ h[p].new <= issued /\ issued \in Nat
    BY <1>1 DEF Busy, IInv, TypeOK, Sound
  <2>2. r.new \in {h[p].new, NoSid}
    BY <2>1 DEF OnError, Reject, Return, CreateFailed, Destroy, To, Idle, Handler, Returns
  <2>3. r.new # Fresh
    BY <2>1, <2>2 DEF Fresh, Handler, NoSid, Sid
  <2> QED
    BY <1>1, <2>3, ErrorIsProper DEF Proper
<1> HIDE DEF r
<1>4. \A q \in Handlers : Sound(h'[q], issued, born)
  BY <1>2, <1>3, IdleIsSound, SoundLater DEF IInv, TypeOK
<1>5. TypeOK'
  BY <1>2, <1>4 DEF IInv, TypeOK, redis, Sound, Shape
<1> QED
  BY <1>2, <1>4, <1>5 DEF IInv, IdsIssued, AbsoluteCap, Live, redis

LEMMA TickKeeps ==
  ASSUME IInv, Tick
  PROVE  IInv'
<1> DEFINE lapsed == {s \in Live : until[s] <= now'}
           dropped == {u \in Users : indexUntil[u] <= now'}
<1>1. TypeOK /\ now' = now + 1 /\ UNCHANGED <<metric, issued, requests, errors, born, h>>
  BY DEF Tick, IInv
<1>2. /\ store' = [s \in Sid |-> IF s \in lapsed THEN NoSession ELSE store[s]]
      /\ until' = [s \in Sid |-> IF s \in lapsed THEN 0 ELSE until[s]]
      /\ fate' = [s \in Sid |-> IF s \in lapsed /\ fate[s] = "live" THEN "lapsed" ELSE fate[s]]
  BY DEF Tick
<1>3. /\ index' = [u \in Users |-> IF u \in dropped THEN {} ELSE index[u]]
      /\ indexUntil' = [u \in Users |-> IF u \in dropped THEN 0 ELSE indexUntil[u]]
  BY DEF Tick
<1> HIDE DEF lapsed, dropped
<1>4. TypeOK'
  BY <1>1, <1>2, <1>3 DEF TypeOK
<1>5. \A s \in Sid : store'[s] # NoSession => store'[s] = store[s]
  BY <1>2
<1>6. \A s \in Sid : fate'[s] # "unborn" => fate[s] # "unborn"
  BY <1>2
<1> QED
  BY <1>1, <1>4, <1>5, <1>6 DEF IInv, IdsIssued, AbsoluteCap, Live
-----------------------------------------------------------------------------
LEMMA InitSound == Init => IInv
<1> SUFFICES ASSUME Init PROVE IInv
  OBVIOUS
<1>1. Idle \in Handler
  BY IdleIsSound DEF Sound, Shape
<1>2. TypeOK
  BY <1>1, ConstantsAssumption DEF Init, TypeOK, Idle, HoldsSession, HoldsNew
<1>3. \A p \in Handlers : Sound(h[p], issued, born)
  BY IdleIsSound DEF Init
<1> QED
  BY <1>2, <1>3 DEF Init, IInv, IdsIssued, AbsoluteCap, Live

LEMMA NextKeeps == IInv /\ [Next]_vars => IInv'
<1> SUFFICES ASSUME IInv, [Next]_vars PROVE IInv'
  OBVIOUS
<1>1. ASSUME NEW p \in Handlers, Handle(p) PROVE IInv'
  BY <1>1, ValidateKeeps, ExtendEvalKeeps, AgentKeeps, RotateKeeps, DestroyStepKeeps,
     InvokeKeeps, SignoutAllKeeps, KeepAliveKeeps, RiskKeeps DEF Handle
<1>2. CASE UNCHANGED vars
  BY <1>2 DEF vars, redis, IInv, TypeOK, IdsIssued, AbsoluteCap, Live
<1>3. CASE Quiescent
  BY <1>2, <1>3 DEF Quiescent
<1> QED
  BY <1>1, <1>2, <1>3, RequestKeeps, StartSessionKeeps, RedisErrorKeeps, TickKeeps DEF Next

LEMMA SpecKeeps == Spec => []IInv
  BY InitSound, NextKeeps, PTL DEF Spec
-----------------------------------------------------------------------------
(* Successors, times and counts: what a handler's record says of the fate   *)
(* of its new id, and of the moment its command was sent.                   *)

\* The commands before the new id is stored, and those that write back a value.
Pending == {"rotate.get", "rotate.create", "rotate.only", "keep.create"}
Writers == {"agent.setex", "agent.expire", "risk.get", "risk.setex"}

\* The new id of a keepAlive that is past its rotation has been stored.
Stored(r, f) == r.method = "keepAlive" /\ r.new # NoSid => f[r.new] # "unborn"

Follows(r, t, f) ==
    r.pc # "idle" =>
      /\ r.at <= t /\ t <= r.at + 1
      /\ r.cur # NoSid => f[r.cur] # "unborn"
      /\ r.pc = "agent.setex" => r.snap.exp >= r.at
      /\ r.pc \in Destroying /\ r.after = "reload" => f[r.new] # "unborn"
      /\ r.pc \notin Pending => Stored(r, f)
      /\ r.pc \in Pending => f[r.new] = "unborn"

\* Two handlers never create the same session.
Apart ==
    \A p, q \in Handlers :
        h[p].pc \in Pending /\ h[q].pc \in Pending /\ h[p].new = h[q].new => p = q

Story ==
    /\ \A p \in Handlers : Follows(h[p], now, fate)
    /\ Apart
    /\ \A s \in Live : fate[s] # "unborn"
    /\ KeyEndsWithSession

\* A handler that will not write back a value it read earlier.
Quiet(r) == r.binding # "ua" /\ r.method # "badCsrf" /\ r.pc \notin Writers

\* What the record that handler p goes on with must be.
Fit(p, r) ==
    /\ Quiet(h[p]) => Quiet(r)
    /\ r.new \in {h[p].new, NoSid, Fresh} /\ r.cur \in {h[p].cur, NoSid}
    /\ r.pc # "idle" =>
          /\ r.new <= MaxSid => r \in Handler
          /\ r.pc = "agent.setex" => r.snap.exp >= now
          /\ r.pc \in Destroying /\ r.after = "reload" => fate'[r.new] # "unborn"
          /\ r.pc \notin Pending => Stored(r, fate')
          /\ r.pc \in Pending => r.new = Fresh \/ (h[p].pc \in Pending /\ r.new = h[p].new)

\* A session once created stays known, and only a pending id is created.
Fates(p, r) ==
    /\ \A s \in Sid : fate[s] # "unborn" => fate'[s] # "unborn"
    /\ \A s \in Sid : fate'[s] # "unborn" =>
          fate[s] # "unborn" \/ (h[p].pc \in Pending /\ s = h[p].new /\ r.pc \notin Pending)

End(s) == born[s] + (AbsoluteTtl + 2) * Second
KeysEnd ==
    \A s \in Sid : store'[s] # NoSession =>
        s <= issued /\ fate'[s] # "unborn" /\ until'[s] <= End(s)

Counted == MetricCountsSessions /\ DestroyedStaysDestroyed

\* One step of handler p.
Effect(p, r) ==
    /\ Continue(p, r) /\ Fit(p, r) /\ Fates(p, r) /\ KeysEnd
    /\ Quiet(h[p]) /\ Counted => Counted'
-----------------------------------------------------------------------------
LEMMA FollowsLasts ==
  ASSUME NEW r, NEW t, NEW f, NEW g, Follows(r, t, f), Shape(r),
         \A s \in Sid : f[s] # "unborn" => g[s] # "unborn",
         r.pc \in Pending => g[r.new] = "unborn"
  PROVE  Follows(r, t, g)
<1>1. r.new \in Sid \cup {NoSid} /\ r.cur \in Sid \cup {NoSid}
  BY DEF Shape, Handler
<1>2. r.pc \in Destroying /\ r.after = "reload" => r.new \in Sid
  BY <1>1 DEF Shape
<1> QED
  BY <1>1, <1>2 DEF Follows, Stored

LEMMA StepFollows ==
  ASSUME IInv, IInv', Story, NEW p \in Handlers, NEW r, r.pc = "idle" \/ r \in Handler,
         r.pc # "idle" /\ r.pc \in Pending => r.new \in Sid,
         h' = [h EXCEPT ![p] = IF r.pc = "idle" THEN Idle ELSE [r EXCEPT !.at = now]],
         now' = now, Fit(p, r), Fates(p, r)
  PROVE  (\A q \in Handlers : Follows(h'[q], now', fate')) /\ Apart'
<1>1. TypeOK /\ IdsIssued /\ (\A q \in Handlers : Sound(h[q], issued, born)) /\ now \in Nat
  BY DEF IInv, TypeOK
<1>2. \A q \in Handlers : h'[q] = IF q = p THEN (IF r.pc = "idle" THEN Idle ELSE [r EXCEPT !.at = now])
                                           ELSE h[q]
  BY <1>1 DEF TypeOK
<1>3. \A q \in Handlers : Shape(h[q]) /\ h[q].new <= issued /\ h[q].new \in Sid \cup {NoSid}
  BY <1>1 DEF Sound, Shape, Handler
<1>4. issued \in Nat /\ Fresh = issued + 1
  BY <1>1 DEF TypeOK, Fresh
<1>5. \A q \in Handlers : h[q].pc \in Pending => h[q].new \in Sid /\ fate[h[q].new] = "unborn"
  <2> TAKE q \in Handlers
  <2>1. h[q].pc \in Pending => h[q].new # NoSid /\ h[q].pc # "idle"
    BY <1>3 DEF Shape, HoldsNew, Pending
  <2> QED
    BY <1>3, <2>1 DEF Story, Follows
<1>6. ASSUME NEW q \in Handlers, q # p, h[q].pc \in Pending PROVE fate'[h[q].new] = "unborn"
  <2>1. h[q].new \in Sid /\ fate[h[q].new] = "unborn"
    BY <1>5, <1>6
  <2>2. ~(h[p].pc \in Pending /\ h[q].new = h[p].new)
    BY <1>6 DEF Story, Apart
  <2> QED
    BY <2>1, <2>2 DEF Fates
<1>7. ASSUME r.pc # "idle", r.pc \in Pending
      PROVE  /\ fate'[r.new] = "unborn"
             /\ \A q \in Handlers \ {p} : h[q].pc \in Pending => h[q].new # r.new
  <2>1. CASE r.new = Fresh
    <3>1. \A s \in Sid : fate[s] # "unborn" => s <= issued
      BY <1>1 DEF IdsIssued
    <3>2. fate[r.new] = "unborn" /\ r.new \in Sid
      BY <1>4, <1>7, <2>1, <3>1
    <3>3. h[p].new # r.new
      BY <1>3, <1>4, <2>1 DEF Sid, NoSid
    <3>4. fate'[r.new] = "unborn"
      BY <3>2, <3>3 DEF Fates
    <3> QED
      BY <1>3, <1>4, <2>1, <3>4 DEF Sid, NoSid
  <2>2. CASE h[p].pc \in Pending /\ r.new = h[p].new
    <3>1. fate'[r.new] = "unborn"
      BY <1>5, <1>7, <2>2 DEF Fates
    <3> QED
      BY <2>2, <3>1 DEF Story, Apart
  <2> QED
    BY <1>7, <2>1, <2>2 DEF Fit
<1>8. \A s \in Sid : fate[s] # "unborn" => fate'[s] # "unborn"
  BY DEF Fates
<1>9. ASSUME NEW q \in Handlers PROVE Follows(h'[q], now', fate')
  <2>1. CASE q # p
    <3>1. Follows(h[q], now, fate') 
      BY <1>3, <1>6, <1>8, <2>1, FollowsLasts DEF Story
    <3> QED
      BY <1>2, <2>1, <3>1
  <2>2. CASE q = p /\ r.pc = "idle"
    <3>1. h'[q].pc = "idle"
      BY <1>2, <2>2 DEF Idle
    <3> QED
      BY <3>1 DEF Follows
  <2>3. CASE q = p /\ r.pc # "idle"
    <3> DEFINE n == [r EXCEPT !.at = now]
    <3>1. h'[q] = n
      BY <1>2, <2>3
    <3>2. /\ n.at = now /\ n.pc = r.pc /\ n.snap = r.snap /\ n.after = r.after
          /\ n.new = r.new /\ n.method = r.method /\ n.cur = r.cur
      BY <2>3 DEF Handler
    <3> HIDE DEF n
    <3>3. n.cur # NoSid => fate'[n.cur] # "unborn"
      <4>1. n.cur # NoSid => n.cur = h[p].cur /\ h[p].cur # NoSid
        BY <3>2 DEF Fit
      <4>2. h[p].cur # NoSid => h[p].pc # "idle" /\ h[p].cur \in Sid
        BY <1>3 DEF Shape, Idle, Handler
      <4> QED
        BY <1>8, <4>1, <4>2 DEF Story, Follows
    <3> QED
      BY <1>1, <1>7, <2>3, <3>1, <3>2, <3>3 DEF Follows, Fit, Stored
  <2> QED
    BY <2>1, <2>2, <2>3
<1>10. Apart'
  <2>1. \A q \in Handlers : q # p => h'[q].pc = h[q].pc /\ h'[q].new = h[q].new
    BY <1>2
  <2>2. h'[p].pc \in Pending => r.pc # "idle" /\ h'[p].pc = r.pc /\ h'[p].new = r.new
    BY <1>2 DEF Idle, Pending, Handler
  <2> QED
    BY <1>7, <2>1, <2>2 DEF Apart, Story
<1> QED
  BY <1>9, <1>10

\* A step of a handler keeps the story.
LEMMA EffectKeeps ==
  ASSUME IInv, IInv', Story, NEW p \in Handlers, NEW r, Effect(p, r)
  PROVE  Story'
<1>1. /\ h' = [h EXCEPT ![p] = IF r.pc = "idle" THEN Idle ELSE [r EXCEPT !.at = now]]
      /\ now' = now /\ r.new <= MaxSid
      /\ Fit(p, r) /\ Fates(p, r)
  BY DEF Effect, Continue
<1>2. r.pc = "idle" \/ r \in Handler
  BY <1>1 DEF Fit
<1>3. ASSUME r.pc # "idle", r.pc \in Pending PROVE r.new \in Sid
  <2> DEFINE n == [r EXCEPT !.at = now]
  <2>1. h'[p] = n
    BY <1>1, <1>3 DEF IInv, TypeOK
  <2>2. n.pc = r.pc /\ n.new = r.new
    BY <1>2, <1>3 DEF Handler
  <2> HIDE DEF n
  <2> QED
    BY <1>3, <2>1, <2>2 DEF IInv, TypeOK, Handler, Pending, HoldsNew
<1>4. (\A q \in Handlers : Follows(h'[q], now', fate')) /\ Apart'
  BY <1>1, <1>2, <1>3, StepFollows
<1>5. KeyEndsWithSession' /\ \A s \in Live' : fate'[s] # "unborn"
  <2>1. \A s \in Sid : s <= issued => born'[s] = born[s]
    <3>1. CASE r.new \in {h[p].new, NoSid}
      BY <3>1 DEF Effect, Continue
    <3>2. CASE r.new \notin {h[p].new, NoSid}
      <4>1. r.new = Fresh /\ born' = [born EXCEPT ![r.new] = born[r.cur]]
        BY <1>1, <3>2 DEF Effect, Continue, Fit
      <4>2. issued \in Nat /\ born \in [Sid -> Nat]
        BY DEF IInv, TypeOK
      <4> QED
        BY <4>1, <4>2 DEF Fresh, Sid
    <3> QED
      BY <3>1, <3>2
  <2> QED
    BY <2>1 DEF KeyEndsWithSession, Effect, KeysEnd, End, Live
<1> QED
  BY <1>4, <1>5 DEF Story
-----------------------------------------------------------------------------
(* What a handler goes on with.                                             *)

\* A record made from that of handler p, with what p knows of its new id.
Knows(p, r) ==
    /\ r \in Handler /\ r.new = h[p].new /\ r.cur = h[p].cur /\ Stored(r, fate')
    /\ Quiet(h[p]) => r.binding # "ua" /\ r.method # "badCsrf"

LEMMA FitIdle == \A p : Fit(p, Idle)
  BY DEF Fit, Idle, Quiet, Writers

LEMMA FitReject ==
  ASSUME NEW p, NEW r \in Handler, r.new = h[p].new, r.cur = h[p].cur,
         Quiet(h[p]) => r.binding # "ua" /\ r.method # "badCsrf"
  PROVE  Fit(p, Reject(r))
<1> DEFINE again == [r EXCEPT !.pc = "validate.get", !.retried = TRUE]
<1>1. CASE r.method \notin {"signout", "signoutAll"}
  BY <1>1, FitIdle DEF Reject
<1>2. CASE r.method \in {"signout", "signoutAll"} /\ r.retried
  <2>1. Reject(r) = Destroy(r, "done")
    BY <1>2 DEF Reject
  <2>2. /\ Destroy(r, "done") \in Handler /\ Destroy(r, "done").pc = "destroy.get"
        /\ Destroy(r, "done").after = "done" /\ Destroy(r, "done").method = r.method
        /\ Destroy(r, "done").new = r.new /\ Destroy(r, "done").binding = r.binding
        /\ Destroy(r, "done").cur = r.cur
    BY DEF Destroy, Handler, Labels, Returns
  <2> QED
    BY <1>2, <2>1, <2>2 DEF Fit, Quiet, Stored, Pending, Writers
<1>3. CASE r.method \in {"signout", "signoutAll"} /\ ~r.retried
  <2>1. Reject(r) = again
    BY <1>3 DEF Reject
  <2>2. /\ again \in Handler /\ again.pc = "validate.get" /\ again.method = r.method
        /\ again.new = r.new /\ again.binding = r.binding /\ again.cur = r.cur
    BY DEF Handler, Labels
  <2> HIDE DEF again
  <2> QED
    BY <1>3, <2>1, <2>2 DEF Fit, Quiet, Stored, Pending, Writers, Destroying
<1> QED
  BY <1>1, <1>2, <1>3

LEMMA FitDestroy ==
  ASSUME NEW p, NEW r, Knows(p, r), NEW after \in Returns,
         after = "reload" => fate'[r.new] # "unborn"
  PROVE  Fit(p, Destroy(r, after))
<1> DEFINE n == Destroy(r, after)
<1>1. /\ n \in Handler /\ n.pc = "destroy.get" /\ n.after = after /\ n.method = r.method
      /\ n.new = r.new /\ n.binding = r.binding /\ n.cur = r.cur
  BY DEF Knows, Destroy, Handler, Labels
<1> HIDE DEF n
<1>2. Fit(p, n)
  BY <1>1 DEF Knows, Fit, Quiet, Stored, Pending, Writers
<1> QED
  BY <1>2 DEF n

LEMMA FitTo ==
  ASSUME NEW p, NEW r, Knows(p, r),
         NEW label \in Labels \ (Destroying \cup Pending \cup {"agent.setex"}),
         Quiet(h[p]) => label \notin Writers
  PROVE  Fit(p, To(r, label))
<1> DEFINE n == To(r, label)
<1>1. /\ n \in Handler /\ n.pc = label /\ n.method = r.method
      /\ n.new = r.new /\ n.binding = r.binding /\ n.cur = r.cur
  BY DEF Knows, To, Handler
<1> HIDE DEF n
<1>2. Fit(p, n)
  BY <1>1 DEF Knows, Fit, Quiet, Stored
<1> QED
  BY <1>2 DEF n

LEMMA FitAccept ==
  ASSUME NEW p, NEW r, Knows(p, r)
  PROVE  Fit(p, Accept(r))
<1> DEFINE n == Accept(r)
<1>1. /\ n \in Handler /\ n.pc = "invoke" /\ n.method = r.method
      /\ n.new = r.new /\ n.binding = "same" /\ n.cur = r.cur
  BY DEF Knows, Accept, Handler, Labels, AllBindings
<1> HIDE DEF n
<1>2. Fit(p, n)
  BY <1>1 DEF Knows, Fit, Quiet, Stored, Destroying, Pending, Writers
<1> QED
  BY <1>2 DEF n

LEMMA FitRotation ==
  ASSUME IInv, NEW p, NEW r, Knows(p, r), r.snap \in Session,
         NEW label \in {"rotate.get", "keep.create"}
  PROVE  Fit(p, [r EXCEPT !.pc = label, !.snap = Renewed(@), !.new = Fresh])
<1> DEFINE n == [r EXCEPT !.pc = label, !.snap = Renewed(@), !.new = Fresh]
<1>1. now \in Nat /\ issued \in Nat
  BY DEF IInv, TypeOK
<1>2. Renewed(r.snap) \in Session
  BY <1>1 DEF Renewed, Session
<1>3. n \in [pc: {label}, at: {r.at}, method: {r.method}, binding: {r.binding},
              retried: {r.retried}, cur: {r.cur}, new: {Fresh},
              snap: {Renewed(r.snap)}, todo: {r.todo}, after: {r.after}]
  BY DEF Knows, Handler
<1> HIDE DEF n
<1>4. Fresh <= MaxSid => n \in Handler
  BY <1>1, <1>2, <1>3 DEF Knows, Handler, Labels, Fresh, Sid
<1>5. Fit(p, n)
  BY <1>3, <1>4 DEF Knows, Fit, Quiet, Stored, Destroying, Pending, Writers
<1> QED
  BY <1>5 DEF n

LEMMA FitJudge ==
  ASSUME IInv, NEW p, NEW r, Knows(p, r), r.snap \in Session
  PROVE  Fit(p, Judge(r))
<1>1. Fit(p, Accept(r)) /\ Fit(p, Destroy(r, "reject"))
  BY FitAccept, FitDestroy DEF Returns
<1>2. Fit(p, [r EXCEPT !.pc = "rotate.get", !.snap = Renewed(@), !.new = Fresh])
  BY FitRotation
<1>3. r.binding \in AllBindings
  BY DEF Knows, Handler
<1>4. ASSUME IsSessionValid(r.snap, now), r.binding = "ua" PROVE Fit(p, To(r, "agent.setex"))
  <2> DEFINE n == To(r, "agent.setex")
  <2>1. /\ n \in Handler /\ n.pc = "agent.setex" /\ n.method = r.method /\ n.snap = r.snap
        /\ n.new = r.new /\ n.binding = r.binding /\ n.cur = r.cur
    BY DEF Knows, To, Handler, Labels
  <2>2. r.snap.exp >= now
    BY <1>4 DEF IsSessionValid
  <2> HIDE DEF n
  <2>3. Fit(p, n)
    BY <1>4, <2>1, <2>2 DEF Knows, Fit, Quiet, Stored, Destroying, Pending
  <2> QED
    BY <2>3 DEF n
<1> QED
  BY <1>1, <1>2, <1>3, <1>4 DEF Judge, AllBindings

LEMMA FitReturn ==
  ASSUME NEW p, NEW r, Knows(p, r)
  PROVE  Fit(p, Return(r))
<1>1. Fit(p, Reject(r)) /\ Fit(p, Idle) /\ Fit(p, Destroy(r, "done"))
  BY FitReject, FitIdle, FitDestroy DEF Knows, Returns
<1>2. Fit(p, To(r, "rotate.reload"))
  BY FitTo DEF Labels, Destroying, Pending, Writers
<1>3. r.after \in Returns
  BY DEF Knows, Handler
<1> QED
  BY <1>1, <1>2, <1>3 DEF Return, Returns
-----------------------------------------------------------------------------
(* When a key ends.                                                         *)

LEMMA DivBounds ==
  ASSUME NEW a \in Int, NEW b \in Nat \ {0}
  PROVE  /\ a \div b \in Int
         /\ (a \div b) * b \in Int
         /\ (a \div b) * b <= a
         /\ a < (a \div b) * b + b
  OBVIOUS

LEMMA TimesMonotone ==
  ASSUME NEW a \in Int, NEW b \in Int, NEW c \in Nat, a <= b
  PROVE  a * c <= b * c
  OBVIOUS

LEMMA TimesDistributes ==
  ASSUME NEW a \in Int, NEW b \in Int, NEW c \in Int
  PROVE  /\ (a + b) * c = a * c + b * c /\ (a - b) * c = a * c - b * c
         /\ a * c \in Int /\ b * c \in Int /\ 1 * c = c /\ 2 * c = c + c
  OBVIOUS

\* Two seconds after the absolute end.
LEMMA EndIs ==
  ASSUME IInv, NEW s \in Sid
  PROVE  /\ End(s) = born[s] + AbsoluteTtl * Second + Second + Second
         /\ End(s) \in Nat /\ born[s] + AbsoluteTtl * Second \in Nat
<1>1. born[s] \in Nat /\ Second \in Nat /\ AbsoluteTtl \in Nat /\ AbsoluteTtl * Second \in Nat
  BY TimeTypes, ConstantsAssumption DEF IInv, TypeOK
<1>2. (AbsoluteTtl + 2) * Second = AbsoluteTtl * Second + 2 * Second /\ 2 * Second = Second + Second
  BY <1>1, TimesDistributes
<1> QED
  BY <1>1, <1>2 DEF End

\* A time to live cut at the end, from a command sent at t and run by t + 1.
LEMMA CutTtl ==
  ASSUME NEW t \in Nat, NEW n \in Nat, n <= t + 1, NEW e \in Nat, NEW ttl \in Int,
         ttl <= (e - t) \div Second
  PROVE  n + ttl * Second <= e + Second
<1>1. Second \in Nat \ {0}
  BY TimeTypes
<1> DEFINE d == (e - t) \div Second
<1>2. d \in Int /\ d * Second \in Int /\ d * Second <= e - t
  <2>1. e - t \in Int
    OBVIOUS
  <2> QED
    BY <1>1, <2>1, DivBounds
<1> HIDE DEF d
<1>3. ttl * Second <= d * Second
  <2>1. ttl <= d
    BY DEF d
  <2> QED
    BY <1>1, <1>2, <2>1, TimesMonotone
<1>4. ttl * Second \in Int
  BY <1>1, TimesDistributes
<1> QED
  BY <1>1, <1>2, <1>3, <1>4

\* At least a second, when the end had not passed.
LEMMA SessionTtlEnds ==
  ASSUME NEW session \in Session, NEW t \in Nat, NEW n \in Nat, n <= t + 1,
         session.exp >= t
  PROVE  n + SessionTtl(session, t) * Second <= session.exp + Second + Second
<1> DEFINE ttl == SessionTtl(session, t)
<1>1. Second \in Nat \ {0} /\ IdleTtl \in Nat /\ session.exp \in Nat
  BY TimeTypes DEF Session
<1>2. SecondsLeft(session, t) \in Int
  BY <1>1, DivBounds DEF SecondsLeft
<1>3. ttl = 1 \/ (ttl \in Int /\ ttl <= SecondsLeft(session, t))
  BY <1>1, <1>2 DEF SessionTtl, Larger, Smaller
<1>4. CASE ttl = 1
  <2>1. ttl * Second = Second
    BY <1>1, <1>4
  <2> HIDE DEF ttl
  <2> QED
    BY <1>1, <2>1 DEF ttl
<1>5. CASE ttl \in Int /\ ttl <= SecondsLeft(session, t)
  <2>1. ttl <= (session.exp - t) \div Second
    BY <1>5 DEF SecondsLeft
  <2> HIDE DEF ttl
  <2>2. n + ttl * Second <= session.exp + Second
    BY <1>1, <1>5, <2>1, CutTtl
  <2>3. ttl * Second \in Int
    BY <1>1, <1>5, TimesDistributes
  <2>4. n + ttl * Second <= session.exp + Second + Second
    BY <1>1, <2>2, <2>3
  <2> QED
    BY <2>4 DEF ttl
<1> QED
  BY <1>3, <1>4, <1>5

\* The script computes with truncated times.
LEMMA LuaTtlEnds ==
  ASSUME NEW session \in Session, NEW t \in Nat, NEW n \in Nat, n <= t + 1,
         ExpSec(session) >= t \div Second
  PROVE  n + LuaTtl(session, t) * Second <= session.exp + Second + Second
<1> DEFINE e == session.exp \div Second
           d == t \div Second
           ttl == LuaTtl(session, t)
<1>1. Second \in Nat \ {0} /\ IdleTtl \in Nat /\ session.exp \in Nat
  BY TimeTypes DEF Session
<1>2. /\ e \in Int /\ e * Second \in Int /\ e * Second <= session.exp
      /\ d \in Int /\ d * Second \in Int /\ t < d * Second + Second
  BY <1>1, DivBounds
<1>3. e >= d
  BY DEF ExpSec
<1>4. ttl \in Int /\ (ttl = 1 \/ ttl <= e - d)
  <2> HIDE DEF e, d
  <2>1. ttl = Larger(1, Smaller(IdleTtl, e - d))
    BY DEF LuaTtl, ExpSec, e, d
  <2> QED
    BY <1>1, <1>2, <2>1 DEF Larger, Smaller
<1> HIDE DEF e, d, ttl
<1>5. ttl * Second \in Int
  BY <1>1, <1>4, TimesDistributes
<1>6. ttl * Second <= e * Second - d * Second + Second
  <2>1. d * Second <= e * Second
    BY <1>1, <1>2, <1>3, TimesMonotone
  <2>2. CASE ttl = 1
    <3>1. ttl * Second = Second
      BY <1>1, <2>2
    <3> QED
      BY <1>1, <1>2, <2>1, <3>1
  <2>3. CASE ttl <= e - d
    <3>1. ttl * Second <= (e - d) * Second /\ e - d \in Int
      BY <1>1, <1>2, <1>4, <2>3, TimesMonotone
    <3>2. (e - d) * Second = e * Second - d * Second
      BY <1>1, <1>2, TimesDistributes
    <3> QED
      BY <1>1, <1>2, <1>5, <3>1, <3>2
  <2> QED
    BY <1>4, <2>2, <2>3
<1>7. n + ttl * Second <= session.exp + Second + Second
  BY <1>1, <1>2, <1>5, <1>6
<1> QED
  BY <1>7 DEF ttl
-----------------------------------------------------------------------------
(* What a command does to the ends of the keys and to the count.            *)

LEMMA NothingEnds ==
  ASSUME IInv, Story, UNCHANGED <<redis, fate>>
  PROVE  KeysEnd /\ (Counted => Counted') /\ \A s \in Sid : fate'[s] = fate[s]
  BY DEF KeysEnd, End, Story, KeyEndsWithSession, IInv, IdsIssued, Live, redis, Counted,
         MetricCountsSessions, DestroyedStaysDestroyed

LEMMA SetExEnds ==
  ASSUME IInv, Story, NEW s \in Sid, s <= issued, NEW session \in Session, NEW ttl \in Nat,
         now + ttl * Second <= End(s), SetEx(s, session, ttl),
         fate'[s] # "unborn", \A x \in Sid : fate[x] # "unborn" => fate'[x] # "unborn"
  PROVE  KeysEnd
<1>1. \A x \in Sid : /\ store'[x] = IF x = s THEN session ELSE store[x]
                     /\ until'[x] = IF x = s THEN now + ttl * Second ELSE until[x]
  BY DEF SetEx, IInv, TypeOK
<1> QED
  BY <1>1 DEF KeysEnd, End, Story, KeyEndsWithSession, IInv, IdsIssued, Live

Counts == {s \in Sid : fate[s] \in {"live", "lapsed"}}

LEMMA CreateCounts ==
  ASSUME IInv, Counted, NEW s \in Sid, NEW session \in Session, NEW t \in Nat,
         fate[s] = "unborn", CreateKeys(s, session, t)
  PROVE  Counted'
<1>1. /\ fate' = [fate EXCEPT ![s] = "live"] /\ metric' = metric + 1
      /\ store' = [store EXCEPT ![s] = session]
  BY DEF CreateKeys, SetEx
<1>2. Counts' = Counts \cup {s} /\ s \notin Counts
  BY <1>1 DEF Counts, IInv, TypeOK
<1>3. IsFiniteSet(Counts)
  <2>1. MaxSid \in Int /\ 1 \in Int
    BY ConstantsAssumption
  <2>2. IsFiniteSet(Sid)
    BY <2>1, FS_Interval DEF Sid
  <2> QED
    BY <2>2, FS_Subset DEF Counts
<1>4. Cardinality(Counts') = Cardinality(Counts) + 1
  BY <1>2, <1>3, FS_AddElement
<1>5. DestroyedStaysDestroyed'
  BY <1>1 DEF Counted, DestroyedStaysDestroyed, Live, IInv, TypeOK
<1> QED
  BY <1>1, <1>4, <1>5 DEF Counted, MetricCountsSessions, Counts

LEMMA DestroyCounts ==
  ASSUME IInv, Story, NEW s \in Sid, DestroyKeys(s)
  PROVE  /\ KeysEnd
         /\ \A x \in Sid : fate'[x] # "unborn" <=> fate[x] # "unborn"
         /\ Counted => Counted'
<1>1. CASE s \notin Live
  BY <1>1, NothingEnds DEF DestroyKeys
<1>2. CASE s \in Live
  <2>1. /\ store' = [store EXCEPT ![s] = NoSession] /\ metric' = metric - 1
        /\ fate' = [fate EXCEPT ![s] = "destroyed"] /\ until' = [until EXCEPT ![s] = 0]
    BY <1>2 DEF DestroyKeys
  <2>2. KeysEnd
    BY <2>1 DEF KeysEnd, End, Story, KeyEndsWithSession, IInv, TypeOK, IdsIssued, Live
  <2>3. ASSUME Counted PROVE Counted'
    <3>1. Counts' = Counts \ {s} /\ s \in Counts
      BY <1>2, <2>1, <2>3 DEF Counts, Counted, DestroyedStaysDestroyed, IInv, TypeOK
    <3>2. IsFiniteSet(Counts)
      <4>1. MaxSid \in Int /\ 1 \in Int
        BY ConstantsAssumption
      <4>2. IsFiniteSet(Sid)
        BY <4>1, FS_Interval DEF Sid
      <4> QED
        BY <4>2, FS_Subset DEF Counts
    <3>3. Cardinality(Counts') = Cardinality(Counts) - 1
      BY <3>1, <3>2, FS_RemoveElement
    <3>4. DestroyedStaysDestroyed'
      BY <2>1, <2>3 DEF Counted, DestroyedStaysDestroyed, Live, IInv, TypeOK
    <3> QED
      BY <2>1, <2>3, <3>3, <3>4 DEF Counted, MetricCountsSessions, Counts
  <2>4. fate[s] # "unborn" /\ fate \in [Sid -> {"unborn", "live", "lapsed", "destroyed"}]
    BY <1>2 DEF Story, IInv, TypeOK
  <2> QED
    BY <2>1, <2>2, <2>3, <2>4
<1> QED
  BY <1>1, <1>2
-----------------------------------------------------------------------------
(* The effect of each step of a handler.                                    *)

Monotone == \A s \in Sid : fate[s] # "unborn" => fate'[s] # "unborn"

LEMMA NothingEffect ==
  ASSUME IInv, Story, NEW p \in Handlers, NEW r, Continue(p, r), Fit(p, r),
         UNCHANGED <<redis, fate>>
  PROVE  Effect(p, r)
<1>1. KeysEnd /\ (Counted => Counted') /\ \A s \in Sid : fate'[s] = fate[s]
  BY NothingEnds
<1>2. Fates(p, r)
  BY <1>1 DEF Fates
<1> QED
  BY <1>1, <1>2 DEF Effect

LEMMA LocalEffect ==
  ASSUME IInv, Story, NEW p \in Handlers, NEW r, Local(p, r), Fit(p, r)
  PROVE  \E x : Effect(p, x)
<1>1. Effect(p, r)
  BY NothingEffect DEF Local
<1> QED
  BY <1>1

LEMMA GetEffect ==
  ASSUME IInv, Story, NEW p \in Handlers, NEW s \in Sid, NEW missing, NEW found,
         Get(p, s, missing, found),
         s \notin Live => Fit(p, missing), s \in Live => Fit(p, found)
  PROVE  \E x : Effect(p, x)
<1>1. CASE s \in Live
  <2>1. Effect(p, found)
    BY <1>1, NothingEffect DEF Get
  <2> QED
    BY <2>1
<1>2. CASE s \notin Live
  <2>1. Effect(p, missing)
    BY <1>2, NothingEffect DEF Get
  <2> QED
    BY <2>1
<1> QED
  BY <1>1, <1>2

LEMMA HandlerKnows ==
  ASSUME IInv, Story, NEW p \in Handlers, h[p].pc # "idle", h[p].pc \notin Pending, Monotone,
         NEW v \in Session \cup {NoSession}
  PROVE  Knows(p, h[p]) /\ Knows(p, [h[p] EXCEPT !.snap = v])
<1> DEFINE n == [h[p] EXCEPT !.snap = v]
<1>1. h[p] \in Handler /\ Follows(h[p], now, fate)
  BY DEF IInv, TypeOK, Story
<1>2. Stored(h[p], fate')
  <2>1. h[p].new # NoSid => h[p].new \in Sid
    BY <1>1 DEF Handler
  <2> QED
    BY <1>1, <2>1 DEF Follows, Stored, Monotone
<1>3. /\ n \in Handler /\ n.new = h[p].new /\ n.cur = h[p].cur /\ n.method = h[p].method
      /\ n.binding = h[p].binding
  BY <1>1 DEF Handler
<1> HIDE DEF n
<1>4. Knows(p, h[p]) /\ Knows(p, n)
  BY <1>1, <1>2, <1>3 DEF Knows, Stored, Quiet
<1> QED
  BY <1>4 DEF n

\* A handler that has read its cookie's session knows as much as before.
LEMMA ReadKnows ==
  ASSUME IInv, Story, NEW p \in Handlers, h[p].pc # "idle", h[p].pc \notin Pending,
         UNCHANGED <<redis, fate>>, NEW s \in Sid
  PROVE  /\ Knows(p, h[p]) /\ Knows(p, [h[p] EXCEPT !.snap = store[s]])
         /\ [h[p] EXCEPT !.snap = store[s]].snap = store[s]
         /\ s \in Live => store[s] \in Session
<1>1. Monotone
  BY DEF Monotone
<1>2. store[s] \in Session \cup {NoSession} /\ h[p] \in Handler
  BY DEF IInv, TypeOK
<1>3. s \in Live => store[s] \in Session
  BY <1>2 DEF Live
<1>4. [h[p] EXCEPT !.snap = store[s]].snap = store[s]
  BY <1>2 DEF Handler
<1> QED
  BY <1>1, <1>2, <1>3, <1>4, HandlerKnows

LEMMA RejectFits ==
  ASSUME IInv, NEW p \in Handlers
  PROVE  Fit(p, Reject(h[p]))
<1>1. h[p] \in Handler
  BY DEF IInv, TypeOK
<1> QED
  BY <1>1, FitReject DEF Quiet

LEMMA ValidateEffect ==
  ASSUME IInv, Story, NEW p \in Handlers,
         ValidateGet(p) \/ ExtendGet(p) \/ ReloadGet(p) \/ RecheckGet(p)
  PROVE  \E x : Effect(p, x)
<1> DEFINE read == [h[p] EXCEPT !.snap = store[h[p].cur]]
<1>1. h[p].pc \in {"validate.get", "extend.get", "reload.get", "recheck.get"}
  BY DEF ValidateGet, ExtendGet, ReloadGet, RecheckGet, At
<1>2. h[p].cur \in Sid /\ UNCHANGED <<redis, fate>>
  BY <1>1, Waiting DEF LoginLabels, ValidateGet, ExtendGet, ReloadGet, RecheckGet, Get
<1>3. /\ Knows(p, h[p]) /\ Knows(p, read) /\ read.snap = store[h[p].cur]
      /\ h[p].cur \in Live => read.snap \in Session
  BY <1>1, <1>2, ReadKnows DEF Pending
<1>4. /\ Fit(p, Reject(h[p])) /\ Fit(p, To(h[p], "recheck.get"))
      /\ Fit(p, To(h[p], "extend.eval")) /\ Fit(p, To(read, "extend.get"))
  BY <1>3, RejectFits, FitTo DEF Labels, Destroying, Pending, Writers
<1>5. Fit(p, Destroy(read, "reject"))
  BY <1>3, FitDestroy DEF Returns
<1>6. h[p].cur \in Live => Fit(p, Judge(read))
  BY <1>3, FitJudge
<1> HIDE DEF read
<1>7. CASE ValidateGet(p)
  <2>1. Get(p, h[p].cur, Reject(h[p]),
            IF ShouldExtend(read.method) THEN To(read, "extend.get") ELSE Judge(read))
    BY <1>7 DEF ValidateGet, read
  <2> QED
    BY <1>2, <1>4, <1>6, <2>1, GetEffect
<1>8. CASE ExtendGet(p)
  BY <1>2, <1>4, <1>8, GetEffect DEF ExtendGet
<1>9. CASE ReloadGet(p)
  <2>1. Get(p, h[p].cur, Reject(h[p]), Judge(read))
    BY <1>9 DEF ReloadGet, read
  <2> QED
    BY <1>2, <1>4, <1>6, <2>1, GetEffect
<1>10. CASE RecheckGet(p)
  <2>1. Get(p, h[p].cur, Reject(h[p]),
            IF IsSessionValid(read.snap, now) THEN Judge(read) ELSE Destroy(read, "reject"))
    BY <1>10 DEF RecheckGet, read
  <2> QED
    BY <1>2, <1>4, <1>5, <1>6, <2>1, GetEffect
<1> QED
  BY <1>7, <1>8, <1>9, <1>10

\* What is known of the moments of a handler that waits.
LEMMA Prompt ==
  ASSUME IInv, Story, NEW p \in Handlers, h[p].pc # "idle"
  PROVE  /\ h[p].at \in Nat /\ now \in Nat /\ now <= h[p].at + 1
         /\ h[p].cur \in Sid => fate[h[p].cur] # "unborn"
         /\ h[p].pc = "agent.setex" => h[p].snap.exp >= h[p].at
<1>1. h[p] \in Handler /\ now \in Nat /\ Follows(h[p], now, fate)
  BY DEF IInv, TypeOK, Story
<1> QED
  BY <1>1 DEF Handler, Follows, NoSid, Sid

LEMMA ExtendEffect ==
  ASSUME IInv, Story, NEW p \in Handlers, ExtendEval(p)
  PROVE  \E x : Effect(p, x)
<1> DEFINE s == h[p].cur
           t == h[p].at
<1>1. h[p].pc = "extend.eval" /\ fate' = fate
  BY DEF ExtendEval, At, Local, UpdateLastSeenKeys
<1>2. s \in Sid /\ s <= issued
  BY <1>1, Waiting DEF LoginLabels, Carrier
<1>3. t \in Nat /\ now \in Nat /\ now <= t + 1 /\ fate[s] # "unborn"
  BY <1>1, <1>2, Prompt
<1>4. Knows(p, h[p])
  BY <1>1, HandlerKnows DEF Pending, Monotone
<1>5. Fit(p, To(h[p], "reload.get")) /\ Fit(p, To(h[p], "recheck.get"))
  BY <1>4, FitTo DEF Labels, Destroying, Pending, Writers
<1>6. CASE ~Extendable(s, t)
  <2>1. Local(p, To(h[p], "recheck.get"))
    BY <1>6 DEF ExtendEval
  <2> QED
    BY <1>5, <2>1, LocalEffect
<1>7. CASE Extendable(s, t)
  <2> DEFINE session == [store[s] EXCEPT !.seen = t]
             ttl == LuaTtl(store[s], t)
             r == To(h[p], "reload.get")
  <2>1. /\ Continue(p, r) /\ SetEx(s, session, ttl) /\ UNCHANGED <<index, metric, fate>>
    BY <1>7 DEF ExtendEval, UpdateLastSeenKeys
  <2>2. store[s] \in Session /\ s \in Live /\ ExpSec(store[s]) >= t \div Second
    BY <1>2, <1>7 DEF Extendable, Live, IInv, TypeOK
  <2>3. session \in Session
    BY <1>3, <2>2 DEF Session
  <2>4. store[s].exp = born[s] + AbsoluteTtl * Second
    BY <2>2 DEF IInv, AbsoluteCap
  <2>5. ttl \in Nat /\ now + ttl * Second <= store[s].exp + Second + Second
    BY <1>3, <2>2, TtlTypes, LuaTtlEnds
  <2> HIDE DEF session, ttl, r
  <2>6. now + ttl * Second <= End(s)
    BY <1>2, <2>4, <2>5, EndIs
  <2>7. KeysEnd
    BY <1>1, <1>2, <1>3, <2>1, <2>3, <2>5, <2>6, SetExEnds
  <2>8. Counted => Counted'
    <3>1. store' = [store EXCEPT ![s] = session]
      BY <2>1 DEF SetEx
    <3>2. Live' = Live
      BY <2>2, <2>3, <3>1, ConstantsAssumption DEF Live, IInv, TypeOK
    <3> QED
      BY <2>1, <3>2 DEF Counted, MetricCountsSessions, DestroyedStaysDestroyed
  <2>9. Fit(p, r) /\ Fates(p, r)
    BY <1>1, <1>5 DEF Fates, r
  <2>10. Effect(p, r)
    BY <2>1, <2>7, <2>8, <2>9 DEF Effect
  <2> QED
    BY <2>10
<1> QED
  BY <1>6, <1>7

LEMMA AgentEffect ==
  ASSUME IInv, Story, NEW p \in Handlers, AgentSetEx(p) \/ AgentExpire(p)
  PROVE  \E x : Effect(p, x)
<1>1. h[p].pc \in {"agent.setex", "agent.expire"} /\ fate' = fate
  BY DEF AgentSetEx, AgentExpire, At
<1>2. /\ h[p].cur \in Sid /\ h[p].cur <= issued
      /\ h[p].snap \in Session
      /\ h[p].snap.exp = born[h[p].cur] + AbsoluteTtl * Second
  BY <1>1, HeldValue DEF HoldsSession, LoginLabels
<1>3. /\ h[p].at \in Nat /\ now \in Nat /\ now <= h[p].at + 1 /\ fate[h[p].cur] # "unborn"
      /\ h[p].pc = "agent.setex" => h[p].snap.exp >= h[p].at
  BY <1>1, <1>2, Prompt
<1>4. Knows(p, h[p]) /\ ~Quiet(h[p])
  BY <1>1, HandlerKnows DEF Pending, Monotone, Quiet, Writers
<1>5. CASE AgentSetEx(p)
  <2> DEFINE ttl == SessionTtl(h[p].snap, h[p].at)
             r == To(h[p], "agent.expire")
  <2>1. SetEx(h[p].cur, h[p].snap, ttl) /\ Continue(p, r)
    BY <1>5 DEF AgentSetEx, To
  <2>2. h[p].snap.exp >= h[p].at
    BY <1>3, <1>5 DEF AgentSetEx, At
  <2>3. ttl \in Nat /\ now + ttl * Second <= h[p].snap.exp + Second + Second
    BY <1>2, <1>3, <2>2, TtlTypes, SessionTtlEnds
  <2>4. Fit(p, r)
    BY <1>4, FitTo DEF Labels, Destroying, Pending
  <2> HIDE DEF ttl, r
  <2>5. now + ttl * Second <= End(h[p].cur)
    BY <1>2, <2>3, EndIs
  <2>6. KeysEnd
    BY <1>1, <1>2, <1>3, <2>1, <2>3, <2>5, SetExEnds
  <2>7. Effect(p, r)
    BY <1>1, <1>4, <2>1, <2>4, <2>6 DEF Effect, Fates
  <2> QED
    BY <2>7
<1>6. CASE AgentExpire(p)
  <2>1. UNCHANGED <<store, until, fate>> /\ Continue(p, Accept(h[p]))
    BY <1>6 DEF AgentExpire
  <2>2. Fit(p, Accept(h[p]))
    BY <1>4, FitAccept
  <2>3. KeysEnd
    BY <2>1 DEF KeysEnd, End, Story, KeyEndsWithSession, IInv, IdsIssued, Live
  <2>4. Effect(p, Accept(h[p]))
    BY <1>1, <1>4, <2>1, <2>2, <2>3 DEF Effect, Fates
  <2> QED
    BY <2>4
<1> QED
  BY <1>5, <1>6

LEMMA RiskEffect ==
  ASSUME IInv, Story, NEW p \in Handlers, RiskGet(p) \/ RiskSetEx(p)
  PROVE  \E x : Effect(p, x)
<1>1. h[p].pc \in {"risk.get", "risk.setex"} /\ ~Quiet(h[p])
  BY DEF RiskGet, RiskSetEx, At, Quiet, Writers
<1>2. h[p].cur \in Sid /\ h[p].cur <= issued
  BY <1>1, Waiting DEF LoginLabels, Carrier
<1>3. CASE RiskGet(p)
  <2> DEFINE read == [h[p] EXCEPT !.snap = store[h[p].cur]]
             raised == [read EXCEPT !.pc = "risk.setex", !.snap.high = TRUE]
             value == [read.snap EXCEPT !.high = TRUE]
             raise == [read EXCEPT !.snap = value]
  <2>1. Get(p, h[p].cur, Idle, IF read.snap.high THEN Idle ELSE raised)
    <3>1. read.cur = h[p].cur
      BY DEF IInv, TypeOK, Handler
    <3> QED
      BY <1>3, <3>1 DEF RiskGet
  <2>2. /\ Knows(p, h[p]) /\ Knows(p, read) /\ read.snap = store[h[p].cur]
        /\ h[p].cur \in Live => read.snap \in Session
    BY <1>1, <1>2, <2>1, ReadKnows DEF Pending, Get
  <2>3. ASSUME h[p].cur \in Live PROVE Fit(p, raised)
    <3>1. value \in Session
      BY <2>2, <2>3 DEF Session
    <3> HIDE DEF read
    <3>2. /\ raised.pc = "risk.setex" /\ raised.new = h[p].new /\ raised.cur = h[p].cur
          /\ raised.method = read.method /\ raised \in Handler
      <4>1. read \in Handler /\ read.new = h[p].new /\ read.cur = h[p].cur
        BY <2>2 DEF Knows
      <4> HIDE DEF value
      <4>2. raised = To(raise, "risk.setex")
        BY <4>1 DEF To, Handler, value
      <4>3. raise \in Handler /\ raise.new = read.new /\ raise.cur = read.cur
            /\ raise.method = read.method
        BY <3>1, <4>1 DEF Handler
      <4> HIDE DEF raise, raised
      <4> QED
        BY <4>1, <4>2, <4>3 DEF To, Handler, Labels
    <3> HIDE DEF raised
    <3> QED
      BY <1>1, <2>2, <3>2 DEF Fit, Knows, Stored, Destroying, Pending
  <2> HIDE DEF raised, read
  <2> QED
    BY <1>2, <2>1, <2>3, FitIdle, GetEffect
<1>4. CASE RiskSetEx(p)
  <2> DEFINE ttl == RiskTtl(h[p].snap, h[p].at)
  <2>1. /\ h[p].snap \in Session
        /\ h[p].snap.exp = born[h[p].cur] + AbsoluteTtl * Second
    BY <1>4, HeldValue DEF RiskSetEx, At, HoldsSession, LoginLabels
  <2>2. h[p].at \in Nat /\ now \in Nat /\ now <= h[p].at + 1 /\ fate[h[p].cur] # "unborn"
    BY <1>1, <1>2, Prompt
  <2>3. ttl \in Int
    BY <2>1, <2>2, TtlTypes
  <2>4. CASE ttl <= 0
    BY <1>4, <2>4, FitIdle, LocalEffect DEF RiskSetEx
  <2>5. CASE ~(ttl <= 0)
    <3>1. SetEx(h[p].cur, h[p].snap, ttl) /\ Continue(p, Idle) /\ fate' = fate
      BY <1>4, <2>5 DEF RiskSetEx
    <3>2. ttl \in Nat /\ h[p].snap.exp \in Nat
      BY <2>1, <2>3, <2>5 DEF Session
    <3>3. ttl <= (h[p].snap.exp - h[p].at) \div Second
      <4>1. (h[p].snap.exp - h[p].at) \div Second \in Int /\ IdleTtl \div 2 \in Int
        BY <2>2, <3>2, TimeTypes, DivBounds
      <4> QED
        BY <4>1 DEF RiskTtl, SecondsLeft, Smaller
    <3> HIDE DEF ttl
    <3>4. now + ttl * Second <= h[p].snap.exp + Second
      BY <2>2, <2>3, <3>2, <3>3, CutTtl
    <3>5. now + ttl * Second <= End(h[p].cur)
      <4>1. ttl * Second \in Int /\ Second \in Nat
        BY <3>2, TimeTypes, TimesDistributes
      <4> QED
        BY <1>2, <2>1, <2>2, <3>2, <3>4, <4>1, EndIs
    <3>6. KeysEnd
      BY <1>2, <2>1, <2>2, <3>1, <3>2, <3>5, SetExEnds
    <3>7. Effect(p, Idle)
      BY <1>1, <3>1, <3>6, FitIdle DEF Effect, Fates
    <3> QED
      BY <3>7
  <2> QED
    BY <2>4, <2>5
<1> QED
  BY <1>3, <1>4
-----------------------------------------------------------------------------
LEMMA FitPending ==
  ASSUME IInv, NEW p \in Handlers, h[p].pc \in Pending, NEW label \in Pending
  PROVE  Fit(p, To(h[p], label))
<1> DEFINE n == To(h[p], label)
<1>1. /\ n \in Handler /\ n.pc = label /\ n.method = h[p].method
      /\ n.new = h[p].new /\ n.binding = h[p].binding /\ n.cur = h[p].cur
  BY DEF IInv, TypeOK, To, Handler, Pending, Labels
<1> HIDE DEF n
<1>2. Fit(p, n)
  BY <1>1 DEF Fit, Quiet, Pending, Writers, Destroying
<1> QED
  BY <1>2 DEF n

\* A handler that has just stored its new id.
LEMMA CreatorKnows ==
  ASSUME IInv, NEW p \in Handlers, fate'[h[p].new] # "unborn"
  PROVE  Knows(p, h[p])
  BY DEF Knows, Stored, Quiet, IInv, TypeOK

LEMMA CreateEffect ==
  ASSUME IInv, Story, NEW p \in Handlers,
         h[p].pc \in {"rotate.create", "rotate.only", "keep.create"},
         NEW failed, Fit(p, failed), NEW created, Create(p, failed, created),
         created.pc \notin Pending, fate'[h[p].new] # "unborn" => Fit(p, created)
  PROVE  \E x : Effect(p, x)
<1> DEFINE s == h[p].new
           session == h[p].snap
           t == h[p].at
<1>1. Sound(h[p], issued, born) /\ h[p] \in Handler
  BY DEF IInv, Sound, Shape
<1>2. s \in Sid /\ s <= issued /\ session \in Session
      /\ session.exp = born[s] + AbsoluteTtl * Second
  BY <1>1 DEF Sound, Shape, HoldsSession, HoldsNew, Handler, NoSid, Origin
<1>3. t \in Nat /\ now \in Nat /\ now <= t + 1 /\ h[p].pc \in Pending
  BY Prompt DEF Pending
<1>4. fate[s] = "unborn"
  BY <1>3 DEF Story, Follows, Pending
<1>5. CASE Expired(session, t)
  BY <1>5, LocalEffect DEF Create
<1>6. CASE ~Expired(session, t)
  <2> DEFINE ttl == SessionTtl(session, t)
  <2>1. /\ CreateKeys(s, session, t) /\ SetEx(s, session, ttl) /\ Continue(p, created)
        /\ fate' = [fate EXCEPT ![s] = "live"]
    BY <1>6 DEF Create, CreateKeys
  <2>2. session.exp >= t
    <3>1. session.exp \in Nat /\ session.exp - t \in Int /\ Second \in Nat \ {0}
      BY <1>2, <1>3, TimeTypes DEF Session
    <3> DEFINE d == (session.exp - t) \div Second
    <3>2. d \in Int /\ d * Second <= session.exp - t /\ d * Second \in Int
      BY <3>1, DivBounds
    <3>3. d > 0
      BY <1>6, <3>2 DEF Expired, SecondsLeft
    <3> HIDE DEF d
    <3>4. 0 * Second <= d * Second
      BY <3>1, <3>2, <3>3, TimesMonotone
    <3> QED
      BY <1>3, <3>1, <3>2, <3>4
  <2>3. ttl \in Nat /\ now + ttl * Second <= session.exp + Second + Second
    BY <1>2, <1>3, <2>2, TtlTypes, SessionTtlEnds
  <2> HIDE DEF session, ttl, s, t
  <2>4. now + ttl * Second <= End(s)
    BY <1>2, <2>3, EndIs
  <2>5. fate \in [Sid -> {"unborn", "live", "lapsed", "destroyed"}]
    BY DEF IInv, TypeOK
  <2>6. fate'[s] = "live" /\ \A x \in Sid : x # s => fate'[x] = fate[x]
    BY <1>2, <2>1, <2>5
  <2>7. KeysEnd
    BY <1>2, <2>1, <2>3, <2>4, <2>6, SetExEnds
  <2>8. Counted => Counted'
    BY <1>2, <1>3, <1>4, <2>1, CreateCounts
  <2>9. Fit(p, created)
    BY <2>6 DEF s
  <2>10. Fates(p, created)
    BY <1>3, <1>4, <2>6 DEF Fates, s
  <2>11. Effect(p, created)
    BY <2>1, <2>7, <2>8, <2>9, <2>10 DEF Effect
  <2> QED
    BY <2>11
<1> QED
  BY <1>5, <1>6

LEMMA CreateFailedFits ==
  ASSUME IInv, NEW p \in Handlers
  PROVE  Fit(p, CreateFailed(h[p]))
  BY FitIdle, RejectFits DEF CreateFailed

LEMMA RotateEffect ==
  ASSUME IInv, Story, NEW p \in Handlers,
         RotateGet(p) \/ RotateCreate(p) \/ RotateOnly(p) \/ RotateReload(p)
  PROVE  \E x : Effect(p, x)
<1>1. Sound(h[p], issued, born) /\ h[p] \in Handler
  BY DEF IInv, Sound, Shape
<1>2. CASE RotateGet(p)
  <2>1. h[p].pc = "rotate.get" /\ h[p].cur \in Sid
    BY <1>1, <1>2 DEF RotateGet, At, Sound, Shape, Handler, NoSid
  <2>2. Fit(p, To(h[p], "rotate.only")) /\ Fit(p, To(h[p], "rotate.create"))
    BY <2>1, FitPending DEF Pending
  <2> QED
    BY <1>2, <2>1, <2>2, GetEffect DEF RotateGet
<1>3. CASE RotateCreate(p)
  <2> DEFINE after == IF h[p].method = "login" THEN "done" ELSE "reload"
             next == Destroy(h[p], after)
  <2>1. h[p].pc = "rotate.create"
    BY <1>3 DEF RotateCreate, At
  <2>2. fate'[h[p].new] # "unborn" => Fit(p, next)
    <3>1. after \in Returns
      BY DEF Returns
    <3> HIDE DEF after
    <3> QED
      BY <3>1, CreatorKnows, FitDestroy
  <2>3. next.pc \notin Pending
    BY <1>1 DEF Destroy, Handler, Pending
  <2> HIDE DEF next
  <2> QED
    BY <1>3, <2>1, <2>2, <2>3, CreateFailedFits, CreateEffect DEF RotateCreate, next
<1>4. CASE RotateOnly(p)
  <2> DEFINE reload == [h[p] EXCEPT !.pc = "rotate.reload", !.snap = NoSession]
             next == IF h[p].method = "login" THEN Idle ELSE reload
  <2>1. h[p].pc = "rotate.only"
    BY <1>4 DEF RotateOnly, At
  <2>2. /\ reload \in Handler /\ reload.pc = "rotate.reload" /\ reload.method = h[p].method
        /\ reload.new = h[p].new /\ reload.binding = h[p].binding /\ reload.cur = h[p].cur
    BY <1>1 DEF Handler, Labels
  <2> HIDE DEF reload
  <2>3. fate'[h[p].new] # "unborn" => Fit(p, reload)
    BY <2>2 DEF Fit, Quiet, Stored, Pending, Writers, Destroying
  <2>4. fate'[h[p].new] # "unborn" => Fit(p, next)
    BY <2>3, FitIdle
  <2>5. next.pc \notin Pending
    BY <2>2 DEF Idle, Pending
  <2> HIDE DEF next
  <2> QED
    BY <1>4, <2>1, <2>4, <2>5, CreateFailedFits, CreateEffect DEF RotateOnly, next, reload
<1>5. CASE RotateReload(p)
  <2> DEFINE read == [h[p] EXCEPT !.snap = store[h[p].new]]
  <2>1. h[p].pc = "rotate.reload" /\ UNCHANGED <<redis, fate>>
    BY <1>5 DEF RotateReload, At, Get
  <2>2. h[p].new \in Sid
    BY <2>1, Waiting DEF LoginLabels, HoldsNew
  <2>3. Knows(p, read)
    BY <2>1, <2>2, ReadKnows DEF Pending
  <2> HIDE DEF read
  <2>4. Fit(p, Accept(read)) /\ Fit(p, Reject(h[p]))
    BY <2>3, FitAccept, RejectFits
  <2>5. Get(p, h[p].new, Reject(h[p]), Accept(read))
    BY <1>5 DEF RotateReload, read
  <2> QED
    BY <2>2, <2>4, <2>5, GetEffect
<1> QED
  BY <1>2, <1>3, <1>4, <1>5

-----------------------------------------------------------------------------
LEMMA DestroyEffect ==
  ASSUME IInv, Story, NEW p \in Handlers, DestroyGet(p) \/ DestroyEval(p)
  PROVE  \E x : Effect(p, x)
<1>1. h[p].pc \in Destroying /\ h[p].pc # "idle" /\ h[p].pc \notin Pending
  BY DEF DestroyGet, DestroyEval, At, Destroying, Pending
<1>2. h[p].cur \in Sid /\ h[p] \in Handler
  BY <1>1, AfterDestroy DEF IInv, TypeOK
<1>3. CASE DestroyGet(p)
  <2> DEFINE next == To(h[p], "destroy.eval")
  <2>1. UNCHANGED <<redis, fate>>
    BY <1>3 DEF DestroyGet, Get
  <2>2. Knows(p, h[p])
    BY <1>1, <1>2, <2>1, ReadKnows
  <2>3. /\ next \in Handler /\ next.pc = "destroy.eval" /\ next.method = h[p].method
        /\ next.new = h[p].new /\ next.binding = h[p].binding /\ next.cur = h[p].cur
        /\ next.after = h[p].after
    BY <1>2 DEF To, Handler, Labels
  <2> HIDE DEF next
  <2>4. next.after = "reload" => fate'[next.new] # "unborn"
    <3>1. h[p].after = "reload" => fate[h[p].new] # "unborn"
      BY <1>1 DEF Story, Follows
    <3> QED
      BY <2>1, <2>3, <3>1
  <2>5. Fit(p, next)
    BY <2>2, <2>3, <2>4 DEF Knows, Fit, Quiet, Stored, Pending, Writers
  <2>6. Fit(p, Return(h[p]))
    BY <2>2, FitReturn
  <2> QED
    BY <1>2, <1>3, <2>5, <2>6, GetEffect DEF DestroyGet, next
<1>4. CASE DestroyEval(p)
  <2> DEFINE next == Return(h[p])
  <2>1. DestroyKeys(h[p].cur) /\ Continue(p, next)
    BY <1>4 DEF DestroyEval
  <2>2. /\ KeysEnd
        /\ \A x \in Sid : fate'[x] # "unborn" <=> fate[x] # "unborn"
        /\ Counted => Counted'
    BY <1>2, <2>1, DestroyCounts
  <2>3. Knows(p, h[p])
    <3>1. NoSession \in Session \cup {NoSession}
      OBVIOUS
    <3> QED
      BY <1>1, <2>2, <3>1, HandlerKnows DEF Monotone
  <2>4. Fit(p, next)
    BY <2>3, FitReturn
  <2> HIDE DEF next
  <2>5. Effect(p, next)
    BY <2>1, <2>2, <2>4 DEF Effect, Fates
  <2> QED
    BY <2>5
<1> QED
  BY <1>3, <1>4

LEMMA InvokeEffect ==
  ASSUME IInv, Story, NEW p \in Handlers, Invoke(p)
  PROVE  \E x : Effect(p, x)
<1> DEFINE next == CASE h[p].method \in {"read", "write"} -> Idle
                     [] h[p].method = "signout" -> Destroy(h[p], "done")
                     [] h[p].method = "signoutAll" -> To(h[p], "all.members")
                     [] h[p].method = "keepAlive" -> To(h[p], "keep.get")
                     [] h[p].method = "badCsrf" -> To(h[p], "risk.get")
<1>1. h[p].pc = "invoke" /\ Local(p, next) /\ fate' = fate
  BY DEF Invoke, At, Local
<1>2. h[p].method \in AllMethods
  BY <1>1, Waiting DEF LoginLabels
<1>3. Knows(p, h[p])
  BY <1>1, HandlerKnows DEF Pending, Monotone
<1>4. Fit(p, Destroy(h[p], "done"))
  BY <1>3, FitDestroy DEF Returns
<1>5. Fit(p, To(h[p], "all.members")) /\ Fit(p, To(h[p], "keep.get"))
  BY <1>3, FitTo DEF Labels, Destroying, Pending, Writers
<1>6. h[p].method = "badCsrf" => Fit(p, To(h[p], "risk.get"))
  <2>1. h[p].method = "badCsrf" => ~Quiet(h[p])
    BY DEF Quiet
  <2> QED
    BY <1>3, <2>1, FitTo DEF Labels, Destroying, Pending
<1>7. Fit(p, next)
  BY <1>2, <1>4, <1>5, <1>6, FitIdle DEF AllMethods
<1> HIDE DEF next
<1> QED
  BY <1>1, <1>7, LocalEffect

LEMMA SignoutAllEffect ==
  ASSUME IInv, Story, NEW p \in Handlers, AllMembers(p) \/ AllEval(p) \/ AllDel(p)
  PROVE  \E x : Effect(p, x)
<1>1. h[p].pc \in {"all.members", "all.eval", "all.del"}
  BY DEF AllMembers, AllEval, AllDel, At
<1>2. h[p] \in Handler /\ h[p].snap \in Session
  BY <1>1, HeldValue DEF HoldsSession, LoginLabels, Carrier, IInv, TypeOK
<1>3. Monotone => Knows(p, h[p])
  BY <1>1, HandlerKnows DEF Pending
<1>4. ASSUME NEW label \in {"all.eval", "all.del"}, NEW ids \in SUBSET Sid, Monotone
      PROVE  Fit(p, [h[p] EXCEPT !.pc = label, !.todo = ids])
  <2> DEFINE n == [h[p] EXCEPT !.pc = label, !.todo = ids]
  <2>1. /\ n \in Handler /\ n.pc = label /\ n.method = h[p].method
        /\ n.new = h[p].new /\ n.binding = h[p].binding /\ n.cur = h[p].cur
    BY <1>2 DEF Handler, Labels
  <2> HIDE DEF n
  <2>2. Fit(p, n)
    BY <1>3, <1>4, <2>1 DEF Knows, Fit, Quiet, Stored, Pending, Writers, Destroying
  <2> QED
    BY <2>2 DEF n
<1>5. CASE AllMembers(p)
  <2> DEFINE ids == index[h[p].snap.user]
             next == [h[p] EXCEPT !.pc = "all.eval", !.todo = ids]
  <2>1. ids \in SUBSET Sid
    BY <1>2 DEF Session, IInv, TypeOK
  <2>2. Monotone
    BY <1>5 DEF AllMembers, Local, Monotone
  <2>3. Fit(p, next)
    BY <1>4, <2>1, <2>2
  <2>4. Local(p, IF ids = {} THEN Idle ELSE next)
    BY <1>5 DEF AllMembers
  <2> HIDE DEF next, ids
  <2>5. Fit(p, IF ids = {} THEN Idle ELSE next)
    BY <2>3, FitIdle
  <2> QED
    BY <2>4, <2>5, LocalEffect
<1>6. CASE AllEval(p)
  <2>1. PICK s \in h[p].todo :
          /\ DestroyKeys(s)
          /\ Continue(p, [h[p] EXCEPT !.todo = @ \ {s},
                                      !.pc = IF h[p].todo = {s} THEN "all.del" ELSE @])
    BY <1>6 DEF AllEval
  <2> DEFINE label == IF h[p].todo = {s} THEN "all.del" ELSE "all.eval"
             next == [h[p] EXCEPT !.pc = label, !.todo = h[p].todo \ {s}]
  <2>2. s \in Sid /\ h[p].todo \ {s} \in SUBSET Sid
    BY <1>2 DEF Handler
  <2>3. /\ KeysEnd
        /\ \A x \in Sid : fate'[x] # "unborn" <=> fate[x] # "unborn"
        /\ Counted => Counted'
    BY <2>1, <2>2, DestroyCounts
  <2>4. Fit(p, next)
    <3>1. label \in {"all.eval", "all.del"}
      OBVIOUS
    <3> HIDE DEF label
    <3> QED
      BY <1>4, <2>2, <2>3, <3>1 DEF Monotone
  <2>5. Continue(p, next)
    <3>1. [h[p] EXCEPT !.todo = @ \ {s}, !.pc = IF h[p].todo = {s} THEN "all.del" ELSE @] = next
      BY <1>2, <1>6 DEF AllEval, At, Handler
    <3> QED
      BY <2>1, <3>1
  <2> HIDE DEF next
  <2>6. Effect(p, next)
    BY <2>3, <2>4, <2>5 DEF Effect, Fates
  <2> QED
    BY <2>6
<1>7. CASE AllDel(p)
  <2>1. UNCHANGED <<store, until, metric, fate>> /\ Continue(p, Idle)
    BY <1>7 DEF AllDel
  <2>2. KeysEnd
    BY <2>1 DEF KeysEnd, End, Story, KeyEndsWithSession, IInv, IdsIssued, Live
  <2>3. Counted => Counted'
    BY <2>1 DEF Counted, MetricCountsSessions, DestroyedStaysDestroyed, Live
  <2>4. Effect(p, Idle)
    BY <2>1, <2>2, <2>3, FitIdle DEF Effect, Fates
  <2> QED
    BY <2>4
<1> QED
  BY <1>5, <1>6, <1>7

LEMMA KeepAliveEffect ==
  ASSUME IInv, Story, NEW p \in Handlers, KeepGet(p) \/ KeepCreate(p)
  PROVE  \E x : Effect(p, x)
<1>1. h[p] \in Handler
  BY DEF IInv, TypeOK
<1>2. CASE KeepGet(p)
  <2> DEFINE read == [h[p] EXCEPT !.snap = store[h[p].cur]]
             next == [read EXCEPT !.pc = "keep.create", !.snap = Renewed(@), !.new = Fresh]
  <2>1. h[p].pc = "keep.get" /\ UNCHANGED <<redis, fate>>
    BY <1>2 DEF KeepGet, At, Get
  <2>2. h[p].cur \in Sid
    BY <2>1, Waiting DEF LoginLabels
  <2>3. /\ Knows(p, read) /\ read.snap = store[h[p].cur]
        /\ h[p].cur \in Live => read.snap \in Session
    BY <2>1, <2>2, ReadKnows DEF Pending
  <2>4. Get(p, h[p].cur, Idle,
            IF read.snap.exp < now
            THEN Destroy(read, "again")
            ELSE IF now - read.snap.seen > IdleTtl * Second
            THEN Destroy(read, "done")
            ELSE next)
    <3>1. read.cur = h[p].cur
      BY <1>1 DEF Handler
    <3> QED
      BY <1>2, <3>1 DEF KeepGet
  <2>5. Fit(p, Destroy(read, "again")) /\ Fit(p, Destroy(read, "done"))
    BY <2>3, FitDestroy DEF Returns
  <2>6. h[p].cur \in Live => Fit(p, next)
    <3> HIDE DEF read
    <3> QED
      BY <2>3, FitRotation
  <2> HIDE DEF next, read
  <2> QED
    BY <2>2, <2>4, <2>5, <2>6, FitIdle, GetEffect
<1>3. CASE KeepCreate(p)
  <2> DEFINE next == Destroy(h[p], "done")
  <2>1. Create(p, Idle, next) /\ h[p].pc = "keep.create"
    BY <1>3 DEF KeepCreate, At
  <2>2. fate'[h[p].new] # "unborn" => Fit(p, next)
    BY CreatorKnows, FitDestroy DEF Returns
  <2>3. next.pc \notin Pending
    BY <1>1 DEF Destroy, Handler, Pending
  <2> HIDE DEF next
  <2> QED
    BY <2>1, <2>2, <2>3, FitIdle, CreateEffect
<1> QED
  BY <1>2, <1>3

LEMMA HandleEffect ==
  ASSUME IInv, Story, NEW p \in Handlers, Handle(p)
  PROVE  \E x : Effect(p, x)
  BY ValidateEffect, ExtendEffect, AgentEffect, RiskEffect, RotateEffect, DestroyEffect,
     InvokeEffect, SignoutAllEffect, KeepAliveEffect DEF Handle

-----------------------------------------------------------------------------
(* Requests, failures and time keep the story; clients that make nobody     *)
(* write back keep the count.                                               *)

Clean == (\A p \in Handlers : Quiet(h[p])) /\ Counted

LEMMA EffectIsClean ==
  ASSUME IInv, Clean, NEW p \in Handlers, NEW r, Effect(p, r), IInv'
  PROVE  Clean'
<1>1. h' = [h EXCEPT ![p] = IF r.pc = "idle" THEN Idle ELSE [r EXCEPT !.at = now]]
      /\ r.new <= MaxSid /\ Fit(p, r)
  BY DEF Effect, Continue
<1>2. Counted' /\ Quiet(r)
  BY <1>1 DEF Effect, Clean, Fit
<1>3. Quiet(h'[p])
  <2>1. CASE r.pc = "idle"
    BY <1>1, <2>1 DEF IInv, TypeOK, Quiet, Idle, Writers
  <2>2. CASE r.pc # "idle"
    <3>1. r \in Handler
      BY <1>1, <2>2 DEF Fit
    <3> DEFINE n == [r EXCEPT !.at = now]
    <3>2. h'[p] = n
      BY <1>1, <2>2 DEF IInv, TypeOK
    <3>3. n.pc = r.pc /\ n.binding = r.binding /\ n.method = r.method
      BY <3>1 DEF Handler
    <3> HIDE DEF n
    <3> QED
      BY <1>2, <3>2, <3>3 DEF Quiet
  <2> QED
    BY <2>1, <2>2
<1>4. \A q \in Handlers : q # p => h'[q] = h[q]
  BY <1>1 DEF IInv, TypeOK
<1> QED
  BY <1>2, <1>3, <1>4 DEF Clean

\* A request that arrives waits for its first GET, or is about to store a fresh id.
LEMMA ArrivalKeeps ==
  ASSUME IInv, Story, NEW p \in Handlers, NEW r \in Handler, h' = [h EXCEPT ![p] = r],
         UNCHANGED <<now, redis, fate>>,
         \A s \in Sid : s <= issued => born'[s] = born[s],
         r.pc \notin Destroying, r.pc # "agent.setex",
         r.at = now, r.cur # NoSid => fate[r.cur] # "unborn",
         \/ r.pc \notin Pending /\ r.new = NoSid
         \/ r.pc \in Pending /\ r.new = Fresh /\ Fresh \in Sid
  PROVE  Story'
<1>1. \A q \in Handlers : h'[q] = IF q = p THEN r ELSE h[q]
  BY DEF IInv, TypeOK
<1>2. /\ now \in Nat /\ issued \in Nat /\ IdsIssued
      /\ \A q \in Handlers : h[q] \in Handler /\ h[q].new <= issued
  BY DEF IInv, TypeOK, Sound
<1>3. r.pc \in Pending => r.new = Fresh /\ fate[Fresh] = "unborn" /\ Fresh = issued + 1
  BY <1>2 DEF IdsIssued, Fresh
<1>4. Follows(r, now, fate)
  BY <1>2, <1>3 DEF Follows, Stored
<1>5. \A q \in Handlers : Follows(h'[q], now', fate')
  BY <1>1, <1>4 DEF Story
<1>6. Apart'
  <2>1. ASSUME NEW q \in Handlers, q # p, r.pc \in Pending PROVE h[q].new # r.new
    BY <1>2, <1>3, <2>1
  <2> QED
    BY <1>1, <2>1 DEF Apart, Story
<1>7. \A s \in Live' : s \in Live /\ fate'[s] # "unborn" /\ born'[s] = born[s]
  BY <1>2 DEF Story, Live, redis, IdsIssued
<1>8. KeyEndsWithSession'
  BY <1>7 DEF Story, KeyEndsWithSession, redis
<1> QED
  BY <1>5, <1>6, <1>7, <1>8 DEF Story

LEMMA RequestStory ==
  ASSUME IInv, Story, NEW p \in Handlers, NEW m \in Methods, NEW b \in Bindings,
         NEW s \in Cookies, Request(p, m, b, s)
  PROVE  Story'
<1> DEFINE r == Arrived("validate.get", m, b, s, NoSid, NoSession)
<1>1. /\ m \in AllMethods /\ b \in AllBindings /\ s \in Sid /\ fate[s] # "unborn"
      /\ now \in Nat
  BY ConstantsAssumption DEF Cookies, IInv, TypeOK
<1>2. /\ r \in Handler /\ r.pc = "validate.get" /\ r.cur = s /\ r.new = NoSid
  BY <1>1 DEF Arrived, Handler, Labels, Returns
<1>3. r.at = now
  BY DEF Arrived
<1>4. h' = [h EXCEPT ![p] = r] /\ UNCHANGED <<now, redis, fate, born>>
  BY DEF Request
<1> HIDE DEF r
<1> QED
  BY <1>1, <1>2, <1>3, <1>4, ArrivalKeeps DEF Pending, Destroying

LEMMA StartSessionStory ==
  ASSUME IInv, Story, NEW p \in Handlers, NEW u \in Users, NEW s \in Cookies \cup {NoSid},
         StartSession(p, u, s), IInv'
  PROVE  Story'
<1> DEFINE session == [user |-> u, seen |-> now, exp |-> now + AbsoluteTtl * Second,
                       high |-> FALSE]
           label == IF s = NoSid THEN "rotate.only" ELSE "rotate.get"
           r == Arrived(label, "login", "same", s, Fresh, session)
<1>1. s # NoSid => fate[s] # "unborn"
  BY DEF Cookies
<1>2. /\ h' = [h EXCEPT ![p] = r] /\ UNCHANGED <<now, redis, fate>>
      /\ issued' = Fresh /\ born' = [born EXCEPT ![Fresh] = now]
  BY DEF StartSession
<1>3. /\ r.pc \in {"rotate.only", "rotate.get"} /\ r.cur = s /\ r.new = Fresh /\ r.at = now
  BY DEF Arrived
<1>4. h'[p] = r /\ h'[p] \in Handler
  BY <1>2 DEF IInv, TypeOK
<1> HIDE DEF r
<1>5. Fresh = issued + 1 /\ issued \in Nat /\ born \in [Sid -> Nat]
  BY DEF Fresh, IInv, TypeOK
<1>6. Fresh \in Sid
  BY <1>3, <1>4, <1>5 DEF Handler, NoSid
<1>7. \A x \in Sid : x <= issued => born'[x] = born[x]
  BY <1>2, <1>5 DEF Sid
<1> QED
  BY <1>1, <1>2, <1>3, <1>4, <1>6, <1>7, ArrivalKeeps DEF Pending, Destroying

\* What a handler goes on with when its command throws.
LEMMA ErrorFits ==
  ASSUME IInv, Story, NEW p \in Busy, h[p].pc # "invoke", fate' = fate
  PROVE  Fit(p, OnError(h[p]))
<1>1. p \in Handlers /\ h[p].pc # "idle" /\ h[p].pc \in Labels
  BY DEF Busy, IInv, TypeOK, Handler
<1>2. Fit(p, Reject(h[p])) /\ Fit(p, CreateFailed(h[p])) /\ Fit(p, Idle)
  BY <1>1, RejectFits, CreateFailedFits, FitIdle
<1>3. h[p].pc \notin Pending => Knows(p, h[p])
  <2>1. NoSession \in Session \cup {NoSession}
    OBVIOUS
  <2> QED
    BY <1>1, <2>1, HandlerKnows DEF Monotone
<1>4. h[p].pc \notin Pending => Fit(p, To(h[p], "recheck.get")) /\ Fit(p, Return(h[p]))
  BY <1>3, FitReturn, FitTo DEF Labels, Destroying, Pending, Writers
<1>5. h[p].pc = "rotate.get" => Fit(p, To(h[p], "rotate.only"))
  BY <1>1, FitPending DEF Pending
<1> QED
  BY <1>1, <1>2, <1>4, <1>5 DEF OnError, Labels, Pending

LEMMA RedisErrorStory ==
  ASSUME IInv, Story, NEW p \in Handlers, RedisError(p), IInv'
  PROVE  Story' /\ (Clean => Clean')
<1> DEFINE r == OnError(h[p])
<1>1. p \in Busy /\ h[p].pc # "invoke"
  BY DEF RedisError, At
<1>2. /\ h' = [h EXCEPT ![p] = IF r.pc = "idle" THEN Idle ELSE [r EXCEPT !.at = now]]
      /\ UNCHANGED <<now, redis, issued, fate, born>>
  BY DEF RedisError
<1>3. r.new \in {h[p].new, NoSid}
  <2>1. h[p] \in Handler
    BY DEF IInv, TypeOK
  <2> QED
    BY <2>1 DEF OnError, Reject, Return, CreateFailed, Destroy, To, Idle, Handler, Returns
<1>4. Fit(p, r)
  BY <1>1, <1>2, ErrorFits
<1> HIDE DEF r
<1>5. r.new \in Sid \cup {NoSid} /\ r.new <= MaxSid
  <2>1. h[p].new \in Sid \cup {NoSid} /\ MaxSid \in Nat
    BY ConstantsAssumption DEF IInv, TypeOK, Handler
  <2> QED
    BY <1>3, <2>1 DEF Sid, NoSid
<1>6. r.pc = "idle" \/ r \in Handler
  BY <1>4, <1>5 DEF Fit
<1> DEFINE n == IF r.pc = "idle" THEN Idle ELSE [r EXCEPT !.at = now]
<1>7. h'[p] = n /\ \A q \in Handlers : q # p => h'[q] = h[q]
  BY <1>2 DEF IInv, TypeOK
<1>8. r.pc # "idle" => n.pc = r.pc /\ n.new = r.new /\ n.binding = r.binding /\ n.method = r.method
  BY <1>6 DEF Handler
<1>9. r.pc = "idle" => n = Idle
  OBVIOUS
<1> HIDE DEF n
<1>10. r.pc # "idle" /\ r.pc \in Pending => r.new \in Sid
  <2>1. h'[p].pc \in HoldsNew => h'[p].new # NoSid
    BY DEF IInv, TypeOK
  <2> QED
    BY <1>5, <1>7, <1>8, <2>1 DEF Pending, HoldsNew
<1>11. Fates(p, r)
  BY <1>2 DEF Fates
<1>12. (\A q \in Handlers : Follows(h'[q], now', fate')) /\ Apart'
  BY <1>2, <1>4, <1>6, <1>10, <1>11, StepFollows
<1>13. Story'
  BY <1>2, <1>12 DEF Story, KeyEndsWithSession, Live, redis
<1>14. ASSUME Clean PROVE Clean'
  <2>1. Quiet(r)
    BY <1>4, <1>14 DEF Fit, Clean
  <2>2. Quiet(n)
    BY <1>8, <1>9, <2>1 DEF Quiet, Idle, Writers
  <2>3. Counted'
    BY <1>2, <1>14 DEF Clean, Counted, MetricCountsSessions, DestroyedStaysDestroyed, Live, redis
  <2> QED
    BY <1>7, <1>14, <2>2, <2>3 DEF Clean
<1> QED
  BY <1>13, <1>14

LEMMA TickStory ==
  ASSUME IInv, Story, Tick
  PROVE  Story' /\ (Clean => Clean')
<1> DEFINE lapsed == {s \in Live : until[s] <= now'}
<1>1. /\ \A p \in Busy : h[p].at = now
      /\ now' = now + 1 /\ now \in Nat /\ UNCHANGED <<metric, issued, born, h>>
  BY DEF Tick, IInv, TypeOK
<1>2. /\ store' = [s \in Sid |-> IF s \in lapsed THEN NoSession ELSE store[s]]
      /\ until' = [s \in Sid |-> IF s \in lapsed THEN 0 ELSE until[s]]
      /\ fate' = [s \in Sid |-> IF s \in lapsed /\ fate[s] = "live" THEN "lapsed" ELSE fate[s]]
  BY DEF Tick
<1> HIDE DEF lapsed
<1>3. \A s \in Sid : /\ fate'[s] = fate[s] \/ (fate[s] = "live" /\ fate'[s] = "lapsed")
                     /\ store'[s] # NoSession => /\ store'[s] = store[s] /\ until'[s] = until[s]
                                                 /\ fate'[s] = fate[s]
  BY <1>2
<1>4. ASSUME NEW p \in Handlers PROVE Follows(h'[p], now', fate')
  <2>1. Shape(h[p]) /\ Follows(h[p], now, fate)
    BY DEF IInv, Sound, Story
  <2>2. h[p].pc \in Pending => h[p].new \in Sid /\ fate[h[p].new] = "unborn"
    BY <2>1 DEF Shape, Handler, Pending, HoldsNew, Follows
  <2>3. Follows(h[p], now, fate')
    BY <1>3, <2>1, <2>2, FollowsLasts
  <2>4. h[p].pc # "idle" => h[p].at = now
    BY <1>1 DEF Busy
  <2> QED
    BY <1>1, <2>3, <2>4 DEF Follows
<1>5. Apart'
  BY <1>1 DEF Story, Apart
<1>6. KeyEndsWithSession' /\ \A s \in Live' : fate'[s] # "unborn"
  BY <1>1, <1>3 DEF Story, KeyEndsWithSession, Live
<1>7. ASSUME Clean PROVE Clean'
  <2>1. Counts' = Counts
    BY <1>3 DEF Counts
  <2>2. DestroyedStaysDestroyed'
    BY <1>3, <1>7 DEF Clean, Counted, DestroyedStaysDestroyed, Live
  <2> QED
    BY <1>1, <1>7, <2>1, <2>2 DEF Clean, Counted, MetricCountsSessions, Counts
<1> QED
  BY <1>4, <1>5, <1>6, <1>7 DEF Story
-----------------------------------------------------------------------------
LEMMA InitStory == Init => Story /\ Clean
<1> SUFFICES ASSUME Init PROVE Story /\ Clean
  OBVIOUS
<1>1. Live = {} /\ (\A p \in Handlers : h[p] = Idle)
  BY DEF Init, Live
<1>2. Counts = {} /\ metric = 0
  BY DEF Init, Counts
<1>3. Story
  BY <1>1 DEF Story, Follows, Apart, KeyEndsWithSession, Idle, Pending
<1>4. \A p \in Handlers : Quiet(h[p])
  BY <1>1 DEF Quiet, Idle, Writers
<1>5. Counted
  BY <1>1, <1>2, FS_EmptySet DEF Counted, MetricCountsSessions, DestroyedStaysDestroyed, Counts
<1> QED
  BY <1>3, <1>4, <1>5 DEF Clean

LEMMA NextStory == IInv /\ IInv' /\ Story /\ [Next]_vars => Story'
<1> SUFFICES ASSUME IInv, IInv', Story, [Next]_vars PROVE Story'
  OBVIOUS
<1>1. ASSUME NEW p \in Handlers, Handle(p) PROVE Story'
  BY <1>1, HandleEffect, EffectKeeps
<1>2. CASE UNCHANGED vars
  BY <1>2 DEF vars, redis, Story, Apart, KeyEndsWithSession, Live
<1>3. CASE Quiescent
  BY <1>2, <1>3 DEF Quiescent
<1> QED
  BY <1>1, <1>2, <1>3, RequestStory, StartSessionStory, RedisErrorStory, TickStory DEF Next

LEMMA SpecStory == Spec => []Story
  BY InitStory, NextStory, SpecKeeps, PTL DEF Spec

\* No client comes from another user agent or sends a wrong CSRF token: nothing
\* is written back from memory.
NoWriteBack == "ua" \notin Bindings /\ "badCsrf" \notin Methods

LEMMA ArrivalIsClean ==
  ASSUME IInv, Clean, NEW p \in Handlers, NEW r, h' = [h EXCEPT ![p] = r],
         UNCHANGED <<redis, fate>>, Quiet(r)
  PROVE  Clean'
<1>1. \A q \in Handlers : Quiet(h'[q])
  BY DEF IInv, TypeOK, Clean
<1>2. Counted'
  BY DEF Clean, Counted, MetricCountsSessions, DestroyedStaysDestroyed, Live, redis
<1> QED
  BY <1>1, <1>2 DEF Clean

LEMMA NextClean ==
  NoWriteBack /\ IInv /\ IInv' /\ Story /\ Clean /\ [Next]_vars => Clean'
<1> SUFFICES ASSUME NoWriteBack, IInv, IInv', Story, Clean, [Next]_vars PROVE Clean'
  OBVIOUS
<1>1. ASSUME NEW p \in Handlers, Handle(p) PROVE Clean'
  BY <1>1, HandleEffect, EffectIsClean
<1>2. CASE UNCHANGED vars
  BY <1>2 DEF vars, redis, Clean, Counted, MetricCountsSessions, DestroyedStaysDestroyed, Live
<1>3. ASSUME NEW p \in Handlers, NEW m \in Methods, NEW b \in Bindings, NEW s \in Cookies,
             Request(p, m, b, s)
      PROVE  Clean'
  <2> DEFINE r == Arrived("validate.get", m, b, s, NoSid, NoSession)
  <2>1. h' = [h EXCEPT ![p] = r] /\ UNCHANGED <<redis, fate>>
    BY <1>3 DEF Request
  <2>2. Quiet(r)
    BY <1>3 DEF NoWriteBack, Quiet, Arrived, Writers
  <2> HIDE DEF r
  <2> QED
    BY <2>1, <2>2, ArrivalIsClean
<1>4. ASSUME NEW p \in Handlers, NEW u \in Users, NEW s \in Cookies \cup {NoSid},
             StartSession(p, u, s)
      PROVE  Clean'
  <2> DEFINE session == [user |-> u, seen |-> now, exp |-> now + AbsoluteTtl * Second,
                         high |-> FALSE]
             label == IF s = NoSid THEN "rotate.only" ELSE "rotate.get"
             r == Arrived(label, "login", "same", s, Fresh, session)
  <2>1. h' = [h EXCEPT ![p] = r] /\ UNCHANGED <<redis, fate>>
    BY <1>4 DEF StartSession
  <2>2. Quiet(r)
    BY DEF Quiet, Arrived, Writers
  <2> HIDE DEF r
  <2> QED
    BY <2>1, <2>2, ArrivalIsClean
<1>5. CASE Quiescent
  BY <1>2, <1>5 DEF Quiescent
<1> QED
  BY <1>1, <1>2, <1>3, <1>4, <1>5, RedisErrorStory, TickStory DEF Next

-----------------------------------------------------------------------------
(* Who ends a session: why a handler that is about to destroy one may do    *)
(* so, and that Redis drops an idle session before anybody finds it past    *)
(* its grace.                                                               *)

\* A value that is gone or past its end at time t; one not seen before t.
Ended(v, t) == v = NoSession \/ v.exp < t
Recent(v, t) == v # NoSession => v.seen >= t

\* The request is its user's own goodbye, or has a successor for the session.
Leaves(r) == r.method \in {"login", "signout", "signoutAll"} \/ r.new # NoSid

\* What a label says by itself, when the command was sent at a.
Timed(r, a) ==
    /\ r.pc \in {"rotate.get", "keep.create"} => r.snap.seen >= a
    /\ r.pc \in {"rotate.create", "rotate.only"} => r.snap.seen >= a - 1
    /\ r.pc \in {"all.members", "all.eval", "all.del"} => r.method = "signoutAll"
    /\ r.pc = "keep.get" => r.method = "keepAlive"

\* What a label says, at time t, of the session of the cookie, v.  A keepAlive has
\* just extended it, unless a rotation gave it a successor.
Entitled(r, a, v, t) ==
    /\ r.pc = "recheck.get" => Ended(v, t)
    /\ r.pc \in Destroying => Leaves(r) \/ Ended(v, t)
    /\ r.method = "keepAlive" /\ r.new = NoSid =>
          /\ r.pc = "reload.get" => Recent(v, a - 1)
          /\ r.pc = "invoke" => Recent(v, a - 2)
          /\ r.pc = "keep.get" => Recent(v, a - 3)

\* A key is not stale by more than the time its last command took.
InTime(v, u, t) == t < u /\ u <= v.seen + IdleTtl * Second + 2

Watched ==
    /\ \A s \in Live : InTime(store[s], until[s], now)
    /\ \A p \in Handlers : Timed(h[p], h[p].at)
    /\ errors = 0 => \A p \in Handlers : Entitled(h[p], h[p].at, store[h[p].cur], now)

\* What a handler may go on with.
Sees(r) ==
    r.pc # "idle" =>
      /\ r.new <= MaxSid => r \in Handler
      /\ Timed(r, now)
      /\ errors' = 0 => Entitled(r, now, store'[r.cur], now)

\* Whatever key is there after a step was there before, or its id was unborn; a
\* key that was there has the same end, and has not been seen longer ago.
Steady ==
    \A s \in Sid : store'[s] # NoSession =>
        /\ InTime(store'[s], until'[s], now')
        /\ store[s] = NoSession => fate[s] = "unborn"
        /\ store[s] # NoSession =>
              /\ store'[s].exp = store[s].exp
              /\ store'[s].seen >= store[s].seen \/ store'[s].seen >= now - 1

LEMMA TimeIs == IInv => now \in Nat /\ IdleTtl * Second \in Nat /\ Second \in Nat \ {0}
  BY Products, TimeTypes DEF IInv, TypeOK

\* What the other handlers were told stays true.
LEMMA OthersEntitled ==
  ASSUME IInv, IInv', Story, Steady, NEW q \in Handlers, now <= now',
         Entitled(h[q], h[q].at, store[h[q].cur], now)
  PROVE  Entitled(h[q], h[q].at, store'[h[q].cur], now')
<1> DEFINE s == h[q].cur
           Labelled == {"recheck.get", "reload.get", "invoke", "keep.get"} \cup Destroying
<1>1. CASE h[q].pc \notin Labelled
  BY <1>1 DEF Entitled
<1>2. CASE h[q].pc \in Labelled
  <2>1. h[q].pc # "idle" /\ h[q].pc \notin {"rotate.only"}
    BY <1>2 DEF Destroying
  <2>2. s \in Sid
    BY <2>1 DEF IInv, Sound, Shape, Handler, NoSid
  <2>3. fate[s] # "unborn" /\ h[q].at \in Nat /\ now \in Nat /\ h[q].at <= now
    BY <2>1, <2>2, Prompt DEF Story, Follows
  <2> HIDE DEF s
  <2>4. store[s] \in Session \cup {NoSession} /\ store'[s] \in Session \cup {NoSession}
    BY <2>2 DEF IInv, TypeOK
  <2>5. now' \in Nat
    BY DEF IInv, TypeOK
  <2>6. CASE store'[s] = NoSession
    BY <2>6 DEF s, Entitled, Ended, Recent
  <2>7. CASE store'[s] # NoSession
    <3>1. /\ store[s] # NoSession /\ store'[s].exp = store[s].exp
          /\ store'[s].seen >= store[s].seen \/ store'[s].seen >= now - 1
      BY <2>2, <2>3, <2>7 DEF Steady
    <3>2. store[s].exp \in Nat /\ store[s].seen \in Nat /\ store'[s].seen \in Nat
      BY <2>4, <2>7, <3>1 DEF Session
    <3>3. Ended(store[s], now) => Ended(store'[s], now')
      BY <2>3, <2>5, <3>1, <3>2 DEF Ended
    <3> DEFINE a == h[q].at
    <3>4. \A d \in 1..3 : Recent(store[s], a - d) => Recent(store'[s], a - d)
      BY <2>3, <3>1, <3>2 DEF Recent
    <3> HIDE DEF a
    <3>5. /\ Recent(store[s], a - 1) => Recent(store'[s], a - 1)
          /\ Recent(store[s], a - 2) => Recent(store'[s], a - 2)
          /\ Recent(store[s], a - 3) => Recent(store'[s], a - 3)
      BY <3>4
    <3>6. Entitled(h[q], a, store[s], now)
      BY DEF a, s
    <3>7. Entitled(h[q], a, store'[s], now')
      BY <3>3, <3>5, <3>6 DEF Entitled
    <3> QED
      BY <3>7 DEF s, a
  <2> QED
    BY <2>6, <2>7
<1> QED
  BY <1>1, <1>2

\* A step that changes only the record of handler p.
LEMMA RecordWatched ==
  ASSUME IInv, IInv', Story, Watched, NEW p \in Handlers, Steady, now' = now,
         errors' = 0 => errors = 0, \A q \in Handlers : q # p => h'[q] = h[q],
         Timed(h'[p], h'[p].at),
         errors' = 0 => Entitled(h'[p], h'[p].at, store'[h'[p].cur], now)
  PROVE  Watched'
<1>1. now \in Nat /\ now <= now'
  BY DEF IInv, TypeOK
<1>2. \A s \in Live' : InTime(store'[s], until'[s], now')
  BY DEF Steady, Live
<1>3. ASSUME NEW q \in Handlers, q # p
      PROVE  /\ Timed(h'[q], h'[q].at)
             /\ errors' = 0 => Entitled(h'[q], h'[q].at, store'[h'[q].cur], now')
  <2>1. h'[q] = h[q]
    BY <1>3
  <2>2. Timed(h[q], h[q].at) /\ (errors = 0 => Entitled(h[q], h[q].at, store[h[q].cur], now))
    BY DEF Watched
  <2> QED
    BY <1>1, <2>1, <2>2, OthersEntitled
<1> QED
  BY <1>2, <1>3 DEF Watched

\* A step of handler p that goes on with r keeps the watch.
LEMMA StepWatched ==
  ASSUME IInv, IInv', Story, Watched, NEW p \in Handlers, NEW r, Sees(r), Steady,
         h' = [h EXCEPT ![p] = IF r.pc = "idle" THEN Idle ELSE [r EXCEPT !.at = now]],
         r.new <= MaxSid, now' = now, errors' = 0 => errors = 0
  PROVE  Watched'
<1>1. \A q \in Handlers : q # p => h'[q] = h[q]
  BY DEF IInv, TypeOK
<1>2. /\ Timed(h'[p], h'[p].at)
      /\ errors' = 0 => Entitled(h'[p], h'[p].at, store'[h'[p].cur], now)
  <2>1. CASE r.pc = "idle"
    <3>1. h'[p] = Idle
      BY <2>1 DEF IInv, TypeOK
    <3>2. Idle.pc = "idle" /\ Idle.method = "none"
      BY DEF Idle
    <3> HIDE DEF Idle
    <3> QED
      BY <3>1, <3>2 DEF Timed, Entitled, Destroying
  <2>2. CASE r.pc # "idle"
    <3> DEFINE n == [r EXCEPT !.at = now]
    <3>1. h'[p] = n
      BY <2>2 DEF IInv, TypeOK
    <3>2. r \in Handler
      BY <2>2 DEF Sees
    <3>3. /\ n.at = now /\ n.pc = r.pc /\ n.snap = r.snap /\ n.method = r.method
          /\ n.new = r.new /\ n.cur = r.cur
      BY <3>2 DEF Handler
    <3> HIDE DEF n
    <3>4. Timed(r, now) /\ (errors' = 0 => Entitled(r, now, store'[r.cur], now))
      BY <2>2 DEF Sees
    <3> QED
      BY <3>1, <3>3, <3>4 DEF Timed, Entitled, Leaves
  <2> QED
    BY <2>1, <2>2
<1> QED
  BY <1>1, <1>2, RecordWatched

LEMMA TickWatched ==
  ASSUME IInv, IInv', Story, Watched, Tick
  PROVE  Watched'
<1> DEFINE lapsed == {s \in Live : until[s] <= now'}
<1>1. now' = now + 1 /\ now \in Nat /\ UNCHANGED <<errors, h>>
  BY DEF Tick, IInv, TypeOK
<1>2. /\ store' = [s \in Sid |-> IF s \in lapsed THEN NoSession ELSE store[s]]
      /\ until' = [s \in Sid |-> IF s \in lapsed THEN 0 ELSE until[s]]
  BY DEF Tick
<1>3. \A s \in Sid : store'[s] # NoSession =>
          store'[s] = store[s] /\ until'[s] = until[s] /\ s \in Live /\ s \notin lapsed
  BY <1>2 DEF Live
<1>4. Steady
  <2> SUFFICES ASSUME NEW s \in Sid, store'[s] # NoSession
               PROVE  /\ InTime(store'[s], until'[s], now') /\ store[s] # NoSession
                      /\ store'[s].exp = store[s].exp /\ store'[s].seen >= store[s].seen
    BY DEF Steady
  <2>1. /\ store'[s] = store[s] /\ until'[s] = until[s] /\ s \in Live /\ ~(until[s] <= now')
        /\ store[s] \in Session /\ until[s] \in Nat
    BY <1>3 DEF Live, IInv, TypeOK
  <2>2. InTime(store[s], until[s], now)
    BY <2>1 DEF Watched
  <2>3. store[s].seen \in Nat /\ store[s] # NoSession
    BY <2>1 DEF Session, Live
  <2> QED
    BY <1>1, <2>1, <2>2, <2>3 DEF InTime
<1>5. \A s \in Live' : InTime(store'[s], until'[s], now')
  BY <1>4 DEF Steady, Live
<1>6. now <= now'
  BY <1>1
<1>7. ASSUME NEW q \in Handlers
      PROVE  /\ Timed(h[q], h[q].at)
             /\ errors = 0 => Entitled(h[q], h[q].at, store'[h[q].cur], now')
  BY <1>4, <1>6, OthersEntitled DEF Watched
<1> QED
  BY <1>1, <1>5, <1>7 DEF Watched
-----------------------------------------------------------------------------
(* What each continuation needs to be entitled.                             *)

Plain == {"validate.get", "extend.get", "extend.eval", "rotate.reload", "agent.setex",
          "agent.expire", "risk.get", "risk.setex"}

LEMMA SeesIdle == Sees(Idle)
  BY DEF Sees, Idle

LEMMA PlainSees ==
  ASSUME NEW r \in Handler, r.pc \in Plain
  PROVE  Sees(r)
  BY DEF Sees, Timed, Entitled, Plain, Destroying

LEMMA ToSees ==
  ASSUME NEW r \in Handler, NEW label \in Plain
  PROVE  Sees(To(r, label))
<1>1. To(r, label) \in Handler /\ To(r, label).pc = label
  BY DEF To, Handler, Plain, Labels
<1> QED
  BY <1>1, PlainSees

LEMMA DestroySees ==
  ASSUME NEW r \in Handler, NEW after \in Returns,
         errors' = 0 => Leaves(r) \/ Ended(store'[r.cur], now)
  PROVE  Sees(Destroy(r, after))
<1> DEFINE n == Destroy(r, after)
<1>1. /\ n \in Handler /\ n.pc = "destroy.get" /\ n.method = r.method /\ n.new = r.new
      /\ n.cur = r.cur
  BY DEF Destroy, Handler, Labels
<1> HIDE DEF n
<1>2. Sees(n)
  BY <1>1 DEF Sees, Timed, Entitled, Leaves
<1> QED
  BY <1>2 DEF n

LEMMA RejectSees ==
  ASSUME NEW r \in Handler
  PROVE  Sees(Reject(r))
<1> DEFINE again == [r EXCEPT !.pc = "validate.get", !.retried = TRUE]
<1>1. again \in Handler /\ again.pc = "validate.get"
  BY DEF Handler, Labels
<1> HIDE DEF again
<1>2. Sees(again)
  BY <1>1, PlainSees DEF Plain
<1>3. r.method \in {"signout", "signoutAll"} => Sees(Destroy(r, "done"))
  BY DestroySees DEF Leaves, Returns
<1> QED
  BY <1>2, <1>3, SeesIdle DEF Reject, again

LEMMA AcceptSees ==
  ASSUME NEW r \in Handler,
         errors' = 0 /\ r.method = "keepAlive" /\ r.new = NoSid => Recent(store'[r.cur], now - 2)
  PROVE  Sees(Accept(r))
<1> DEFINE n == Accept(r)
<1>1. /\ n \in Handler /\ n.pc = "invoke" /\ n.method = r.method /\ n.new = r.new
      /\ n.cur = r.cur
  BY DEF Accept, Handler, Labels, AllBindings
<1> HIDE DEF n
<1>2. Sees(n)
  BY <1>1 DEF Sees, Timed, Entitled, Destroying
<1> QED
  BY <1>2 DEF n

LEMMA RotationSees ==
  ASSUME IInv, NEW r \in Handler, r.snap \in Session, NEW label \in {"rotate.get", "keep.create"}
  PROVE  Sees([r EXCEPT !.pc = label, !.snap = Renewed(@), !.new = Fresh])
<1> DEFINE n == [r EXCEPT !.pc = label, !.snap = Renewed(@), !.new = Fresh]
<1>1. now \in Nat /\ issued \in Nat
  BY DEF IInv, TypeOK
<1>2. Renewed(r.snap) \in Session /\ Renewed(r.snap).seen = now
  BY <1>1 DEF Renewed, Session
<1>3. n \in [pc: {label}, at: {r.at}, method: {r.method}, binding: {r.binding},
              retried: {r.retried}, cur: {r.cur}, new: {Fresh},
              snap: {Renewed(r.snap)}, todo: {r.todo}, after: {r.after}]
  BY DEF Handler
<1> HIDE DEF n
<1>4. Fresh <= MaxSid => n \in Handler
  BY <1>1, <1>2, <1>3 DEF Handler, Labels, Fresh, Sid
<1>5. Sees(n)
  BY <1>1, <1>2, <1>3, <1>4 DEF Sees, Timed, Entitled, Destroying
<1> QED
  BY <1>5 DEF n

LEMMA JudgeSees ==
  ASSUME IInv, NEW r \in Handler, r.snap \in Session, WithinGrace(r.snap, now),
         errors' = 0 /\ r.method = "keepAlive" /\ r.new = NoSid => Recent(store'[r.cur], now - 2)
  PROVE  Sees(Judge(r))
<1>1. Sees(Accept(r)) /\ Sees(To(r, "agent.setex"))
  BY AcceptSees, ToSees DEF Plain
<1>2. Sees([r EXCEPT !.pc = "rotate.get", !.snap = Renewed(@), !.new = Fresh])
  BY RotationSees
<1>3. r.binding \in AllBindings
  BY DEF Handler
<1> QED
  BY <1>1, <1>2, <1>3 DEF Judge, AllBindings

LEMMA ReturnSees ==
  ASSUME NEW r \in Handler, errors' = 0 => Leaves(r) \/ Ended(store'[r.cur], now)
  PROVE  Sees(Return(r))
<1>1. Sees(Reject(r)) /\ Sees(Idle) /\ Sees(Destroy(r, "done")) /\ Sees(To(r, "rotate.reload"))
  BY RejectSees, SeesIdle, DestroySees, ToSees DEF Returns, Plain
<1>2. r.after \in Returns
  BY DEF Handler
<1> QED
  BY <1>1, <1>2 DEF Return, Returns
-----------------------------------------------------------------------------
(* What each step of a handler does to the sessions.                        *)

\* A session that outlives the commands of one request, and a grace.
LongLived == GracePeriod > 0 /\ IdleTtl * Second >= 4

\* Handler p removes no valid session, or it leaves and goes on.
Ends(p) ==
    \A s \in Live : s \notin Live' /\ errors = 0 /\ IsSessionValid(store[s], now)
                    => Leaves(h[p]) /\ h'[p] # h[p]

Watches(p, r) == Continue(p, r) /\ Sees(r) /\ Steady /\ Ends(p)

LEMMA NothingWatches ==
  ASSUME IInv, Watched, NEW p \in Handlers, NEW r, Continue(p, r), Sees(r),
         UNCHANGED <<store, until>>
  PROVE  Watches(p, r)
<1>1. now' = now
  BY DEF Continue
<1>2. Steady
  <2>1. \A s \in Sid : store[s] # NoSession => store[s].seen \in Nat
    BY DEF IInv, TypeOK, Session
  <2> QED
    BY <1>1, <2>1 DEF Steady, Watched, Live
<1>3. Ends(p)
  BY DEF Ends, Live
<1> QED
  BY <1>2, <1>3 DEF Watches

LEMMA LocalWatches ==
  ASSUME IInv, Watched, NEW p \in Handlers, NEW r, Local(p, r), Sees(r)
  PROVE  \E x : Watches(p, x)
<1>1. Watches(p, r)
  BY NothingWatches DEF Local, redis
<1> QED
  BY <1>1

LEMMA GetWatches ==
  ASSUME IInv, Watched, NEW p \in Handlers, NEW s \in Sid, NEW missing, NEW found,
         Get(p, s, missing, found),
         s \notin Live => Sees(missing), s \in Live => Sees(found)
  PROVE  \E x : Watches(p, x)
<1>1. CASE s \in Live
  <2>1. Watches(p, found)
    BY <1>1, NothingWatches DEF Get, redis
  <2> QED
    BY <2>1
<1>2. CASE s \notin Live
  <2>1. Watches(p, missing)
    BY <1>2, NothingWatches DEF Get, redis
  <2> QED
    BY <2>1
<1> QED
  BY <1>1, <1>2

\* Redis has dropped a session before it is past its grace.
LEMMA AliveIsWithinGrace ==
  ASSUME IInv, Watched, LongLived, NEW s \in Live
  PROVE  WithinGrace(store[s], now)
<1>1. store[s] \in Session /\ until[s] \in Nat /\ InTime(store[s], until[s], now)
  BY DEF Live, IInv, TypeOK, Watched
<1>2. store[s].seen \in Nat /\ now \in Nat /\ IdleTtl * Second \in Nat /\ Second \in Nat \ {0}
  BY <1>1, TimeIs DEF Session
<1>3. now - store[s].seen <= IdleTtl * Second + 1
  BY <1>1, <1>2 DEF InTime
<1>4. GracePeriod \in Nat /\ IdleTtl \in Nat
  BY TimeTypes, ConstantsAssumption
<1>5. (IdleTtl + GracePeriod) * Second = IdleTtl * Second + GracePeriod * Second
  BY <1>2, <1>4, TimesDistributes
<1>6. 1 * Second <= GracePeriod * Second /\ 1 * Second = Second
  <2>1. 1 <= GracePeriod
    BY <1>4 DEF LongLived
  <2> QED
    BY <1>2, <1>4, <2>1, TimesMonotone, TimesDistributes
<1>7. GracePeriod * Second \in Int
  BY <1>2, <1>4, TimesDistributes
<1> QED
  BY <1>2, <1>3, <1>5, <1>6, <1>7 DEF WithinGrace

LEMMA ValidateWatches ==
  ASSUME IInv, Story, Watched, LongLived, NEW p \in Handlers,
         ValidateGet(p) \/ ExtendGet(p) \/ ReloadGet(p) \/ RecheckGet(p)
  PROVE  \E x : Watches(p, x)
<1> DEFINE read == [h[p] EXCEPT !.snap = store[h[p].cur]]
<1>1. /\ h[p].pc \in {"validate.get", "extend.get", "reload.get", "recheck.get"}
      /\ UNCHANGED <<redis, fate, errors>>
  BY DEF ValidateGet, ExtendGet, ReloadGet, RecheckGet, At, Get, Continue
<1>2. h[p].cur \in Sid /\ h[p] \in Handler
  BY <1>1, Waiting DEF LoginLabels, Carrier
<1>3. /\ read \in Handler /\ read.snap = store[h[p].cur]
      /\ h[p].cur \in Live => read.snap \in Session
  BY <1>1, <1>2, ReadKnows DEF Pending, Knows
<1>4. read.cur = h[p].cur /\ read.method = h[p].method /\ read.new = h[p].new
  BY <1>2 DEF Handler
<1>5. errors = 0 => Entitled(h[p], h[p].at, store[h[p].cur], now)
  BY DEF Watched
<1>6. h[p].cur \in Live => WithinGrace(read.snap, now)
  BY <1>3, AliveIsWithinGrace
<1>7. Sees(Reject(h[p])) /\ Sees(To(h[p], "extend.eval"))
  BY <1>2, RejectSees, ToSees DEF Plain
<1>8. store' = store
  BY <1>1 DEF redis
<1> HIDE DEF read
<1>9. CASE ValidateGet(p)
  <2>1. Get(p, h[p].cur, Reject(h[p]),
            IF ShouldExtend(read.method) THEN To(read, "extend.get") ELSE Judge(read))
    BY <1>9 DEF ValidateGet, read
  <2>2. Sees(To(read, "extend.get"))
    BY <1>3, ToSees DEF Plain
  <2>3. h[p].cur \in Live /\ ~ShouldExtend(read.method) => Sees(Judge(read))
    BY <1>3, <1>6, JudgeSees DEF ShouldExtend
  <2> QED
    BY <1>2, <1>7, <2>1, <2>2, <2>3, GetWatches
<1>10. CASE ExtendGet(p)
  <2> DEFINE n == To(h[p], "recheck.get")
  <2>1. n \in Handler /\ n.pc = "recheck.get" /\ n.cur = h[p].cur
    BY <1>2 DEF To, Handler, Labels
  <2>2. Get(p, h[p].cur, n, To(h[p], "extend.eval"))
    BY <1>10 DEF ExtendGet
  <2> HIDE DEF n
  <2>3. h[p].cur \notin Live => Sees(n)
    BY <1>2, <1>8, <2>1 DEF Sees, Timed, Entitled, Ended, Destroying, Live
  <2> QED
    BY <1>2, <1>7, <2>2, <2>3, GetWatches
<1>11. CASE ReloadGet(p)
  <2>1. Get(p, h[p].cur, Reject(h[p]), Judge(read)) /\ h[p].pc = "reload.get"
    BY <1>11 DEF ReloadGet, At, read
  <2>2. h[p].at \in Nat /\ now \in Nat /\ now <= h[p].at + 1
    BY <1>1, Prompt
  <2>3. ASSUME h[p].cur \in Live, errors' = 0, read.method = "keepAlive", read.new = NoSid
        PROVE  Recent(store'[read.cur], now - 2)
    <3>1. Recent(store[h[p].cur], h[p].at - 1)
      BY <1>1, <1>4, <1>5, <2>1, <2>3 DEF Entitled
    <3>2. store[h[p].cur] \in Session /\ store[h[p].cur].seen \in Nat
      BY <1>3, <2>3 DEF Session
    <3> QED
      BY <1>4, <1>8, <2>2, <3>1, <3>2 DEF Recent
  <2>4. h[p].cur \in Live => Sees(Judge(read))
    BY <1>3, <1>6, <2>3, JudgeSees
  <2> QED
    BY <1>2, <1>7, <2>1, <2>4, GetWatches
<1>12. CASE RecheckGet(p)
  <2>1. /\ Get(p, h[p].cur, Reject(h[p]),
               IF IsSessionValid(read.snap, now) THEN Judge(read) ELSE Destroy(read, "reject"))
        /\ h[p].pc = "recheck.get"
    BY <1>12 DEF RecheckGet, At, read
  <2>2. errors = 0 => Ended(store[h[p].cur], now)
    BY <1>5, <2>1 DEF Entitled
  <2>3. Sees(Destroy(read, "reject"))
    BY <1>1, <1>3, <1>4, <1>8, <2>2, DestroySees DEF Returns
  <2>4. h[p].cur \in Live /\ errors = 0 => ~IsSessionValid(read.snap, now)
    <3>1. h[p].cur \in Live => read.snap.exp \in Nat /\ now \in Nat /\ store[h[p].cur] # NoSession
      BY <1>3 DEF Session, Live, IInv, TypeOK
    <3> QED
      BY <1>3, <2>2, <3>1 DEF Ended, IsSessionValid
  <2>5. h[p].cur \in Live /\ IsSessionValid(read.snap, now) => Sees(Judge(read))
    BY <1>1, <1>3, <1>6, <2>4, JudgeSees
  <2> QED
    BY <1>2, <1>7, <2>1, <2>3, <2>5, GetWatches
<1> QED
  BY <1>9, <1>10, <1>11, <1>12

LEMMA IdleCut ==
  ASSUME NEW session \in Session, NEW t \in Nat
  PROVE  SessionTtl(session, t) \in 1..IdleTtl /\ LuaTtl(session, t) \in 1..IdleTtl
<1>1. /\ session.exp \in Nat
      /\ Second \in Nat \ {0}
      /\ IdleTtl \in Nat /\ IdleTtl >= 1
  BY TimeTypes, ConstantsAssumption DEF Session
<1>2. /\ (session.exp - t) \div Second \in Int
      /\ session.exp \div Second \in Int
      /\ t \div Second \in Int
  BY <1>1
<1> QED
  BY <1>1, <1>2 DEF SessionTtl, LuaTtl, SecondsLeft, ExpSec, Smaller, Larger

\* A key written now, with a value seen no longer than two ticks ago.
LEMMA WrittenInTime ==
  ASSUME IInv, NEW v \in Session, NEW ttl \in 1..IdleTtl, v.seen + 2 >= now
  PROVE  InTime(v, now + ttl * Second, now)
<1>1. now \in Nat /\ Second \in Nat \ {0} /\ IdleTtl \in Nat /\ ttl \in Int /\ v.seen \in Nat
      /\ IdleTtl * Second \in Nat
  BY TimeIs, TimeTypes DEF Session
<1>2. 1 * Second <= ttl * Second /\ ttl * Second <= IdleTtl * Second
  BY <1>1, TimesMonotone
<1>3. 1 * Second = Second /\ ttl * Second \in Int
  BY <1>1, TimesDistributes
<1> QED
  BY <1>1, <1>2, <1>3 DEF InTime

\* SETEX of a value that is as good as the one there, or the first under its id.
LEMMA SetExSteady ==
  ASSUME IInv, Watched, NEW s \in Sid, NEW session \in Session, NEW ttl \in 1..IdleTtl,
         SetEx(s, session, ttl), now' = now,
         session.seen + 2 >= now,
         store[s] = NoSession => fate[s] = "unborn",
         store[s] # NoSession => session.exp = store[s].exp /\ session.seen >= now - 1
  PROVE  Steady /\ Live \subseteq Live'
<1>1. \A x \in Sid : /\ store'[x] = IF x = s THEN session ELSE store[x]
                     /\ until'[x] = IF x = s THEN now + ttl * Second ELSE until[x]
  BY DEF SetEx, IInv, TypeOK
<1>2. InTime(session, now + ttl * Second, now)
  BY WrittenInTime
<1>3. session # NoSession
  BY ConstantsAssumption
<1>4. \A x \in Sid : store[x] # NoSession => store[x].seen \in Nat
  BY DEF IInv, TypeOK, Session
<1>5. Steady
  <2> SUFFICES ASSUME NEW x \in Sid, store'[x] # NoSession
               PROVE  /\ InTime(store'[x], until'[x], now')
                      /\ store[x] = NoSession => fate[x] = "unborn"
                      /\ store[x] # NoSession =>
                            /\ store'[x].exp = store[x].exp
                            /\ store'[x].seen >= store[x].seen \/ store'[x].seen >= now - 1
    BY DEF Steady
  <2>1. CASE x = s
    BY <1>1, <1>2, <2>1
  <2>2. CASE x # s
    <3>1. store'[x] = store[x] /\ until'[x] = until[x] /\ store[x] # NoSession
      BY <1>1, <2>2
    <3>2. InTime(store[x], until[x], now)
      BY <3>1 DEF Watched, Live
    <3> QED
      BY <1>4, <3>1, <3>2
  <2> QED
    BY <2>1, <2>2
<1>6. Live \subseteq Live'
  BY <1>1, <1>3 DEF Live
<1> QED
  BY <1>5, <1>6

LEMMA ExtendWatches ==
  ASSUME IInv, Story, Watched, NEW p \in Handlers, ExtendEval(p)
  PROVE  \E x : Watches(p, x)
<1> DEFINE s == h[p].cur
           t == h[p].at
<1>1. h[p].pc = "extend.eval"
  BY DEF ExtendEval, At
<1>2. s \in Sid /\ h[p] \in Handler
  BY <1>1, Waiting DEF LoginLabels, Carrier
<1>3. t \in Nat /\ now \in Nat /\ now <= t + 1 /\ t <= now
  BY <1>1, Prompt DEF Story, Follows
<1>4. CASE ~Extendable(s, t)
  <2> DEFINE n == To(h[p], "recheck.get")
  <2>1. Local(p, n) /\ store' = store
    BY <1>4 DEF ExtendEval, Local, redis
  <2>2. n \in Handler /\ n.pc = "recheck.get" /\ n.cur = s
    BY <1>2 DEF To, Handler, Labels
  <2>3. Ended(store[s], now)
    <3>1. CASE s \notin Live
      BY <1>2, <3>1 DEF Live, Ended
    <3>2. CASE s \in Live
      <4> DEFINE e == store[s].exp
      <4>1. e \in Nat /\ Second \in Nat \ {0}
        BY <1>2, <3>2, TimeTypes DEF Live, Session, IInv, TypeOK
      <4>2. ~(e \div Second >= t \div Second)
        BY <1>4, <3>2 DEF Extendable, ExpSec
      <4> HIDE DEF e, t
      <4>3. /\ (t \div Second) \in Int /\ (t \div Second) * Second <= t
            /\ (t \div Second) * Second \in Int
            /\ (e \div Second) \in Int /\ e < (e \div Second) * Second + Second
            /\ (e \div Second) * Second \in Int
        BY <1>3, <4>1, DivBounds
      <4>4. (e \div Second) + 1 <= t \div Second
        BY <4>2, <4>3
      <4>5. ((e \div Second) + 1) * Second <= (t \div Second) * Second
        <5>1. (e \div Second) + 1 \in Int
          BY <4>3
        <5> QED
          BY <4>1, <4>3, <4>4, <5>1, TimesMonotone
      <4>6. ((e \div Second) + 1) * Second = (e \div Second) * Second + Second
        BY <4>1, <4>3, TimesDistributes
      <4>7. e < now
        BY <1>3, <4>1, <4>3, <4>5, <4>6
      <4> QED
        BY <4>7 DEF Ended, e
    <3> QED
      BY <3>1, <3>2
  <2> HIDE DEF n, s
  <2>4. Sees(n)
    BY <2>1, <2>2, <2>3 DEF Sees, Timed, Entitled, Destroying
  <2> QED
    BY <2>1, <2>4, LocalWatches
<1>5. CASE Extendable(s, t)
  <2> DEFINE session == [store[s] EXCEPT !.seen = t]
             ttl == LuaTtl(store[s], t)
             r == To(h[p], "reload.get")
  <2>1. Continue(p, r) /\ SetEx(s, session, ttl)
    BY <1>5 DEF ExtendEval, UpdateLastSeenKeys
  <2>2. store[s] \in Session /\ s \in Live /\ store[s] # NoSession
    BY <1>2, <1>5 DEF Extendable, Live, IInv, TypeOK
  <2>3. session \in Session /\ session.seen = t /\ session.exp = store[s].exp
    BY <1>3, <2>2 DEF Session
  <2>4. ttl \in 1..IdleTtl
    BY <1>3, <2>2, IdleCut
  <2>5. now' = now
    BY <2>1 DEF Continue
  <2>6. r \in Handler /\ r.pc = "reload.get" /\ r.cur = s
    BY <1>2 DEF To, Handler, Labels
  <2>7. store'[s] = session
    BY <1>2, <2>1 DEF SetEx, IInv, TypeOK
  <2> HIDE DEF session, ttl, r, s, t
  <2>8. session.seen + 2 >= now /\ session.seen >= now - 1
    BY <1>3, <2>3
  <2>9. Steady /\ Live \subseteq Live'
    BY <1>2, <2>1, <2>2, <2>3, <2>4, <2>5, <2>8, SetExSteady
  <2>10. Sees(r)
    BY <2>6, <2>7, <2>8 DEF Sees, Timed, Entitled, Recent, Destroying
  <2>11. Watches(p, r)
    BY <2>1, <2>9, <2>10 DEF Watches, Ends
  <2> QED
    BY <2>11
<1> QED
  BY <1>4, <1>5

LEMMA CreateFailedSees ==
  ASSUME NEW r \in Handler
  PROVE  Sees(CreateFailed(r))
  BY SeesIdle, RejectSees DEF CreateFailed

LEMMA CreateWatches ==
  ASSUME IInv, Story, Watched, NEW p \in Handlers,
         h[p].pc \in {"rotate.create", "rotate.only", "keep.create"},
         NEW failed, Sees(failed), NEW created, Create(p, failed, created), Sees(created)
  PROVE  \E x : Watches(p, x)
<1> DEFINE s == h[p].new
           session == h[p].snap
           t == h[p].at
<1>1. Sound(h[p], issued, born) /\ h[p] \in Handler
  BY DEF IInv, Sound, Shape
<1>2. s \in Sid /\ session \in Session
  BY <1>1 DEF Sound, Shape, HoldsSession, HoldsNew, Handler, NoSid
<1>3. t \in Nat /\ now \in Nat /\ now <= t + 1 /\ h[p].pc \in Pending
  BY Prompt DEF Pending
<1>4. fate[s] = "unborn" /\ store[s] = NoSession
  BY <1>2, <1>3 DEF Story, Follows, Pending, Live
<1>5. session.seen \in Nat /\ session.seen >= t - 1
  BY <1>2, <1>3 DEF Watched, Timed, Session
<1>6. CASE Expired(session, t)
  BY <1>6, LocalWatches DEF Create
<1>7. CASE ~Expired(session, t)
  <2> DEFINE ttl == SessionTtl(session, t)
  <2>1. SetEx(s, session, ttl) /\ Continue(p, created)
    BY <1>7 DEF Create, CreateKeys
  <2>2. ttl \in 1..IdleTtl /\ now' = now
    BY <1>2, <1>3, <2>1, IdleCut DEF Continue
  <2> HIDE DEF session, ttl, s, t
  <2>3. session.seen + 2 >= now
    BY <1>3, <1>5
  <2>4. Steady /\ Live \subseteq Live'
    BY <1>2, <1>4, <2>1, <2>2, <2>3, SetExSteady
  <2>5. Watches(p, created)
    BY <2>1, <2>4 DEF Watches, Ends
  <2> QED
    BY <2>5
<1> QED
  BY <1>6, <1>7

LEMMA RotateWatches ==
  ASSUME IInv, Story, Watched, NEW p \in Handlers,
         RotateGet(p) \/ RotateCreate(p) \/ RotateOnly(p) \/ RotateReload(p)
  PROVE  \E x : Watches(p, x)
<1>1. Sound(h[p], issued, born) /\ h[p] \in Handler
  BY DEF IInv, Sound, Shape
<1>2. Sees(Reject(h[p])) /\ Sees(CreateFailed(h[p]))
  BY <1>1, RejectSees, CreateFailedSees
<1>3. CASE RotateGet(p)
  <2>1. h[p].pc = "rotate.get" /\ h[p].cur \in Sid /\ h[p].snap \in Session
    BY <1>1, <1>3 DEF RotateGet, At, Sound, Shape, Handler, NoSid, HoldsSession
  <2>2. h[p].at \in Nat /\ now \in Nat /\ now <= h[p].at + 1 /\ h[p].snap.seen >= h[p].at
        /\ h[p].snap.seen \in Nat
    BY <2>1, Prompt DEF Watched, Timed, Session
  <2>3. ASSUME NEW label \in {"rotate.only", "rotate.create"} PROVE Sees(To(h[p], label))
    <3> DEFINE n == To(h[p], label)
    <3>1. n \in Handler /\ n.pc = label /\ n.snap = h[p].snap
      BY <1>1 DEF To, Handler, Labels
    <3> HIDE DEF n
    <3>2. Sees(n)
      BY <2>2, <3>1 DEF Sees, Timed, Entitled, Destroying
    <3> QED
      BY <3>2 DEF n
  <2> QED
    BY <1>3, <2>1, <2>3, GetWatches DEF RotateGet
<1>4. CASE RotateCreate(p)
  <2> DEFINE after == IF h[p].method = "login" THEN "done" ELSE "reload"
             next == Destroy(h[p], after)
  <2>1. h[p].pc = "rotate.create" /\ Leaves(h[p])
    BY <1>1, <1>4 DEF RotateCreate, At, Sound, Shape, HoldsNew, Leaves
  <2>2. Sees(next)
    <3>1. after \in Returns
      BY DEF Returns
    <3> HIDE DEF after
    <3> QED
      BY <1>1, <2>1, <3>1, DestroySees
  <2> HIDE DEF next
  <2> QED
    BY <1>2, <1>4, <2>1, <2>2, CreateWatches DEF RotateCreate, next
<1>5. CASE RotateOnly(p)
  <2> DEFINE reload == [h[p] EXCEPT !.pc = "rotate.reload", !.snap = NoSession]
             next == IF h[p].method = "login" THEN Idle ELSE reload
  <2>1. h[p].pc = "rotate.only"
    BY <1>5 DEF RotateOnly, At
  <2>2. reload \in Handler /\ reload.pc = "rotate.reload"
    BY <1>1 DEF Handler, Labels
  <2> HIDE DEF reload
  <2>3. Sees(next)
    BY <2>2, PlainSees, SeesIdle DEF Plain
  <2> HIDE DEF next
  <2> QED
    BY <1>2, <1>5, <2>1, <2>3, CreateWatches DEF RotateOnly, next, reload
<1>6. CASE RotateReload(p)
  <2> DEFINE read == [h[p] EXCEPT !.snap = store[h[p].new]]
  <2>1. h[p].pc = "rotate.reload" /\ Get(p, h[p].new, Reject(h[p]), Accept(read))
    BY <1>6 DEF RotateReload, At
  <2>2. h[p].new \in Sid
    BY <2>1, Waiting DEF LoginLabels, HoldsNew
  <2>3. read \in Handler /\ read.new # NoSid
    <3>1. store[h[p].new] \in Session \cup {NoSession} /\ h[p].new # NoSid
      BY <2>2 DEF IInv, TypeOK, Sid, NoSid
    <3> QED
      BY <1>1, <3>1 DEF Handler
  <2> HIDE DEF read
  <2>4. Sees(Accept(read))
    BY <2>3, AcceptSees
  <2> QED
    BY <1>2, <2>1, <2>2, <2>4, GetWatches
<1> QED
  BY <1>3, <1>4, <1>5, <1>6

\* LUA_DESTROY_SESSION takes away one key.
LEMMA DestroyKeysSteady ==
  ASSUME IInv, Watched, NEW s \in Sid, DestroyKeys(s), now' = now
  PROVE  Steady /\ store'[s] = NoSession /\ \A x \in Sid : x # s => store'[x] = store[x]
<1>1. \A x \in Sid : /\ x # s => store'[x] = store[x] /\ until'[x] = until[x]
                     /\ store'[s] = NoSession
  BY DEF DestroyKeys, IInv, TypeOK, Live, redis
<1>2. \A x \in Sid : store[x] # NoSession => store[x].seen \in Nat
  BY DEF IInv, TypeOK, Session
<1>3. Steady
  <2> SUFFICES ASSUME NEW x \in Sid, store'[x] # NoSession
               PROVE  /\ InTime(store'[x], until'[x], now') /\ store[x] # NoSession
                      /\ store'[x].exp = store[x].exp /\ store'[x].seen >= store[x].seen
    BY DEF Steady
  <2>1. store'[x] = store[x] /\ until'[x] = until[x] /\ store[x] # NoSession
    BY <1>1
  <2>2. InTime(store[x], until[x], now)
    BY <2>1 DEF Watched, Live
  <2> QED
    BY <1>2, <2>1, <2>2
<1> QED
  BY <1>1, <1>3

LEMMA DestroyWatches ==
  ASSUME IInv, Story, Watched, NEW p \in Handlers, DestroyGet(p) \/ DestroyEval(p)
  PROVE  \E x : Watches(p, x)
<1>1. h[p].pc \in Destroying /\ errors' = errors
  BY DEF DestroyGet, DestroyEval, At, Destroying, Get, Continue
<1>2. h[p].cur \in Sid /\ h[p] \in Handler
  BY <1>1, AfterDestroy DEF IInv, TypeOK
<1>3. errors = 0 => Leaves(h[p]) \/ Ended(store[h[p].cur], now)
  BY <1>1 DEF Watched, Entitled
<1>4. CASE DestroyGet(p)
  <2> DEFINE next == To(h[p], "destroy.eval")
  <2>1. Get(p, h[p].cur, Return(h[p]), next) /\ store' = store
    BY <1>4 DEF DestroyGet, Get, redis
  <2>2. /\ next \in Handler /\ next.pc = "destroy.eval" /\ next.method = h[p].method
        /\ next.new = h[p].new /\ next.cur = h[p].cur
    BY <1>2 DEF To, Handler, Labels
  <2> HIDE DEF next
  <2>3. Sees(next)
    BY <1>1, <1>3, <2>1, <2>2 DEF Sees, Timed, Entitled, Leaves
  <2>4. Sees(Return(h[p]))
    BY <1>1, <1>2, <1>3, <2>1, ReturnSees
  <2> QED
    BY <1>2, <2>1, <2>3, <2>4, GetWatches
<1>5. CASE DestroyEval(p)
  <2> DEFINE next == Return(h[p])
             s == h[p].cur
  <2>1. DestroyKeys(s) /\ Continue(p, next) /\ h[p].pc = "destroy.eval" /\ now' = now
    BY <1>5 DEF DestroyEval, Continue, At
  <2>2. Steady /\ store'[s] = NoSession /\ \A x \in Sid : x # s => store'[x] = store[x]
    BY <1>2, <2>1, DestroyKeysSteady
  <2>3. Sees(next)
    BY <1>2, <2>2, ReturnSees DEF Ended
  <2>4. h'[p] # h[p]
    <3>1. next.pc # "destroy.eval"
      <4>1. Reject(h[p]).pc # "destroy.eval" /\ Destroy(h[p], "done").pc # "destroy.eval"
        BY <1>2 DEF Reject, Destroy, Idle, Handler
      <4>2. To(h[p], "rotate.reload").pc # "destroy.eval" /\ Idle.pc # "destroy.eval"
        BY <1>2 DEF To, Idle, Handler
      <4>3. h[p].after \in Returns
        BY <1>2 DEF Handler
      <4> QED
        BY <4>1, <4>2, <4>3 DEF Return, Returns
    <3> HIDE DEF next
    <3>2. CASE next.pc = "idle"
      <4>1. h'[p] = Idle
        BY <2>1, <3>2 DEF Continue, IInv, TypeOK
      <4> QED
        BY <2>1, <4>1 DEF Idle
    <3>3. CASE next.pc # "idle"
      <4> DEFINE n == [next EXCEPT !.at = now]
      <4>1. h'[p] = n
        BY <2>1, <3>3 DEF Continue, IInv, TypeOK
      <4>2. next \in Handler
        BY <2>1, <2>3, <3>3 DEF Sees, Continue
      <4>3. n.pc = next.pc
        BY <4>2 DEF Handler
      <4> HIDE DEF n
      <4> QED
        BY <2>1, <3>1, <4>1, <4>3
    <3> QED
      BY <3>2, <3>3
  <2> HIDE DEF next
  <2>5. Ends(p)
    <3> SUFFICES ASSUME NEW x \in Live, x \notin Live', errors = 0, IsSessionValid(store[x], now)
                 PROVE  Leaves(h[p])
      BY <2>4 DEF Ends
    <3>1. x = s /\ store[s] # NoSession /\ store[s] \in Session
      BY <1>2, <2>2 DEF Live, IInv, TypeOK
    <3>2. ~Ended(store[s], now)
      <4>1. store[s].exp \in Nat /\ now \in Nat /\ store[s].exp >= now
        BY <3>1 DEF IsSessionValid, Session, IInv, TypeOK
      <4> QED
        BY <3>1, <4>1 DEF Ended
    <3> QED
      BY <1>3, <3>2
  <2>6. Watches(p, next)
    BY <2>1, <2>2, <2>3, <2>5 DEF Watches
  <2> QED
    BY <2>6
<1> QED
  BY <1>4, <1>5

LEMMA InvokeWatches ==
  ASSUME IInv, Story, Watched, NEW p \in Handlers, Invoke(p)
  PROVE  \E x : Watches(p, x)
<1> DEFINE next == CASE h[p].method \in {"read", "write"} -> Idle
                     [] h[p].method = "signout" -> Destroy(h[p], "done")
                     [] h[p].method = "signoutAll" -> To(h[p], "all.members")
                     [] h[p].method = "keepAlive" -> To(h[p], "keep.get")
                     [] h[p].method = "badCsrf" -> To(h[p], "risk.get")
<1>1. h[p].pc = "invoke" /\ Local(p, next) /\ store' = store /\ errors' = errors
  BY DEF Invoke, At, Local, redis, Continue
<1>2. h[p].method \in AllMethods /\ h[p].cur \in Sid /\ h[p] \in Handler
  BY <1>1, Waiting DEF LoginLabels, Carrier
<1>3. h[p].method = "signout" => Sees(Destroy(h[p], "done"))
  BY <1>2, DestroySees DEF Returns, Leaves
<1>4. ASSUME h[p].method = "signoutAll" PROVE Sees(To(h[p], "all.members"))
  <2> DEFINE n == To(h[p], "all.members")
  <2>1. n \in Handler /\ n.pc = "all.members" /\ n.method = h[p].method
    BY <1>2 DEF To, Handler, Labels
  <2> HIDE DEF n
  <2>2. Sees(n)
    BY <1>4, <2>1 DEF Sees, Timed, Entitled, Destroying
  <2> QED
    BY <2>2 DEF n
<1>5. ASSUME h[p].method = "keepAlive" PROVE Sees(To(h[p], "keep.get"))
  <2> DEFINE n == To(h[p], "keep.get")
             v == store[h[p].cur]
  <2>1. /\ n \in Handler /\ n.pc = "keep.get" /\ n.method = h[p].method
        /\ n.new = h[p].new /\ n.cur = h[p].cur
    BY <1>2 DEF To, Handler, Labels
  <2>2. h[p].at \in Nat /\ now \in Nat /\ now <= h[p].at + 1
    BY <1>1, Prompt
  <2>3. v \in Session \cup {NoSession}
    BY <1>2 DEF IInv, TypeOK
  <2>4. errors = 0 /\ h[p].new = NoSid => Recent(v, h[p].at - 2)
    BY <1>1, <1>5 DEF Watched, Entitled
  <2> HIDE DEF v
  <2>5. errors = 0 /\ h[p].new = NoSid => Recent(v, now - 3)
    BY <2>2, <2>3, <2>4 DEF Recent, Session
  <2> HIDE DEF n
  <2>6. Sees(n)
    BY <1>1, <1>5, <2>1, <2>5 DEF v, Sees, Timed, Entitled, Destroying
  <2> QED
    BY <2>6 DEF n
<1>6. Sees(To(h[p], "risk.get"))
  BY <1>2, ToSees DEF Plain
<1>7. Sees(next)
  BY <1>2, <1>3, <1>4, <1>5, <1>6, SeesIdle DEF AllMethods
<1> HIDE DEF next
<1> QED
  BY <1>1, <1>7, LocalWatches

LEMMA SignoutAllWatches ==
  ASSUME IInv, Story, Watched, NEW p \in Handlers, AllMembers(p) \/ AllEval(p) \/ AllDel(p)
  PROVE  \E x : Watches(p, x)
<1>1. h[p].pc \in {"all.members", "all.eval", "all.del"}
  BY DEF AllMembers, AllEval, AllDel, At
<1>2. h[p] \in Handler /\ h[p].snap \in Session
  BY <1>1, HeldValue DEF HoldsSession, LoginLabels, Carrier, IInv, TypeOK
<1>3. h[p].method = "signoutAll"
  BY <1>1 DEF Watched, Timed
<1>4. ASSUME NEW label \in {"all.eval", "all.del"}, NEW ids \in SUBSET Sid
      PROVE  Sees([h[p] EXCEPT !.pc = label, !.todo = ids])
  <2> DEFINE n == [h[p] EXCEPT !.pc = label, !.todo = ids]
  <2>1. n \in Handler /\ n.pc = label /\ n.method = h[p].method
    BY <1>2 DEF Handler, Labels
  <2> HIDE DEF n
  <2>2. Sees(n)
    BY <1>3, <2>1 DEF Sees, Timed, Entitled, Destroying
  <2> QED
    BY <2>2 DEF n
<1>5. CASE AllMembers(p)
  <2> DEFINE ids == index[h[p].snap.user]
             next == [h[p] EXCEPT !.pc = "all.eval", !.todo = ids]
  <2>1. ids \in SUBSET Sid
    BY <1>2 DEF Session, IInv, TypeOK
  <2>2. Sees(next)
    BY <1>4, <2>1
  <2>3. Local(p, IF ids = {} THEN Idle ELSE next)
    BY <1>5 DEF AllMembers
  <2> HIDE DEF next, ids
  <2>4. Sees(IF ids = {} THEN Idle ELSE next)
    BY <2>2, SeesIdle
  <2> QED
    BY <2>3, <2>4, LocalWatches
<1>6. CASE AllEval(p)
  <2>1. PICK s \in h[p].todo :
          /\ DestroyKeys(s)
          /\ Continue(p, [h[p] EXCEPT !.todo = @ \ {s},
                                      !.pc = IF h[p].todo = {s} THEN "all.del" ELSE @])
    BY <1>6 DEF AllEval
  <2> DEFINE label == IF h[p].todo = {s} THEN "all.del" ELSE "all.eval"
             next == [h[p] EXCEPT !.pc = label, !.todo = h[p].todo \ {s}]
             n == [next EXCEPT !.at = now]
  <2>2. s \in Sid /\ h[p].todo \ {s} \in SUBSET Sid
    BY <1>2 DEF Handler
  <2>3. Continue(p, next)
    <3>1. [h[p] EXCEPT !.todo = @ \ {s}, !.pc = IF h[p].todo = {s} THEN "all.del" ELSE @] = next
      BY <1>2, <1>6 DEF AllEval, At, Handler
    <3> QED
      BY <2>1, <3>1
  <2>4. Steady
    BY <2>1, <2>2, <2>3, DestroyKeysSteady DEF Continue
  <2>5. Sees(next)
    <3>1. label \in {"all.eval", "all.del"}
      OBVIOUS
    <3> HIDE DEF label
    <3> QED
      BY <1>4, <2>2, <3>1
  <2>6. h'[p] # h[p]
    <3>1. next.pc # "idle" /\ n.todo = h[p].todo \ {s}
      BY <1>2 DEF Handler
    <3>2. h'[p] = n
      BY <2>3, <3>1 DEF Continue, IInv, TypeOK
    <3> HIDE DEF n
    <3> QED
      BY <2>1, <3>1, <3>2
  <2> HIDE DEF next
  <2>7. Watches(p, next)
    BY <1>3, <2>3, <2>4, <2>5, <2>6 DEF Watches, Ends, Leaves
  <2> QED
    BY <2>7
<1>7. CASE AllDel(p)
  <2>1. Watches(p, Idle)
    BY <1>7, SeesIdle, NothingWatches DEF AllDel
  <2> QED
    BY <2>1
<1> QED
  BY <1>5, <1>6, <1>7

LEMMA KeepAliveWatches ==
  ASSUME IInv, Story, Watched, LongLived, NEW p \in Handlers, KeepGet(p) \/ KeepCreate(p)
  PROVE  \E x : Watches(p, x)
<1>1. h[p] \in Handler
  BY DEF IInv, TypeOK
<1>2. CASE KeepGet(p)
  <2> DEFINE read == [h[p] EXCEPT !.snap = store[h[p].cur]]
             next == [read EXCEPT !.pc = "keep.create", !.snap = Renewed(@), !.new = Fresh]
             s == h[p].cur
  <2>1. h[p].pc = "keep.get" /\ UNCHANGED <<redis, fate, errors>> /\ store' = store
    BY <1>2 DEF KeepGet, At, Get, Continue, redis
  <2>2. s \in Sid
    BY <2>1, Waiting DEF LoginLabels
  <2>3. /\ read \in Handler /\ read.snap = store[s]
        /\ s \in Live => read.snap \in Session
    BY <2>1, <2>2, ReadKnows DEF Pending, Knows
  <2>4. Get(p, s, Idle,
            IF read.snap.exp < now
            THEN Destroy(read, "again")
            ELSE IF now - read.snap.seen > IdleTtl * Second
            THEN Destroy(read, "done")
            ELSE next)
    <3>1. read.cur = s
      BY <1>1 DEF Handler
    <3> QED
      BY <1>2, <3>1 DEF KeepGet
  <2>5. read.cur = s /\ read.method = h[p].method /\ read.new = h[p].new
    BY <1>1 DEF Handler
  <2>6. s \in Live => Sees(next)
    <3> HIDE DEF read
    <3> QED
      BY <2>3, RotationSees
  <2> HIDE DEF next, read, s
  <2>7. read.snap.exp < now => Sees(Destroy(read, "again"))
    BY <2>1, <2>3, <2>5, DestroySees DEF Ended, Returns
  <2>8. ASSUME s \in Live, now - read.snap.seen > IdleTtl * Second
        PROVE  Sees(Destroy(read, "done"))
    <3>1. h[p].method = "keepAlive"
      BY <2>1 DEF Watched, Timed
    <3>2. errors = 0 /\ h[p].new = NoSid => Recent(store[s], h[p].at - 3)
      BY <2>1, <3>1 DEF Watched, Entitled, s
    <3>3. h[p].at \in Nat /\ now \in Nat /\ now <= h[p].at + 1
      BY <2>1, Prompt
    <3>4. store[s].seen \in Nat /\ store[s] # NoSession /\ IdleTtl * Second \in Nat
      BY <2>3, <2>8, TimeIs DEF Session, Live
    <3>5. errors = 0 => h[p].new # NoSid
      BY <2>3, <2>8, <3>2, <3>3, <3>4 DEF Recent, LongLived
    <3>6. errors = 0 => Leaves(read)
      BY <2>5, <3>5 DEF Leaves
    <3> QED
      BY <2>1, <2>3, <3>6, DestroySees DEF Returns
  <2> QED
    BY <2>2, <2>4, <2>6, <2>7, <2>8, SeesIdle, GetWatches
<1>3. CASE KeepCreate(p)
  <2> DEFINE next == Destroy(h[p], "done")
  <2>1. Create(p, Idle, next) /\ h[p].pc = "keep.create"
    BY <1>3 DEF KeepCreate, At
  <2>2. Leaves(h[p])
    BY <2>1 DEF IInv, Sound, Shape, HoldsNew, Leaves
  <2>3. Sees(next)
    BY <1>1, <2>2, DestroySees DEF Returns
  <2> HIDE DEF next
  <2> QED
    BY <2>1, <2>3, SeesIdle, CreateWatches
<1> QED
  BY <1>2, <1>3
-----------------------------------------------------------------------------
(* Requests, failures and time keep the watch.                              *)

LEMMA ArrivalWatched ==
  ASSUME IInv, IInv', Story, Watched, NEW p \in Handlers, NEW r, h' = [h EXCEPT ![p] = r],
         r.at = now, UNCHANGED <<now, redis, errors>>, Timed(r, now),
         Entitled(r, now, store[r.cur], now)
  PROVE  Watched' /\ Live' = Live
<1>1. Live' = Live /\ store' = store /\ until' = until
  BY DEF Live, redis
<1>2. Steady
  <2>1. \A s \in Sid : store[s] # NoSession => store[s].seen \in Nat
    BY DEF IInv, TypeOK, Session
  <2> QED
    BY <1>1, <2>1 DEF Steady, Watched, Live
<1>3. h'[p] = r /\ \A q \in Handlers : q # p => h'[q] = h[q]
  BY DEF IInv, TypeOK
<1> QED
  BY <1>1, <1>2, <1>3, RecordWatched

LEMMA RequestWatched ==
  ASSUME IInv, IInv', Story, Watched, NEW p \in Handlers, NEW m \in Methods,
         NEW b \in Bindings, NEW s \in Cookies, Request(p, m, b, s)
  PROVE  Watched' /\ Live' = Live
<1> DEFINE r == Arrived("validate.get", m, b, s, NoSid, NoSession)
<1>1. h' = [h EXCEPT ![p] = r] /\ UNCHANGED <<now, redis, errors>>
  BY DEF Request
<1>2. r.at = now /\ r.pc = "validate.get"
  BY DEF Arrived
<1> HIDE DEF r
<1>3. Timed(r, now) /\ Entitled(r, now, store[r.cur], now)
  BY <1>2 DEF Timed, Entitled, Destroying
<1> QED
  BY <1>1, <1>2, <1>3, ArrivalWatched

LEMMA StartSessionWatched ==
  ASSUME IInv, IInv', Story, Watched, NEW p \in Handlers, NEW u \in Users,
         NEW s \in Cookies \cup {NoSid}, StartSession(p, u, s)
  PROVE  Watched' /\ Live' = Live
<1> DEFINE session == [user |-> u, seen |-> now, exp |-> now + AbsoluteTtl * Second,
                       high |-> FALSE]
           label == IF s = NoSid THEN "rotate.only" ELSE "rotate.get"
           r == Arrived(label, "login", "same", s, Fresh, session)
<1>1. h' = [h EXCEPT ![p] = r] /\ UNCHANGED <<now, redis, errors>>
  BY DEF StartSession
<1>2. /\ r.at = now /\ r.pc \in {"rotate.only", "rotate.get"} /\ r.snap.seen = now
      /\ r.method = "login"
  BY DEF Arrived
<1>3. now \in Nat
  BY DEF IInv, TypeOK
<1> HIDE DEF r
<1>4. Timed(r, now) /\ Entitled(r, now, store[r.cur], now)
  BY <1>2, <1>3 DEF Timed, Entitled, Destroying
<1> QED
  BY <1>1, <1>2, <1>4, ArrivalWatched

LEMMA RedisErrorWatched ==
  ASSUME IInv, IInv', Story, Watched, NEW p \in Handlers, RedisError(p)
  PROVE  Watched' /\ Live' = Live
<1> DEFINE r == OnError(h[p])
<1>1. p \in Busy /\ h[p].pc # "invoke" /\ h[p] \in Handler
  BY DEF RedisError, At, IInv, TypeOK
<1>2. /\ h' = [h EXCEPT ![p] = IF r.pc = "idle" THEN Idle ELSE [r EXCEPT !.at = now]]
      /\ UNCHANGED <<now, redis>> /\ errors' # 0
  BY DEF RedisError, IInv, TypeOK
<1>3. Live' = Live /\ store' = store /\ until' = until
  BY <1>2 DEF Live, redis
<1>4. Steady
  <2>1. \A s \in Sid : store[s] # NoSession => store[s].seen \in Nat
    BY DEF IInv, TypeOK, Session
  <2> QED
    BY <1>2, <1>3, <2>1 DEF Steady, Watched, Live
<1>5. Sees(Reject(h[p])) /\ Sees(CreateFailed(h[p])) /\ Sees(Return(h[p])) /\ Sees(Idle)
  BY <1>1, <1>2, RejectSees, CreateFailedSees, ReturnSees, SeesIdle
<1>6. ASSUME NEW label \in {"recheck.get", "rotate.only"},
             label = "rotate.only" => h[p].pc = "rotate.get"
      PROVE  Sees(To(h[p], label))
  <2> DEFINE n == To(h[p], label)
  <2>1. n \in Handler /\ n.pc = label /\ n.snap = h[p].snap
    BY <1>1 DEF To, Handler, Labels
  <2>2. label = "rotate.only" => n.snap.seen >= now - 1
    <3>1. h[p].at \in Nat /\ now \in Nat /\ now <= h[p].at + 1
      BY <1>1, Prompt DEF Busy
    <3>2. h[p].pc = "rotate.get" =>
             h[p].snap \in Session /\ h[p].snap.seen \in Nat /\ h[p].snap.seen >= h[p].at
      BY <1>1 DEF Watched, Timed, IInv, Sound, Shape, HoldsSession, Handler, Session
    <3> QED
      BY <1>6, <2>1, <3>1, <3>2
  <2> HIDE DEF n
  <2>3. Sees(n)
    BY <1>2, <2>1, <2>2 DEF Sees, Timed
  <2> QED
    BY <2>3 DEF n
<1>7. Sees(r)
  BY <1>5, <1>6 DEF OnError
<1>8. r.new <= MaxSid
  <2>1. r.new \in {h[p].new, NoSid}
    BY <1>1 DEF OnError, Reject, Return, CreateFailed, Destroy, To, Idle, Handler, Returns
  <2>2. h[p].new \in Sid \cup {NoSid} /\ MaxSid \in Nat
    BY <1>1, ConstantsAssumption DEF Handler
  <2> HIDE DEF r
  <2> QED
    BY <2>1, <2>2 DEF Sid, NoSid
<1> HIDE DEF r
<1>9. Watched'
  BY <1>2, <1>4, <1>7, <1>8, StepWatched
<1> QED
  BY <1>3, <1>9
-----------------------------------------------------------------------------
LEMMA HandleWatches ==
  ASSUME IInv, Story, Clean, Watched, LongLived, NEW p \in Handlers, Handle(p)
  PROVE  \E x : Watches(p, x)
<1>1. ~(AgentSetEx(p) \/ AgentExpire(p) \/ RiskGet(p) \/ RiskSetEx(p))
  BY DEF Clean, Quiet, Writers, AgentSetEx, AgentExpire, RiskGet, RiskSetEx, At
<1> QED
  BY <1>1, ValidateWatches, ExtendWatches, RotateWatches, DestroyWatches, InvokeWatches,
     SignoutAllWatches, KeepAliveWatches DEF Handle

\* What the theorem says of one step.
EndsByUser ==
    \A s \in Live :
        s \notin Live' /\ now' = now /\ errors = 0 /\ IsSessionValid(store[s], now)
        => \E p \in Handlers :
              /\ h'[p] # h[p]
              /\ \/ h[p].method \in {"login", "signout", "signoutAll"}
                 \/ h[p].new # NoSid

LEMMA NextWatched ==
  ASSUME LongLived
  PROVE  IInv /\ IInv' /\ Story /\ Clean /\ Watched /\ [Next]_vars => Watched' /\ EndsByUser
<1> SUFFICES ASSUME IInv, IInv', Story, Clean, Watched, [Next]_vars
             PROVE  Watched' /\ EndsByUser
  OBVIOUS
<1>1. ASSUME NEW p \in Handlers, Handle(p) PROVE Watched' /\ EndsByUser
  <2>1. PICK r : Watches(p, r)
    BY <1>1, HandleWatches
  <2>2. /\ h' = [h EXCEPT ![p] = IF r.pc = "idle" THEN Idle ELSE [r EXCEPT !.at = now]]
        /\ r.new <= MaxSid /\ now' = now /\ errors' = errors
        /\ Sees(r) /\ Steady
    BY <2>1 DEF Watches, Continue
  <2>3. Watched'
    BY <2>2, StepWatched
  <2>4. EndsByUser
    BY <2>1 DEF EndsByUser, Watches, Ends, Leaves
  <2> QED
    BY <2>3, <2>4
<1>2. CASE UNCHANGED vars
  BY <1>2 DEF vars, redis, Watched, Live, EndsByUser
<1>3. CASE Quiescent
  BY <1>2, <1>3 DEF Quiescent
<1>4. CASE Tick
  <2>1. now' # now
    BY <1>4 DEF Tick, IInv, TypeOK
  <2> QED
    BY <1>4, <2>1, TickWatched DEF EndsByUser
<1>5. Live' = Live => EndsByUser
  BY DEF EndsByUser
<1> QED
  BY <1>1, <1>2, <1>3, <1>4, <1>5, RequestWatched, StartSessionWatched, RedisErrorWatched DEF Next

LEMMA InitWatched == Init => Watched
<1> SUFFICES ASSUME Init PROVE Watched
  OBVIOUS
<1>1. Live = {} /\ \A p \in Handlers : h[p].pc = "idle" /\ h[p].method = "none"
  BY DEF Init, Live, Idle
<1> QED
  BY <1>1 DEF Watched, Timed, Entitled, Destroying

-----------------------------------------------------------------------------
(* Signing out: where a request to sign out can be, here or everywhere, and *)
(* that one is answered only when the session of its cookie is gone.        *)

SigningOut == {"validate.get", "extend.get", "extend.eval", "reload.get", "recheck.get",
               "agent.setex", "agent.expire", "rotate.get", "rotate.create", "rotate.only",
               "rotate.reload", "destroy.get", "destroy.eval", "invoke"}
Everywhere == {"all.members", "all.eval", "all.del"}

\* Without requests from a new address, a sign-out makes no session on its way.
Stays(r) == "ip" \notin Bindings => r.binding # "ip" /\ r.new = NoSid
OnItsWay(r) ==
    /\ r.method \in Methods \cup {"login", "none"}
    /\ r.method = "signout" => r.pc \in SigningOut /\ Stays(r)
    /\ r.pc \in Everywhere => r.method = "signoutAll"

\* A handler may go on with r: the session of a sign-out that is not on its way is gone.
Outgoing(p, r) ==
    /\ OnItsWay(r)
    /\ h[p].method = "signout" => r.method = "signout" \/ h[p].cur \notin Live'
Departs(p) == \E r : Continue(p, r) /\ Outgoing(p, r)

\* What a handler that has not rotated holds.
Passes(p, r) ==
    /\ r \in Handler /\ r.method = h[p].method /\ r.method \in Methods \cup {"login", "none"}
    /\ r.method = "signout" => Stays(r)

LEMMA IdleDeparts ==
  ASSUME NEW p, h[p].method # "signout" \/ h[p].cur \notin Live'
  PROVE  Outgoing(p, Idle)
  BY DEF Outgoing, OnItsWay, Idle, Everywhere

LEMMA ToDeparts ==
  ASSUME NEW p, NEW r, Passes(p, r), NEW label,
         h[p].method = "signout" => label \in SigningOut,
         label \in Everywhere => h[p].method = "signoutAll"
  PROVE  Outgoing(p, To(r, label))
<1> DEFINE n == To(r, label)
<1>1. n.pc = label /\ n.method = r.method /\ n.binding = r.binding /\ n.new = r.new
  BY DEF Passes, To, Handler
<1> HIDE DEF n
<1>2. Outgoing(p, n)
  BY <1>1 DEF Passes, Outgoing, OnItsWay, Stays
<1> QED
  BY <1>2 DEF n

LEMMA DestroyDeparts ==
  ASSUME NEW p, NEW r, Passes(p, r), NEW after
  PROVE  Outgoing(p, Destroy(r, after))
<1> DEFINE n == Destroy(r, after)
<1>1. /\ n.pc = "destroy.get" /\ n.method = r.method /\ n.binding = r.binding
      /\ n.new = r.new
  BY DEF Passes, Destroy, Handler
<1> HIDE DEF n
<1>2. Outgoing(p, n)
  BY <1>1 DEF Passes, Outgoing, OnItsWay, Stays, SigningOut, Everywhere
<1> QED
  BY <1>2 DEF n

LEMMA RejectDeparts ==
  ASSUME NEW p, NEW r, Passes(p, r)
  PROVE  Outgoing(p, Reject(r))
<1> DEFINE again == [r EXCEPT !.pc = "validate.get", !.retried = TRUE]
<1>1. /\ again.pc = "validate.get" /\ again.method = r.method /\ again.new = r.new
      /\ again.binding = r.binding
  BY DEF Passes, Handler
<1>2. Outgoing(p, Destroy(r, "done"))
  BY DestroyDeparts
<1>3. r.method # "signout" => Outgoing(p, Idle)
  BY IdleDeparts DEF Passes
<1>4. Reject(r) = IF r.method \notin {"signout", "signoutAll"} THEN Idle
                  ELSE IF r.retried THEN Destroy(r, "done") ELSE again
  BY DEF Reject
<1> HIDE DEF again
<1>5. Outgoing(p, again)
  BY <1>1 DEF Passes, Outgoing, OnItsWay, Stays, SigningOut, Everywhere
<1> QED
  BY <1>2, <1>3, <1>4, <1>5

LEMMA AcceptDeparts ==
  ASSUME NEW p, NEW r, Passes(p, r)
  PROVE  Outgoing(p, Accept(r))
<1> DEFINE n == Accept(r)
<1>1. n.pc = "invoke" /\ n.method = r.method /\ n.binding = "same" /\ n.new = r.new
  BY DEF Passes, Accept, Handler
<1> HIDE DEF n
<1>2. Outgoing(p, n)
  BY <1>1 DEF Passes, Outgoing, OnItsWay, Stays, SigningOut, Everywhere
<1> QED
  BY <1>2 DEF n

\* A sign-out rotates only for a new address; keepAlive is no sign-out.
LEMMA RotationDeparts ==
  ASSUME NEW p, NEW r, Passes(p, r),
         NEW label \in {"rotate.get", "keep.create"},
         (label = "rotate.get" /\ r.binding = "ip") \/ r.method # "signout"
  PROVE  Outgoing(p, [r EXCEPT !.pc = label, !.snap = Renewed(@), !.new = Fresh])
<1> DEFINE n == [r EXCEPT !.pc = label, !.snap = Renewed(@), !.new = Fresh]
<1>1. n.pc = label /\ n.method = r.method /\ n.binding = r.binding
  BY DEF Passes, Handler
<1> HIDE DEF n
<1>2. Outgoing(p, n)
  BY <1>1 DEF Passes, Outgoing, OnItsWay, Stays, SigningOut, Everywhere
<1> QED
  BY <1>2 DEF n

LEMMA JudgeDeparts ==
  ASSUME NEW p, NEW r, Passes(p, r)
  PROVE  Outgoing(p, Judge(r))
<1>1. /\ Outgoing(p, Accept(r)) /\ Outgoing(p, Destroy(r, "reject"))
      /\ Outgoing(p, To(r, "agent.setex"))
  BY AcceptDeparts, DestroyDeparts, ToDeparts DEF SigningOut, Everywhere
<1>2. r.binding = "ip"
      => Outgoing(p, [r EXCEPT !.pc = "rotate.get", !.snap = Renewed(@), !.new = Fresh])
  BY RotationDeparts
<1>3. r.binding \in AllBindings
  BY DEF Passes, Handler
<1> QED
  BY <1>1, <1>2, <1>3 DEF Judge, AllBindings

LEMMA ReturnDeparts ==
  ASSUME NEW p, NEW r, Passes(p, r),
         h[p].method = "signout" /\ r.after = "done" => h[p].cur \notin Live'
  PROVE  Outgoing(p, Return(r))
<1>1. /\ Outgoing(p, Reject(r)) /\ Outgoing(p, Destroy(r, "done"))
      /\ Outgoing(p, To(r, "rotate.reload"))
  BY RejectDeparts, DestroyDeparts, ToDeparts DEF SigningOut, Everywhere
<1>2. r.after = "done" => Outgoing(p, Idle)
  BY IdleDeparts
<1>3. r.after \in Returns
  BY DEF Passes, Handler
<1> QED
  BY <1>1, <1>2, <1>3 DEF Return, Returns

LEMMA GetDeparts ==
  ASSUME NEW p, NEW s, NEW missing, NEW found, Get(p, s, missing, found),
         s \notin Live => Outgoing(p, missing), s \in Live => Outgoing(p, found)
  PROVE  Departs(p)
<1>1. CASE s \in Live
  <2>1. Continue(p, found) /\ Outgoing(p, found)
    BY <1>1 DEF Get
  <2> QED
    BY <2>1 DEF Departs
<1>2. CASE s \notin Live
  <2>1. Continue(p, missing) /\ Outgoing(p, missing)
    BY <1>2 DEF Get
  <2> QED
    BY <2>1 DEF Departs
<1> QED
  BY <1>1, <1>2

Leaving == \A p \in Handlers : OnItsWay(h[p])

\* What a handler holds, and holds when it has read a session.
LEMMA HandlerPasses ==
  ASSUME IInv, Leaving, NEW p \in Handlers, NEW s
  PROVE  /\ Passes(p, h[p])
         /\ s \in Sid => Passes(p, [h[p] EXCEPT !.snap = store[s]])
<1> DEFINE n == [h[p] EXCEPT !.snap = store[s]]
<1>1. /\ h[p] \in Handler /\ h[p].method \in Methods \cup {"login", "none"}
      /\ h[p].method = "signout" => Stays(h[p])
  BY DEF IInv, TypeOK, Leaving, OnItsWay
<1>2. ASSUME s \in Sid PROVE Passes(p, n)
  <2>1. store[s] \in Session \cup {NoSession}
    BY <1>2 DEF IInv, TypeOK
  <2>2. /\ n \in Handler /\ n.method = h[p].method /\ n.binding = h[p].binding
        /\ n.new = h[p].new
    BY <1>1, <2>1 DEF Handler
  <2> HIDE DEF n
  <2> QED
    BY <1>1, <2>2 DEF Passes, Stays
<1> QED
  BY <1>1, <1>2 DEF Passes

LEMMA ValidateDeparts ==
  ASSUME IInv, Leaving, NEW p \in Handlers,
         \/ ValidateGet(p) \/ ExtendGet(p) \/ ExtendEval(p) \/ ReloadGet(p) \/ RecheckGet(p)
         \/ AgentSetEx(p) \/ AgentExpire(p)
  PROVE  Departs(p)
<1> DEFINE read == [h[p] EXCEPT !.snap = store[h[p].cur]]
<1>1. h[p].pc \in {"validate.get", "extend.get", "extend.eval", "reload.get", "recheck.get",
                   "agent.setex", "agent.expire"}
  BY DEF ValidateGet, ExtendGet, ExtendEval, ReloadGet, RecheckGet, AgentSetEx, AgentExpire, At
<1>2. h[p].cur \in Sid
  BY <1>1 DEF IInv, TypeOK, Handler
<1>3. Passes(p, h[p]) /\ Passes(p, read)
  BY <1>2, HandlerPasses
<1>4. /\ Outgoing(p, Reject(h[p])) /\ Outgoing(p, To(h[p], "recheck.get"))
      /\ Outgoing(p, To(h[p], "extend.eval")) /\ Outgoing(p, To(h[p], "reload.get"))
      /\ Outgoing(p, To(h[p], "agent.expire")) /\ Outgoing(p, Accept(h[p]))
  BY <1>3, RejectDeparts, ToDeparts, AcceptDeparts DEF SigningOut, Everywhere
<1>5. /\ Outgoing(p, To(read, "extend.get")) /\ Outgoing(p, Judge(read))
      /\ Outgoing(p, Destroy(read, "reject"))
  BY <1>3, ToDeparts, JudgeDeparts, DestroyDeparts DEF SigningOut, Everywhere
<1> HIDE DEF read
<1>6. CASE ValidateGet(p)
  <2>1. Get(p, h[p].cur, Reject(h[p]),
            IF ShouldExtend(read.method) THEN To(read, "extend.get") ELSE Judge(read))
    BY <1>6 DEF ValidateGet, read
  <2> QED
    BY <1>4, <1>5, <2>1, GetDeparts
<1>7. CASE ExtendGet(p)
  BY <1>4, <1>7, GetDeparts DEF ExtendGet
<1>8. CASE ExtendEval(p)
  BY <1>4, <1>8 DEF ExtendEval, Local, Departs
<1>9. CASE ReloadGet(p)
  <2>1. Get(p, h[p].cur, Reject(h[p]), Judge(read))
    BY <1>9 DEF ReloadGet, read
  <2> QED
    BY <1>4, <1>5, <2>1, GetDeparts
<1>10. CASE RecheckGet(p)
  <2>1. Get(p, h[p].cur, Reject(h[p]),
            IF IsSessionValid(read.snap, now) THEN Judge(read) ELSE Destroy(read, "reject"))
    BY <1>10 DEF RecheckGet, read
  <2> QED
    BY <1>4, <1>5, <2>1, GetDeparts
<1>11. CASE AgentSetEx(p)
  <2>1. Continue(p, To(h[p], "agent.expire"))
    BY <1>11 DEF AgentSetEx, To
  <2> QED
    BY <1>4, <2>1 DEF Departs
<1>12. CASE AgentExpire(p)
  BY <1>4, <1>12 DEF AgentExpire, Departs
<1> QED
  BY <1>6, <1>7, <1>8, <1>9, <1>10, <1>11, <1>12

LEMMA RotateDeparts ==
  ASSUME IInv, Leaving, NEW p \in Handlers,
         RotateGet(p) \/ RotateCreate(p) \/ RotateOnly(p) \/ RotateReload(p)
  PROVE  Departs(p)
<1> DEFINE reload == [h[p] EXCEPT !.pc = "rotate.reload", !.snap = NoSession]
           back == [h[p] EXCEPT !.snap = store[h[p].new]]
           login == h[p].method = "login"
<1>1. h[p] \in Handler /\ Passes(p, h[p])
  BY HandlerPasses DEF IInv, TypeOK
<1>2. /\ Outgoing(p, To(h[p], "rotate.only")) /\ Outgoing(p, To(h[p], "rotate.create"))
      /\ Outgoing(p, Reject(h[p]))
      /\ Outgoing(p, Destroy(h[p], IF login THEN "done" ELSE "reload"))
  BY <1>1, ToDeparts, RejectDeparts, DestroyDeparts DEF SigningOut, Everywhere
<1>3. login => Outgoing(p, Idle)
  BY IdleDeparts
<1>4. Outgoing(p, CreateFailed(h[p]))
  BY <1>2, <1>3 DEF CreateFailed
<1>5. Outgoing(p, reload)
  <2>1. /\ reload.pc = "rotate.reload" /\ reload.method = h[p].method
        /\ reload.binding = h[p].binding /\ reload.new = h[p].new
    BY <1>1 DEF Handler
  <2> HIDE DEF reload
  <2> QED
    BY <1>1, <2>1 DEF Passes, Outgoing, OnItsWay, Stays, SigningOut, Everywhere
<1>6. ASSUME NEW failed, NEW created, Create(p, failed, created),
             Outgoing(p, failed), Outgoing(p, created)
      PROVE  Departs(p)
  BY <1>6 DEF Create, Local, Departs
<1> HIDE DEF reload, login
<1>7. CASE RotateGet(p)
  BY <1>2, <1>7, GetDeparts DEF RotateGet
<1>8. CASE RotateCreate(p)
  <2>1. Create(p, CreateFailed(h[p]), Destroy(h[p], IF login THEN "done" ELSE "reload"))
    BY <1>8 DEF RotateCreate, login
  <2> QED
    BY <1>2, <1>4, <1>6, <2>1
<1>9. CASE RotateOnly(p)
  <2>1. Create(p, CreateFailed(h[p]), IF login THEN Idle ELSE reload)
    BY <1>9 DEF RotateOnly, login, reload
  <2> QED
    BY <1>3, <1>4, <1>5, <1>6, <2>1
<1>10. CASE RotateReload(p)
  <2>1. h[p].new \in Sid
    <3>1. h[p].pc = "rotate.reload"
      BY <1>10 DEF RotateReload, At
    <3> QED
      BY <1>1, <3>1 DEF IInv, TypeOK, HoldsNew, Handler
  <2>2. Outgoing(p, Accept(back))
    BY <2>1, HandlerPasses, AcceptDeparts
  <2> HIDE DEF back
  <2>3. Get(p, h[p].new, Reject(h[p]), Accept(back))
    BY <1>10 DEF RotateReload, back
  <2> QED
    BY <1>2, <2>2, <2>3, GetDeparts
<1> QED
  BY <1>7, <1>8, <1>9, <1>10

\* The only way out: the session of the cookie is not there, or is destroyed.
LEMMA DestroyStepDeparts ==
  ASSUME IInv, Leaving, NEW p \in Handlers, DestroyGet(p) \/ DestroyEval(p)
  PROVE  Departs(p)
<1>1. Passes(p, h[p])
  BY HandlerPasses
<1>2. CASE DestroyGet(p)
  <2>1. Get(p, h[p].cur, Return(h[p]), To(h[p], "destroy.eval"))
    BY <1>2 DEF DestroyGet
  <2>2. Live' = Live
    BY <2>1 DEF Get, redis, Live
  <2>3. h[p].cur \notin Live => Outgoing(p, Return(h[p]))
    BY <1>1, <2>2, ReturnDeparts
  <2>4. Outgoing(p, To(h[p], "destroy.eval"))
    BY <1>1, ToDeparts DEF SigningOut, Everywhere
  <2> QED
    BY <2>1, <2>3, <2>4, GetDeparts
<1>3. CASE DestroyEval(p)
  <2>1. DestroyKeys(h[p].cur) /\ Continue(p, Return(h[p]))
    BY <1>3 DEF DestroyEval
  <2>2. h[p].cur \notin Live'
    <3>1. CASE h[p].cur \in Live
      BY <2>1, <3>1 DEF DestroyKeys, Live, IInv, TypeOK
    <3>2. CASE h[p].cur \notin Live
      BY <2>1, <3>2 DEF DestroyKeys, Live, redis
    <3> QED
      BY <3>1, <3>2
  <2> QED
    BY <1>1, <2>1, <2>2, ReturnDeparts DEF Departs
<1> QED
  BY <1>2, <1>3

LEMMA InvokeDeparts ==
  ASSUME IInv, Leaving, NEW p \in Handlers, Invoke(p)
  PROVE  Departs(p)
<1>1. Passes(p, h[p])
  BY HandlerPasses
<1> DEFINE r == CASE h[p].method \in {"read", "write"} -> Idle
                  [] h[p].method = "signout" -> Destroy(h[p], "done")
                  [] h[p].method = "signoutAll" -> To(h[p], "all.members")
                  [] h[p].method = "keepAlive" -> To(h[p], "keep.get")
                  [] h[p].method = "badCsrf" -> To(h[p], "risk.get")
<1>2. Continue(p, r) /\ h[p].pc = "invoke"
  BY DEF Invoke, Local, At
<1>3. h[p].method \in {"read", "write", "signout", "signoutAll", "keepAlive", "badCsrf"}
  <2>1. h[p].method \notin {"none", "login"}
    BY <1>2 DEF IInv, Sound, Shape, LoginLabels
  <2> QED
    BY <1>1, <2>1 DEF Passes, Handler, AllMethods
<1>4. h[p].method # "signout" =>
        /\ Outgoing(p, Idle)
        /\ Outgoing(p, To(h[p], "keep.get")) /\ Outgoing(p, To(h[p], "risk.get"))
        /\ h[p].method = "signoutAll" => Outgoing(p, To(h[p], "all.members"))
  BY <1>1, IdleDeparts, ToDeparts DEF Everywhere
<1>5. Outgoing(p, Destroy(h[p], "done"))
  BY <1>1, DestroyDeparts
<1>6. Outgoing(p, r)
  BY <1>3, <1>4, <1>5
<1> QED
  BY <1>2, <1>6 DEF Departs

\* The other methods are not those of a sign-out.
LEMMA OthersDepart ==
  ASSUME IInv, Leaving, NEW p \in Handlers,
         \/ AllMembers(p) \/ AllEval(p) \/ AllDel(p)
         \/ KeepGet(p) \/ KeepCreate(p) \/ RiskGet(p) \/ RiskSetEx(p)
  PROVE  Departs(p)
<1>1. h[p].pc \notin SigningOut
  BY DEF AllMembers, AllEval, AllDel, KeepGet, KeepCreate, RiskGet, RiskSetEx, At, SigningOut
<1>2. /\ h[p] \in Handler /\ h[p].method # "signout" /\ h[p].method \in Methods \cup {"login", "none"}
      /\ h[p].pc \in Everywhere => h[p].method = "signoutAll"
  BY <1>1 DEF IInv, TypeOK, Leaving, OnItsWay
<1>3. ASSUME NEW r, r.method = h[p].method, r.pc \in Everywhere => h[p].pc \in Everywhere
      PROVE  Outgoing(p, r)
  BY <1>2, <1>3 DEF Outgoing, OnItsWay
<1>4. Outgoing(p, Idle)
  BY <1>2, IdleDeparts
<1>5. CASE AllMembers(p)
  <2> DEFINE ids == index[h[p].snap.user]
             n == [h[p] EXCEPT !.pc = "all.eval", !.todo = ids]
  <2>1. n.method = h[p].method /\ h[p].pc \in Everywhere
    BY <1>2, <1>5 DEF Handler, AllMembers, At, Everywhere
  <2>2. Continue(p, IF ids = {} THEN Idle ELSE n)
    BY <1>5 DEF AllMembers, Local
  <2> HIDE DEF n, ids
  <2> QED
    BY <1>2, <1>3, <1>4, <2>1, <2>2 DEF Departs
<1>6. CASE AllEval(p)
  <2>1. PICK s \in h[p].todo :
          Continue(p, [h[p] EXCEPT !.todo = @ \ {s},
                                   !.pc = IF h[p].todo = {s} THEN "all.del" ELSE @])
    BY <1>6 DEF AllEval
  <2> DEFINE n == [h[p] EXCEPT !.todo = @ \ {s},
                               !.pc = IF h[p].todo = {s} THEN "all.del" ELSE @]
  <2>2. n.method = h[p].method /\ h[p].pc \in Everywhere
    BY <1>2, <1>6 DEF Handler, AllEval, At, Everywhere
  <2>3. Continue(p, n)
    BY <2>1
  <2> HIDE DEF n
  <2> QED
    BY <1>2, <1>3, <2>2, <2>3 DEF Departs
<1>7. CASE AllDel(p)
  BY <1>4, <1>7 DEF AllDel, Departs
<1>8. CASE KeepGet(p)
  <2> DEFINE read == [h[p] EXCEPT !.snap = store[h[p].cur]]
             n == [read EXCEPT !.pc = "keep.create", !.snap = Renewed(@), !.new = Fresh]
             past == read.snap.exp < now
             unused == now - read.snap.seen > IdleTtl * Second
  <2>1. h[p].pc = "keep.get" /\ h[p].cur \in Sid
    BY <1>8 DEF KeepGet, At, IInv, TypeOK, Handler
  <2>2. Passes(p, read)
    BY <2>1, HandlerPasses
  <2>3. read.cur = h[p].cur /\ read.method # "signout"
    BY <1>2, <2>2 DEF Passes, Handler
  <2>4. Get(p, read.cur, Idle, IF past THEN Destroy(read, "again")
                               ELSE IF unused THEN Destroy(read, "done") ELSE n)
    BY <1>8 DEF KeepGet
  <2> HIDE DEF read, past, unused
  <2>5. Outgoing(p, n)
    BY <2>2, <2>3, RotationDeparts
  <2>6. Outgoing(p, Destroy(read, "again")) /\ Outgoing(p, Destroy(read, "done"))
    BY <2>2, DestroyDeparts
  <2> HIDE DEF n
  <2> QED
    BY <1>4, <2>4, <2>5, <2>6, GetDeparts
<1>9. CASE KeepCreate(p)
  <2>1. Outgoing(p, Destroy(h[p], "done"))
    BY HandlerPasses, DestroyDeparts
  <2> QED
    BY <1>4, <1>9, <2>1 DEF KeepCreate, Create, Local, Departs
<1>10. CASE RiskGet(p)
  <2> DEFINE read == [h[p] EXCEPT !.snap = store[h[p].cur]]
             n == [read EXCEPT !.pc = "risk.setex", !.snap.high = TRUE]
             high == read.snap.high
  <2>1. n.method = h[p].method /\ n.pc \notin Everywhere
    BY <1>2 DEF Handler, Everywhere
  <2>2. Get(p, read.cur, Idle, IF high THEN Idle ELSE n)
    BY <1>10 DEF RiskGet
  <2> HIDE DEF n, read, high
  <2> QED
    BY <1>2, <1>3, <1>4, <2>1, <2>2, GetDeparts
<1>11. CASE RiskSetEx(p)
  BY <1>4, <1>11 DEF RiskSetEx, Local, Departs
<1> QED
  BY <1>5, <1>6, <1>7, <1>8, <1>9, <1>10, <1>11

\* A command that fails leaves a sign-out on its way, or ends it.
LEMMA ErrorLeaves ==
  ASSUME IInv, Leaving, NEW p \in Handlers, RedisError(p)
  PROVE  Leaving'
<1> DEFINE r == OnError(h[p])
<1>1. h[p] \in Handler /\ Passes(p, h[p])
  BY HandlerPasses DEF IInv, TypeOK
<1>2. OnItsWay(Idle)
  BY DEF OnItsWay, Idle, Everywhere
<1>3. /\ OnItsWay(Reject(h[p])) /\ OnItsWay(To(h[p], "recheck.get"))
      /\ OnItsWay(To(h[p], "rotate.only"))
  BY <1>1, RejectDeparts, ToDeparts DEF Outgoing, SigningOut, Everywhere
<1>4. OnItsWay(CreateFailed(h[p]))
  BY <1>2, <1>3 DEF CreateFailed
<1>5. OnItsWay(Return(h[p]))
  <2>1. CASE h[p].after = "done"
    BY <1>2, <2>1 DEF Return
  <2>2. CASE h[p].after # "done"
    BY <1>1, <2>2, ReturnDeparts DEF Outgoing
  <2> QED
    BY <2>1, <2>2
<1>6. OnItsWay(r)
  BY <1>2, <1>3, <1>4, <1>5 DEF OnError
<1>7. /\ h' = [h EXCEPT ![p] = IF r.pc = "idle" THEN Idle ELSE [r EXCEPT !.at = now]]
      /\ IInv => DOMAIN h = Handlers
  BY DEF RedisError, IInv, TypeOK
<1> HIDE DEF r
<1>8. OnItsWay([r EXCEPT !.at = now])
  BY <1>6 DEF OnItsWay, Stays
<1>9. OnItsWay(h'[p]) /\ \A q \in Handlers : q # p => h'[q] = h[q]
  BY <1>2, <1>7, <1>8
<1> QED
  BY <1>9 DEF Leaving

\* What the theorem says of one step.
SignoutEnds ==
    \A p \in Handlers :
        h[p].method = "signout" /\ h'[p].pc = "idle" /\ errors' = errors
        => h[p].cur \notin Live'

LEMMA DepartsLeaves ==
  ASSUME IInv, Leaving, NEW p \in Handlers, Departs(p)
  PROVE  Leaving' /\ SignoutEnds
<1>1. PICK r : Continue(p, r) /\ Outgoing(p, r)
  BY DEF Departs
<1> DEFINE n == IF r.pc = "idle" THEN Idle ELSE [r EXCEPT !.at = now]
<1>2. h'[p] = n /\ \A q \in Handlers : q # p => h'[q] = h[q]
  BY <1>1 DEF Continue, IInv, TypeOK
<1>3. OnItsWay(Idle) /\ OnItsWay([r EXCEPT !.at = now])
  BY <1>1 DEF Outgoing, OnItsWay, Stays, Idle, Everywhere
<1>4. Leaving'
  BY <1>2, <1>3 DEF Leaving
<1>5. h[p].method = "signout" /\ n.pc = "idle" => h[p].cur \notin Live'
  BY <1>1 DEF Outgoing, OnItsWay, SigningOut
<1> HIDE DEF n
<1>6. SignoutEnds
  BY <1>2, <1>5 DEF SignoutEnds, Leaving, OnItsWay, SigningOut
<1> QED
  BY <1>4, <1>6

LEMMA NextLeaves == IInv /\ Leaving /\ [Next]_vars => Leaving' /\ SignoutEnds
<1> SUFFICES ASSUME IInv, Leaving, [Next]_vars PROVE Leaving' /\ SignoutEnds
  OBVIOUS
<1>1. ASSUME NEW p \in Handlers, Handle(p) PROVE Leaving' /\ SignoutEnds
  <2>1. Departs(p)
    BY <1>1, ValidateDeparts, RotateDeparts, DestroyStepDeparts, InvokeDeparts, OthersDepart
       DEF Handle
  <2> QED
    BY <2>1, DepartsLeaves
<1>2. ASSUME NEW p \in Handlers, NEW r, At(p, "idle"), h' = [h EXCEPT ![p] = r], OnItsWay(r)
      PROVE  Leaving' /\ SignoutEnds
  <2>1. h'[p] = r /\ \A q \in Handlers : q # p => h'[q] = h[q]
    BY <1>2 DEF IInv, TypeOK
  <2> QED
    BY <1>2, <2>1 DEF At, Leaving, SignoutEnds, OnItsWay, SigningOut
<1>3. ASSUME NEW p \in Handlers, NEW m \in Methods, NEW b \in Bindings, NEW s \in Cookies,
             Request(p, m, b, s)
      PROVE  Leaving' /\ SignoutEnds
  <2> DEFINE r == Arrived("validate.get", m, b, s, NoSid, NoSession)
  <2>1. At(p, "idle") /\ h' = [h EXCEPT ![p] = r]
    BY <1>3 DEF Request
  <2>2. OnItsWay(r)
    BY DEF Arrived, OnItsWay, Stays, SigningOut, Everywhere
  <2> HIDE DEF r
  <2> QED
    BY <1>2, <2>1, <2>2
<1>4. ASSUME NEW p \in Handlers, NEW u \in Users, NEW s \in Cookies \cup {NoSid},
             StartSession(p, u, s)
      PROVE  Leaving' /\ SignoutEnds
  <2> DEFINE session == [user |-> u, seen |-> now, exp |-> now + AbsoluteTtl * Second,
                         high |-> FALSE]
             r == Arrived(IF s = NoSid THEN "rotate.only" ELSE "rotate.get",
                          "login", "same", s, Fresh, session)
  <2>1. At(p, "idle") /\ h' = [h EXCEPT ![p] = r]
    BY <1>4 DEF StartSession
  <2> HIDE DEF session
  <2>2. OnItsWay(r)
    BY DEF Arrived, OnItsWay, Everywhere
  <2> HIDE DEF r
  <2> QED
    BY <1>2, <2>1, <2>2
<1>5. ASSUME NEW p \in Handlers, RedisError(p) PROVE Leaving' /\ SignoutEnds
  <2>1. errors' # errors
    BY <1>5 DEF RedisError, IInv, TypeOK
  <2> QED
    BY <1>5, <2>1, ErrorLeaves DEF SignoutEnds
<1>6. h' = h => Leaving' /\ SignoutEnds
  BY DEF Leaving, SignoutEnds, OnItsWay, SigningOut
<1>7. CASE Tick \/ Quiescent \/ UNCHANGED vars
  BY <1>6, <1>7 DEF Tick, Quiescent, vars
<1> QED
  BY <1>1, <1>3, <1>4, <1>5, <1>7 DEF Next

LEMMA InitLeaves == Init => Leaving
  BY DEF Init, Leaving, OnItsWay, Idle, Everywhere
-----------------------------------------------------------------------------
(* The index of a user's sessions: created, extended and destroyed together *)
(* with them, it outlives each of them as long as none is near its end.     *)

\* Some sign-in is so old that the idle window reaches past its absolute end.
NearEnd == \E s \in 1..issued : now > born[s] + (AbsoluteTtl - IdleTtl) * Second

\* The index names every session there is and stays at least as long.
Covered ==
    \A s \in Live : /\ s \in index[store[s].user]
                    /\ until[s] <= indexUntil[store[s].user]

InWindow == \A u \in Users : indexUntil[u] <= now + IdleTtl * Second
Indexed == InWindow /\ (NearEnd \/ Covered)

\* What a command does to the index.
IndexStep ==
    /\ now' = now
    /\ InWindow'
    /\ ~NearEnd /\ Covered => Covered'

LEMMA WholeSeconds ==
  ASSUME NEW d \in Int, IdleTtl * Second < d * Second + Second
  PROVE  IdleTtl <= d
<1>1. Second \in Nat \ {0} /\ IdleTtl \in Nat
  BY TimeTypes
<1>2. (d + 1) * Second = d * Second + Second /\ (d + 1) * Second \in Int
  BY <1>1, TimesDistributes
<1>3. IdleTtl * Second \in Int
  BY <1>1, TimesDistributes
<1>4. d + 1 <= IdleTtl => (d + 1) * Second <= IdleTtl * Second
  BY <1>1, TimesMonotone
<1> QED
  BY <1>1, <1>2, <1>3, <1>4

\* A session that does not end within the idle window gets the whole of it.
LEMMA Uncut ==
  ASSUME NEW session \in Session, NEW t \in Nat, t + IdleTtl * Second <= session.exp
  PROVE  SessionTtl(session, t) = IdleTtl /\ LuaTtl(session, t) = IdleTtl
<1> DEFINE end == session.exp
           left == end - t
           d == left \div Second
           e == end \div Second
           f == t \div Second
<1>1. /\ end \in Nat /\ left \in Int /\ left = end - t /\ t + IdleTtl * Second <= end
      /\ Second \in Nat \ {0} /\ IdleTtl \in Nat /\ 1 <= IdleTtl /\ IdleTtl * Second \in Nat
  BY TimeTypes, ConstantsAssumption, Products DEF Session
<1>2. /\ SessionTtl(session, t) = Larger(1, Smaller(IdleTtl, d))
      /\ LuaTtl(session, t) = Larger(1, Smaller(IdleTtl, e - f))
  BY DEF SessionTtl, LuaTtl, SecondsLeft, ExpSec
<1> HIDE DEF end, left
<1>3. d \in Int /\ d * Second \in Int /\ left < d * Second + Second
  BY <1>1, DivBounds
<1>4. e \in Int /\ e * Second \in Int /\ end < e * Second + Second
  BY <1>1, DivBounds
<1>5. f \in Int /\ f * Second \in Int /\ f * Second <= t
  BY <1>1, DivBounds
<1> HIDE DEF d, e, f
<1>6. IdleTtl <= d
  BY <1>1, <1>3, WholeSeconds
<1>7. IdleTtl <= e - f
  <2>1. (e - f) * Second = e * Second - f * Second
    BY <1>1, <1>4, <1>5, TimesDistributes
  <2>2. IdleTtl * Second < (e - f) * Second + Second
    BY <1>1, <1>4, <1>5, <2>1
  <2> QED
    BY <1>4, <1>5, <2>2, WholeSeconds
<1> QED
  BY <1>1, <1>2, <1>3, <1>4, <1>5, <1>6, <1>7 DEF Larger, Smaller

\* So does every session, unless one of them is near its end.
LEMMA FullWindow ==
  ASSUME IInv, ~NearEnd, NEW s \in Sid, s <= issued, NEW session \in Session,
         session.exp = born[s] + AbsoluteTtl * Second, NEW t \in Nat, t <= now
  PROVE  SessionTtl(session, t) = IdleTtl /\ LuaTtl(session, t) = IdleTtl
<1>1. born[s] \in Nat /\ now \in Nat /\ issued \in Nat
  BY DEF IInv, TypeOK
<1>2. Second \in Nat /\ AbsoluteTtl \in Nat /\ IdleTtl \in Nat
  BY TimeTypes, ConstantsAssumption
<1>3. /\ (AbsoluteTtl - IdleTtl) * Second = AbsoluteTtl * Second - IdleTtl * Second
      /\ AbsoluteTtl * Second \in Int /\ IdleTtl * Second \in Int
  BY <1>2, TimesDistributes
<1>4. now <= born[s] + (AbsoluteTtl - IdleTtl) * Second
  BY <1>1, <1>3 DEF NearEnd, Sid
<1>5. t + IdleTtl * Second <= session.exp
  BY <1>1, <1>3, <1>4
<1> QED
  BY <1>5, Uncut

\* A time to live within the idle window.
LEMMA TtlInWindow ==
  ASSUME NEW ttl \in 1..IdleTtl
  PROVE  ttl * Second <= IdleTtl * Second /\ ttl * Second \in Nat /\ IdleTtl * Second \in Nat
  BY TimeTypes, TimesMonotone, Products

LEMMA NothingIndexed ==
  ASSUME Indexed, UNCHANGED redis, now' = now
  PROVE  IndexStep
  BY DEF Indexed, InWindow, IndexStep, Covered, Live, redis

\* createSession and LUA_UPDATE_LAST_SEEN: the key and the index get the same end.
LEMMA WriteIndexed ==
  ASSUME IInv, Indexed, now' = now, NEW s \in Sid, NEW session \in Session,
         NEW ttl \in 1..IdleTtl, SetEx(s, session, ttl), ExpireIndex(session.user, ttl),
         index' = index \/ index' = [index EXCEPT ![session.user] = @ \cup {s}],
         index' = index /\ Covered => s \in index[session.user],
         ~NearEnd => ttl = IdleTtl
  PROVE  IndexStep
<1> DEFINE u == session.user
           end == now + ttl * Second
<1>1. u \in Users /\ now \in Nat /\ end \in Nat /\ end <= now + IdleTtl * Second
  BY TtlInWindow DEF Session, IInv, TypeOK
<1>2. \A x \in Sid : /\ store'[x] = IF x = s THEN session ELSE store[x]
                     /\ until'[x] = IF x = s THEN end ELSE until[x]
  BY DEF SetEx, IInv, TypeOK
<1>3. /\ indexUntil'[u] = IF index'[u] = {} THEN 0 ELSE end
      /\ \A v \in Users : v # u => indexUntil'[v] = indexUntil[v]
  BY <1>1 DEF ExpireIndex, IInv, TypeOK
<1>4. \A v \in Users : index[v] \subseteq index'[v]
  BY <1>1 DEF IInv, TypeOK
<1>5. Covered => s \in index'[u]
  BY <1>1 DEF IInv, TypeOK
<1>6. \A v \in Users : indexUntil[v] \in Nat
  BY DEF IInv, TypeOK
<1>7. \A x \in Sid : store[x] # NoSession => store[x].user \in Users
  BY DEF IInv, TypeOK, Session
<1>8. InWindow'
  <2>1. \A v \in Users : indexUntil[v] <= now + IdleTtl * Second
    BY DEF Indexed, InWindow
  <2> HIDE DEF u, end
  <2>2. now + IdleTtl * Second \in Nat
    BY TimeIs
  <2>3. \A v \in Users : indexUntil'[v] <= now + IdleTtl * Second
    BY <1>1, <1>3, <2>1, <2>2
  <2> QED
    BY <2>3 DEF InWindow
<1>9. ASSUME ~NearEnd, Covered PROVE Covered'
  <2>1. ttl = IdleTtl /\ s \in index'[u]
    BY <1>5, <1>9
  <2>2. indexUntil'[u] = end /\ indexUntil[u] <= end
    BY <1>1, <1>3, <2>1 DEF Indexed, InWindow
  <2> SUFFICES ASSUME NEW x \in Sid, store'[x] # NoSession
               PROVE  /\ x \in index'[store'[x].user]
                      /\ until'[x] <= indexUntil'[store'[x].user]
    BY DEF Covered, Live
  <2> HIDE DEF u, end
  <2>3. CASE x = s
    <3>1. store'[x].user = u /\ until'[x] = end
      BY <1>2, <2>3 DEF u
    <3> QED
      BY <1>1, <2>1, <2>2, <2>3, <3>1
  <2>4. CASE x # s
    <3>1. store'[x] = store[x] /\ until'[x] = until[x] /\ store[x] # NoSession
      BY <1>2, <2>4
    <3>2. x \in index[store[x].user] /\ until[x] <= indexUntil[store[x].user]
      BY <1>9, <3>1 DEF Covered, Live
    <3>3. store[x].user \in Users /\ until[x] \in Nat
      BY <1>7, <3>1 DEF IInv, TypeOK
    <3>4. indexUntil[store[x].user] <= indexUntil'[store[x].user]
      BY <1>1, <1>3, <1>6, <2>2, <3>3
    <3>5. indexUntil'[store[x].user] \in Nat
      BY <1>1, <1>3, <1>6, <2>2, <3>3
    <3> QED
      BY <1>4, <1>6, <3>1, <3>2, <3>3, <3>4, <3>5
  <2> QED
    BY <2>3, <2>4
<1> QED
  BY <1>8, <1>9 DEF IndexStep

LEMMA DestroyIndexed ==
  ASSUME IInv, Indexed, now' = now, NEW s \in Sid, DestroyKeys(s)
  PROVE  IndexStep
<1>1. CASE s \notin Live
  BY <1>1, NothingIndexed DEF DestroyKeys
<1>2. CASE s \in Live
  <2> DEFINE u == store[s].user
  <2>1. u \in Users /\ now \in Nat /\ IdleTtl * Second \in Nat
    BY <1>2, TimeIs DEF Live, IInv, TypeOK, Session
  <2>2. /\ \A x \in Sid : /\ store'[x] = IF x = s THEN NoSession ELSE store[x]
                          /\ x # s => until'[x] = until[x]
        /\ \A v \in Users : index'[v] = IF v = u THEN index[v] \ {s} ELSE index[v]
    BY <1>2, <2>1 DEF DestroyKeys, IInv, TypeOK
  <2>3. \A v \in Users : indexUntil'[v] = IF index'[v] = {} THEN 0 ELSE indexUntil[v]
    BY <1>2 DEF DestroyKeys
  <2> HIDE DEF u
  <2>4. InWindow'
    <3>1. \A v \in Users : indexUntil[v] <= now + IdleTtl * Second
      BY DEF Indexed, InWindow
    <3>2. \A v \in Users : indexUntil'[v] <= now + IdleTtl * Second
      BY <2>1, <2>3, <3>1
    <3> QED
      BY <3>2 DEF InWindow
  <2>5. ASSUME Covered PROVE Covered'
    <3> SUFFICES ASSUME NEW x \in Sid, store'[x] # NoSession
                 PROVE  /\ x \in index'[store'[x].user]
                        /\ until'[x] <= indexUntil'[store'[x].user]
      BY DEF Covered, Live
    <3>1. x # s /\ store'[x] = store[x] /\ until'[x] = until[x] /\ store[x] # NoSession
      BY <2>2
    <3>2. x \in index[store[x].user] /\ until[x] <= indexUntil[store[x].user]
      BY <2>5, <3>1 DEF Covered, Live
    <3>3. store[x].user \in Users
      BY <3>1 DEF IInv, TypeOK, Session
    <3>4. x \in index'[store[x].user]
      BY <2>2, <3>1, <3>2, <3>3
    <3>5. indexUntil'[store[x].user] = indexUntil[store[x].user]
      BY <2>3, <3>3, <3>4
    <3> QED
      BY <3>1, <3>2, <3>4, <3>5
  <2> QED
    BY <2>4, <2>5 DEF IndexStep
<1> QED
  BY <1>1, <1>2

LEMMA CreateIndexed ==
  ASSUME IInv, Story, Indexed, NEW p \in Handlers,
         h[p].pc \in {"rotate.create", "rotate.only", "keep.create"},
         NEW failed, NEW created, Create(p, failed, created)
  PROVE  IndexStep
<1> DEFINE s == h[p].new
           session == h[p].snap
           t == h[p].at
<1>1. Sound(h[p], issued, born) /\ h[p] \in Handler
  BY DEF IInv, Sound, Shape
<1>2. s \in Sid /\ s <= issued /\ session \in Session
      /\ session.exp = born[s] + AbsoluteTtl * Second
  BY <1>1 DEF Sound, Shape, HoldsSession, HoldsNew, Handler, NoSid, Origin
<1>3. t \in Nat /\ now \in Nat /\ t <= now
  BY Prompt DEF Story, Follows
<1>4. now' = now
  BY DEF Create, Local, Continue
<1>5. CASE Expired(session, t)
  BY <1>4, <1>5, NothingIndexed DEF Create, Local
<1>6. CASE ~Expired(session, t)
  <2> DEFINE ttl == SessionTtl(session, t)
  <2>1. /\ SetEx(s, session, ttl) /\ ExpireIndex(session.user, ttl)
        /\ index' = [index EXCEPT ![session.user] = @ \cup {s}]
    BY <1>6 DEF Create, CreateKeys
  <2>2. ttl \in 1..IdleTtl
    BY <1>2, <1>3, IdleCut
  <2>3. ~NearEnd => ttl = IdleTtl
    BY <1>2, <1>3, FullWindow
  <2> HIDE DEF ttl, s, session, t
  <2>4. index' = index => s \in index[session.user]
    <3>1. session.user \in Users
      BY <1>2 DEF Session
    <3>2. s \in index'[session.user]
      BY <2>1, <3>1 DEF IInv, TypeOK
    <3> QED
      BY <3>2
  <2> QED
    BY <1>2, <1>4, <2>1, <2>2, <2>3, <2>4, WriteIndexed
<1> QED
  BY <1>5, <1>6

LEMMA ExtendIndexed ==
  ASSUME IInv, Story, Indexed, NEW p \in Handlers, ExtendEval(p)
  PROVE  IndexStep
<1> DEFINE s == h[p].cur
           t == h[p].at
<1>1. h[p].pc = "extend.eval" /\ now' = now
  BY DEF ExtendEval, At, Local, Continue
<1>2. s \in Sid /\ s <= issued
  BY <1>1, Waiting DEF LoginLabels, Carrier
<1>3. t \in Nat /\ now \in Nat /\ t <= now
  BY <1>1, Prompt DEF Story, Follows
<1>4. CASE ~Extendable(s, t)
  BY <1>1, <1>4, NothingIndexed DEF ExtendEval, Local
<1>5. CASE Extendable(s, t)
  <2> DEFINE session == [store[s] EXCEPT !.seen = t]
             ttl == LuaTtl(store[s], t)
  <2>1. SetEx(s, session, ttl) /\ ExpireIndex(store[s].user, ttl) /\ index' = index
    BY <1>5 DEF ExtendEval, UpdateLastSeenKeys
  <2>2. store[s] \in Session /\ s \in Live
    BY <1>2, <1>5 DEF Extendable, Live, IInv, TypeOK
  <2>3. session \in Session /\ session.user = store[s].user
    BY <1>3, <2>2 DEF Session
  <2>4. store[s].exp = born[s] + AbsoluteTtl * Second
    BY <2>2 DEF IInv, AbsoluteCap
  <2>5. ttl \in 1..IdleTtl
    BY <1>3, <2>2, IdleCut
  <2>6. ~NearEnd => ttl = IdleTtl
    BY <1>2, <1>3, <2>2, <2>4, FullWindow
  <2>7. Covered => s \in index[session.user]
    BY <2>2, <2>3 DEF Covered
  <2> HIDE DEF session, ttl, s, t
  <2> QED
    BY <1>1, <1>2, <2>1, <2>3, <2>5, <2>6, <2>7, WriteIndexed
<1> QED
  BY <1>4, <1>5

\* Every command of a handler, as long as nothing is written back and no user signs out
\* everywhere.
LEMMA HandleIndexed ==
  ASSUME IInv, Story, Clean, Leaving, "signoutAll" \notin Methods, Indexed,
         NEW p \in Handlers, Handle(p)
  PROVE  IndexStep
<1>1. ~(AgentSetEx(p) \/ AgentExpire(p) \/ RiskGet(p) \/ RiskSetEx(p))
  BY DEF Clean, Quiet, Writers, AgentSetEx, AgentExpire, RiskGet, RiskSetEx, At
<1>2. ~(AllMembers(p) \/ AllEval(p) \/ AllDel(p))
  <2>1. h[p].pc \notin Everywhere
    BY DEF Leaving, OnItsWay
  <2> QED
    BY <2>1 DEF AllMembers, AllEval, AllDel, At, Everywhere
<1>3. CASE \/ ValidateGet(p) \/ ExtendGet(p) \/ ReloadGet(p) \/ RecheckGet(p) \/ RotateGet(p)
           \/ RotateReload(p) \/ DestroyGet(p) \/ Invoke(p) \/ KeepGet(p)
  <2>1. UNCHANGED redis /\ now' = now
    BY <1>3 DEF ValidateGet, ExtendGet, ReloadGet, RecheckGet, RotateGet, RotateReload,
                DestroyGet, Invoke, KeepGet, Get, Local, Continue
  <2> QED
    BY <2>1, NothingIndexed
<1>4. CASE ExtendEval(p)
  BY <1>4, ExtendIndexed
<1>5. CASE RotateCreate(p)
  BY <1>5, CreateIndexed DEF RotateCreate, At
<1>6. CASE RotateOnly(p)
  BY <1>6, CreateIndexed DEF RotateOnly, At
<1>7. CASE KeepCreate(p)
  BY <1>7, CreateIndexed DEF KeepCreate, At
<1>8. CASE DestroyEval(p)
  <2>1. h[p].cur \in Sid
    BY <1>8, AfterDestroy DEF DestroyEval, At, Destroying
  <2>2. DestroyKeys(h[p].cur) /\ now' = now
    BY <1>8 DEF DestroyEval, Continue
  <2> QED
    BY <2>1, <2>2, DestroyIndexed
<1> QED
  BY <1>1, <1>2, <1>3, <1>4, <1>5, <1>6, <1>7, <1>8 DEF Handle

\* A sign-in that is near its end stays so.
LEMMA NearLasts ==
  ASSUME IInv, NearEnd, now' \in Nat, now <= now', issued' \in Nat, issued <= issued',
         \A s \in Sid : s <= issued => born'[s] = born[s]
  PROVE  NearEnd'
<1>1. PICK s \in 1..issued : now > born[s] + (AbsoluteTtl - IdleTtl) * Second
  BY DEF NearEnd
<1>2. s \in Sid /\ s \in 1..issued' /\ now \in Nat
  <2>1. issued \in 0..MaxSid /\ MaxSid \in Nat /\ now \in Nat
    BY ConstantsAssumption DEF IInv, TypeOK
  <2> QED
    BY <2>1 DEF Sid
<1>3. born'[s] = born[s] /\ born[s] \in Nat
  BY <1>1, <1>2 DEF IInv, TypeOK
<1>4. (AbsoluteTtl - IdleTtl) * Second \in Int
  BY TimeTypes, ConstantsAssumption, TimesDistributes
<1>5. now' > born'[s] + (AbsoluteTtl - IdleTtl) * Second
  BY <1>1, <1>2, <1>3, <1>4
<1> QED
  BY <1>2, <1>5 DEF NearEnd

\* The ids that are issued keep their sign-in, whatever happens next.
LEMMA NextNear ==
  ASSUME IInv, IInv', Story, NearEnd, [Next]_vars
  PROVE  NearEnd'
<1>1. now \in Nat /\ now' \in Nat /\ issued \in Nat /\ issued' \in Nat
  BY DEF IInv, TypeOK
<1>2. UNCHANGED <<issued, born>> /\ now <= now' => NearEnd'
  BY <1>1, NearLasts
<1>3. ASSUME NEW b, NEW i \in Sid, i = Fresh, issued' = Fresh,
             born' = [born EXCEPT ![i] = b], now' = now
      PROVE  NearEnd'
  <2>1. \A s \in Sid : s <= issued => born'[s] = born[s]
    BY <1>1, <1>3 DEF IInv, TypeOK, Fresh, Sid
  <2> QED
    BY <1>1, <1>3, <2>1, NearLasts DEF Fresh
<1>4. ASSUME NEW p \in Handlers, Handle(p) PROVE NearEnd'
  <2>1. PICK r : Effect(p, r)
    BY <1>4, HandleEffect
  <2>2. Continue(p, r) /\ r.new \in {h[p].new, NoSid, Fresh} /\ r.new <= MaxSid
    BY <2>1 DEF Effect, Fit, Continue
  <2>3. CASE r.new \in {h[p].new, NoSid}
    BY <1>1, <1>2, <2>2, <2>3 DEF Continue
  <2>4. CASE r.new \notin {h[p].new, NoSid}
    <3>1. /\ r.new = Fresh /\ issued' = Fresh /\ now' = now
          /\ born' = [born EXCEPT ![r.new] = born[r.cur]]
      BY <2>2, <2>4 DEF Continue
    <3>2. r.new \in Sid
      BY <1>1, <2>2, <3>1, ConstantsAssumption DEF Fresh, Sid
    <3> QED
      BY <1>3, <3>1, <3>2
  <2> QED
    BY <2>3, <2>4
<1>5. ASSUME NEW p \in Handlers, NEW u \in Users, NEW s \in Cookies \cup {NoSid},
             StartSession(p, u, s)
      PROVE  NearEnd'
  <2>1. issued' = Fresh /\ born' = [born EXCEPT ![Fresh] = now] /\ now' = now
    BY <1>5 DEF StartSession
  <2>2. Fresh \in Sid
    BY <1>1, <2>1 DEF IInv, TypeOK, Fresh, Sid
  <2> QED
    BY <1>3, <2>1, <2>2
<1>6. ASSUME NEW p \in Handlers, NEW m \in Methods, NEW b \in Bindings, NEW s \in Cookies,
             Request(p, m, b, s)
      PROVE  NearEnd'
  BY <1>1, <1>2, <1>6 DEF Request
<1>7. ASSUME NEW p \in Handlers, RedisError(p) PROVE NearEnd'
  BY <1>1, <1>2, <1>7 DEF RedisError
<1>8. CASE Tick \/ Quiescent \/ UNCHANGED vars
  BY <1>1, <1>2, <1>8 DEF Tick, Quiescent, vars
<1> QED
  BY <1>4, <1>5, <1>6, <1>7, <1>8 DEF Next

\* The clock: whoever finds the index gone finds its sessions gone.
LEMMA TickIndexed ==
  ASSUME IInv, Indexed, Tick
  PROVE  InWindow' /\ (Covered => Covered')
<1>1. now \in Nat /\ now' = now + 1 /\ IdleTtl * Second \in Nat
  BY TimeIs DEF Tick
<1>2. /\ \A s \in Sid : s \in Live /\ until[s] <= now' => store'[s] = NoSession
      /\ \A s \in Sid : ~(s \in Live /\ until[s] <= now')
                        => store'[s] = store[s] /\ until'[s] = until[s]
  BY DEF Tick
<1>3. \A u \in Users : /\ indexUntil[u] <= now' => indexUntil'[u] = 0
                       /\ ~(indexUntil[u] <= now')
                          => indexUntil'[u] = indexUntil[u] /\ index'[u] = index[u]
  BY DEF Tick
<1>4. \A u \in Users : indexUntil[u] \in Nat
  BY DEF IInv, TypeOK
<1>5. InWindow'
  <2>1. \A u \in Users : indexUntil[u] <= now + IdleTtl * Second
    BY DEF Indexed, InWindow
  <2>2. \A u \in Users : indexUntil'[u] <= now' + IdleTtl * Second
    BY <1>1, <1>3, <1>4, <2>1
  <2> QED
    BY <2>2 DEF InWindow
<1>6. ASSUME Covered PROVE Covered'
  <2> SUFFICES ASSUME NEW s \in Sid, store'[s] # NoSession
               PROVE  /\ s \in index'[store'[s].user]
                      /\ until'[s] <= indexUntil'[store'[s].user]
    BY DEF Covered, Live
  <2>1. store'[s] = store[s] /\ until'[s] = until[s] /\ s \in Live /\ ~(until[s] <= now')
    BY <1>2 DEF Live
  <2>2. s \in index[store[s].user] /\ until[s] <= indexUntil[store[s].user]
    BY <1>6, <2>1 DEF Covered
  <2>3. store[s].user \in Users /\ until[s] \in Nat
    BY <2>1 DEF Live, IInv, TypeOK, Session
  <2>4. ~(indexUntil[store[s].user] <= now')
    BY <1>1, <1>4, <2>1, <2>2, <2>3
  <2> QED
    BY <1>3, <2>1, <2>2, <2>3, <2>4
<1> QED
  BY <1>5, <1>6

LEMMA NextIndexed ==
  ASSUME "signoutAll" \notin Methods
  PROVE  IInv /\ IInv' /\ Story /\ Clean /\ Leaving /\ Indexed /\ [Next]_vars => Indexed'
<1> SUFFICES ASSUME IInv, IInv', Story, Clean, Leaving, Indexed, [Next]_vars PROVE Indexed'
  OBVIOUS
<1>1. NearEnd => NearEnd'
  BY NextNear
<1>2. IndexStep => Indexed'
  BY <1>1 DEF IndexStep, Indexed
<1>3. UNCHANGED redis /\ now' = now => Indexed'
  BY <1>2, NothingIndexed
<1>4. ASSUME NEW p \in Handlers, Handle(p) PROVE Indexed'
  BY <1>2, <1>4, HandleIndexed
<1>5. CASE Tick
  BY <1>1, <1>5, TickIndexed DEF Indexed
<1>6. ASSUME NEW p \in Handlers,
             \/ \E m \in Methods, b \in Bindings, s \in Cookies : Request(p, m, b, s)
             \/ \E u \in Users, s \in Cookies \cup {NoSid} : StartSession(p, u, s)
             \/ RedisError(p)
      PROVE  Indexed'
  BY <1>3, <1>6 DEF Request, StartSession, RedisError
<1>7. CASE Quiescent \/ UNCHANGED vars
  BY <1>3, <1>7 DEF Quiescent, vars
<1> QED
  BY <1>4, <1>5, <1>6, <1>7 DEF Next

LEMMA InitIndexed == Init => Indexed
<1> SUFFICES ASSUME Init PROVE Indexed
  OBVIOUS
<1>1. Live = {} /\ IdleTtl * Second \in Nat
  BY TimeTypes, Products DEF Init, Live
<1> QED
  BY <1>1 DEF Init, Indexed, InWindow, Covered

-----------------------------------------------------------------------------
(* The theorems.                                                            *)

\* Whatever the interleaving and whichever commands fail, no handler goes on
\* without the session or the id that its next step uses (validateSession,
\* rotateSessionCanonical, keepAlive).
THEOREM TypeCorrect == Spec => []TypeOK
  BY SpecKeeps, PTL DEF IInv

\* No chain of extensions, rotations, keep-alives and write-backs moves the end of
\* a session away from AbsoluteTtl after the sign-in (createSession, keepAlive,
\* validateSession, LUA_UPDATE_LAST_SEEN, updateSessionRiskLevel).
THEOREM AbsoluteCapHolds == Spec => []AbsoluteCap
  BY SpecKeeps, PTL DEF IInv

\* Whatever interleaves and whichever commands fail, a rotation (by validateSession
\* on a new address, or by keepAlive) is at the destruction of the old session only
\* once createSession has stored the new one, and no other handler ever takes the
\* same new id.
THEOREM SuccessorIsFirst == Spec => []SuccessorFirst
<1>1. IInv /\ Story => SuccessorFirst
  <2> SUFFICES ASSUME IInv, Story, NEW p \in Handlers,
                      At(p, "destroy.eval") \/ At(p, "destroy.get"),
                      h[p].after = "reload" \/ (h[p].method = "keepAlive" /\ h[p].new # NoSid)
               PROVE  fate[h[p].new] # "unborn"
    BY DEF SuccessorFirst
  <2>1. h[p].pc \in Destroying /\ h[p].pc # "idle" /\ h[p].pc \notin Pending
    BY DEF At, Destroying, Pending
  <2> QED
    BY <2>1 DEF Story, Follows, Stored
<1> QED
  BY <1>1, SpecKeeps, SpecStory, PTL

\* However the times to live are rounded (computeSessionTtl, LUA_UPDATE_LAST_SEEN,
\* updateSessionRiskLevel) and however late within its second a command is run,
\* Redis drops a session's key within two seconds of the session's absolute end.
THEOREM KeysEndWithTheirSession == Spec => []KeyEndsWithSession
  BY SpecStory, PTL DEF Story

\* When no handler writes back a value it read before (validateSession's new user
\* agent, updateSessionRiskLevel), a session that was destroyed or has lapsed never
\* comes back: LUA_UPDATE_LAST_SEEN and createSession cannot revive it.
THEOREM DestroyedForGood ==
  ASSUME NoWriteBack
  PROVE  Spec => []DestroyedStaysDestroyed
<1>1. IInv /\ IInv' /\ Story /\ Clean /\ [Next]_vars => Clean'
  BY NextClean
<1>2. Clean => DestroyedStaysDestroyed
  BY DEF Clean, Counted
<1> QED
  BY <1>1, <1>2, InitStory, SpecKeeps, SpecStory, PTL DEF Spec

\* Under the same condition metrics:activeSessions counts every session once:
\* created and destroyed by one step each (createSession's MULTI,
\* LUA_DESTROY_SESSION), it is off only by the sessions that Redis dropped itself.
THEOREM CounterCountsSessions ==
  ASSUME NoWriteBack
  PROVE  Spec => []MetricCountsSessions
<1>1. IInv /\ IInv' /\ Story /\ Clean /\ [Next]_vars => Clean'
  BY NextClean
<1>2. Clean => MetricCountsSessions
  BY DEF Clean, Counted
<1> QED
  BY <1>1, <1>2, InitStory, SpecKeeps, SpecStory, PTL DEF Spec

\* Under the same condition, and when an idle window outlives the commands of a
\* request and is followed by a grace (client.js never takes a grace of 0, and IdleTtl
\* is in seconds where the clock has milliseconds), no session that is valid now is
\* destroyed as long as Redis has answered, unless its own user signs out or in or its
\* handler has generated a successor: whatever other handlers extended, rotated or
\* destroyed between a handler's check of a session and its LUA_DESTROY_SESSION.
THEOREM ValidEndsOnlyByUser ==
  ASSUME NoWriteBack, LongLived
  PROVE  Spec => ValidEndsByUser
<1>1. IInv /\ IInv' /\ Story /\ Clean /\ [Next]_vars => Clean'
  BY NextClean
<1>2. IInv /\ IInv' /\ Story /\ Clean /\ Watched /\ [Next]_vars => Watched' /\ EndsByUser
  BY NextWatched
<1>3. [EndsByUser]_vars <=> [\A s \in Live :
         s \notin Live' /\ now' = now /\ errors = 0 /\ IsSessionValid(store[s], now)
         => \E p \in Handlers :
               /\ h'[p] # h[p]
               /\ \/ h[p].method \in {"login", "signout", "signoutAll"}
                  \/ h[p].new # NoSid]_vars
  BY DEF EndsByUser
<1> QED
  BY <1>1, <1>2, <1>3, InitStory, InitWatched, SpecKeeps, SpecStory, PTL
     DEF Spec, ValidEndsByUser

\* Whatever the other handlers do meanwhile, when a request to sign out is answered and
\* its last command has not failed, the session of its cookie is gone: validateSession,
\* with its extension, rotation and rejections, never answers in its place (signout.js,
\* client.js).
THEOREM SignoutEndsCookie == Spec => [][SignoutEnds]_vars
<1>1. IInv /\ Leaving /\ [Next]_vars => Leaving' /\ [SignoutEnds]_vars
  BY NextLeaves
<1> QED
  BY <1>1, InitLeaves, SpecKeeps, PTL DEF Spec

\* If no request comes from a new address and no command fails, a user who was told
\* 'User has been signed out' has no session left of this browser: what may stay usable
\* is only the session that validateSession rotated to (signout.js, client.js).
THEOREM SignedOutUnlessMoved ==
  ASSUME "ip" \notin Bindings, MaxErrors = 0
  PROVE  Spec => SignedOutIsOut
<1> DEFINE IsOut == \A p \in Handlers :
                      h[p].method = "signout" /\ h'[p].pc = "idle"
                      => {h[p].cur, h[p].new} \cap Live' = {}
<1>1. ASSUME IInv, Leaving, [Next]_vars PROVE Leaving' /\ [IsOut]_vars
  <2>1. Leaving' /\ SignoutEnds
    BY <1>1, NextLeaves
  <2>2. errors' = errors
    <3>1. \A p \in Handlers : ~RedisError(p)
      BY <1>1 DEF RedisError, IInv, TypeOK
    <3>2. ASSUME NEW p \in Handlers, Departs(p) PROVE errors' = errors
      BY <3>2 DEF Departs, Continue
    <3>3. ASSUME NEW p \in Handlers, Handle(p) PROVE Departs(p)
      BY <1>1, <3>3, ValidateDeparts, RotateDeparts, DestroyStepDeparts, InvokeDeparts,
         OthersDepart DEF Handle
    <3> QED
      BY <1>1, <3>1, <3>2, <3>3 DEF Next, Request, StartSession, Tick, Quiescent, vars
  <2>3. ASSUME NEW p \in Handlers, h[p].method = "signout" PROVE h[p].new \notin Live'
    BY <1>1, <2>3 DEF Leaving, OnItsWay, Stays, Live, Sid, NoSid
  <2> QED
    BY <2>1, <2>2, <2>3 DEF SignoutEnds
<1>2. [IsOut]_vars <=> [\A p \in Handlers :
                          h[p].method = "signout" /\ h'[p].pc = "idle"
                          => {h[p].cur, h[p].new} \cap Live' = {}]_vars
  OBVIOUS
<1> HIDE DEF IsOut
<1> QED
  BY <1>1, <1>2, InitLeaves, SpecKeeps, PTL DEF Spec, SignedOutIsOut

\* As long as nothing is written back, no user signs out everywhere and no sign-in is
\* older than the absolute lifetime less the idle window, user_sessions:<user> names
\* every session that can still be used: created and extended together with them
\* (createSession's MULTI, LUA_UPDATE_LAST_SEEN), it never lapses before one of them.
THEOREM IndexKeptWhileYoung ==
  ASSUME NoWriteBack, "signoutAll" \notin Methods
  PROVE  Spec => [](NearEnd \/ IndexCoversLive)
<1>1. IInv /\ IInv' /\ Story /\ Clean /\ [Next]_vars => Clean'
  BY NextClean
<1>2. IInv /\ Leaving /\ [Next]_vars => Leaving'
  BY NextLeaves
<1>3. IInv /\ IInv' /\ Story /\ Clean /\ Leaving /\ Indexed /\ [Next]_vars => Indexed'
  BY NextIndexed
<1>4. Indexed => NearEnd \/ IndexCoversLive
  BY DEF Indexed, Covered, IndexCoversLive
<1> QED
  BY <1>1, <1>2, <1>3, <1>4, InitStory, InitLeaves, InitIndexed, SpecKeeps, SpecStory, PTL
     DEF Spec
=============================================================================
