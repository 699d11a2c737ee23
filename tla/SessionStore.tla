---------------------------- MODULE SessionStore ----------------------------
(***************************************************************************)
(* The session keyspace that the server keeps in Redis, and the request    *)
(* handlers that work on it: src/src/sessionManager.js and the session     *)
(* half of src/src/client.js.                                              *)
(*                                                                         *)
(* A handler is a JavaScript async function: it runs without interruption  *)
(* up to its next await, and every await here is one Redis command.  One   *)
(* step of the model is therefore one Redis command (a GET, a MULTI, a Lua *)
(* script) together with the JavaScript that runs on its reply, and the    *)
(* steps of different handlers interleave freely.  The label pc of a       *)
(* handler names the command it is waiting for.                            *)
(***************************************************************************)
EXTENDS Integers, FiniteSets

CONSTANTS
    Handlers,    \* the requests that may be in progress at the same time
    Users,       \* user ids
    MaxSid,      \* bound: session ids generated in a behaviour
    MaxTime,     \* bound: last instant of the clock
    MaxRequests, \* bound: requests that arrive in a behaviour
    MaxErrors,   \* bound: Redis commands that fail
    Second,      \* clock ticks in a second; the four times below are in seconds
    IdleTtl,     \* sessionManager.idleTtl
    AbsoluteTtl, \* sessionManager.absoluteTtl
    ClockSkew,   \* sessionManager.clockSkewTolerance
    GracePeriod, \* sessionManager.gracePeriod
    Methods,     \* what the requests ask for, a subset of AllMethods
    Bindings,    \* how a request compares with its session, a subset of AllBindings
    NoSession    \* no value: a missing key, or nothing in memory

NoSid == 0
Sid == 1..MaxSid

\* "read" stands for the calls that never extend a session (auth/me, calls over
\* WebSocket), "write" for the other calls without session code of their own,
\* "badCsrf" for a mutation whose CSRF token has the right length and is wrong.
AllMethods == {"read", "write", "signout", "signoutAll", "keepAlive", "badCsrf"}

\* Same address and agent; another agent; the same agent from another address.
AllBindings == {"same", "ua", "ip"}

\* A session value as stored: meta.last_seen_at, meta.expires_at, risk_level = high.
Session == [user: Users, seen: Nat, exp: Nat, high: BOOLEAN]

ASSUME ConstantsAssumption ==
    /\ IsFiniteSet(Handlers)
    /\ {MaxSid, MaxTime, MaxRequests, MaxErrors, ClockSkew, GracePeriod} \subseteq Nat
    /\ {Second, IdleTtl, AbsoluteTtl} \subseteq Nat \ {0}
    /\ Methods \subseteq AllMethods
    /\ Bindings \subseteq AllBindings
    /\ NoSession \notin Session

VARIABLES
    now,        \* the clock
    store,      \* store[s]: the value of key session:<s>, or NoSession
    until,      \* until[s]: when Redis drops that key, 0 if there is none
    index,      \* index[u]: the set user_sessions:<u>
    indexUntil, \* indexUntil[u]: when Redis drops that set, 0 if there is none
    metric,     \* the counter metrics:activeSessions
    issued,     \* session ids generated so far
    requests,   \* requests that arrived so far
    errors,     \* Redis commands that failed so far
    fate,       \* history: what became of each session
    born,       \* history: when the user of a session signed in
    h           \* h[p]: the control state and the locals of handler p

redis == <<store, until, index, indexUntil, metric>>
vars == <<now, redis, issued, requests, errors, fate, born, h>>

Labels == {"idle", "validate.get", "extend.get", "extend.eval", "reload.get",
           "recheck.get", "agent.setex", "agent.expire", "rotate.get",
           "rotate.create", "rotate.only", "rotate.reload", "destroy.get",
           "destroy.eval", "invoke", "all.members", "all.eval", "all.del",
           "keep.get", "keep.create", "risk.get", "risk.setex"}
Returns == {"reject", "reload", "again", "done"}

\* at: when the pending command was sent.  cur: the id in the request's cookie.
\* new: the id this handler generated last.  snap: the session value it holds.
\* todo: the ids SMEMBERS returned and not yet destroyed.  after: where
\* destroySession returns to.  retried: signout validates a second time.
Handler == [pc: Labels, at: Nat, method: AllMethods \cup {"none", "login"},
            binding: AllBindings, retried: BOOLEAN, cur: Sid \cup {NoSid},
            new: Sid \cup {NoSid}, snap: Session \cup {NoSession},
            todo: SUBSET Sid, after: Returns]
Idle == [pc |-> "idle", at |-> 0, method |-> "none", binding |-> "same",
         retried |-> FALSE, cur |-> NoSid, new |-> NoSid,
         snap |-> NoSession, todo |-> {}, after |-> "done"]

\* The commands whose sender goes on with the session value it read, and those
\* that are about the new id.
HoldsSession == {"agent.setex", "agent.expire", "rotate.get", "rotate.create",
                 "rotate.only", "invoke", "all.members", "all.eval", "all.del",
                 "keep.create", "risk.setex"}
HoldsNew == {"rotate.get", "rotate.create", "rotate.only", "rotate.reload", "keep.create"}

\* No handler goes on without the session or the id that its next step uses.
TypeOK ==
    /\ now \in Nat
    /\ store \in [Sid -> Session \cup {NoSession}]
    /\ until \in [Sid -> Nat]
    /\ index \in [Users -> SUBSET Sid]
    /\ indexUntil \in [Users -> Nat]
    /\ metric \in Int
    /\ issued \in 0..MaxSid
    /\ requests \in Nat
    /\ errors \in Nat
    /\ fate \in [Sid -> {"unborn", "live", "lapsed", "destroyed"}]
    /\ born \in [Sid -> Nat]
    /\ h \in [Handlers -> Handler]
    /\ \A p \in Handlers :
          /\ h[p].pc \in HoldsSession => h[p].snap # NoSession
          /\ h[p].pc \in HoldsNew => h[p].new # NoSid
          /\ h[p].pc \notin {"idle", "rotate.only"} => h[p].cur # NoSid

Init ==
    /\ now = 0
    /\ store = [s \in Sid |-> NoSession]
    /\ until = [s \in Sid |-> 0]
    /\ index = [u \in Users |-> {}]
    /\ indexUntil = [u \in Users |-> 0]
    /\ metric = 0
    /\ issued = 0
    /\ requests = 0
    /\ errors = 0
    /\ fate = [s \in Sid |-> "unborn"]
    /\ born = [s \in Sid |-> 0]
    /\ h = [p \in Handlers |-> Idle]
-----------------------------------------------------------------------------
Live == {s \in Sid : store[s] # NoSession}

Smaller(a, b) == IF a <= b THEN a ELSE b
Larger(a, b) == IF a >= b THEN a ELSE b

(* What the server computes from a session value at time t.                 *)

\* computeSessionTtl: the idle window cut at the absolute end, in whole seconds.
SecondsLeft(session, t) == (session.exp - t) \div Second
Expired(session, t) == SecondsLeft(session, t) <= 0
SessionTtl(session, t) == Larger(1, Smaller(IdleTtl, SecondsLeft(session, t)))

\* LUA_UPDATE_LAST_SEEN: the same from two truncated times, expires_at_sec and now.
\* Its mutant slides without the cut.
ExpSec(session) == session.exp \div Second
LuaTtlUncut(session, t) == IdleTtl
LuaTtl(session, t) == Larger(1, Smaller(IdleTtl, ExpSec(session) - t \div Second))

\* updateSessionRiskLevel: half of the idle window cut at the absolute end.
RiskTtl(session, t) == Smaller(IdleTtl \div 2, SecondsLeft(session, t))

IsSessionValid(session, t) ==
    /\ session.exp >= t
    /\ t - session.seen <= (IdleTtl + ClockSkew) * Second

\* The second chance validateSession gives a session that is not valid.
WithinGrace(session, t) == t - session.seen <= (IdleTtl + GracePeriod) * Second

ShouldExtend(method) == method # "read"

\* What a rotation stores under the new id: the same session, seen now.  Its
\* mutant starts the absolute lifetime anew.
RenewedForever(session) == [session EXCEPT !.seen = now, !.exp = now + AbsoluteTtl * Second]
Renewed(session) == [session EXCEPT !.seen = now]
-----------------------------------------------------------------------------
(* Redis commands.  Each is atomic and says what becomes of the keyspace.   *)

\* SETEX session:<s>.  It creates the key when there is none.
SetEx(s, session, ttl) ==
    /\ store' = [store EXCEPT ![s] = session]
    /\ until' = [until EXCEPT ![s] = now + ttl * Second]

\* EXPIRE user_sessions:<u>, which has no effect on a set that does not exist.
ExpireIndex(u, ttl) ==
    indexUntil' = [indexUntil EXCEPT ![u] = IF index'[u] = {} THEN 0 ELSE now + ttl * Second]

\* The MULTI of createSession: SETEX, INCR, SADD, EXPIRE.
CreateKeys(s, session, t) ==
    /\ SetEx(s, session, SessionTtl(session, t))
    /\ metric' = metric + 1
    /\ index' = [index EXCEPT ![session.user] = @ \cup {s}]
    /\ ExpireIndex(session.user, SessionTtl(session, t))
    /\ fate' = [fate EXCEPT ![s] = "live"]

\* LUA_DESTROY_SESSION: DECR and SREM only when DEL removed a key.  Its mutant
\* counts down whatever DEL removed.
DestroyKeysBlindly(s) ==
    /\ store' = [store EXCEPT ![s] = NoSession]
    /\ metric' = metric - 1
    /\ index' = [u \in Users |-> index[u] \ {s}]
    /\ fate' = [fate EXCEPT ![s] = "destroyed"]
    /\ until' = [until EXCEPT ![s] = 0]
    /\ indexUntil' = [u \in Users |-> IF index'[u] = {} THEN 0 ELSE indexUntil[u]]
DestroyKeys(s) ==
    IF s \in Live
    THEN /\ store' = [store EXCEPT ![s] = NoSession]
         /\ metric' = metric - 1
         /\ index' = [index EXCEPT ![store[s].user] = @ \ {s}]
         /\ fate' = [fate EXCEPT ![s] = "destroyed"]
         /\ until' = [until EXCEPT ![s] = 0]
         /\ indexUntil' = [u \in Users |-> IF index'[u] = {} THEN 0 ELSE indexUntil[u]]
    ELSE UNCHANGED <<redis, fate>>

\* LUA_UPDATE_LAST_SEEN goes on: the key is there and its end has not passed.
Extendable(s, t) == s \in Live /\ ExpSec(store[s]) >= t \div Second

\* LUA_UPDATE_LAST_SEEN: last_seen_at, SETEX and EXPIRE in one script.
UpdateLastSeenKeys(s, t) ==
    /\ SetEx(s, [store[s] EXCEPT !.seen = t], LuaTtl(store[s], t))
    /\ UNCHANGED <<index, metric, fate>>
    /\ ExpireIndex(store[s].user, LuaTtl(store[s], t))
-----------------------------------------------------------------------------
(* The JavaScript between two commands: from the handler's record to the    *)
(* record with the next command it waits for.                               *)

To(r, label) == [r EXCEPT !.pc = label]

\* Call destroySession for the cookie's session; the value in memory is not
\* used after that.
Destroy(r, after) == [r EXCEPT !.pc = "destroy.get", !.after = after, !.snap = NoSession]

\* validateSession returned the session in r.snap: the method runs.
Accept(r) == [r EXCEPT !.pc = "invoke", !.binding = "same"]

\* Mutant of Reject: authorize lets a request without a session through.
RejectNot(r) == Accept(r)

\* validateSession returned null.  signout is public and asks once more; then
\* it destroys whatever its cookie names.  Everything else ends here.
Reject(r) ==
    IF r.method \notin {"signout", "signoutAll"} THEN Idle
    ELSE IF r.retried THEN Destroy(r, "done")
    ELSE [r EXCEPT !.pc = "validate.get", !.retried = TRUE]

\* destroySession returned.
Return(r) ==
    CASE r.after = "reject" -> Reject(r)
      [] r.after = "reload" -> To(r, "rotate.reload")
      [] r.after = "again"  -> Destroy(r, "done")
      [] r.after = "done"   -> Idle

\* The session id a handler generates next: a fresh UUID.
Fresh == issued + 1

\* validateSession once the session to judge is in r.snap.
Judge(r) ==
    IF ~IsSessionValid(r.snap, now)
    THEN IF WithinGrace(r.snap, now)
         THEN Accept(r)
         ELSE Destroy(r, "reject")
    ELSE CASE r.binding = "same" -> Accept(r)
           [] r.binding = "ua" ->
                IF Expired(r.snap, now) THEN Accept(r) ELSE To(r, "agent.setex")
           [] r.binding = "ip" ->
                [r EXCEPT !.pc = "rotate.get", !.snap = Renewed(@), !.new = Fresh]

\* Handler p waits for its next command, sent now.  An id it generated on the
\* way is used up, and belongs to the same sign-in as the id it came with.
\* MaxSid bounds the ids; Affordable below keeps it from stopping a handler.
Continue(p, r) ==
    /\ r.new <= MaxSid
    /\ h' = [h EXCEPT ![p] = IF r.pc = "idle" THEN Idle ELSE [r EXCEPT !.at = now]]
    /\ IF r.new \in {h[p].new, NoSid}
       THEN UNCHANGED <<issued, born>>
       ELSE /\ issued' = r.new
            /\ born' = [born EXCEPT ![r.new] = born[r.cur]]
    /\ UNCHANGED <<now, requests, errors>>

\* GET session:<s> for handler p: one continuation if there is no such key,
\* another if there is.
Get(p, s, missing, found) ==
    /\ Continue(p, IF s \in Live THEN found ELSE missing)
    /\ UNCHANGED <<redis, fate>>

\* A continuation that needs no Redis command of its own.
Local(p, r) == Continue(p, r) /\ UNCHANGED <<redis, fate>>

At(p, label) == h[p].pc = label
Busy == {p \in Handlers : h[p].pc # "idle"}
-----------------------------------------------------------------------------
(* Requests arrive.                                                         *)

\* How many ids a request may generate.  No request starts that could run out
\* of the ids the bound MaxSid leaves.
Needs(r) == (IF r.method = "login" \/ r.method = "keepAlive" THEN 1 ELSE 0)
          + (IF r.binding = "ip" THEN 1 ELSE 0)
          + (IF r.binding = "ip" /\ r.method \in {"signout", "signoutAll"} THEN 1 ELSE 0)
Reserved == Cardinality({x \in Busy \X (1..3) : x[2] <= Needs(h[x[1]])})
Affordable(r) == Needs(r) = 0 \/ issued + Reserved + Needs(r) <= MaxSid

\* The ids a browser may hold: those of sessions that were created.
Cookies == {s \in Sid : fate[s] # "unborn"}

\* The handler of a request that has just arrived.
Arrived(label, m, b, s, new, session) ==
    [pc |-> label, at |-> now, method |-> m, binding |-> b, retried |-> FALSE,
     cur |-> s, new |-> new, snap |-> session, todo |-> {}, after |-> "done"]

\* restoreSession: a request with a session cookie.
Request(p, m, b, s) ==
    LET r == Arrived("validate.get", m, b, s, NoSid, NoSession)
    IN /\ At(p, "idle")
       /\ Affordable(r)
       /\ requests < MaxRequests
       /\ requests' = requests + 1
       /\ h' = [h EXCEPT ![p] = r]
       /\ UNCHANGED <<now, redis, issued, errors, fate, born>>

\* startSession, from signin or register, with or without an old cookie.
StartSession(p, u, s) ==
    LET session == [user |-> u, seen |-> now, exp |-> now + AbsoluteTtl * Second,
                    high |-> FALSE]
        r == Arrived(IF s = NoSid THEN "rotate.only" ELSE "rotate.get",
                     "login", "same", s, Fresh, session)
    IN /\ At(p, "idle")
       /\ Affordable(r)
       /\ requests < MaxRequests
       /\ requests' = requests + 1
       /\ h' = [h EXCEPT ![p] = r]
       /\ issued' = Fresh
       /\ born' = [born EXCEPT ![Fresh] = now]
       /\ UNCHANGED <<now, redis, errors, fate>>
-----------------------------------------------------------------------------
(* validateSession.                                                         *)

ValidateGet(p) ==
    LET r == [h[p] EXCEPT !.snap = store[h[p].cur]]
    IN /\ At(p, "validate.get")
       /\ Get(p, h[p].cur, Reject(h[p]),
              IF ShouldExtend(r.method) THEN To(r, "extend.get") ELSE Judge(r))

\* updateLastSeen reads the session for its user id.
ExtendGet(p) ==
    /\ At(p, "extend.get")
    /\ Get(p, h[p].cur, To(h[p], "recheck.get"), To(h[p], "extend.eval"))

\* Mutant of ExtendEval: GET and SETEX in two commands instead of one script.
ExtendFromMemory(p) ==
    /\ At(p, "extend.eval")
    /\ SetEx(h[p].cur, [h[p].snap EXCEPT !.seen = h[p].at], LuaTtl(h[p].snap, h[p].at))
    /\ UNCHANGED <<index, indexUntil, metric, fate>>
    /\ Continue(p, To(h[p], "reload.get"))

ExtendEval(p) ==
    /\ At(p, "extend.eval")
    /\ IF Extendable(h[p].cur, h[p].at)
       THEN /\ UpdateLastSeenKeys(h[p].cur, h[p].at)
            /\ Continue(p, To(h[p], "reload.get"))
       ELSE Local(p, To(h[p], "recheck.get"))

ReloadGet(p) ==
    /\ At(p, "reload.get")
    /\ Get(p, h[p].cur, Reject(h[p]), Judge([h[p] EXCEPT !.snap = store[h[p].cur]]))

\* The extension failed: no grace for a session that is not valid.
RecheckGet(p) ==
    LET r == [h[p] EXCEPT !.snap = store[h[p].cur]]
    IN /\ At(p, "recheck.get")
       /\ Get(p, h[p].cur, Reject(h[p]),
              IF IsSessionValid(r.snap, now)
              THEN Judge(r)
              ELSE Destroy(r, "reject"))

\* Another user agent: the copy in memory is written back with its new hash.
AgentSetEx(p) ==
    LET r == h[p]
    IN /\ At(p, "agent.setex")
       /\ SetEx(r.cur, r.snap, SessionTtl(r.snap, r.at))
       /\ Continue(p, [r EXCEPT !.pc = "agent.expire"])
       /\ UNCHANGED <<index, indexUntil, metric, fate>>

AgentExpire(p) ==
    LET r == h[p]
    IN /\ At(p, "agent.expire")
       /\ UNCHANGED <<store, until, index, metric, fate>>
       /\ ExpireIndex(r.snap.user, SessionTtl(r.snap, r.at))
       /\ Continue(p, Accept(r))
-----------------------------------------------------------------------------
(* rotateSessionCanonical and destroySession.                               *)

RotateGet(p) ==
    /\ At(p, "rotate.get")
    /\ Get(p, h[p].cur, To(h[p], "rotate.only"), To(h[p], "rotate.create"))

\* createSession threw: startSession returns false, validateSession null.
CreateFailed(r) == IF r.method = "login" THEN Idle ELSE Reject(r)

\* createSession for the new id, and what comes after it.
Create(p, failed, created) ==
    IF Expired(h[p].snap, h[p].at)
    THEN Local(p, failed)
    ELSE /\ CreateKeys(h[p].new, h[p].snap, h[p].at)
         /\ Continue(p, created)

\* Mutant of RotateCreate: the old session goes even when the new one was not stored.
RotateCreateOrNot(p) ==
    /\ At(p, "rotate.create")
    /\ LET destroy == Destroy(h[p], IF h[p].method = "login" THEN "done" ELSE "reload")
       IN Create(p, destroy, destroy)

RotateCreate(p) ==
    /\ At(p, "rotate.create")
    /\ Create(p, CreateFailed(h[p]),
              Destroy(h[p], IF h[p].method = "login" THEN "done" ELSE "reload"))

\* There was no old session: nothing to destroy.
RotateOnly(p) ==
    /\ At(p, "rotate.only")
    /\ Create(p, CreateFailed(h[p]),
              IF h[p].method = "login" THEN Idle
              ELSE [h[p] EXCEPT !.pc = "rotate.reload", !.snap = NoSession])

RotateReload(p) ==
    /\ At(p, "rotate.reload")
    /\ Get(p, h[p].new, Reject(h[p]), Accept([h[p] EXCEPT !.snap = store[h[p].new]]))

DestroyGet(p) ==
    /\ At(p, "destroy.get")
    /\ Get(p, h[p].cur, Return(h[p]), To(h[p], "destroy.eval"))

DestroyEval(p) ==
    /\ At(p, "destroy.eval")
    /\ DestroyKeys(h[p].cur)
    /\ Continue(p, Return(h[p]))
-----------------------------------------------------------------------------
(* The methods.                                                             *)

Invoke(p) ==
    LET r == h[p]
    IN /\ At(p, "invoke")
       /\ Local(p, CASE r.method \in {"read", "write"} -> Idle
                     [] r.method = "signout" ->
                          Destroy(r, "done")
                     [] r.method = "signoutAll" -> To(r, "all.members")
                     [] r.method = "keepAlive" -> To(r, "keep.get")
                     [] r.method = "badCsrf" -> To(r, "risk.get"))

\* destroyAllUserSessions: SMEMBERS, one script per id, then DEL of the set.
AllMembers(p) ==
    LET ids == index[h[p].snap.user]
    IN /\ At(p, "all.members")
       /\ Local(p, IF ids = {} THEN Idle ELSE [h[p] EXCEPT !.pc = "all.eval", !.todo = ids])

AllEval(p) ==
    /\ At(p, "all.eval")
    /\ \E s \in h[p].todo :
          /\ DestroyKeys(s)
          /\ Continue(p, [h[p] EXCEPT !.todo = @ \ {s},
                                      !.pc = IF h[p].todo = {s} THEN "all.del" ELSE @])

AllDel(p) ==
    /\ At(p, "all.del")
    /\ index' = [index EXCEPT ![h[p].snap.user] = {}]
    /\ indexUntil' = [indexUntil EXCEPT ![h[p].snap.user] = 0]
    /\ Continue(p, Idle)
    /\ UNCHANGED <<store, until, metric, fate>>

\* keepAlive: check, then the new session first and the old one destroyed after.
\* Mutant of KeepGet: the session is given up in the last instant it is valid.
KeepGetStrict(p) ==
    LET r == [h[p] EXCEPT !.snap = store[h[p].cur]]
    IN /\ At(p, "keep.get")
       /\ Get(p, r.cur, Idle,
              IF r.snap.exp < now
              THEN Destroy(r, "again")
              ELSE IF now - r.snap.seen >= IdleTtl * Second
              THEN Destroy(r, "done")
              ELSE [r EXCEPT !.pc = "keep.create", !.snap = Renewed(@), !.new = Fresh])

KeepGet(p) ==
    LET r == [h[p] EXCEPT !.snap = store[h[p].cur]]
    IN /\ At(p, "keep.get")
       /\ Get(p, r.cur, Idle,
              IF r.snap.exp < now
              THEN Destroy(r, "again")
              ELSE IF now - r.snap.seen > IdleTtl * Second
              THEN Destroy(r, "done")
              ELSE [r EXCEPT !.pc = "keep.create", !.snap = Renewed(@), !.new = Fresh])

KeepCreate(p) ==
    /\ At(p, "keep.create")
    /\ Create(p, Idle, Destroy(h[p], "done"))

\* updateSessionRiskLevel("high"), which nobody awaits: read, raise, write back.
RiskGet(p) ==
    LET r == [h[p] EXCEPT !.snap = store[h[p].cur]]
    IN /\ At(p, "risk.get")
       /\ Get(p, r.cur, Idle,
              IF r.snap.high THEN Idle ELSE [r EXCEPT !.pc = "risk.setex", !.snap.high = TRUE])

\* SETEX refuses a time to live that is not positive.
RiskSetEx(p) ==
    LET ttl == RiskTtl(h[p].snap, h[p].at)
    IN /\ At(p, "risk.setex")
       /\ IF ttl <= 0
          THEN Local(p, Idle)
          ELSE /\ SetEx(h[p].cur, h[p].snap, ttl)
               /\ Continue(p, Idle)
               /\ UNCHANGED <<index, indexUntil, metric, fate>>
-----------------------------------------------------------------------------
(* Failures and time.                                                       *)

\* What each caller does when the command it waits for throws.
OnError(r) ==
    CASE r.pc \in {"validate.get", "reload.get", "recheck.get", "agent.setex",
                   "agent.expire", "rotate.reload"} -> Reject(r)
      [] r.pc \in {"extend.get", "extend.eval"} -> To(r, "recheck.get")
      [] r.pc = "rotate.get" -> To(r, "rotate.only")
      [] r.pc \in {"rotate.create", "rotate.only"} -> CreateFailed(r)
      [] r.pc \in {"destroy.get", "destroy.eval"} -> Return(r)
      [] OTHER -> Idle

\* Redis does not answer: the command has no effect.
RedisError(p) ==
    /\ p \in Busy /\ ~At(p, "invoke")
    /\ errors < MaxErrors
    /\ errors' = errors + 1
    /\ h' = [h EXCEPT ![p] = IF OnError(h[p]).pc = "idle" THEN Idle
                             ELSE [OnError(h[p]) EXCEPT !.at = now]]
    /\ UNCHANGED <<now, redis, issued, requests, fate, born>>

\* The clock moves and Redis drops the keys whose time has come.  A command is
\* answered within one tick: at most one boundary falls between send and reply.
Tick ==
    /\ now < MaxTime
    /\ \A p \in Busy : h[p].at = now
    /\ now' = now + 1
    /\ LET lapsed == {s \in Live : until[s] <= now'}
       IN /\ store' = [s \in Sid |-> IF s \in lapsed THEN NoSession ELSE store[s]]
          /\ until' = [s \in Sid |-> IF s \in lapsed THEN 0 ELSE until[s]]
          /\ fate' = [s \in Sid |-> IF s \in lapsed /\ fate[s] = "live"
                                    THEN "lapsed" ELSE fate[s]]
    /\ LET dropped == {u \in Users : indexUntil[u] <= now'}
       IN /\ index' = [u \in Users |-> IF u \in dropped THEN {} ELSE index[u]]
          /\ indexUntil' = [u \in Users |-> IF u \in dropped THEN 0 ELSE indexUntil[u]]
    /\ UNCHANGED <<metric, issued, requests, errors, born, h>>

Handle(p) ==
    \/ ValidateGet(p) \/ ExtendGet(p) \/ ExtendEval(p) \/ ReloadGet(p)
    \/ RecheckGet(p) \/ AgentSetEx(p) \/ AgentExpire(p)
    \/ RotateGet(p) \/ RotateCreate(p) \/ RotateOnly(p) \/ RotateReload(p)
    \/ DestroyGet(p) \/ DestroyEval(p) \/ Invoke(p)
    \/ AllMembers(p) \/ AllEval(p) \/ AllDel(p)
    \/ KeepGet(p) \/ KeepCreate(p) \/ RiskGet(p) \/ RiskSetEx(p)

\* Every request the bound allows has been answered.
Quiescent == Busy = {} /\ now = MaxTime /\ UNCHANGED vars

Next ==
    \/ \E p \in Handlers :
          \/ \E m \in Methods, b \in Bindings, s \in Cookies : Request(p, m, b, s)
          \/ \E u \in Users, s \in Cookies \cup {NoSid} : StartSession(p, u, s)
          \/ Handle(p)
          \/ RedisError(p)
    \/ Tick
    \/ Quiescent

Spec == Init /\ [][Next]_vars
-----------------------------------------------------------------------------
(* Properties.                                                              *)

\* The absolute lifetime counts from the sign-in: whatever is rotated, kept
\* alive, extended or written back, a stored session ends AbsoluteTtl after its
\* user signed in (config/sessions.js: "sliding cannot exceed").
AbsoluteCap == \A s \in Live : store[s].exp = born[s] + AbsoluteTtl * Second

\* Redis drops every session within two seconds of its absolute end: the times
\* to live are rounded, set when the command arrives, and never below a second.
KeyEndsWithSession ==
    \A s \in Live : until[s] <= born[s] + (AbsoluteTtl + 2) * Second

\* A session that was destroyed, or dropped by Redis, does not come back.
DestroyedStaysDestroyed == \A s \in Live : fate[s] = "live"

\* The counter is the number of sessions alive, plus those that Redis dropped by
\* itself and nobody counted out.
MetricCountsSessions ==
    metric = Cardinality({s \in Sid : fate[s] \in {"live", "lapsed"}})

\* user_sessions:<u> names every session of u that can still be used: what
\* destroyAllUserSessions relies on.
IndexCoversLive == \A s \in Live : s \in index[store[s].user]

\* A rotation (validateSession on a new address, keepAlive) removes the old
\* session only once its successor has been stored, whatever fails in between.
SuccessorFirst ==
    \A p \in Handlers :
        /\ At(p, "destroy.eval") \/ At(p, "destroy.get")
        /\ h[p].after = "reload" \/ (h[p].method = "keepAlive" /\ h[p].new # NoSid)
        => fate[h[p].new] # "unborn"

\* As long as Redis has answered, a session that is valid now is only ever removed
\* by its own user: signing out, signing in again, or trading it for a successor.
ValidEndsByUser ==
    [][\A s \in Live :
         s \notin Live' /\ now' = now /\ errors = 0 /\ IsSessionValid(store[s], now)
         => \E p \in Handlers :
               /\ h'[p] # h[p]
               /\ \/ h[p].method \in {"login", "signout", "signoutAll"}
                  \/ h[p].new # NoSid]_vars

\* When signout answers 'User has been signed out', neither the session of its
\* cookie nor one that validateSession made of it on the way is usable.
SignedOutIsOut ==
    [][\A p \in Handlers :
         h[p].method = "signout" /\ h'[p].pc = "idle"
         => {h[p].cur, h[p].new} \cap Live' = {}]_vars
=============================================================================
