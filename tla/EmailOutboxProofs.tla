------------------------- MODULE EmailOutboxProofs --------------------------
(***************************************************************************)
(* Theorems about EmailOutbox: however many emails, attempts, batches and  *)
(* faults there are, no email has two senders, goes out twice without a    *)
(* fault, or is tried too often, and the processor keeps its one timer.    *)
(***************************************************************************)
EXTENDS EmailOutbox, WellFoundedInduction, TLAPS

\* The row of an email that p holds is one that markSending refuses: it is being sent, or
\* it was sent and the commit was taken for a failure.
Marked(p, r) ==
    \/ row[r].status = "sending" /\ row[r].attempts < MaxAttempts
    \/ /\ runner[p].pc = "failed" /\ errors > 0
       /\ row[r].status = "sent" /\ row[r].attempts <= MaxAttempts

\* Before the server takes an email, and after a fault, each time it was taken before is
\* paid for by a fault.
Ownership ==
    \A p \in Runners, r \in Rows :
        Holds(p, r) => Marked(p, r) /\ (runner[p].pc # "sent" => accepted[r] <= errors)

Unsent == {"none", "pending", "failed"}
Paid == \A r \in Rows : row[r].status \in Unsent => accepted[r] <= errors

IInv == TypeOK /\ OneSender /\ Ownership /\ Paid /\ SentOnce /\ AttemptsBounded
-----------------------------------------------------------------------------
(* Lists of emails.                                                         *)

LEMMA MinIsIn ==
  ASSUME NEW S \in SUBSET Nat, S # {}
  PROVE  Min(S) \in S
  <1>1. PICK R : R = {ss \in Nat \X Nat : ss[1] < ss[2]}
    OBVIOUS
  <1>2. IsWellFoundedOn(R, Nat)
    BY <1>1, NatLessThanWellFounded DEF OpToRel
  <1>3. PICK x \in S : \A y \in S : ~(<<y, x>> \in R)
    BY <1>2, WFMin
  <1>4. ASSUME NEW y \in S PROVE x <= y
    <2>1. <<y, x>> \in Nat \X Nat /\ <<y, x>>[1] = y /\ <<y, x>>[2] = x
      OBVIOUS
    <2>2. ~(y < x)
      BY <1>1, <1>3, <2>1
    <2> QED BY <2>2
  <1> QED BY <1>3, <1>4 DEF Min

LEMMA PendingIsListed == Pending \subseteq Rows
  BY DEF Pending
-----------------------------------------------------------------------------
(* Steps that leave the rows and what was sent alone.                       *)

\* A runner that holds nothing goes on with nothing in its hands.
LEMMA EmptyHanded ==
  ASSUME IInv, NEW p \in Runners, NEW n \in Runner, n.item = None,
         n.pc \in {"idle", "status", "settings", "list", "mark"}, n.pc = "mark" => n.todo # {},
         runner' = [runner EXCEPT ![p] = n], UNCHANGED <<row, accepted>>,
         errors' \in {errors, errors + 1}, timer' \in BOOLEAN,
         settings' \in Modes, stopped' \in BOOLEAN, up' \in BOOLEAN,
         calls' \in Nat /\ stops' \in Nat /\ switches' \in Nat
  PROVE  IInv'
  <1> USE DEF IInv, TypeOK
  <1>1. runner' \in [Runners -> Runner] /\ runner'[p] = n
        /\ \A q \in Runners : q # p => runner'[q] = runner[q]
    OBVIOUS
  <1>2. errors' \in Nat /\ errors' >= errors
    OBVIOUS
  <1>3. \A r \in Rows : ~Holds(p, r)'
    BY <1>1, OutboxAssumption DEF Holds, None
  <1>4. TypeOK'
    BY <1>1, <1>2
  <1>5. OneSender'
    BY <1>1, <1>3 DEF OneSender, Holds
  <1>6. Ownership'
    BY <1>1, <1>2, <1>3 DEF Ownership, Holds, Marked, Row
  <1>7. Paid' /\ SentOnce'
    <2>1. \A r \in Rows : accepted[r] \in Nat
      OBVIOUS
    <2> QED BY <1>2, <2>1 DEF Paid, SentOnce, Unsent
  <1>8. AttemptsBounded'
    <2>1. \A r \in Rows : row[r].attempts \in Nat
      BY DEF Row
    <2>2. errors > 0 => errors' > 0
      BY <1>2
    <2> QED BY <2>1, <2>2, OutboxAssumption DEF AttemptsBounded
  <1> QED BY <1>4, <1>5, <1>6, <1>7, <1>8
-----------------------------------------------------------------------------
(* Steps of the runner that holds an email.                                 *)

\* Runner p goes on as n, and leaves x in the row of r, which no other runner holds.
LEMMA OneRow ==
  ASSUME IInv, NEW p \in Runners, NEW n \in Runner, NEW r \in Rows, NEW x \in Row,
         runner' = [runner EXCEPT ![p] = n], row' = [row EXCEPT ![r] = x],
         n.item # None <=> n.pc \in {"send", "sent", "failed"},
         n.pc = "mark" => n.todo # {}, n.item \in {None, r}, \A q \in Runners : Holds(q, r) => q = p,
         accepted' \in [Rows -> Nat],
         \A s \in Rows : s # r => accepted'[s] = accepted[s],
         errors' \in {errors, errors + 1}, timer' \in BOOLEAN,
         UNCHANGED <<settings, stopped, up, calls, stops, switches>>,
         x.log = x.attempts, x.attempts <= MaxAttempts + (IF errors' > 0 THEN 1 ELSE 0),
         accepted'[r] <= 1 + errors',
         x.status \in Unsent => accepted'[r] <= errors',
         n.item = r =>
            /\ \/ x.status = "sending" /\ x.attempts < MaxAttempts
               \/ /\ n.pc = "failed" /\ errors' > 0
                  /\ x.status = "sent" /\ x.attempts <= MaxAttempts
            /\ n.pc # "sent" => accepted'[r] <= errors'
  PROVE  IInv'
  <1> USE DEF IInv, TypeOK
  <1>1. runner' \in [Runners -> Runner] /\ runner'[p] = n
        /\ \A q \in Runners : q # p => runner'[q] = runner[q]
    OBVIOUS
  <1>2. row' \in [Rows -> Row] /\ row'[r] = x
        /\ \A s \in Rows : s # r => row'[s] = row[s]
    OBVIOUS
  <1>3. errors' \in Nat /\ errors' >= errors
    OBVIOUS
  <1>4. r # None /\ \A s \in Rows : s # None
    BY OutboxAssumption DEF None
  <1>5. \A q \in Runners, s \in Rows :
            Holds(q, s)' <=> (q = p /\ s = r /\ n.item = r) \/ (q # p /\ s # r /\ Holds(q, s))
    BY <1>1, <1>4 DEF Holds
  <1>6. TypeOK'
    BY <1>1, <1>2, <1>3
  <1>7. OneSender'
    BY <1>5 DEF OneSender
  <1>8. Ownership'
    <2> SUFFICES ASSUME NEW q \in Runners, NEW s \in Rows, Holds(q, s)'
                 PROVE  (Marked(q, s) /\ (runner[q].pc # "sent" => accepted[s] <= errors))'
      BY DEF Ownership
    <2>1. CASE q = p
      <3>1. s = r /\ n.item = r
        BY <1>5, <2>1
      <3> QED BY <1>1, <1>2, <2>1, <3>1 DEF Marked
    <2>2. CASE q # p
      <3>1. s # r /\ Holds(q, s)
        BY <1>5, <2>2
      <3>2. /\ runner'[q] = runner[q] /\ row'[s] = row[s] /\ accepted'[s] = accepted[s]
            /\ accepted[s] \in Nat
        BY <1>1, <1>2, <2>2, <3>1
      <3>3. Marked(q, s) /\ (runner[q].pc # "sent" => accepted[s] <= errors)
        BY <3>1 DEF Ownership
      <3>4. Marked(q, s)'
        BY <1>3, <3>2, <3>3 DEF Marked
      <3> QED BY <1>3, <3>2, <3>3, <3>4
    <2> QED BY <2>1, <2>2
  <1>9. Paid' /\ SentOnce'
    <2> SUFFICES ASSUME NEW s \in Rows
                 PROVE  /\ row'[s].status \in Unsent => accepted'[s] <= errors'
                        /\ accepted'[s] <= 1 + errors'
      BY DEF Paid, SentOnce
    <2>1. accepted[s] \in Nat
      OBVIOUS
    <2> QED BY <1>2, <1>3, <2>1 DEF Paid, SentOnce
  <1>10. AttemptsBounded'
    <2> SUFFICES ASSUME NEW s \in Rows
                 PROVE  /\ row'[s].attempts <= MaxAttempts + (IF errors' > 0 THEN 1 ELSE 0)
                        /\ row'[s].log = row'[s].attempts
      BY DEF AttemptsBounded
    <2>1. row[s].attempts \in Nat /\ (errors > 0 => errors' > 0)
      BY <1>3 DEF Row
    <2> QED BY <1>2, <2>1, OutboxAssumption DEF AttemptsBounded
  <1> QED BY <1>6, <1>7, <1>8, <1>9, <1>10

-----------------------------------------------------------------------------
(* The steps of the processing.                                             *)

\* The end of the loop, and the way to its next row.
LEMMA FinishKeeps ==
  ASSUME IInv, NEW p \in Runners, Finish(p), UNCHANGED <<row, accepted>>,
         errors' \in {errors, errors + 1},
         UNCHANGED <<settings, stopped, up, calls, stops, switches>>
  PROVE  IInv'
  <1>1. Idle \in Runner /\ Idle.item = None /\ Idle.pc = "idle"
    BY DEF Idle, Runner, Steps
  <1>2. timer' \in BOOLEAN /\ runner' = [runner EXCEPT ![p] = Idle]
    BY DEF Finish, IInv, TypeOK
  <1> QED BY <1>1, <1>2, EmptyHanded DEF IInv, TypeOK

LEMMA NextRowKeeps ==
  ASSUME IInv, NEW p \in Runners, NEW todo \in SUBSET Rows, NextRow(p, todo),
         UNCHANGED <<row, accepted>>, errors' = errors,
         UNCHANGED <<settings, stopped, up, calls, stops, switches>>
  PROVE  IInv'
  <1>1. CASE todo = {}
    BY <1>1, FinishKeeps DEF NextRow
  <1>2. CASE todo # {}
    <2> DEFINE n == [pc |-> "mark", todo |-> todo, item |-> None]
    <2>1. n \in Runner /\ n.item = None /\ n.pc = "mark" /\ n.todo = todo
      BY DEF Runner, Steps
    <2>2. timer' \in BOOLEAN /\ runner' = [runner EXCEPT ![p] = n]
      BY <1>2 DEF NextRow, IInv, TypeOK
    <2> QED BY <1>2, <2>1, <2>2, EmptyHanded DEF IInv, TypeOK
  <1> QED BY <1>1, <1>2

\* Runner p lets go of r with x in its row, and finishes or goes on.
LEMMA LetGo ==
  ASSUME IInv, NEW p \in Runners, NEW r \in Rows, Holds(p, r), NEW x \in Row,
         row' = [row EXCEPT ![r] = x],
         Finish(p) \/ NextRow(p, runner[p].todo), UNCHANGED accepted,
         errors' \in {errors, errors + 1},
         UNCHANGED <<settings, stopped, up, calls, stops, switches>>,
         x.log = x.attempts, x.attempts <= MaxAttempts + (IF errors' > 0 THEN 1 ELSE 0),
         x.status \in Unsent => accepted[r] <= errors'
  PROVE  IInv'
  <1>1. PICK n \in Runner :
            /\ n.item = None /\ n.pc \in {"idle", "mark"}
            /\ n.pc = "mark" => n.todo # {}
            /\ runner' = [runner EXCEPT ![p] = n]
    <2>1. Idle \in Runner /\ Idle.item = None /\ Idle.pc = "idle"
      BY DEF Idle, Runner, Steps
    <2> DEFINE m == [pc |-> "mark", todo |-> runner[p].todo, item |-> None]
    <2>2. runner[p] \in Runner
      BY DEF IInv, TypeOK
    <2>3. m \in Runner /\ m.item = None /\ m.pc = "mark" /\ m.todo = runner[p].todo
      BY <2>2 DEF Runner, Steps
    <2>4. \/ runner' = [runner EXCEPT ![p] = Idle]
          \/ runner' = [runner EXCEPT ![p] = m] /\ runner[p].todo # {}
      BY DEF Finish, NextRow
    <2> QED BY <2>1, <2>3, <2>4
  <1>2. timer' \in BOOLEAN
    BY DEF Finish, NextRow, IInv, TypeOK
  <1>3. \A q \in Runners : Holds(q, r) => q = p
    BY DEF IInv, OneSender
  <1>4. r # None
    BY OutboxAssumption DEF None
  <1>5. accepted'[r] <= 1 + errors'
    <2>1. accepted[r] \in Nat /\ errors \in Nat /\ accepted[r] <= 1 + errors
      BY DEF IInv, TypeOK, SentOnce
    <2> QED BY <2>1
  <1> QED BY <1>1, <1>2, <1>3, <1>4, <1>5, OneRow DEF IInv, TypeOK

LEMMA ReadSettingsKeeps ==
  ASSUME IInv, NEW p \in Runners, ReadSettings(p)
  PROVE  IInv'
  <1>1. UNCHANGED <<row, accepted, settings, stopped, up, calls, stops, switches>>
        /\ errors' \in {errors, errors + 1}
    BY DEF ReadSettings, NoFault, Fault
  <1>2. CASE Finish(p)
    BY <1>1, <1>2, FinishKeeps
  <1>3. ASSUME NEW pc \in {"settings", "list"}, Goto(p, pc), UNCHANGED timer PROVE IInv'
    <2> DEFINE n == [runner[p] EXCEPT !.pc = pc]
    <2>1. runner[p] \in Runner /\ runner[p].item = None
      BY DEF ReadSettings, IInv, TypeOK
    <2>2. n \in Runner /\ n.item = None /\ n.pc = pc
      BY <2>1 DEF Runner, Steps
    <2>3. runner' = [runner EXCEPT ![p] = n]
      BY <1>3 DEF Goto, IInv, TypeOK
    <2> QED BY <1>1, <1>3, <2>2, <2>3, EmptyHanded DEF IInv, TypeOK
  <1> QED BY <1>2, <1>3 DEF ReadSettings

LEMMA ListKeeps ==
  ASSUME IInv, NEW p \in Runners, List(p)
  PROVE  IInv'
  <1>1. CASE NoFault /\ NextRow(p, Pending)
    BY <1>1, NextRowKeeps, PendingIsListed DEF List, NoFault
  <1>2. CASE Fault /\ Finish(p)
    BY <1>2, FinishKeeps DEF List, Fault
  <1> QED BY <1>1, <1>2 DEF List

LEMMA MarkKeeps ==
  ASSUME IInv, NEW p \in Runners, Mark(p)
  PROVE  IInv'
  <1> DEFINE r == Min(runner[p].todo)
  <1>1. runner[p].pc = "mark" /\ runner[p].todo \in SUBSET Rows /\ runner[p].todo # {}
    BY DEF Mark, IInv, TypeOK, Runner
  <1>2. r \in Rows /\ r \in Nat
    BY <1>1, MinIsIn, OutboxAssumption
  <1> HIDE DEF r
  <1> DEFINE n == [pc |-> "send", todo |-> runner[p].todo \ {r}, item |-> r]
             x == [row[r] EXCEPT !.status = "sending"]
  <1>3. CASE /\ NoFault /\ Listed(r) /\ MarkSending(r) /\ UNCHANGED timer
             /\ runner' = [runner EXCEPT ![p] = n]
    <2>1. UNCHANGED <<accepted, settings, stopped, up, calls, stops, switches, errors, timer>>
      BY <1>3 DEF Mark, NoFault
    <2>2. n \in Runner /\ n.item = r /\ n.pc = "send"
      BY <1>1, <1>2 DEF Runner, Steps
    <2>3. row[r] \in Row
      BY <1>2 DEF IInv, TypeOK
    <2>4. /\ x \in Row /\ x.status = "sending" /\ x.attempts = row[r].attempts
          /\ x.log = row[r].log
      BY <2>3 DEF Row, Statuses
    <2>5. row' = [row EXCEPT ![r] = x]
      BY <1>2, <1>3 DEF MarkSending, IInv, TypeOK
    <2>6. row[r].status \in {"pending", "failed"} /\ row[r].attempts < MaxAttempts
      BY <1>3 DEF Listed
    <2>7. \A q \in Runners : Holds(q, r) => q = p
      BY <1>2, <2>6 DEF IInv, Ownership, Marked
    <2>8. accepted[r] <= errors /\ row[r].log = row[r].attempts
          /\ accepted[r] <= 1 + errors
      BY <1>2, <2>6 DEF IInv, Paid, Unsent, SentOnce, AttemptsBounded
    <2>9. row[r].attempts <= MaxAttempts + (IF errors > 0 THEN 1 ELSE 0)
      BY <1>2 DEF IInv, AttemptsBounded
    <2>10. r # None /\ errors' \in {errors, errors + 1}
      BY <1>2, <2>1, OutboxAssumption DEF None
    <2> HIDE DEF n, x
    <2> QED BY <1>2, <1>3, <2>1, <2>2, <2>4, <2>5, <2>6, <2>7, <2>8, <2>9, <2>10, OneRow
            DEF IInv, TypeOK, Unsent
  <1>4. CASE NoFault /\ NextRow(p, runner[p].todo \ {r}) /\ UNCHANGED row
    <2>1. runner[p].todo \ {r} \in SUBSET Rows
      BY <1>1
    <2> QED BY <1>4, <2>1, NextRowKeeps DEF Mark, NoFault
  <1>5. CASE Fault /\ Finish(p) /\ UNCHANGED row
    BY <1>5, FinishKeeps DEF Mark, Fault
  <1> QED BY <1>3, <1>4, <1>5 DEF Mark, r

\* What is known of the email a runner holds.
LEMMA HeldRow ==
  ASSUME IInv, NEW p \in Runners, runner[p].pc \in {"send", "sent", "failed"}
  PROVE  LET r == runner[p].item
         IN /\ r \in Rows /\ r # None /\ Holds(p, r) /\ Marked(p, r)
            /\ \A q \in Runners : Holds(q, r) => q = p
            /\ row[r] \in Row /\ row[r].attempts \in Nat
            /\ row[r].log = row[r].attempts
            /\ row[r].status \in {"sending", "sent"}
            /\ row[r].attempts <= MaxAttempts + (IF errors > 0 THEN 1 ELSE 0)
            /\ accepted[r] \in Nat /\ errors \in Nat /\ accepted[r] <= 1 + errors
            /\ runner[p].pc # "sent" => accepted[r] <= errors
            /\ runner[p] \in Runner
  <1> DEFINE r == runner[p].item
  <1>1. r \in Rows /\ r # None /\ Holds(p, r) /\ runner[p] \in Runner
    BY DEF IInv, TypeOK, Runner, Holds
  <1>2. Marked(p, r) /\ (runner[p].pc # "sent" => accepted[r] <= errors)
    BY <1>1 DEF IInv, Ownership
  <1>3. \A q \in Runners : Holds(q, r) => q = p
    BY <1>1 DEF IInv, OneSender
  <1>4. row[r] \in Row /\ row[r].attempts \in Nat /\ accepted[r] \in Nat /\ errors \in Nat
    BY <1>1 DEF IInv, TypeOK, Row
  <1>5. /\ row[r].log = row[r].attempts /\ accepted[r] <= 1 + errors
        /\ row[r].attempts <= MaxAttempts + (IF errors > 0 THEN 1 ELSE 0)
    BY <1>1 DEF IInv, AttemptsBounded, SentOnce
  <1>6. row[r].status \in {"sending", "sent"}
    BY <1>2 DEF Marked
  <1> QED BY <1>1, <1>2, <1>3, <1>4, <1>5, <1>6

LEMMA SendKeeps ==
  ASSUME IInv, NEW p \in Runners, Send(p)
  PROVE  IInv'
  <1> DEFINE r == runner[p].item
  <1>1. runner[p].pc = "send"
    BY DEF Send
  <1>2. /\ r \in Rows /\ r # None /\ \A q \in Runners : Holds(q, r) => q = p
        /\ row[r] \in Row /\ row[r].log = row[r].attempts
        /\ row[r].attempts <= MaxAttempts + (IF errors > 0 THEN 1 ELSE 0)
        /\ accepted[r] \in Nat /\ errors \in Nat /\ accepted[r] <= errors
        /\ row[r].status = "sending" /\ row[r].attempts < MaxAttempts
        /\ runner[p] \in Runner
    BY <1>1, HeldRow DEF Marked
  <1>3. PICK pc \in {"sent", "failed"} :
            Goto(p, pc) /\ (pc = "failed" => accepted'[r] <= errors')
    BY <1>2 DEF Send, Fault, NoFault, IInv, TypeOK
  <1>4. /\ accepted' \in [Rows -> Nat] /\ accepted'[r] <= 1 + errors'
        /\ \A s \in Rows : s # r => accepted'[s] = accepted[s]
        /\ errors' \in {errors, errors + 1}
        /\ UNCHANGED <<row, settings, timer, stopped, up, calls, stops, switches>>
    BY <1>2 DEF Send, Fault, NoFault, IInv, TypeOK
  <1> DEFINE m == [runner[p] EXCEPT !.pc = pc]
             x == row[r]
  <1>5. m \in Runner /\ m.item = r /\ m.pc = pc
    BY <1>2 DEF Runner, Steps
  <1>6. runner' = [runner EXCEPT ![p] = m]
    BY <1>3 DEF Goto, IInv, TypeOK
  <1>7. row' = [row EXCEPT ![r] = x]
    BY <1>2, <1>4 DEF IInv, TypeOK
  <1>8. /\ x.attempts <= MaxAttempts + (IF errors' > 0 THEN 1 ELSE 0)
        /\ x \in Row /\ x.log = x.attempts /\ x.status = "sending" /\ x.attempts < MaxAttempts
    BY <1>2, <1>4, OutboxAssumption DEF Row
  <1>9. timer' \in BOOLEAN
    BY <1>4 DEF IInv, TypeOK
  <1>10. /\ m.item # None <=> m.pc \in {"send", "sent", "failed"}
         /\ m.pc # "mark" /\ m.item \in {None, r}
         /\ m.pc # "sent" => accepted'[r] <= errors'
    BY <1>2, <1>3, <1>5
  <1>11. x.status \notin Unsent
    BY <1>2 DEF Unsent
  <1> HIDE DEF m, r, x
  <1> QED BY <1>2, <1>4, <1>5, <1>6, <1>7, <1>8, <1>9, <1>10, <1>11, OneRow

LEMMA SentKeeps ==
  ASSUME IInv, NEW p \in Runners, Sent(p)
  PROVE  IInv'
  <1> DEFINE r == runner[p].item
             x == [status |-> "sent", due |-> row[r].due,
                   attempts |-> row[r].attempts + 1, log |-> row[r].log + 1]
             m == [runner[p] EXCEPT !.pc = "failed"]
             y == row[r]
  <1>1. runner[p].pc = "sent"
        /\ UNCHANGED <<settings, stopped, up, accepted, calls, stops, switches>>
    BY DEF Sent
  <1>2. /\ r \in Rows /\ r # None /\ Holds(p, r) /\ \A q \in Runners : Holds(q, r) => q = p
        /\ y \in Row /\ y.log = y.attempts /\ y.attempts \in Nat
        /\ accepted[r] \in Nat /\ errors \in Nat /\ accepted[r] <= 1 + errors
        /\ y.status = "sending" /\ y.attempts < MaxAttempts
        /\ runner[p] \in Runner
    BY <1>1, HeldRow DEF Marked
  <1>3. /\ x \in Row /\ x.status = "sent" /\ x.attempts = y.attempts + 1 /\ x.log = x.attempts
        /\ x.attempts <= MaxAttempts
    <2>1. y.log \in Nat /\ y.due \in BOOLEAN
      BY <1>2 DEF Row
    <2> QED BY <1>2, <2>1, OutboxAssumption DEF Row, Statuses
  <1>4. MarkSent(r) => row' = [row EXCEPT ![r] = x]
    BY <1>2 DEF MarkSent, IInv, TypeOK
  <1>5. UNCHANGED row => row' = [row EXCEPT ![r] = y]
    BY <1>2 DEF IInv, TypeOK
  <1>6. m \in Runner /\ m.item = r /\ m.pc = "failed"
    BY <1>2 DEF Runner, Steps
  <1>7. /\ x.attempts <= MaxAttempts + (IF errors' > 0 THEN 1 ELSE 0)
        /\ y.attempts <= MaxAttempts + (IF errors' > 0 THEN 1 ELSE 0)
    <2>1. /\ x.attempts \in Nat /\ x.attempts <= MaxAttempts /\ MaxAttempts \in Nat
          /\ y.attempts \in Nat /\ y.attempts <= MaxAttempts
      BY <1>2, <1>3, OutboxAssumption
    <2> HIDE DEF x, y
    <2> QED BY <2>1
  <1>8. x.status \notin Unsent /\ y.status \notin Unsent
    BY <1>2, <1>3 DEF Unsent
  <1>9. CASE NoFault /\ MarkSent(r) /\ NextRow(p, runner[p].todo)
    <2> HIDE DEF x, r, y
    <2>1. errors' = errors
      BY <1>9 DEF NoFault
    <2> QED BY <1>1, <1>2, <1>3, <1>4, <1>7, <1>8, <1>9, <2>1, LetGo
  <1>10. CASE Fault /\ Goto(p, "failed") /\ UNCHANGED timer /\ (MarkSent(r) \/ UNCHANGED row)
    <2>1. /\ errors' = errors + 1 /\ errors' > 0
          /\ accepted'[r] <= errors' /\ accepted'[r] <= 1 + errors'
          /\ accepted' \in [Rows -> Nat] /\ timer' \in BOOLEAN
          /\ \A s \in Rows : s # r => accepted'[s] = accepted[s]
      BY <1>1, <1>2, <1>10 DEF Fault, IInv, TypeOK
    <2>2. runner' = [runner EXCEPT ![p] = m]
      BY <1>10 DEF Goto, IInv, TypeOK
    <2>3. /\ m.item # None <=> m.pc \in {"send", "sent", "failed"}
          /\ m.pc # "mark" /\ m.item \in {None, r}
      BY <1>2, <1>6
    <2> HIDE DEF x, m, r, y
    <2>4. CASE row' = [row EXCEPT ![r] = x]
      BY <1>1, <1>2, <1>3, <1>6, <1>7, <1>8, <2>1, <2>2, <2>3, <2>4, OneRow
    <2>5. CASE row' = [row EXCEPT ![r] = y]
      BY <1>1, <1>2, <1>6, <1>7, <1>8, <2>1, <2>2, <2>3, <2>5, OneRow
    <2> QED BY <1>4, <1>5, <1>10, <2>4, <2>5
  <1> QED BY <1>9, <1>10 DEF Sent

LEMMA FailedKeeps ==
  ASSUME IInv, NEW p \in Runners, Failed(p)
  PROVE  IInv'
  <1> DEFINE r == runner[p].item
             x == [status |-> IF row[r].attempts + 1 >= MaxAttempts THEN "failed" ELSE "pending",
                   due |-> FALSE, attempts |-> row[r].attempts + 1, log |-> row[r].log + 1]
             y == row[r]
  <1>1. runner[p].pc = "failed"
        /\ UNCHANGED <<settings, stopped, up, accepted, calls, stops, switches>>
    BY DEF Failed
  <1>2. /\ r \in Rows /\ Holds(p, r)
        /\ y \in Row /\ y.log = y.attempts /\ y.attempts \in Nat
        /\ y.status \in {"sending", "sent"}
        /\ y.attempts <= MaxAttempts + (IF errors > 0 THEN 1 ELSE 0)
        /\ errors \in Nat /\ accepted[r] \in Nat /\ accepted[r] <= errors
        /\ y.attempts + 1 <= MaxAttempts + (IF errors > 0 THEN 1 ELSE 0)
    BY <1>1, HeldRow, OutboxAssumption DEF Marked
  <1>3. x \in Row /\ x.attempts = y.attempts + 1 /\ x.log = x.attempts
    <2>1. y.log \in Nat
      BY <1>2 DEF Row
    <2> QED BY <1>2, <2>1 DEF Row, Statuses
  <1>4. MarkFailed(r) => row' = [row EXCEPT ![r] = x]
    BY <1>2 DEF MarkFailed, IInv, TypeOK
  <1>5. UNCHANGED row => row' = [row EXCEPT ![r] = y]
    BY <1>2 DEF IInv, TypeOK
  <1>6. /\ errors' \in {errors, errors + 1} /\ accepted[r] <= errors'
        /\ Finish(p) \/ NextRow(p, runner[p].todo)
        /\ MarkFailed(r) \/ UNCHANGED row
    BY <1>2 DEF Failed, NoFault, Fault
  <1>7. /\ x.attempts <= MaxAttempts + (IF errors' > 0 THEN 1 ELSE 0)
        /\ y.attempts <= MaxAttempts + (IF errors' > 0 THEN 1 ELSE 0)
    <2>1. /\ MaxAttempts \in Nat /\ y.attempts \in Nat /\ errors \in Nat
          /\ x.attempts = y.attempts + 1 /\ errors' \in {errors, errors + 1}
          /\ y.attempts + 1 <= MaxAttempts + (IF errors > 0 THEN 1 ELSE 0)
      BY <1>2, <1>3, <1>6, OutboxAssumption
    <2> HIDE DEF x, y
    <2> QED BY <2>1
  <1> HIDE DEF x, r, y
  <1>8. CASE row' = [row EXCEPT ![r] = x]
    BY <1>1, <1>2, <1>3, <1>6, <1>7, <1>8, LetGo
  <1>9. CASE row' = [row EXCEPT ![r] = y]
    BY <1>1, <1>2, <1>6, <1>7, <1>9, LetGo
  <1> QED BY <1>4, <1>5, <1>6, <1>8, <1>9
-----------------------------------------------------------------------------
(* The rest of the system.                                                  *)

\* A new row, or one whose time has come: its attempts stay as they are.
LEMMA RowKept ==
  ASSUME IInv, NEW r \in Rows, NEW x \in Row, row' = [row EXCEPT ![r] = x],
         UNCHANGED <<settings, runner, timer, stopped, up, accepted, counts>>,
         x.attempts = row[r].attempts, x.log = row[r].log,
         \/ x.status = row[r].status
         \/ row[r].status = "none" /\ x.status = "pending"
  PROVE  IInv'
  <1> USE DEF IInv, TypeOK, counts
  <1>1. row' \in [Rows -> Row] /\ row'[r] = x
        /\ \A s \in Rows : s # r => row'[s] = row[s]
    OBVIOUS
  <1>2. TypeOK'
    BY <1>1
  <1>3. OneSender'
    BY DEF OneSender, Holds
  <1>4. Ownership'
    <2> SUFFICES ASSUME NEW q \in Runners, NEW s \in Rows, Holds(q, s)
                 PROVE  (Marked(q, s) /\ (runner[q].pc # "sent" => accepted[s] <= errors))'
      BY DEF Ownership, Holds
    <2>1. Marked(q, s) /\ (runner[q].pc # "sent" => accepted[s] <= errors)
      BY DEF Ownership
    <2>2. row'[s].status = row[s].status /\ row'[s].attempts = row[s].attempts
      BY <1>1, <2>1 DEF Marked
    <2> QED BY <2>1, <2>2 DEF Marked
  <1>5. Paid' /\ SentOnce'
    BY <1>1 DEF Paid, SentOnce, Unsent
  <1>6. AttemptsBounded'
    <2>1. \A s \in Rows : row'[s].attempts = row[s].attempts /\ row'[s].log = row[s].log
      BY <1>1
    <2> QED BY <2>1 DEF AttemptsBounded
  <1> QED BY <1>2, <1>3, <1>4, <1>5, <1>6

\* Nothing happens to the emails.
LEMMA EmailsKept ==
  ASSUME IInv, UNCHANGED <<row, accepted, errors>>,
         settings' \in Modes, timer' \in BOOLEAN, stopped' \in BOOLEAN, up' \in BOOLEAN,
         calls' \in Nat /\ stops' \in Nat /\ switches' \in Nat,
         \/ UNCHANGED runner
         \/ runner' = [p \in Runners |-> Idle]
  PROVE  IInv'
  <1> USE DEF IInv, TypeOK
  <1>1. Idle \in Runner /\ Idle.item = None /\ Idle.pc = "idle"
    BY DEF Idle, Runner, Steps
  <1>2. \A p \in Runners :
            /\ runner'[p] \in Runner
            /\ runner'[p] = runner[p] \/ runner'[p] = Idle
    BY <1>1
  <1>3. \A p \in Runners, r \in Rows : Holds(p, r)' => Holds(p, r) /\ runner'[p] = runner[p]
    BY <1>1, <1>2, OutboxAssumption DEF Holds, None
  <1>4. runner' \in [Runners -> Runner]
    BY <1>1
  <1>5. TypeOK'
    BY <1>1, <1>2, <1>4
  <1>6. OneSender'
    BY <1>3 DEF OneSender
  <1>7. Ownership'
    BY <1>3 DEF Ownership, Marked
  <1>8. Paid' /\ SentOnce' /\ AttemptsBounded'
    BY DEF Paid, SentOnce, AttemptsBounded
  <1> QED BY <1>5, <1>6, <1>7, <1>8
-----------------------------------------------------------------------------
(* The timer.                                                               *)

\* A runner runs only in a process, and the tick only without a timer.
TimerRight ==
    /\ TimerKept
    /\ timer => runner[Tick] = Idle
    /\ ~up => \A p \in Runners : runner[p] = Idle

LEMMA TimerStep ==
  ASSUME TypeOK, TimerRight, NEW p \in Runners, runner[p] # Idle, UNCHANGED <<stopped, up>>,
         \/ Finish(p)
         \/ /\ UNCHANGED timer
            /\ \E n : n # Idle /\ runner' = [runner EXCEPT ![p] = n]
  PROVE  TimerRight'
  <1>1. /\ runner'[p] = Idle \/ (runner'[p] # Idle /\ UNCHANGED timer)
        /\ \A q \in Runners : q # p => runner'[q] = runner[q]
        /\ p = Tick /\ ~stopped /\ runner'[p] = Idle => timer'
        /\ p # Tick \/ stopped => timer' = timer
    BY DEF Finish, TypeOK
  <1>2. up
    BY DEF TimerRight
  <1>3. Tick \in Runners
    BY DEF Runners
  <1> QED BY <1>1, <1>2, <1>3 DEF TimerRight, TimerKept, TypeOK

LEMMA TimerKeeps ==
  ASSUME TypeOK, TimerRight, [Next]_vars
  PROVE  TimerRight'
  <1>i. Idle.pc = "idle"
    BY DEF Idle
  <1>1. ASSUME NEW p \in Runners, Step(p) PROVE TimerRight'
    <2>1. runner[p] # Idle /\ UNCHANGED <<stopped, up>>
      BY <1>1, <1>i DEF Step, ReadSettings, List, Mark, Send, Sent, Failed
    <2>2. ASSUME NEW pc \in Steps \ {"idle"}, Goto(p, pc), UNCHANGED timer PROVE TimerRight'
      <3> DEFINE n == [runner[p] EXCEPT !.pc = pc]
      <3>1. runner[p] \in Runner
        BY DEF TypeOK
      <3>2. n.pc = pc
        BY <3>1 DEF Runner
      <3>3. runner' = [runner EXCEPT ![p] = n]
        BY <2>2 DEF Goto, TypeOK
      <3>4. n # Idle
        BY <3>2, <1>i
      <3> QED BY <2>1, <2>2, <3>3, <3>4, TimerStep
    <2>3. ASSUME NEW todo, NextRow(p, todo) PROVE TimerRight'
      <3>1. [pc |-> "mark", todo |-> todo, item |-> None] # Idle
        BY <1>i
      <3> QED BY <2>1, <2>3, <3>1, TimerStep DEF NextRow
    <2>4. CASE Finish(p)
      BY <2>1, <2>4, TimerStep
    <2>5. CASE ReadSettings(p)
      BY <2>2, <2>4, <2>5 DEF ReadSettings, Steps
    <2>6. CASE List(p)
      BY <2>3, <2>4, <2>6 DEF List
    <2>7. CASE Mark(p)
      <3> DEFINE r == Min(runner[p].todo)
                 n == [pc |-> "send", todo |-> runner[p].todo \ {r}, item |-> r]
      <3>1. n # Idle
        BY <1>i
      <3>2. CASE runner' = [runner EXCEPT ![p] = n] /\ UNCHANGED timer
        <4> HIDE DEF n
        <4> QED BY <2>1, <3>1, <3>2, TimerStep
      <3> QED BY <2>3, <2>4, <2>7, <3>2, TypeOK DEF Mark, TypeOK
    <2>8. CASE Send(p)
      BY <2>2, <2>8 DEF Send, Steps
    <2>9. CASE Sent(p)
      BY <2>2, <2>3, <2>9 DEF Sent, Steps
    <2>10. CASE Failed(p)
      BY <2>3, <2>4, <2>10 DEF Failed
    <2> QED BY <1>1, <2>5, <2>6, <2>7, <2>8, <2>9, <2>10 DEF Step
  <1>2. ASSUME NEW pc \in {"status", "settings"}, NEW p \in Runners, up, Goto(p, pc)
        PROVE  runner'[p] # Idle /\ \A q \in Runners : q # p => runner'[q] = runner[q]
    <2>1. runner'[p].pc = pc
      BY <1>2 DEF Goto, TypeOK, Runner
    <2> QED BY <1>2, <2>1, <1>i DEF Goto, TypeOK
  <1>3. CASE Fire
    BY <1>2, <1>3 DEF Fire, TimerRight, TimerKept, Runners, Tick
  <1>4. CASE Call
    BY <1>2, <1>4 DEF Call, TimerRight, TimerKept, Runners, Tick
  <1>5. CASE Switch \/ Stop
    BY <1>5 DEF Switch, Stop, TimerRight, TimerKept
  <1>6. CASE Exit \/ Restart
    BY <1>6 DEF Exit, Restart, TimerRight, TimerKept, Runners
  <1>7. ASSUME NEW r \in Rows, Create(r) \/ Due(r) PROVE TimerRight'
    BY <1>7 DEF Create, Due, TimerRight, TimerKept
  <1>8. CASE UNCHANGED vars
    BY <1>8 DEF vars, TimerRight, TimerKept
  <1> QED BY <1>1, <1>3, <1>4, <1>5, <1>6, <1>7, <1>8 DEF Next
-----------------------------------------------------------------------------
LEMMA InitIInv == Init => IInv
  <1> SUFFICES ASSUME Init PROVE IInv
    OBVIOUS
  <1>1. TypeOK
    <2>1. Idle \in Runner /\ Idle.item = None /\ Idle.pc = "idle"
      BY DEF Idle, Runner, Steps
    <2>2. row \in [Rows -> Row]
      BY DEF Init, Row, Statuses
    <2>3. accepted \in [Rows -> Nat] /\ settings \in Modes
      BY DEF Init, Modes
    <2>4. runner \in [Runners -> Runner] /\ \A p \in Runners : runner[p] = Idle
      BY <2>1 DEF Init
    <2>5. \A p \in Runners :
            /\ runner[p].item # None <=> runner[p].pc \in {"send", "sent", "failed"}
            /\ runner[p].pc = "mark" => runner[p].todo # {}
      BY <2>1, <2>4
    <2>6. errors \in Nat /\ calls \in Nat /\ stops \in Nat /\ switches \in Nat
      BY DEF Init
    <2>7. timer \in BOOLEAN /\ stopped \in BOOLEAN /\ up \in BOOLEAN
      BY DEF Init
    <2> QED BY <2>2, <2>3, <2>4, <2>5, <2>6, <2>7 DEF TypeOK
  <1>2. \A p \in Runners, r \in Rows : ~Holds(p, r)
    BY OutboxAssumption DEF Init, Holds, Idle, None
  <1>3. OneSender /\ Ownership
    BY <1>2 DEF OneSender, Ownership
  <1>4. Paid /\ SentOnce /\ AttemptsBounded
    BY OutboxAssumption DEF Init, Paid, SentOnce, AttemptsBounded
  <1> QED BY <1>1, <1>3, <1>4 DEF IInv

LEMMA NextIInv ==
  ASSUME IInv, TimerRight, [Next]_vars
  PROVE  IInv'
  <1>t. TypeOK
    BY DEF IInv
  <1>1. ASSUME NEW p \in Runners, Step(p) PROVE IInv'
    BY <1>1, ReadSettingsKeeps, ListKeeps, MarkKeeps, SendKeeps, SentKeeps, FailedKeeps DEF Step
  <1>2. ASSUME NEW r \in Rows, Create(r) PROVE IInv'
    <2> DEFINE x == [row[r] EXCEPT !.status = "pending"]
    <2>1. row[r] \in Row
      BY <1>t DEF TypeOK
    <2>2. /\ x \in Row /\ x.attempts = row[r].attempts /\ x.log = row[r].log
          /\ x.status = "pending" /\ row[r].status = "none"
      BY <1>2, <2>1 DEF Create, Row, Statuses
    <2>3. row' = [row EXCEPT ![r] = x]
      BY <1>2, <1>t DEF Create, TypeOK
    <2> HIDE DEF x
    <2> QED BY <1>2, <2>2, <2>3, RowKept DEF Create
  <1>3. ASSUME NEW r \in Rows, Due(r) PROVE IInv'
    <2> DEFINE x == [row[r] EXCEPT !.due = TRUE]
    <2>1. row[r] \in Row
      BY <1>t DEF TypeOK
    <2>2. /\ x \in Row /\ x.attempts = row[r].attempts /\ x.log = row[r].log
          /\ x.status = row[r].status
      BY <2>1 DEF Row
    <2>3. row' = [row EXCEPT ![r] = x]
      BY <1>3, <1>t DEF Due, TypeOK
    <2>4. UNCHANGED <<settings, runner, timer, stopped, up, accepted, counts>>
      BY <1>3 DEF Due
    <2> HIDE DEF x
    <2> QED BY <2>2, <2>3, <2>4, RowKept
  <1>4. ASSUME NEW p \in Runners, NEW pc \in {"status", "settings"}, Goto(p, pc),
               runner[p].item = None, UNCHANGED <<row, accepted, errors>>,
               timer' \in BOOLEAN, UNCHANGED <<settings, stopped, up>>,
               calls' \in Nat /\ stops' \in Nat /\ switches' \in Nat
        PROVE  IInv'
    <2> DEFINE n == [runner[p] EXCEPT !.pc = pc]
    <2>1. runner[p] \in Runner
      BY <1>t DEF TypeOK
    <2>2. n \in Runner /\ n.item = None /\ n.pc = pc
      BY <1>4, <2>1 DEF Runner, Steps
    <2>3. runner' = [runner EXCEPT ![p] = n]
      BY <1>4, <1>t DEF Goto, TypeOK
    <2>4. /\ settings' \in Modes /\ stopped' \in BOOLEAN /\ up' \in BOOLEAN
          /\ n.pc \in {"idle", "status", "settings", "list", "mark"} /\ n.pc # "mark"
      BY <1>4, <1>t, <2>2 DEF TypeOK
    <2> HIDE DEF n
    <2> QED BY <1>4, <2>2, <2>3, <2>4, EmptyHanded
  <1>5. CASE Fire
    <2>1. CASE stopped
      BY <1>5, <1>t, <2>1, EmailsKept DEF Fire, TypeOK, counts
    <2>2. CASE ~stopped
      <3>1. runner[Tick].item = None
        BY <1>5 DEF Fire, TimerRight, Idle
      <3>2. /\ timer' = FALSE /\ Goto(Tick, "status")
            /\ UNCHANGED <<row, settings, stopped, up, accepted, errors, calls, stops, switches>>
        BY <1>5, <2>2 DEF Fire, TimerRight, counts
      <3> QED BY <1>4, <1>t, <3>1, <3>2 DEF TypeOK, Runners
    <2> QED BY <2>1, <2>2
  <1>6. CASE Call
    <2>1. runner["call"].item = None
      BY <1>6 DEF Call, Idle
    <2> QED BY <1>4, <1>6, <1>t, <2>1 DEF Call, TypeOK, Runners
  <1>7. CASE Switch \/ Stop \/ Exit \/ Restart
    <2>1. CASE Switch
      BY <1>t, <2>1, EmailsKept DEF Switch, TypeOK
    <2>2. CASE Stop
      <3>1. /\ UNCHANGED <<row, accepted, errors, runner, settings, up, calls, switches>>
            /\ timer' = FALSE /\ stopped' = TRUE /\ stops' = stops + 1
        BY <2>2 DEF Stop
      <3>2. settings' \in Modes /\ up' \in BOOLEAN
        BY <1>t, <3>1 DEF TypeOK
      <3>3. timer' \in BOOLEAN /\ stopped' \in BOOLEAN
        BY <3>1
      <3>4. calls' \in Nat /\ stops' \in Nat /\ switches' \in Nat
        BY <1>t, <3>1 DEF TypeOK
      <3> QED BY <3>1, <3>2, <3>3, <3>4, EmailsKept
    <2>3. CASE Exit
      BY <1>t, <2>3, EmailsKept DEF Exit, TypeOK, counts
    <2>4. CASE Restart
      BY <1>t, <2>4, EmailsKept DEF Restart, TypeOK, counts
    <2> QED BY <1>7, <2>1, <2>2, <2>3, <2>4
  <1>8. CASE UNCHANGED vars
    BY <1>8, <1>t, EmailsKept DEF vars, TypeOK, counts
  <1> QED BY <1>1, <1>2, <1>3, <1>5, <1>6, <1>7, <1>8 DEF Next

LEMMA Invariance == Spec => [](IInv /\ TimerRight)
  <1>1. Init => IInv /\ TimerRight
    BY InitIInv DEF Init, TimerRight, TimerKept, Runners
  <1>2. IInv /\ TimerRight /\ [Next]_vars => (IInv /\ TimerRight)'
    BY NextIInv, TimerKeeps DEF IInv
  <1> QED BY <1>1, <1>2, PTL DEF Spec

-----------------------------------------------------------------------------
(* Who sends an email that says "sending".                                  *)

\* A processor that is stopped was stopped by somebody.
StopsCounted == stopped => stops > 0

\* A runner that goes on lets go of its own email only.
LEMMA OthersHold ==
  ASSUME IInv, NEW p \in Runners, Step(p), NEW r \in Rows, Held(r), ~Holds(p, r)
  PROVE  Held(r)'
  <1>1. PICK q \in Runners : Holds(q, r) /\ q # p
    BY DEF Held
  <1>2. runner'[q] = runner[q]
    BY <1>1 DEF Step, ReadSettings, List, Mark, Send, Sent, Failed, Goto, Finish, NextRow,
       IInv, TypeOK
  <1>3. Holds(q, r)'
    BY <1>1, <1>2 DEF Holds
  <1> QED BY <1>3 DEF Held

LEMMA SendingStep ==
  ASSUME IInv, SendingIsHeld, NEW p \in Runners, Step(p), NEW r \in Rows,
         row'[r].status = "sending", errors' = 0, stops' = 0
  PROVE  Held(r)'
  <1>1. errors = 0 /\ stops = 0 /\ NoFault
    BY DEF Step, ReadSettings, List, Mark, Send, Sent, Failed, Fault, NoFault, IInv, TypeOK
  <1>2. ~Fault
    BY <1>1 DEF Fault, NoFault, IInv, TypeOK
  <1>3. row[r].status = "sending" => Held(r)
    BY <1>1 DEF SendingIsHeld
  <1>4. r # None /\ row[r] \in Row
    BY OutboxAssumption DEF None, IInv, TypeOK
  <1>5. CASE ReadSettings(p) \/ List(p)
    <2>1. row' = row /\ ~Holds(p, r)
      BY <1>4, <1>5 DEF ReadSettings, List, Holds, IInv, TypeOK
    <2> QED BY <1>3, <2>1, OthersHold
  <1>6. CASE Mark(p)
    <2> DEFINE m == Min(runner[p].todo)
    <2>1. ~Holds(p, r)
      BY <1>4, <1>6 DEF Mark, Holds, IInv, TypeOK
    <2>2. CASE row' = row
      BY <1>3, <2>1, <2>2, OthersHold
    <2>3. CASE /\ MarkSending(m)
               /\ runner' = [runner EXCEPT ![p] = [pc |-> "send", todo |-> runner[p].todo \ {m}, item |-> m]]
      <3>1. r # m => row'[r] = row[r]
        BY <2>3 DEF MarkSending, IInv, TypeOK
      <3>2. r = m => Holds(p, r)'
        BY <2>3 DEF Holds, IInv, TypeOK
      <3>3. r = m => Held(r)'
        BY <3>2 DEF Held
      <3> QED BY <1>3, <2>1, <3>1, <3>3, OthersHold
    <2> QED BY <1>2, <1>6, <2>2, <2>3 DEF Mark
  <1>7. CASE Send(p)
    <2>1. row' = row /\ (Goto(p, "sent") \/ Goto(p, "failed"))
      BY <1>7 DEF Send
    <2>2. runner[p] \in Runner
      BY DEF IInv, TypeOK
    <2>3. Holds(p, r) => Holds(p, r)'
      BY <2>1, <2>2 DEF Goto, Holds, Runner, IInv, TypeOK
    <2>4. Holds(p, r) => Held(r)'
      BY <2>3 DEF Held
    <2> QED BY <1>3, <2>1, <2>4, OthersHold
  <1>8. CASE Sent(p) \/ Failed(p)
    <2> DEFINE m == runner[p].item
    <2>1. m \in Rows /\ (MarkSent(m) \/ MarkFailed(m))
      <3>1. runner[p].pc \in {"send", "sent", "failed"}
        BY <1>8 DEF Sent, Failed
      <3>2. m \in Rows
        BY <3>1, HeldRow
      <3> QED BY <1>2, <1>8, <3>2 DEF Sent, Failed
    <2>2. r = m => row'[r].status # "sending"
      BY <2>1 DEF MarkSent, MarkFailed, IInv, TypeOK
    <2>3. r # m => row'[r] = row[r] /\ ~Holds(p, r)
      BY <2>1 DEF MarkSent, MarkFailed, Holds, IInv, TypeOK
    <2> HIDE DEF m
    <2> QED BY <1>3, <2>2, <2>3, OthersHold
  <1> QED BY <1>5, <1>6, <1>7, <1>8 DEF Step

LEMMA SendingKeeps ==
  ASSUME IInv, SendingIsHeld, StopsCounted, [Next]_vars
  PROVE  (SendingIsHeld /\ StopsCounted)'
  <1>t. TypeOK
    BY DEF IInv
  <1>1. ASSUME NEW p \in Runners, Step(p) PROVE (SendingIsHeld /\ StopsCounted)'
    <2>1. SendingIsHeld'
      BY <1>1, SendingStep DEF SendingIsHeld
    <2>2. UNCHANGED <<stopped, stops>>
      BY <1>1 DEF Step, ReadSettings, List, Mark, Send, Sent, Failed
    <2> QED BY <2>1, <2>2 DEF StopsCounted
  \* The rows that are being sent stay so, and whoever holds one keeps it.
  <1>2. ASSUME errors' >= errors, stops' >= stops, StopsCounted',
               \A r \in Rows : row'[r].status = "sending" => row[r].status = "sending",
               \A p \in Runners : runner'[p].item = runner[p].item
        PROVE  (SendingIsHeld /\ StopsCounted)'
    <2>1. errors \in Nat /\ stops \in Nat
      BY <1>t DEF TypeOK
    <2>2. ASSUME NEW r \in Rows, row'[r].status = "sending", errors' = 0, stops' = 0
          PROVE  Held(r)'
      <3>1. Held(r)
        BY <1>2, <2>1, <2>2 DEF SendingIsHeld
      <3>2. PICK p \in Runners : Holds(p, r)
        BY <3>1 DEF Held
      <3>3. Holds(p, r)'
        BY <1>2, <3>2 DEF Holds
      <3> QED BY <3>3 DEF Held
    <2> QED BY <1>2, <2>2 DEF SendingIsHeld
  <1>3. errors \in Nat /\ stops \in Nat /\ errors >= errors /\ stops >= stops
    BY <1>t DEF TypeOK
  <1>4. ASSUME NEW r \in Rows, Create(r) \/ Due(r) PROVE (SendingIsHeld /\ StopsCounted)'
    <2>1. UNCHANGED <<runner, stopped, errors, stops>>
      BY <1>4 DEF Create, Due, counts
    <2>2. \A x \in Rows : row'[x].status = "sending" => row[x].status = "sending"
      BY <1>4, <1>t DEF Create, Due, TypeOK, Row
    <2> QED BY <1>2, <1>3, <2>1, <2>2 DEF StopsCounted
  <1>5. CASE Fire \/ Call
    <2>1. /\ UNCHANGED <<row, stopped, errors, stops>>
          /\ \/ runner' = runner
             \/ Goto(Tick, "status") \/ Goto("call", "settings")
      BY <1>5 DEF Fire, Call, counts
    <2>2. \A p \in Runners : runner'[p].item = runner[p].item
      BY <1>t, <2>1 DEF Goto, TypeOK, Runner
    <2> QED BY <1>2, <1>3, <2>1, <2>2 DEF StopsCounted
  <1>6. CASE Switch \/ Restart \/ UNCHANGED vars
    <2>1. UNCHANGED <<row, runner, errors, stops>> /\ (stopped' => stopped)
      BY <1>6 DEF Switch, Restart, vars, counts
    <2> QED BY <1>2, <1>3, <2>1 DEF StopsCounted
  <1>7. CASE Stop
    <2>1. UNCHANGED <<row, runner, errors>> /\ stops' = stops + 1
      BY <1>7 DEF Stop
    <2> QED BY <1>2, <1>3, <2>1 DEF StopsCounted
  <1>8. CASE Exit
    <2>1. stops > 0 /\ UNCHANGED <<stopped, stops>>
      BY <1>8 DEF Exit, StopsCounted, counts
    <2> QED BY <1>3, <2>1 DEF StopsCounted, SendingIsHeld
  <1> QED BY <1>1, <1>4, <1>5, <1>6, <1>7, <1>8 DEF Next
-----------------------------------------------------------------------------
(* The theorems.                                                            *)

\* No runner has an email in its hands but to send it, and no list is empty when its next
\* row is marked (processEmailOutbox).
THEOREM OutboxTypes == Spec => []TypeOK
  <1>1. IInv => TypeOK
    BY DEF IInv
  <1> QED BY <1>1, Invariance, PTL

\* The tick and the API call never work on the same email, whatever statements fail and
\* whenever the process is stopped.
THEOREM NoTwoSenders == Spec => []OneSender
  <1>1. IInv => OneSender
    BY DEF IInv
  <1> QED BY <1>1, Invariance, PTL

\* An email goes out once, but for one more time for every fault.
THEOREM SentAtMostOnce == Spec => []SentOnce
  <1>1. IInv => SentOnce
    BY DEF IInv
  <1> QED BY <1>1, Invariance, PTL

\* The attempts counted are those recorded, and no more than max_attempts, but for one
\* after a fault.
THEOREM AttemptsAreBounded == Spec => []AttemptsBounded
  <1>1. IInv => AttemptsBounded
    BY DEF IInv
  <1> QED BY <1>1, Invariance, PTL

\* While the processor runs it has its timer or its tick, and not both; once stopped it
\* has no timer.
THEOREM OneTimer == Spec => []TimerKept
  <1>1. TimerRight => TimerKept
    BY DEF TimerRight
  <1> QED BY <1>1, Invariance, PTL

\* While nothing fails and the process is not stopped, a row says "sending" only while a
\* runner has it in its hands: markSending, markSent and markFailed leave none behind.
THEOREM NoRowIsForgotten == Spec => []SendingIsHeld
  <1>1. Init => SendingIsHeld /\ StopsCounted
    BY DEF Init, SendingIsHeld, StopsCounted
  <1>2. IInv /\ SendingIsHeld /\ StopsCounted /\ [Next]_vars => (SendingIsHeld /\ StopsCounted)'
    BY SendingKeeps
  <1> QED BY <1>1, <1>2, Invariance, PTL DEF Spec
=============================================================================
