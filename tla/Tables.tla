------------------------------- MODULE Tables -------------------------------
(***************************************************************************)
(* The PostgreSQL tables of users, roles, permissions and departments, and *)
(* the way a request handler works on them.  A handler runs its statements *)
(* one at a time, each on its own (autocommit, READ COMMITTED), and other  *)
(* handlers run between any two of them: a step of a model that EXTENDS    *)
(* this module is one statement with the JavaScript up to the next await.  *)
(* A check whose argument the payload leaves out is a step without effect. *)
(* There is one tenant, and a row's columns are those its checks look at.  *)
(***************************************************************************)
EXTENDS Naturals, Sequences, FiniteSets

CONSTANTS
  Handlers,     \* requests that may be in progress at the same time
  Words,        \* user names and local parts of addresses, but for their case
  Cards,        \* corporate card numbers
  RoleNames, Codes, Resources, Actions,
  Databases,    \* the contents the tables may start with
  Menus,        \* the sets of requests that are made against each other
  MaxRequests   \* bound on the number of requests

VARIABLES
  db,           \* the tables
  call,         \* handler -> its request, its next statement, what it read
  menu,         \* the requests that are made
  left          \* how many more requests are made

vars == <<db, call, menu, left>>

\* The function f, with the value v at x.
With(f, x, v) == [y \in DOMAIN f \cup {x} |-> IF y = x THEN v ELSE f[y]]

Ids == Nat \ {0}
NULL == 0   \* a reference to no row

\* Addresses and user names, which some checks compare as they are written and
\* others in lower case.
Names == Words \X {"lower", "mixed"}
Lower(n) == <<n[1], "lower">>

UserRow ==
  [email: Names, username: Names, card: Cards \cup {NULL}, active: BOOLEAN,
   deleted: BOOLEAN, status: {"IMPORTED", "ACTIVE"}, activated: BOOLEAN,
   assignment: Ids \cup {NULL}]
RoleRow == [name: RoleNames, system: BOOLEAN, active: BOOLEAN, deleted: BOOLEAN]
PermissionRow ==
  [resource: Resources, action: Actions, system: BOOLEAN, deleted: BOOLEAN]
UserRoleRow(d) ==
  [user: DOMAIN d.user, role: DOMAIN d.role, active: BOOLEAN, deleted: BOOLEAN]
RolePermissionRow(d) ==
  [role: DOMAIN d.role, permission: DOMAIN d.permission, deleted: BOOLEAN]
UserPermissionRow(d) ==
  [user: DOMAIN d.user, permission: DOMAIN d.permission, granted: BOOLEAN,
   deleted: BOOLEAN]
DepartmentRow == [code: Codes, active: BOOLEAN]
TemplateRow == [code: Codes, active: BOOLEAN, deleted: BOOLEAN]
AssignmentRow ==
  [department: Ids, template: Ids \cup {NULL}, code: Codes, active: BOOLEAN]
AuditRow == [user: Ids, by: Ids, old: Names, new: Names]

TableNames ==
  {"user", "role", "permission", "userRole", "rolePermission", "userPermission",
   "department", "template", "assignment", "audit", "serial"}
\* The ids of rows have been given out: serial is the last one.
TableOf(d, t, Row) == DOMAIN t \subseteq 1 .. d.serial /\ \A i \in DOMAIN t : t[i] \in Row

\* The rows of d have the types of their columns and refer to rows that exist.
WellFormed(d) ==
  /\ DOMAIN d = TableNames
  /\ d.serial \in Nat
  /\ TableOf(d, d.user, UserRow)
  /\ TableOf(d, d.role, RoleRow)
  /\ TableOf(d, d.permission, PermissionRow)
  /\ d.userRole \in Seq(UserRoleRow(d))
  /\ d.rolePermission \in Seq(RolePermissionRow(d))
  /\ d.userPermission \in Seq(UserPermissionRow(d))
  /\ TableOf(d, d.department, DepartmentRow)
  /\ TableOf(d, d.template, TemplateRow)
  /\ TableOf(d, d.assignment, AssignmentRow)
  /\ d.audit \in Seq(AuditRow)

----------------------------------------------------------------------------
(* Constraints of the schema *)

\* No two rows of t among those the index covers agree on key.
UniqueIndex(t, Covers(_), Key(_)) ==
  \A i, j \in DOMAIN t :
    Covers(t[i]) /\ Covers(t[j]) /\ Key(t[i]) = Key(t[j]) => i = j

Live(row) == ~row.deleted

\* What PostgreSQL checks after a statement: a statement that would break it
\* fails and changes nothing.
Consistent(d) ==
  /\ UniqueIndex(d.user, Live, LAMBDA r : r.email)
  /\ UniqueIndex(d.user, Live, LAMBDA r : r.username)
  /\ UniqueIndex(d.role, Live, LAMBDA r : r.name)
  /\ UniqueIndex(d.permission, Live, LAMBDA r : <<r.resource, r.action>>)
  /\ UniqueIndex(d.department, LAMBDA r : TRUE, LAMBDA r : r.code)
  /\ UniqueIndex(d.template, Live, LAMBDA r : r.code)
  /\ UniqueIndex(d.userRole, LAMBDA r : r.active /\ ~r.deleted,
                 LAMBDA r : <<r.user, r.role>>)
  /\ \A u \in DOMAIN d.user :
       d.user[u].assignment \in DOMAIN d.assignment \cup {NULL}
  /\ \A a \in DOMAIN d.assignment :
       /\ d.assignment[a].department \in DOMAIN d.department
       /\ d.assignment[a].template \in DOMAIN d.template \cup {NULL}

ASSUME MaxRequestsAssumption == MaxRequests \in Nat
ASSUME DatabasesAssumption == \A d \in Databases : WellFormed(d) /\ Consistent(d)

----------------------------------------------------------------------------
(* Statements *)

\* A new row gets an id that no row had before.
Fresh(d) == d.serial + 1
Inserted(t, id, row) == With(t, id, row)
Remaining(t, ids) == [i \in DOMAIN t \ ids |-> t[i]]

\* LIMIT 1 without ORDER BY: any of the rows found, or none (NULL).
AnyOf(rows) == IF rows = {} THEN {NULL} ELSE rows

\* Users that a read of the column finds.
UsersWith(d, column, value) == {u \in DOMAIN d.user : d.user[u][column] = value}
LiveUsers(d) == {u \in DOMAIN d.user : ~d.user[u].deleted}

----------------------------------------------------------------------------
(* Handlers *)

NoRequest == [op |-> "none"]
Idle == [req |-> NoRequest, pc |-> "idle", saw |-> << >>]
At(h, op, pc) == call[h].req.op = op /\ call[h].pc = pc
Given(h, field) == field \in DOMAIN call[h].req

\* The handler h has come to c, and nothing else moves but the tables.
Moves(h, c) == call' = [call EXCEPT ![h] = c] /\ UNCHANGED <<menu, left>>
\* It goes on with statement pc, or answers.
Goto(h, pc) == Moves(h, IF pc = "done" THEN Idle ELSE [call[h] EXCEPT !.pc = pc])
Refuse(h) == Moves(h, Idle) /\ UNCHANGED db

\* A read: the handler goes on if what it finds is in order.
Check(h, ok, pc) == IF ok THEN Goto(h, pc) /\ UNCHANGED db ELSE Refuse(h)

\* A statement whose result v a later one relies on.
Noted(h, guard, v, pc) ==
  Moves(h, [call[h] EXCEPT !.pc = pc, !.saw = With(@, guard, v)])
Read(h, guard, v, ok, pc) ==
  IF ok THEN Noted(h, guard, v, pc) /\ UNCHANGED db ELSE Refuse(h)

\* A write that makes the tables d.
Write(h, d, pc) ==
  IF Consistent(d) THEN db' = d /\ Goto(h, pc) ELSE Refuse(h)

\* Schemas: the fields a payload has to have, and the values of those it may have.
Required(r, fields) == fields \subseteq DOMAIN r
Optional(r, field, S) == field \in DOMAIN r => r[field] \in S

Payloads(op) == {r \in menu : r.op = op}

\* An API method is called with one of the payloads that pass its schema; by, where the
\* method adds it, is the user of the session.
Begin(h, valid) ==
  /\ call[h] = Idle
  /\ left > 0
  /\ \E r \in valid :
       call' = [call EXCEPT ![h] = [req |-> r, pc |-> "start", saw |-> << >>]]
  /\ left' = left - 1
  /\ UNCHANGED <<db, menu>>

Init ==
  /\ db \in Databases
  /\ call = [h \in Handlers |-> Idle]
  /\ menu \in Menus
  /\ left = MaxRequests
=============================================================================
