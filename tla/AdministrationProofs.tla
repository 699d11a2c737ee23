------------------------ MODULE AdministrationProofs ------------------------
(***************************************************************************)
(* Theorems about Administration: what the tables keep whatever requests   *)
(* are made and however their statements interleave.                       *)
(***************************************************************************)
EXTENDS Administration, FiniteSetTheorems, TLAPS

----------------------------------------------------------------------------
(* Rows and tables *)

\* The result v is noted, and what was noted before is still there.
LEMMA NoteIs ==
  ASSUME NEW s, NEW g, NEW v
  PROVE  /\ g \in DOMAIN With(s, g, v)
         /\ With(s, g, v)[g] = v
         /\ \A y \in DOMAIN s : y \in DOMAIN With(s, g, v)
         /\ \A y : y # g /\ y \in DOMAIN With(s, g, v) => y \in DOMAIN s
         /\ \A y \in DOMAIN s : y # g => With(s, g, v)[y] = s[y]
BY DEF With

LEMMA SeqGrows ==
  ASSUME NEW S, NEW T, S \subseteq T, NEW s \in Seq(S)
  PROVE  s \in Seq(T)
OBVIOUS

LEMMA SeqIs ==
  ASSUME NEW S, NEW s \in Seq(S)
  PROVE  /\ Len(s) \in Nat
         /\ DOMAIN s = 1 .. Len(s)
         /\ \A i \in DOMAIN s : s[i] \in S
OBVIOUS

LEMMA AppendIs ==
  ASSUME NEW S, NEW s \in Seq(S), NEW e
  PROVE  /\ DOMAIN Append(s, e) = DOMAIN s \cup {Len(s) + 1}
         /\ Len(s) + 1 \notin DOMAIN s
         /\ \A i \in DOMAIN s : Append(s, e)[i] = s[i]
         /\ Append(s, e)[Len(s) + 1] = e
         /\ \A T : S \subseteq T /\ e \in T => Append(s, e) \in Seq(T)
OBVIOUS

LEMMA MapIs ==
  ASSUME NEW S, NEW s \in Seq(S), NEW T, NEW m \in [DOMAIN s -> T]
  PROVE  m \in Seq(T)
OBVIOUS

\* What a statement leaves alone stays well-formed: no user, role or permission goes.
LEMMA OtherTables ==
  ASSUME NEW d, NEW e, WellFormed(d), DOMAIN e = TableNames,
         e.serial \in Nat, d.serial <= e.serial,
         DOMAIN d.user \subseteq DOMAIN e.user, DOMAIN d.role \subseteq DOMAIN e.role,
         DOMAIN d.permission \subseteq DOMAIN e.permission
  PROVE  /\ e.user = d.user => TableOf(e, e.user, UserRow)
         /\ e.role = d.role => TableOf(e, e.role, RoleRow)
         /\ e.permission = d.permission => TableOf(e, e.permission, PermissionRow)
         /\ e.userRole = d.userRole => e.userRole \in Seq(UserRoleRow(e))
         /\ e.rolePermission = d.rolePermission => e.rolePermission \in Seq(RolePermissionRow(e))
         /\ e.userPermission = d.userPermission => e.userPermission \in Seq(UserPermissionRow(e))
         /\ e.department = d.department => TableOf(e, e.department, DepartmentRow)
         /\ e.template = d.template => TableOf(e, e.template, TemplateRow)
         /\ e.assignment = d.assignment => TableOf(e, e.assignment, AssignmentRow)
         /\ e.audit = d.audit => e.audit \in Seq(AuditRow)
<1>1. d.serial \in Nat /\ 1 .. d.serial \subseteq 1 .. e.serial
  BY DEF WellFormed
<1>2. UserRoleRow(d) \subseteq UserRoleRow(e)
  BY DEF UserRoleRow
<1>3. RolePermissionRow(d) \subseteq RolePermissionRow(e)
  BY DEF RolePermissionRow
<1>4. UserPermissionRow(d) \subseteq UserPermissionRow(e)
  BY DEF UserPermissionRow
<1>5. /\ e.userRole = d.userRole => e.userRole \in Seq(UserRoleRow(e))
      /\ e.rolePermission = d.rolePermission => e.rolePermission \in Seq(RolePermissionRow(e))
      /\ e.userPermission = d.userPermission => e.userPermission \in Seq(UserPermissionRow(e))
  <2> HIDE DEF UserRoleRow, RolePermissionRow, UserPermissionRow
  <2> QED BY <1>2, <1>3, <1>4, SeqGrows DEF WellFormed
<1>6. /\ e.user = d.user => TableOf(e, e.user, UserRow)
      /\ e.role = d.role => TableOf(e, e.role, RoleRow)
      /\ e.permission = d.permission => TableOf(e, e.permission, PermissionRow)
  BY <1>1 DEF WellFormed, TableOf
<1>7. /\ e.department = d.department => TableOf(e, e.department, DepartmentRow)
      /\ e.template = d.template => TableOf(e, e.template, TemplateRow)
      /\ e.assignment = d.assignment => TableOf(e, e.assignment, AssignmentRow)
  BY <1>1 DEF WellFormed, TableOf
<1> QED
  BY <1>5, <1>6, <1>7 DEF WellFormed

\* No statement takes away a user, a role, a permission or a template, or what a row of
\* the tables between them is about; what is protected as a system role stays as it is.
Grows(d, e) ==
  /\ DOMAIN d.user \subseteq DOMAIN e.user
  /\ DOMAIN d.role \subseteq DOMAIN e.role
  /\ DOMAIN d.permission \subseteq DOMAIN e.permission
  /\ DOMAIN d.template \subseteq DOMAIN e.template
  /\ \A i \in DOMAIN d.userRole :
       /\ i \in DOMAIN e.userRole
       /\ e.userRole[i].user = d.userRole[i].user /\ e.userRole[i].role = d.userRole[i].role
  /\ \A i \in DOMAIN d.rolePermission :
       /\ i \in DOMAIN e.rolePermission
       /\ e.rolePermission[i].role = d.rolePermission[i].role
       /\ e.rolePermission[i].permission = d.rolePermission[i].permission
  /\ \A i \in DOMAIN d.userPermission :
       /\ i \in DOMAIN e.userPermission
       /\ e.userPermission[i].user = d.userPermission[i].user
       /\ e.userPermission[i].permission = d.userPermission[i].permission
  /\ \A i \in DOMAIN d.role :
       /\ e.role[i].system = d.role[i].system
       /\ d.role[i].system => e.role[i].name = d.role[i].name
                              /\ e.role[i].deleted = d.role[i].deleted
       /\ d.role[i].deleted \/ e.role[i].deleted => e.role[i].name = d.role[i].name
  /\ \A i \in DOMAIN e.role \ DOMAIN d.role : ~e.role[i].deleted

LEMMA GrowsSame == ASSUME NEW d PROVE Grows(d, d)
BY DEF Grows

LEMMA GrowsSmaller ==
  ASSUME NEW d, NEW e,
         e.user = d.user \/ DOMAIN d.user \subseteq DOMAIN e.user,
         e.role = d.role, DOMAIN d.permission \subseteq DOMAIN e.permission,
         DOMAIN d.template \subseteq DOMAIN e.template,
         e.userRole = d.userRole, e.rolePermission = d.rolePermission,
         e.userPermission = d.userPermission
  PROVE  Grows(d, e)
BY DEF Grows

\* A statement that writes one table n.
OneTable(d, e, n) ==
  /\ DOMAIN e = TableNames
  /\ e.serial \in Nat /\ d.serial <= e.serial
  /\ \A m \in TableNames \ {n, "serial"} : e[m] = d[m]

LEMMA OneTableKeeps ==
  ASSUME NEW d, NEW e, NEW n \in TableNames \ {"serial"}, WellFormed(d), OneTable(d, e, n),
         n \in {"user", "role", "permission"} => DOMAIN d[n] \subseteq DOMAIN e[n],
         n = "user" => TableOf(e, e.user, UserRow),
         n = "role" => TableOf(e, e.role, RoleRow),
         n = "permission" => TableOf(e, e.permission, PermissionRow),
         n = "userRole" => e.userRole \in Seq(UserRoleRow(e)),
         n = "rolePermission" => e.rolePermission \in Seq(RolePermissionRow(e)),
         n = "userPermission" => e.userPermission \in Seq(UserPermissionRow(e)),
         n = "department" => TableOf(e, e.department, DepartmentRow),
         n = "template" => TableOf(e, e.template, TemplateRow),
         n = "assignment" => TableOf(e, e.assignment, AssignmentRow),
         n = "audit" => e.audit \in Seq(AuditRow)
  PROVE  WellFormed(e)
<1>1. /\ DOMAIN e = TableNames /\ e.serial \in Nat /\ d.serial <= e.serial
      /\ n # "user" => e.user = d.user
      /\ n # "role" => e.role = d.role
      /\ n # "permission" => e.permission = d.permission
      /\ n # "userRole" => e.userRole = d.userRole
      /\ n # "rolePermission" => e.rolePermission = d.rolePermission
      /\ n # "userPermission" => e.userPermission = d.userPermission
      /\ n # "department" => e.department = d.department
      /\ n # "template" => e.template = d.template
      /\ n # "assignment" => e.assignment = d.assignment
      /\ n # "audit" => e.audit = d.audit
  BY DEF OneTable, TableNames
<1>2. /\ DOMAIN d.user \subseteq DOMAIN e.user /\ DOMAIN d.role \subseteq DOMAIN e.role
      /\ DOMAIN d.permission \subseteq DOMAIN e.permission
  BY <1>1
<1> QED
  BY <1>1, <1>2, OtherTables DEF WellFormed

\* The tables of the statement, and of the ones whose rows it says nothing of.
LEMMA OneTableGrows ==
  ASSUME NEW d, NEW e, NEW n \in TableNames \ {"serial"}, OneTable(d, e, n),
         n \in {"user", "permission", "template"} => DOMAIN d[n] \subseteq DOMAIN e[n],
         n \notin {"role", "userRole", "rolePermission", "userPermission"}
  PROVE  Grows(d, e)
<1>1. /\ n # "user" => e.user = d.user
      /\ e.role = d.role
      /\ n # "permission" => e.permission = d.permission
      /\ e.userRole = d.userRole
      /\ e.rolePermission = d.rolePermission
      /\ e.userPermission = d.userPermission
      /\ n # "template" => e.template = d.template
  BY DEF OneTable, TableNames
<1>2. /\ DOMAIN d.user \subseteq DOMAIN e.user /\ DOMAIN d.permission \subseteq DOMAIN e.permission
      /\ DOMAIN d.template \subseteq DOMAIN e.template
  BY <1>1
<1> QED
  BY <1>1, <1>2, GrowsSmaller

\* UPDATE: the rows of table n become t.
LEMMA UpdateIs ==
  ASSUME NEW d, NEW n \in TableNames \ {"serial"}, NEW t, WellFormed(d)
  PROVE  LET e == [d EXCEPT ![n] = t] IN
         OneTable(d, e, n) /\ e[n] = t /\ e.serial = d.serial
BY DEF OneTable, WellFormed, TableNames

\* INSERT: the row gets an id that no row of t has.
Inserts(d, e, n, row) ==
  /\ DOMAIN e = TableNames
  /\ e.serial = Fresh(d)
  /\ e[n] = Inserted(d[n], Fresh(d), row)
  /\ \A m \in TableNames \ {n, "serial"} : e[m] = d[m]

LEMMA InsertIs ==
  ASSUME NEW d, NEW e, NEW n \in TableNames \ {"serial"}, NEW row, NEW Row, WellFormed(d),
         TableOf(d, d[n], Row), row \in Row, Inserts(d, e, n, row)
  PROVE  /\ OneTable(d, e, n)
         /\ Fresh(d) \in Ids /\ Fresh(d) \notin DOMAIN d[n]
         /\ DOMAIN e[n] = DOMAIN d[n] \cup {Fresh(d)}
         /\ e[n][Fresh(d)] = row
         /\ \A i \in DOMAIN d[n] : e[n][i] = d[n][i]
         /\ TableOf(e, e[n], Row)
<1>1. /\ d.serial \in Nat /\ Fresh(d) = d.serial + 1
      /\ DOMAIN d[n] \subseteq 1 .. d.serial /\ \A i \in DOMAIN d[n] : d[n][i] \in Row
  BY DEF WellFormed, Fresh, TableOf
<1>2. Fresh(d) \notin DOMAIN d[n] /\ Fresh(d) \in Ids
  BY <1>1 DEF Ids
<1>3. /\ DOMAIN e[n] = DOMAIN d[n] \cup {Fresh(d)} /\ e[n][Fresh(d)] = row
      /\ \A i \in DOMAIN d[n] : e[n][i] = d[n][i]
  BY <1>2 DEF Inserts, Inserted, With
<1>4. /\ e.serial = Fresh(d) /\ DOMAIN e = TableNames
      /\ \A m \in TableNames \ {n, "serial"} : e[m] = d[m]
  BY DEF Inserts
<1>5. OneTable(d, e, n)
  BY <1>1, <1>4 DEF OneTable
<1>6. TableOf(e, e[n], Row)
  BY <1>1, <1>3, <1>4 DEF TableOf
<1> QED
  BY <1>2, <1>3, <1>5, <1>6

----------------------------------------------------------------------------
(* Statements on users *)

LEMMA UserTable ==
  ASSUME NEW d, WellFormed(d), NEW t, DOMAIN t = DOMAIN d.user, \A i \in DOMAIN t : t[i] \in UserRow
  PROVE  LET e == [d EXCEPT !.user = t] IN
         WellFormed(e) /\ Grows(d, e) /\ OneTable(d, e, "user") /\ e.user = t
<1> DEFINE e == [d EXCEPT !.user = t]
<1>1. OneTable(d, e, "user") /\ e.user = t /\ e.serial = d.serial
  BY UpdateIs DEF TableNames
<1> HIDE DEF e
<1>2. TableOf(e, e.user, UserRow)
  BY <1>1 DEF WellFormed, TableOf
<1>3. WellFormed(e)
  BY <1>1, <1>2, OneTableKeeps DEF TableNames
<1>4. Grows(d, e)
  BY <1>1, OneTableGrows DEF TableNames
<1> QED
  BY <1>1, <1>3, <1>4 DEF e

\* UPDATE of these columns of the user u.
UserColumns ==
  {"email", "username", "card", "active", "deleted", "status", "activated", "assignment"}
UserWritten(d, e, u, columns) ==
  /\ OneTable(d, e, "user") /\ DOMAIN e.user = DOMAIN d.user /\ u \in DOMAIN d.user
  /\ \A v \in DOMAIN d.user \ {u} : e.user[v] = d.user[v]
  /\ \A f \in UserColumns \ columns : e.user[u][f] = d.user[u][f]

LEMMA UserRowWritten ==
  ASSUME NEW d, WellFormed(d), NEW u \in DOMAIN d.user, NEW columns, NEW row \in UserRow,
         \A f \in UserColumns \ columns : row[f] = d.user[u][f],
         NEW e, e = [d EXCEPT !.user = [d.user EXCEPT ![u] = row]]
  PROVE  WellFormed(e) /\ Grows(d, e) /\ UserWritten(d, e, u, columns) /\ e.user[u] = row
<1> DEFINE t == [d.user EXCEPT ![u] = row]
<1>1. DOMAIN t = DOMAIN d.user /\ \A i \in DOMAIN t : t[i] \in UserRow
  BY DEF WellFormed, TableOf
<1>2. t[u] = row /\ \A v \in DOMAIN d.user \ {u} : t[v] = d.user[v]
  OBVIOUS
<1>3. e = [d EXCEPT !.user = t]
  OBVIOUS
<1> HIDE DEF t
<1>4. WellFormed(e) /\ Grows(d, e) /\ OneTable(d, e, "user") /\ e.user = t
  <2> DEFINE f == [d EXCEPT !.user = t]
  <2>1. WellFormed(f) /\ Grows(d, f) /\ OneTable(d, f, "user") /\ f.user = t
    BY <1>1, UserTable
  <2>2. f = e
    BY <1>3
  <2> HIDE DEF f
  <2> QED
    BY <2>1, <2>2
<1> QED
  BY <1>1, <1>2, <1>4 DEF UserWritten

LEMMA deleteUserKeeps ==
  ASSUME NEW d, WellFormed(d), NEW u \in DOMAIN d.user
  PROVE  LET e == deleteUser(d, u) IN
         WellFormed(e) /\ Grows(d, e) /\ UserWritten(d, e, u, {"deleted"}) /\ e.user[u].deleted
<1> DEFINE row == [d.user[u] EXCEPT !.deleted = TRUE]
<1>1. deleteUser(d, u) = [d EXCEPT !.user = [d.user EXCEPT ![u] = row]]
  BY DEF deleteUser
<1>2. /\ row \in UserRow /\ row.deleted
      /\ \A f \in UserColumns \ {"deleted"} : row[f] = d.user[u][f]
  <2>1. d.user[u] \in UserRow
    BY DEF WellFormed, TableOf
  <2> QED
    BY <2>1 DEF UserRow, UserColumns
<1> HIDE DEF row
<1> QED
  BY <1>1, <1>2, UserRowWritten

LEMMA activateUserKeeps ==
  ASSUME NEW d, WellFormed(d), NEW u \in DOMAIN d.user, NEW on \in BOOLEAN
  PROVE  LET e == activateUser(d, u, on) IN
         WellFormed(e) /\ Grows(d, e) /\ UserWritten(d, e, u, {"active"}) /\ e.user[u].active = on
<1> DEFINE row == [d.user[u] EXCEPT !.active = on]
<1>1. activateUser(d, u, on) = [d EXCEPT !.user = [d.user EXCEPT ![u] = row]]
  BY DEF activateUser
<1>2. /\ row \in UserRow /\ row.active = on
      /\ \A f \in UserColumns \ {"active"} : row[f] = d.user[u][f]
  <2>1. d.user[u] \in UserRow
    BY DEF WellFormed, TableOf
  <2> QED
    BY <2>1 DEF UserRow, UserColumns
<1> HIDE DEF row
<1> QED
  BY <1>1, <1>2, UserRowWritten

\* A payload of the update, with the assignment looked up.
LEMMA updateUserKeeps ==
  ASSUME NEW d, WellFormed(d), NEW r, NEW fields \in SUBSET {"email", "username", "card", "assignment"},
         r.id \in DOMAIN d.user,
         "email" \in fields => r.email \in Names,
         "username" \in fields => r.username \in Names,
         "card" \in fields => r.card \in Cards \cup {NULL},
         "assignment" \in fields => r.assignment \in Ids \cup {NULL}
  PROVE  LET e == updateUser(d, r, fields) IN
         /\ WellFormed(e) /\ Grows(d, e)
         /\ UserWritten(d, e, r.id, {"email", "username", "card", "assignment"})
         /\ e.user[r.id].card = IF "card" \in fields THEN r.card ELSE d.user[r.id].card
<1> DEFINE old == d.user[r.id]
           new == [f \in DOMAIN old |-> IF f \in fields THEN r[f] ELSE old[f]]
           e == updateUser(d, r, fields)
<1>1. e = [d EXCEPT !.user = [d.user EXCEPT ![r.id] = new]]
  BY DEF updateUser
<1>2. old \in UserRow
  BY DEF WellFormed, TableOf
<1>3. new \in UserRow
  BY <1>2 DEF UserRow
<1>4. /\ \A f \in UserColumns \ {"email", "username", "card", "assignment"} : new[f] = old[f]
      /\ new.card = IF "card" \in fields THEN r.card ELSE old.card
  BY <1>2 DEF UserRow, UserColumns
<1> HIDE DEF new, e
<1>5. /\ WellFormed(e) /\ Grows(d, e) /\ e.user[r.id] = new
      /\ UserWritten(d, e, r.id, {"email", "username", "card", "assignment"})
  BY <1>1, <1>3, <1>4, UserRowWritten
<1> QED
  BY <1>4, <1>5 DEF e

LEMMA createUserKeeps ==
  ASSUME NEW d, WellFormed(d), NEW r, r.email \in Names, r.username \in Names,
         r.card \in Cards \cup {NULL}, r.assignment \in Ids \cup {NULL}
  PROVE  LET e == createUser(d, r) IN
         /\ WellFormed(e) /\ Grows(d, e)
         /\ OneTable(d, e, "user")
         /\ Fresh(d) \notin DOMAIN d.user /\ DOMAIN e.user = DOMAIN d.user \cup {Fresh(d)}
         /\ \A u \in DOMAIN d.user : e.user[u] = d.user[u]
         /\ e.user[Fresh(d)] = [email |-> r.email, username |-> r.username, card |-> r.card,
                                active |-> TRUE, deleted |-> FALSE, status |-> "ACTIVE",
                                activated |-> FALSE, assignment |-> r.assignment]
<1> DEFINE row == [email |-> r.email, username |-> r.username, card |-> r.card,
                   active |-> TRUE, deleted |-> FALSE, status |-> "ACTIVE",
                   activated |-> FALSE, assignment |-> r.assignment]
           e == createUser(d, r)
<1>1. Inserts(d, e, "user", row)
  BY DEF createUser, Inserts, WellFormed, TableNames
<1>2. row \in UserRow
  BY DEF UserRow
<1> HIDE DEF row, e
<1>3. /\ OneTable(d, e, "user") /\ TableOf(e, e.user, UserRow)
      /\ Fresh(d) \notin DOMAIN d.user /\ DOMAIN e.user = DOMAIN d.user \cup {Fresh(d)}
      /\ e.user[Fresh(d)] = row /\ \A u \in DOMAIN d.user : e.user[u] = d.user[u]
  <2>1. TableOf(d, d.user, UserRow)
    BY DEF WellFormed
  <2>2. "user" \in TableNames \ {"serial"}
    BY DEF TableNames
  <2> QED
    BY <1>1, <1>2, <2>1, <2>2, InsertIs
<1>4. WellFormed(e) /\ Grows(d, e)
  BY <1>3, OneTableKeeps, OneTableGrows DEF TableNames
<1> QED
  BY <1>3, <1>4 DEF row, e

----------------------------------------------------------------------------
(* Statements on the roles of users *)

LEMMA GrowsOn ==
  ASSUME NEW d, NEW e, NEW f, Grows(d, e), Grows(e, f), e.role = d.role
  PROVE  Grows(d, f)
<1>1. /\ DOMAIN d.user \subseteq DOMAIN f.user /\ DOMAIN d.role \subseteq DOMAIN f.role
      /\ DOMAIN d.permission \subseteq DOMAIN f.permission
      /\ DOMAIN d.template \subseteq DOMAIN f.template
  BY DEF Grows
<1>2. \A i \in DOMAIN d.userRole :
       /\ i \in DOMAIN f.userRole
       /\ f.userRole[i].user = d.userRole[i].user /\ f.userRole[i].role = d.userRole[i].role
  BY DEF Grows
<1>3. \A i \in DOMAIN d.rolePermission :
       /\ i \in DOMAIN f.rolePermission
       /\ f.rolePermission[i].role = d.rolePermission[i].role
       /\ f.rolePermission[i].permission = d.rolePermission[i].permission
  BY DEF Grows
<1>4. \A i \in DOMAIN d.userPermission :
       /\ i \in DOMAIN f.userPermission
       /\ f.userPermission[i].user = d.userPermission[i].user
       /\ f.userPermission[i].permission = d.userPermission[i].permission
  BY DEF Grows
<1>5. \A i \in DOMAIN d.role :
       /\ f.role[i].system = d.role[i].system
       /\ d.role[i].system => f.role[i].name = d.role[i].name
                              /\ f.role[i].deleted = d.role[i].deleted
       /\ d.role[i].deleted \/ f.role[i].deleted => f.role[i].name = d.role[i].name
  BY DEF Grows
<1>6. \A i \in DOMAIN f.role \ DOMAIN d.role : ~f.role[i].deleted
  BY DEF Grows
<1> QED
  BY <1>1, <1>2, <1>3, <1>4, <1>5, <1>6 DEF Grows

LEMMA UserRoleTable ==
  ASSUME NEW d, WellFormed(d), NEW t \in Seq(UserRoleRow(d)),
         \A i \in DOMAIN d.userRole :
           i \in DOMAIN t /\ t[i].user = d.userRole[i].user /\ t[i].role = d.userRole[i].role
  PROVE  LET e == [d EXCEPT !.userRole = t] IN
         WellFormed(e) /\ Grows(d, e) /\ OneTable(d, e, "userRole") /\ e.userRole = t
<1> DEFINE e == [d EXCEPT !.userRole = t]
<1>1. "userRole" \in TableNames \ {"serial"}
  BY DEF TableNames
<1>2. OneTable(d, e, "userRole") /\ e.userRole = t
  <2>1. d.serial \in Nat /\ DOMAIN d = TableNames
    BY DEF WellFormed
  <2> QED
    BY <2>1 DEF OneTable, TableNames
<1> HIDE DEF e
<1>3. /\ e.user = d.user /\ e.role = d.role /\ e.permission = d.permission
      /\ e.template = d.template /\ e.rolePermission = d.rolePermission
      /\ e.userPermission = d.userPermission
  BY <1>2 DEF OneTable, TableNames
<1>4. UserRoleRow(e) = UserRoleRow(d)
  BY <1>3 DEF UserRoleRow
<1>5. WellFormed(e)
  BY <1>1, <1>2, <1>4, OneTableKeeps
<1>6. Grows(d, e)
  BY <1>2, <1>3 DEF Grows
<1> QED
  BY <1>2, <1>5, <1>6 DEF e

LEMMA insertUserRoleKeeps ==
  ASSUME NEW d, WellFormed(d), NEW u \in DOMAIN d.user, NEW r \in DOMAIN d.role
  PROVE  LET e == insertUserRole(d, u, r)
             n == Len(d.userRole) + 1 IN
         /\ WellFormed(e) /\ Grows(d, e) /\ OneTable(d, e, "userRole")
         /\ DOMAIN e.userRole = DOMAIN d.userRole \cup {n} /\ n \notin DOMAIN d.userRole
         /\ \A i \in DOMAIN d.userRole : e.userRole[i] = d.userRole[i]
         /\ e.userRole[n] = [user |-> u, role |-> r, active |-> TRUE, deleted |-> FALSE]
<1> DEFINE row == [user |-> u, role |-> r, active |-> TRUE, deleted |-> FALSE]
           t == Append(d.userRole, row)
<1>1. d.userRole \in Seq(UserRoleRow(d))
  BY DEF WellFormed
<1>2. row \in UserRoleRow(d)
  BY DEF UserRoleRow
<1> HIDE DEF row
<1>3. /\ t \in Seq(UserRoleRow(d))
      /\ DOMAIN t = DOMAIN d.userRole \cup {Len(d.userRole) + 1}
      /\ Len(d.userRole) + 1 \notin DOMAIN d.userRole
      /\ t[Len(d.userRole) + 1] = row
      /\ \A i \in DOMAIN d.userRole : t[i] = d.userRole[i]
  BY <1>1, <1>2, AppendIs
<1>4. insertUserRole(d, u, r) = [d EXCEPT !.userRole = t]
  BY DEF insertUserRole, row
<1> HIDE DEF t
<1> QED
  BY <1>3, <1>4, UserRoleTable DEF row

\* A map over the rows that leaves their keys alone.
LEMMA UserRoleMap ==
  ASSUME NEW d, WellFormed(d), NEW t, DOMAIN t = DOMAIN d.userRole, t = [i \in DOMAIN t |-> t[i]],
         \A i \in DOMAIN t : /\ t[i] \in UserRoleRow(d)
                             /\ t[i].user = d.userRole[i].user /\ t[i].role = d.userRole[i].role
  PROVE  LET e == [d EXCEPT !.userRole = t] IN
         WellFormed(e) /\ Grows(d, e) /\ OneTable(d, e, "userRole") /\ e.userRole = t
<1>1. d.userRole \in Seq(UserRoleRow(d))
  BY DEF WellFormed
<1>2. t \in [DOMAIN d.userRole -> UserRoleRow(d)]
  OBVIOUS
<1>3. t \in Seq(UserRoleRow(d))
  BY <1>1, <1>2, MapIs
<1> QED
  BY <1>3, UserRoleTable

\* The rows of this user and role are active or not; the others are as they were.
UserRolesSet(d, e, u, r, on) ==
  /\ OneTable(d, e, "userRole") /\ DOMAIN e.userRole = DOMAIN d.userRole
  /\ \A i \in DOMAIN d.userRole :
       /\ e.userRole[i].user = d.userRole[i].user /\ e.userRole[i].role = d.userRole[i].role
       /\ e.userRole[i].deleted = d.userRole[i].deleted
       /\ e.userRole[i].active = IF i \in UserRoles(d, u, r) THEN on ELSE d.userRole[i].active

LEMMA updateUserRoleKeeps ==
  ASSUME NEW d, WellFormed(d), NEW u, NEW r, NEW on \in BOOLEAN
  PROVE  LET e == updateUserRole(d, u, r, on) IN
         WellFormed(e) /\ Grows(d, e) /\ UserRolesSet(d, e, u, r, on)
<1> DEFINE old == d.userRole
           t == [i \in DOMAIN old |->
                   IF i \in UserRoles(d, u, r) THEN [old[i] EXCEPT !.active = on] ELSE old[i]]
<1>1. updateUserRole(d, u, r, on) = [d EXCEPT !.userRole = t]
  BY DEF updateUserRole
<1>2. \A i \in DOMAIN old : old[i] \in UserRoleRow(d)
  <2>1. old \in Seq(UserRoleRow(d))
    BY DEF WellFormed
  <2> QED
    BY <2>1, SeqIs
<1>3. DOMAIN t = DOMAIN old /\ t = [i \in DOMAIN t |-> t[i]]
  OBVIOUS
<1>4. \A i \in DOMAIN t :
        /\ t[i] \in UserRoleRow(d)
        /\ t[i].user = old[i].user /\ t[i].role = old[i].role /\ t[i].deleted = old[i].deleted
        /\ t[i].active = IF i \in UserRoles(d, u, r) THEN on ELSE old[i].active
  BY <1>2 DEF UserRoleRow
<1> HIDE DEF t
<1> DEFINE e == updateUserRole(d, u, r, on)
<1>5. /\ WellFormed(e) /\ Grows(d, e) /\ OneTable(d, e, "userRole")
      /\ e.userRole = t
  BY <1>1, <1>3, <1>4, UserRoleMap
<1> HIDE DEF e
<1>6. UserRolesSet(d, e, u, r, on)
  BY <1>3, <1>4, <1>5 DEF UserRolesSet
<1> QED
  BY <1>5, <1>6 DEF e

LEMMA retireUserRoleKeeps ==
  ASSUME NEW d, WellFormed(d), NEW u, NEW r
  PROVE  LET e == retireUserRole(d, u, r) IN
         /\ WellFormed(e) /\ Grows(d, e) /\ OneTable(d, e, "userRole")
         /\ DOMAIN e.userRole = DOMAIN d.userRole
         /\ \A i \in DOMAIN d.userRole :
              /\ e.userRole[i].user = d.userRole[i].user /\ e.userRole[i].role = d.userRole[i].role
              /\ i \notin UserRoles(d, u, r) => e.userRole[i] = d.userRole[i]
<1> DEFINE old == d.userRole
           t == [i \in DOMAIN old |->
                   IF i \in UserRoles(d, u, r) /\ old[i].active /\ ~old[i].deleted
                   THEN [old[i] EXCEPT !.active = FALSE, !.deleted = TRUE] ELSE old[i]]
<1>1. retireUserRole(d, u, r) = [d EXCEPT !.userRole = t]
  BY DEF retireUserRole
<1>2. \A i \in DOMAIN old : old[i] \in UserRoleRow(d)
  <2>1. old \in Seq(UserRoleRow(d))
    BY DEF WellFormed
  <2> QED
    BY <2>1, SeqIs
<1>3. DOMAIN t = DOMAIN old /\ t = [i \in DOMAIN t |-> t[i]]
  OBVIOUS
<1>4. \A i \in DOMAIN t :
        /\ t[i] \in UserRoleRow(d)
        /\ t[i].user = old[i].user /\ t[i].role = old[i].role
        /\ i \notin UserRoles(d, u, r) => t[i] = old[i]
  BY <1>2 DEF UserRoleRow
<1> HIDE DEF t
<1> QED
  BY <1>1, <1>3, <1>4, UserRoleMap

\* The transaction of the activation: the user, its role, and the audit row.
ActivatedUser(d, r) ==
  [d.user[r.id] EXCEPT
     !.email = Lower(r.email), !.status = "ACTIVE", !.activated = TRUE, !.active = TRUE,
     !.username = IF "username" \in DOMAIN r THEN r.username ELSE @,
     !.assignment = IF "assignment" \in DOMAIN r THEN r.assignment ELSE @]
ActivatedRoles(d, r) ==
  IF "role" \in DOMAIN r THEN insertUserRole(retireUserRole(d, r.id, r.role), r.id, r.role) ELSE d

\* The role is the user's, active, and no row but those of this user and role changed.
RoleActivated(d, e, r) ==
  /\ \A i \in DOMAIN d.userRole :
       /\ i \in DOMAIN e.userRole
       /\ "role" \notin DOMAIN r \/ i \notin UserRoles(d, r.id, r.role) =>
            e.userRole[i] = d.userRole[i]
  /\ "role" \in DOMAIN r => \E n \in DOMAIN e.userRole :
       e.userRole[n] = [user |-> r.id, role |-> r.role, active |-> TRUE, deleted |-> FALSE]

LEMMA ActivatedRolesKeep ==
  ASSUME NEW d, WellFormed(d), NEW r, r.id \in DOMAIN d.user,
         "role" \in DOMAIN r => r.role \in DOMAIN d.role
  PROVE  LET e == ActivatedRoles(d, r) IN
         WellFormed(e) /\ Grows(d, e) /\ OneTable(d, e, "userRole") /\ RoleActivated(d, e, r)
<1>1. CASE "role" \in DOMAIN r
  <2> DEFINE e == retireUserRole(d, r.id, r.role)
             f == insertUserRole(e, r.id, r.role)
             n == Len(e.userRole) + 1
  <2>1. /\ WellFormed(e) /\ Grows(d, e) /\ OneTable(d, e, "userRole")
        /\ DOMAIN e.userRole = DOMAIN d.userRole
        /\ \A i \in DOMAIN d.userRole :
             i \notin UserRoles(d, r.id, r.role) => e.userRole[i] = d.userRole[i]
    BY retireUserRoleKeeps
  <2> HIDE DEF e
  <2>2. e.user = d.user /\ e.role = d.role
    BY <2>1 DEF OneTable, TableNames
  <2>3. /\ WellFormed(f) /\ Grows(e, f) /\ OneTable(e, f, "userRole")
        /\ DOMAIN f.userRole = DOMAIN e.userRole \cup {n}
        /\ \A i \in DOMAIN e.userRole : f.userRole[i] = e.userRole[i]
        /\ f.userRole[n] = [user |-> r.id, role |-> r.role, active |-> TRUE, deleted |-> FALSE]
    BY <1>1, <2>1, <2>2, insertUserRoleKeeps
  <2> HIDE DEF f, n
  <2>4. Grows(d, f)
    BY <2>1, <2>2, <2>3, GrowsOn
  <2>5. d.serial \in Nat /\ e.serial \in Nat
    BY <2>1 DEF WellFormed
  <2>6. OneTable(d, f, "userRole")
    BY <2>1, <2>3, <2>5 DEF OneTable
  <2>7. ActivatedRoles(d, r) = f
    BY <1>1 DEF ActivatedRoles, e, f
  <2>8. RoleActivated(d, f, r)
    BY <1>1, <2>1, <2>3 DEF RoleActivated
  <2> QED
    BY <2>3, <2>4, <2>6, <2>7, <2>8
<1>2. CASE "role" \notin DOMAIN r
  <2>1. ActivatedRoles(d, r) = d
    BY <1>2 DEF ActivatedRoles
  <2>2. OneTable(d, d, "userRole") /\ RoleActivated(d, d, r)
    BY <1>2 DEF OneTable, WellFormed, RoleActivated
  <2> QED
    BY <2>1, <2>2, GrowsSame
<1> QED
  BY <1>1, <1>2

LEMMA activateImportedUserKeeps ==
  ASSUME NEW d, WellFormed(d), NEW r, activateImportedSchema(r), NEW old \in UserRow,
         r.id \in DOMAIN d.user, "role" \in DOMAIN r => r.role \in DOMAIN d.role
  PROVE  LET e == activateImportedUser(d, r, old)
             n == Len(d.audit) + 1 IN
         /\ WellFormed(e) /\ Grows(d, e) /\ DOMAIN e = TableNames
         /\ \A m \in TableNames \ {"user", "userRole", "audit", "serial"} : e[m] = d[m]
         /\ RoleActivated(d, e, r)
         /\ DOMAIN e.user = DOMAIN d.user
         /\ \A u \in DOMAIN d.user :
              e.user[u] = IF u = r.id THEN ActivatedUser(d, r) ELSE d.user[u]
         /\ ActivatedUser(d, r) \in UserRow
         /\ DOMAIN e.audit = DOMAIN d.audit \cup {n} /\ n \notin DOMAIN d.audit
         /\ \A i \in DOMAIN d.audit : e.audit[i] = d.audit[i]
         /\ e.audit[n] = [user |-> r.id, by |-> r.by, old |-> old.email, new |-> Lower(r.email)]
<1> DEFINE roles == ActivatedRoles(d, r)
           t == [d.user EXCEPT ![r.id] = ActivatedUser(d, r)]
           row == [user |-> r.id, by |-> r.by, old |-> old.email, new |-> Lower(r.email)]
           a == Append(d.audit, row)
           u == [roles EXCEPT !.user = t]
           e == [u EXCEPT !.audit = a]
<1>1. /\ WellFormed(roles) /\ Grows(d, roles) /\ OneTable(d, roles, "userRole")
      /\ RoleActivated(d, roles, r)
  BY ActivatedRolesKeep
<1>2. roles.user = d.user /\ roles.role = d.role /\ roles.audit = d.audit
  BY <1>1 DEF OneTable, TableNames
<1>3. /\ "username" \in DOMAIN r => r.username \in Names
      /\ "assignment" \in DOMAIN r => r.assignment \in Ids \cup {NULL}
      /\ Lower(r.email) \in Names /\ r.id \in Ids /\ r.by \in Ids
  BY DEF activateImportedSchema, Optional, Lower, Names
<1>4. d.user[r.id] \in UserRow
  BY DEF WellFormed, TableOf
<1>5. ActivatedUser(d, r) \in UserRow
  BY <1>3, <1>4 DEF ActivatedUser, UserRow
<1>6. row \in AuditRow
  BY <1>3 DEF AuditRow, UserRow
<1>7. d.audit \in Seq(AuditRow)
  BY DEF WellFormed
<1> HIDE DEF row
<1>8. /\ a \in Seq(AuditRow)
      /\ DOMAIN a = DOMAIN d.audit \cup {Len(d.audit) + 1}
      /\ Len(d.audit) + 1 \notin DOMAIN d.audit
      /\ \A i \in DOMAIN d.audit : a[i] = d.audit[i]
      /\ a[Len(d.audit) + 1] = row
  BY <1>6, <1>7, AppendIs
<1>9. activateImportedUser(d, r, old) = e
  <2>1. DOMAIN roles = TableNames
    BY <1>1 DEF WellFormed
  <2>2. activateImportedUser(d, r, old)
          = [roles EXCEPT !.user[r.id] = ActivatedUser(d, r), !.audit = activationAudit(d, r, old)]
    BY DEF activateImportedUser, ActivatedUser, ActivatedRoles
  <2>3. activationAudit(d, r, old) = a
    BY DEF activationAudit, row
  <2> HIDE DEF roles, a
  <2> QED
    BY <2>1, <2>2, <2>3, <1>2
<1> HIDE DEF roles, a
<1>10. /\ DOMAIN t = DOMAIN d.user /\ \A i \in DOMAIN t : t[i] \in UserRow
       /\ \A i \in DOMAIN t : t[i] = IF i = r.id THEN ActivatedUser(d, r) ELSE d.user[i]
  BY <1>5 DEF WellFormed, TableOf
<1> HIDE DEF t
<1>11. WellFormed(u) /\ Grows(roles, u)
  BY <1>1, <1>2, <1>10, UserTable
<1>12. DOMAIN u = TableNames /\ u.user = t /\ \A m \in TableNames \ {"user"} : u[m] = roles[m]
  BY <1>1 DEF WellFormed, TableNames
<1> HIDE DEF u
<1>13. DOMAIN e = TableNames /\ e.audit = a /\ \A m \in TableNames \ {"audit"} : e[m] = u[m]
  BY <1>12 DEF TableNames
<1> HIDE DEF e
<1>14. u.serial \in Nat
  BY <1>11 DEF WellFormed
<1>15. OneTable(u, e, "audit")
  <2>1. e.serial = u.serial
    BY <1>13 DEF TableNames
  <2> QED
    BY <2>1, <1>13, <1>14 DEF OneTable
<1>16. WellFormed(e) /\ Grows(u, e)
  BY <1>8, <1>11, <1>13, <1>15, OneTableKeeps, OneTableGrows DEF TableNames
<1>17. e.user = t /\ e.userRole = roles.userRole /\ u.role = d.role /\ e.role = d.role
  BY <1>2, <1>12, <1>13 DEF TableNames
<1>18. Grows(d, e)
  <2>1. Grows(d, u)
    BY <1>1, <1>2, <1>11, GrowsOn
  <2> QED
    BY <2>1, <1>16, <1>17, GrowsOn
<1>19. \A m \in TableNames \ {"user", "userRole", "audit", "serial"} : e[m] = d[m]
  BY <1>1, <1>12, <1>13 DEF OneTable
<1>20. RoleActivated(d, e, r)
  BY <1>1, <1>17 DEF RoleActivated
<1> QED
  BY <1>5, <1>8, <1>9, <1>10, <1>13, <1>16, <1>17, <1>18, <1>19, <1>20 DEF row

----------------------------------------------------------------------------
(* Statements on roles and permissions *)

LEMMA createRoleKeeps ==
  ASSUME NEW d, WellFormed(d), NEW r, roleCreateSchema(r)
  PROVE  LET e == createRole(d, r) IN
         /\ WellFormed(e) /\ Grows(d, e) /\ OneTable(d, e, "role")
         /\ Fresh(d) \notin DOMAIN d.role /\ DOMAIN e.role = DOMAIN d.role \cup {Fresh(d)}
         /\ \A i \in DOMAIN d.role : e.role[i] = d.role[i]
         /\ ~e.role[Fresh(d)].deleted
<1> DEFINE row == [name |-> r.name, system |-> Field(r, "system", FALSE), active |-> TRUE,
                   deleted |-> FALSE]
           e == createRole(d, r)
<1>1. Inserts(d, e, "role", row)
  BY DEF createRole, Inserts, WellFormed, TableNames
<1>2. row \in RoleRow /\ row.deleted = FALSE
  BY DEF RoleRow, roleCreateSchema, Optional, Field
<1> HIDE DEF row, e
<1>3. TableOf(d, d.role, RoleRow) /\ "role" \in TableNames \ {"serial"}
  BY DEF WellFormed, TableNames
<1>4. /\ OneTable(d, e, "role") /\ TableOf(e, e.role, RoleRow)
      /\ Fresh(d) \notin DOMAIN d.role /\ DOMAIN e.role = DOMAIN d.role \cup {Fresh(d)}
      /\ e.role[Fresh(d)] = row /\ \A i \in DOMAIN d.role : e.role[i] = d.role[i]
  BY <1>1, <1>2, <1>3, InsertIs
<1>5. WellFormed(e)
  BY <1>3, <1>4, OneTableKeeps
<1>6. Grows(d, e)
  BY <1>2, <1>4 DEF OneTable, TableNames, Grows
<1> QED
  BY <1>2, <1>4, <1>5, <1>6 DEF e

\* A role that is written is no system role, and keeps its name if it is deleted.
LEMMA RoleTable ==
  ASSUME NEW d, WellFormed(d), NEW i \in DOMAIN d.role, ~d.role[i].system,
         NEW row \in RoleRow, row.system = d.role[i].system,
         d.role[i].deleted \/ row.deleted => row.name = d.role[i].name
  PROVE  LET e == [d EXCEPT !.role = [d.role EXCEPT ![i] = row]] IN
         /\ WellFormed(e) /\ Grows(d, e) /\ OneTable(d, e, "role")
         /\ DOMAIN e.role = DOMAIN d.role
         /\ \A j \in DOMAIN d.role : e.role[j] = IF j = i THEN row ELSE d.role[j]
<1> DEFINE t == [d.role EXCEPT ![i] = row]
           e == [d EXCEPT !.role = t]
<1>1. /\ DOMAIN t = DOMAIN d.role
      /\ \A j \in DOMAIN t : t[j] = IF j = i THEN row ELSE d.role[j]
  OBVIOUS
<1>2. d.serial \in Nat /\ DOMAIN d = TableNames
  BY DEF WellFormed
<1> HIDE DEF t
<1>3. OneTable(d, e, "role") /\ e.role = t /\ e.serial = d.serial
  BY <1>2 DEF OneTable, TableNames
<1> HIDE DEF e
<1>4. TableOf(e, e.role, RoleRow)
  BY <1>1, <1>3 DEF WellFormed, TableOf
<1>5. WellFormed(e)
  <2>1. "role" \in TableNames \ {"serial"} /\ DOMAIN d["role"] \subseteq DOMAIN e["role"]
    BY <1>1, <1>3 DEF TableNames
  <2> QED
    BY <1>3, <1>4, <2>1, OneTableKeeps
<1>6. Grows(d, e)
  BY <1>1, <1>3 DEF OneTable, TableNames, Grows
<1> QED
  BY <1>1, <1>3, <1>5, <1>6 DEF e, t

LEMMA updateRoleKeeps ==
  ASSUME NEW d, WellFormed(d), NEW r, roleUpdateSchema(r), r.id \in DOMAIN d.role,
         ~d.role[r.id].system, ~d.role[r.id].deleted
  PROVE  LET e == updateRole(d, r) IN
         /\ WellFormed(e) /\ Grows(d, e) /\ OneTable(d, e, "role")
         /\ DOMAIN e.role = DOMAIN d.role
         /\ \A j \in DOMAIN d.role : j # r.id => e.role[j] = d.role[j]
         /\ ~e.role[r.id].deleted
<1> DEFINE old == d.role[r.id]
           row == [old EXCEPT !.name = Field(r, "name", @), !.active = Field(r, "active", @)]
<1>1. old \in RoleRow
  BY DEF WellFormed, TableOf
<1>2. row \in RoleRow /\ row.system = old.system /\ row.deleted = FALSE
  BY <1>1 DEF RoleRow, roleUpdateSchema, Optional, Field
<1>3. updateRole(d, r) = [d EXCEPT !.role = [d.role EXCEPT ![r.id] = row]]
  <2>1. DOMAIN d = TableNames
    BY DEF WellFormed
  <2> QED
    BY <1>1, <2>1 DEF updateRole, TableNames, RoleRow
<1> HIDE DEF row
<1> QED
  BY <1>2, <1>3, RoleTable

LEMMA deleteRoleKeeps ==
  ASSUME NEW d, WellFormed(d), NEW i \in DOMAIN d.role, ~d.role[i].system
  PROVE  LET e == deleteRole(d, i) IN
         /\ WellFormed(e) /\ Grows(d, e) /\ OneTable(d, e, "role")
         /\ DOMAIN e.role = DOMAIN d.role
         /\ \A j \in DOMAIN d.role : /\ e.role[j].name = d.role[j].name
                                     /\ e.role[j].active = d.role[j].active
<1> DEFINE old == d.role[i]
           row == [old EXCEPT !.deleted = TRUE]
<1>1. old \in RoleRow
  BY DEF WellFormed, TableOf
<1>2. /\ row \in RoleRow /\ row.system = old.system /\ row.name = old.name
      /\ row.active = old.active
  BY <1>1 DEF RoleRow
<1>3. deleteRole(d, i) = [d EXCEPT !.role = [d.role EXCEPT ![i] = row]]
  BY DEF deleteRole
<1> HIDE DEF row
<1> QED
  BY <1>2, <1>3, RoleTable

LEMMA createPermissionKeeps ==
  ASSUME NEW d, WellFormed(d), NEW r, permissionCreateSchema(r)
  PROVE  LET e == createPermission(d, r) IN
         WellFormed(e) /\ Grows(d, e) /\ OneTable(d, e, "permission")
<1> DEFINE row == [resource |-> r.resource, action |-> r.action,
                   system |-> Field(r, "system", FALSE), deleted |-> FALSE]
           e == createPermission(d, r)
<1>1. Inserts(d, e, "permission", row)
  BY DEF createPermission, Inserts, WellFormed, TableNames
<1>2. row \in PermissionRow
  BY DEF PermissionRow, permissionCreateSchema, Optional, Field
<1> HIDE DEF row, e
<1>3. TableOf(d, d.permission, PermissionRow) /\ "permission" \in TableNames \ {"serial"}
  BY DEF WellFormed, TableNames
<1>4. /\ OneTable(d, e, "permission") /\ TableOf(e, e.permission, PermissionRow)
      /\ DOMAIN e.permission = DOMAIN d.permission \cup {Fresh(d)}
  BY <1>1, <1>2, <1>3, InsertIs
<1>5. WellFormed(e) /\ Grows(d, e)
  BY <1>3, <1>4, OneTableKeeps, OneTableGrows
<1> QED
  BY <1>4, <1>5 DEF e

LEMMA PermissionTable ==
  ASSUME NEW d, WellFormed(d), NEW i \in DOMAIN d.permission, NEW row \in PermissionRow
  PROVE  LET e == [d EXCEPT !.permission = [d.permission EXCEPT ![i] = row]] IN
         WellFormed(e) /\ Grows(d, e) /\ OneTable(d, e, "permission")
<1> DEFINE t == [d.permission EXCEPT ![i] = row]
           e == [d EXCEPT !.permission = t]
<1>1. /\ DOMAIN t = DOMAIN d.permission
      /\ \A j \in DOMAIN t : t[j] = IF j = i THEN row ELSE d.permission[j]
  OBVIOUS
<1>2. d.serial \in Nat /\ DOMAIN d = TableNames
  BY DEF WellFormed
<1> HIDE DEF t
<1>3. OneTable(d, e, "permission") /\ e.permission = t /\ e.serial = d.serial
  BY <1>2 DEF OneTable, TableNames
<1> HIDE DEF e
<1>4. TableOf(e, e.permission, PermissionRow)
  BY <1>1, <1>3 DEF WellFormed, TableOf
<1>5. WellFormed(e) /\ Grows(d, e)
  <2>1. /\ "permission" \in TableNames \ {"serial"}
        /\ DOMAIN d["permission"] \subseteq DOMAIN e["permission"]
    BY <1>1, <1>3 DEF TableNames
  <2> QED
    BY <1>3, <1>4, <2>1, OneTableKeeps, OneTableGrows
<1> QED
  BY <1>3, <1>5 DEF e, t

LEMMA updatePermissionKeeps ==
  ASSUME NEW d, WellFormed(d), NEW r, permissionUpdateSchema(r), r.id \in DOMAIN d.permission
  PROVE  LET e == updatePermission(d, r) IN
         WellFormed(e) /\ Grows(d, e) /\ OneTable(d, e, "permission")
<1> DEFINE old == d.permission[r.id]
           row == [old EXCEPT !.resource = Field(r, "resource", @), !.action = Field(r, "action", @)]
<1>1. old \in PermissionRow
  BY DEF WellFormed, TableOf
<1>2. row \in PermissionRow
  BY <1>1 DEF PermissionRow, permissionUpdateSchema, Optional, Field
<1>3. updatePermission(d, r) = [d EXCEPT !.permission = [d.permission EXCEPT ![r.id] = row]]
  <2>1. DOMAIN d = TableNames
    BY DEF WellFormed
  <2> QED
    BY <1>1, <2>1 DEF updatePermission, TableNames, PermissionRow
<1> HIDE DEF row
<1> QED
  BY <1>2, <1>3, PermissionTable

LEMMA deletePermissionKeeps ==
  ASSUME NEW d, WellFormed(d), NEW i \in DOMAIN d.permission
  PROVE  LET e == deletePermission(d, i) IN
         WellFormed(e) /\ Grows(d, e) /\ OneTable(d, e, "permission")
<1> DEFINE row == [d.permission[i] EXCEPT !.deleted = TRUE]
<1>1. d.permission[i] \in PermissionRow
  BY DEF WellFormed, TableOf
<1>2. row \in PermissionRow
  BY <1>1 DEF PermissionRow
<1>3. deletePermission(d, i) = [d EXCEPT !.permission = [d.permission EXCEPT ![i] = row]]
  BY DEF deletePermission
<1> HIDE DEF row
<1> QED
  BY <1>2, <1>3, PermissionTable

----------------------------------------------------------------------------
(* Statements on who has a permission *)

LEMMA RolePermissionTable ==
  ASSUME NEW d, WellFormed(d), NEW t \in Seq(RolePermissionRow(d)),
         \A i \in DOMAIN d.rolePermission :
           /\ i \in DOMAIN t /\ t[i].role = d.rolePermission[i].role
           /\ t[i].permission = d.rolePermission[i].permission,
         NEW e, e = [d EXCEPT !.rolePermission = t]
  PROVE  WellFormed(e) /\ Grows(d, e) /\ OneTable(d, e, "rolePermission") /\ e.rolePermission = t
<1>1. "rolePermission" \in TableNames \ {"serial"} /\ d.serial \in Nat /\ DOMAIN d = TableNames
  BY DEF WellFormed, TableNames
<1>2. OneTable(d, e, "rolePermission") /\ e.rolePermission = t
  BY <1>1 DEF OneTable, TableNames
<1>3. /\ e.user = d.user /\ e.role = d.role /\ e.permission = d.permission
      /\ e.template = d.template /\ e.userRole = d.userRole
      /\ e.userPermission = d.userPermission
  BY <1>2 DEF OneTable, TableNames
<1>4. RolePermissionRow(e) = RolePermissionRow(d)
  BY <1>3 DEF RolePermissionRow
<1>5. WellFormed(e)
  BY <1>1, <1>2, <1>4, OneTableKeeps
<1>6. Grows(d, e)
  BY <1>2, <1>3 DEF Grows
<1> QED
  BY <1>2, <1>5, <1>6

\* A row i that was found is restored, and otherwise one is inserted.
LEMMA assignPermissionKeeps ==
  ASSUME NEW d, WellFormed(d), NEW r, r.role \in DOMAIN d.role, r.permission \in DOMAIN d.permission,
         NEW i, i = NULL \/ i \in DOMAIN d.rolePermission
  PROVE  LET e == assignPermission(d, r, i)
             n == Len(d.rolePermission) + 1 IN
         /\ WellFormed(e) /\ Grows(d, e) /\ OneTable(d, e, "rolePermission")
         /\ n \notin DOMAIN d.rolePermission
         /\ DOMAIN e.rolePermission = DOMAIN d.rolePermission \cup (IF i = NULL THEN {n} ELSE {})
         /\ i = NULL => /\ e.rolePermission[n].role = r.role
                        /\ e.rolePermission[n].permission = r.permission
<1> DEFINE old == d.rolePermission
           n == Len(old) + 1
           row == [role |-> r.role, permission |-> r.permission, deleted |-> FALSE]
           e == assignPermission(d, r, i)
<1>1. old \in Seq(RolePermissionRow(d))
  BY DEF WellFormed
<1>2. \A j \in DOMAIN old : old[j] \in RolePermissionRow(d)
  BY <1>1, SeqIs
<1>3. NULL \notin DOMAIN old /\ n \notin DOMAIN old
  BY <1>1 DEF NULL
<1>4. CASE i = NULL
  <2> DEFINE t == Append(old, row)
  <2>1. row \in RolePermissionRow(d) /\ row.role = r.role /\ row.permission = r.permission
    BY DEF RolePermissionRow
  <2>2. e = [d EXCEPT !.rolePermission = t]
    BY <1>4 DEF assignPermission
  <2> HIDE DEF row
  <2>3. /\ t \in Seq(RolePermissionRow(d)) /\ DOMAIN t = DOMAIN old \cup {n} /\ t[n] = row
        /\ \A j \in DOMAIN old : t[j] = old[j]
    BY <1>1, <2>1, AppendIs
  <2> HIDE DEF t, e
  <2>4. WellFormed(e) /\ Grows(d, e) /\ OneTable(d, e, "rolePermission") /\ e.rolePermission = t
    BY <2>2, <2>3, RolePermissionTable
  <2> QED
    BY <1>3, <1>4, <2>1, <2>3, <2>4 DEF e
<1>5. CASE i # NULL
  <2> DEFINE new == [old[i] EXCEPT !.deleted = FALSE]
             t == [old EXCEPT ![i] = new]
  <2>1. e = [d EXCEPT !.rolePermission = t]
    BY <1>5 DEF assignPermission
  <2>2. new \in RolePermissionRow(d) /\ new.role = old[i].role /\ new.permission = old[i].permission
    BY <1>2, <1>5 DEF RolePermissionRow
  <2> HIDE DEF new
  <2>3. /\ t \in [DOMAIN old -> RolePermissionRow(d)] /\ DOMAIN t = DOMAIN old
        /\ \A j \in DOMAIN old : t[j] = IF j = i THEN new ELSE old[j]
    BY <1>2, <2>2
  <2> HIDE DEF t, e
  <2>4. t \in Seq(RolePermissionRow(d))
    BY <1>1, <2>3, MapIs
  <2>5. WellFormed(e) /\ Grows(d, e) /\ OneTable(d, e, "rolePermission") /\ e.rolePermission = t
    BY <2>1, <2>2, <2>3, <2>4, RolePermissionTable
  <2> QED
    BY <1>3, <1>5, <2>3, <2>5 DEF e
<1> QED
  BY <1>4, <1>5

LEMMA removePermissionKeeps ==
  ASSUME NEW d, WellFormed(d), NEW i \in DOMAIN d.rolePermission
  PROVE  LET e == removePermission(d, i) IN
         /\ WellFormed(e) /\ Grows(d, e) /\ OneTable(d, e, "rolePermission")
         /\ DOMAIN e.rolePermission = DOMAIN d.rolePermission
<1> DEFINE old == d.rolePermission
           new == [old[i] EXCEPT !.deleted = TRUE]
           t == [old EXCEPT ![i] = new]
           e == removePermission(d, i)
<1>1. old \in Seq(RolePermissionRow(d))
  BY DEF WellFormed
<1>2. \A j \in DOMAIN old : old[j] \in RolePermissionRow(d)
  BY <1>1, SeqIs
<1>3. e = [d EXCEPT !.rolePermission = t]
  BY DEF removePermission
<1>4. new \in RolePermissionRow(d) /\ new.role = old[i].role /\ new.permission = old[i].permission
  BY <1>2 DEF RolePermissionRow
<1> HIDE DEF new
<1>5. /\ t \in [DOMAIN old -> RolePermissionRow(d)] /\ DOMAIN t = DOMAIN old
      /\ \A j \in DOMAIN old : t[j] = IF j = i THEN new ELSE old[j]
  BY <1>2, <1>4
<1> HIDE DEF t, e
<1>6. t \in Seq(RolePermissionRow(d))
  BY <1>1, <1>5, MapIs
<1>7. WellFormed(e) /\ Grows(d, e) /\ OneTable(d, e, "rolePermission") /\ e.rolePermission = t
  BY <1>3, <1>4, <1>5, <1>6, RolePermissionTable
<1> QED
  BY <1>5, <1>7 DEF e

LEMMA UserPermissionTable ==
  ASSUME NEW d, WellFormed(d), NEW t \in Seq(UserPermissionRow(d)),
         \A i \in DOMAIN d.userPermission :
           /\ i \in DOMAIN t /\ t[i].user = d.userPermission[i].user
           /\ t[i].permission = d.userPermission[i].permission,
         NEW e, e = [d EXCEPT !.userPermission = t]
  PROVE  WellFormed(e) /\ Grows(d, e) /\ OneTable(d, e, "userPermission") /\ e.userPermission = t
<1>1. "userPermission" \in TableNames \ {"serial"} /\ d.serial \in Nat /\ DOMAIN d = TableNames
  BY DEF WellFormed, TableNames
<1>2. OneTable(d, e, "userPermission") /\ e.userPermission = t
  BY <1>1 DEF OneTable, TableNames
<1>3. /\ e.user = d.user /\ e.role = d.role /\ e.permission = d.permission
      /\ e.template = d.template /\ e.userRole = d.userRole
      /\ e.rolePermission = d.rolePermission
  BY <1>2 DEF OneTable, TableNames
<1>4. UserPermissionRow(e) = UserPermissionRow(d)
  BY <1>3 DEF UserPermissionRow
<1>5. WellFormed(e)
  BY <1>1, <1>2, <1>4, OneTableKeeps
<1>6. Grows(d, e)
  BY <1>2, <1>3 DEF Grows
<1> QED
  BY <1>2, <1>5, <1>6

\* The row i that was found is written, and nothing else.
LEMMA UserPermissionRowWritten ==
  ASSUME NEW d, WellFormed(d), NEW i \in DOMAIN d.userPermission, NEW new \in UserPermissionRow(d),
         new.user = d.userPermission[i].user, new.permission = d.userPermission[i].permission,
         NEW t, t = [d.userPermission EXCEPT ![i] = new]
  PROVE  /\ t \in Seq(UserPermissionRow(d)) /\ DOMAIN t = DOMAIN d.userPermission
         /\ \A j \in DOMAIN t :
              /\ t[j].user = d.userPermission[j].user
              /\ t[j].permission = d.userPermission[j].permission
              /\ j # i => t[j] = d.userPermission[j]
         /\ t[i] = new
<1> DEFINE old == d.userPermission
<1>1. old \in Seq(UserPermissionRow(d))
  BY DEF WellFormed
<1>2. \A j \in DOMAIN old : old[j] \in UserPermissionRow(d)
  BY <1>1, SeqIs
<1>3. /\ t \in [DOMAIN old -> UserPermissionRow(d)] /\ DOMAIN t = DOMAIN old
      /\ \A j \in DOMAIN old : t[j] = IF j = i THEN new ELSE old[j]
  BY <1>2
<1>4. t \in Seq(UserPermissionRow(d))
  BY <1>1, <1>3, MapIs
<1> QED
  BY <1>3, <1>4

\* After a grant the row written is the user's, live, and says what was decided.
Granted(d, e, r, i) ==
  /\ WellFormed(e) /\ Grows(d, e) /\ OneTable(d, e, "userPermission")
  /\ e.userPermission[i].granted = Field(r, "granted", TRUE)
  /\ \A j \in DOMAIN e.userPermission :
       j # i => j \in DOMAIN d.userPermission /\ e.userPermission[j] = d.userPermission[j]

LEMMA grantKeeps ==
  ASSUME NEW d, WellFormed(d), NEW r, grantSchema(r), r.user \in DOMAIN d.user,
         r.permission \in DOMAIN d.permission, NEW i, i = NULL \/ i \in DOMAIN d.userPermission
  PROVE  LET e == grant(d, r, i)
             n == Len(d.userPermission) + 1
             j == IF i = NULL THEN n ELSE i IN
         /\ Granted(d, e, r, j) /\ n \notin DOMAIN d.userPermission
         /\ DOMAIN e.userPermission = DOMAIN d.userPermission \cup {j}
         /\ ~e.userPermission[j].deleted
         /\ i = NULL => /\ e.userPermission[j].user = r.user
                        /\ e.userPermission[j].permission = r.permission
<1> DEFINE old == d.userPermission
           n == Len(old) + 1
           g == Field(r, "granted", TRUE)
           e == grant(d, r, i)
<1>1. old \in Seq(UserPermissionRow(d))
  BY DEF WellFormed
<1>2. \A j \in DOMAIN old : old[j] \in UserPermissionRow(d)
  BY <1>1, SeqIs
<1>3. NULL \notin DOMAIN old /\ n \notin DOMAIN old
  BY <1>1 DEF NULL
<1>4. g \in BOOLEAN
  BY DEF grantSchema, Optional, Field
<1>5. CASE i = NULL
  <2> DEFINE row == [user |-> r.user, permission |-> r.permission, granted |-> g, deleted |-> FALSE]
             t == Append(old, row)
  <2>1. e = [d EXCEPT !.userPermission = t]
    BY <1>5 DEF grant
  <2> HIDE DEF g
  <2>2. /\ row \in UserPermissionRow(d) /\ row.user = r.user /\ row.permission = r.permission
        /\ row.granted = g /\ row.deleted = FALSE
    BY <1>4 DEF UserPermissionRow
  <2> HIDE DEF row
  <2>3. /\ t \in Seq(UserPermissionRow(d)) /\ DOMAIN t = DOMAIN old \cup {n} /\ t[n] = row
        /\ \A j \in DOMAIN old : t[j] = old[j]
    BY <1>1, <2>2, AppendIs
  <2> HIDE DEF t, e
  <2>4. WellFormed(e) /\ Grows(d, e) /\ OneTable(d, e, "userPermission") /\ e.userPermission = t
    BY <2>1, <2>3, UserPermissionTable
  <2>5. Granted(d, e, r, n)
    BY <2>2, <2>3, <2>4 DEF Granted, g
  <2> QED
    BY <1>3, <1>5, <2>2, <2>3, <2>4, <2>5 DEF e
<1>6. CASE i # NULL
  <2> DEFINE new == [[old[i] EXCEPT !.granted = g] EXCEPT !.deleted = FALSE]
             t == [old EXCEPT ![i] = new]
  <2>0. /\ new \in UserPermissionRow(d) /\ new.user = old[i].user
        /\ new.permission = old[i].permission /\ new.granted = g /\ new.deleted = FALSE
    BY <1>2, <1>4, <1>6 DEF UserPermissionRow
  <2>1. e = [d EXCEPT !.userPermission = t]
    <3>1. [old EXCEPT ![i].granted = g, ![i].deleted = FALSE] = t
      BY <1>6
    <3> QED
      BY <1>6, <3>1 DEF grant
  <2> HIDE DEF g, new
  <2>2. /\ t \in Seq(UserPermissionRow(d)) /\ DOMAIN t = DOMAIN old
        /\ \A j \in DOMAIN t :
             /\ t[j].user = old[j].user /\ t[j].permission = old[j].permission
             /\ j # i => t[j] = old[j]
        /\ t[i].granted = g /\ t[i].deleted = FALSE
    BY <2>0, <1>6, UserPermissionRowWritten
  <2> HIDE DEF t, e
  <2>3. WellFormed(e) /\ Grows(d, e) /\ OneTable(d, e, "userPermission") /\ e.userPermission = t
    BY <2>1, <2>2, UserPermissionTable
  <2>4. Granted(d, e, r, i)
    BY <2>2, <2>3 DEF Granted, g
  <2> QED
    BY <1>3, <1>6, <2>2, <2>3, <2>4 DEF e
<1> QED
  BY <1>5, <1>6

LEMMA overwriteKeeps ==
  ASSUME NEW d, WellFormed(d), NEW r, grantSchema(r), NEW i \in DOMAIN d.userPermission
  PROVE  LET e == overwrite(d, r, i) IN
         /\ Granted(d, e, r, i)
         /\ DOMAIN e.userPermission = DOMAIN d.userPermission
         /\ e.userPermission[i].deleted = d.userPermission[i].deleted
<1> DEFINE old == d.userPermission
           g == Field(r, "granted", TRUE)
           new == [old[i] EXCEPT !.granted = g]
           t == [old EXCEPT ![i] = new]
           e == overwrite(d, r, i)
<1>1. old \in Seq(UserPermissionRow(d))
  BY DEF WellFormed
<1>2. \A j \in DOMAIN old : old[j] \in UserPermissionRow(d)
  BY <1>1, SeqIs
<1>3. g \in BOOLEAN
  BY DEF grantSchema, Optional, Field
<1>4. e = [d EXCEPT !.userPermission = t]
  BY DEF overwrite
<1> HIDE DEF g
<1>5. /\ t \in Seq(UserPermissionRow(d)) /\ DOMAIN t = DOMAIN old
      /\ \A j \in DOMAIN t :
           /\ t[j].user = old[j].user /\ t[j].permission = old[j].permission
           /\ j # i => t[j] = old[j]
      /\ t[i].granted = g /\ t[i].deleted = old[i].deleted
  <2>1. /\ new \in UserPermissionRow(d) /\ new.user = old[i].user
        /\ new.permission = old[i].permission /\ new.granted = g /\ new.deleted = old[i].deleted
    BY <1>2, <1>3 DEF UserPermissionRow
  <2> HIDE DEF new
  <2> QED
    BY <2>1, UserPermissionRowWritten
<1> HIDE DEF t, e
<1>6. WellFormed(e) /\ Grows(d, e) /\ OneTable(d, e, "userPermission") /\ e.userPermission = t
  BY <1>4, <1>5, UserPermissionTable
<1>7. Granted(d, e, r, i)
  BY <1>5, <1>6 DEF Granted, g
<1> QED
  BY <1>5, <1>6, <1>7 DEF e

LEMMA revokeKeeps ==
  ASSUME NEW d, WellFormed(d), NEW r
  PROVE  LET e == revoke(d, r) IN
         /\ WellFormed(e) /\ Grows(d, e) /\ OneTable(d, e, "userPermission")
         /\ DOMAIN e.userPermission = DOMAIN d.userPermission
         /\ \A i \in DirectRows(d, r.user, r.permission) : e.userPermission[i].deleted
<1> DEFINE old == d.userPermission
           t == [i \in DOMAIN old |-> IF i \in DirectRows(d, r.user, r.permission)
                                      THEN [old[i] EXCEPT !.deleted = TRUE] ELSE old[i]]
           e == revoke(d, r)
<1>1. old \in Seq(UserPermissionRow(d))
  BY DEF WellFormed
<1>2. \A j \in DOMAIN old : old[j] \in UserPermissionRow(d)
  BY <1>1, SeqIs
<1>3. e = [d EXCEPT !.userPermission = t]
  BY DEF revoke
<1>4. DOMAIN t = DOMAIN old /\ t = [i \in DOMAIN t |-> t[i]]
  OBVIOUS
<1>5. \A j \in DOMAIN t :
        /\ t[j] \in UserPermissionRow(d)
        /\ t[j].user = old[j].user /\ t[j].permission = old[j].permission
        /\ j \in DirectRows(d, r.user, r.permission) => t[j].deleted
  BY <1>2 DEF UserPermissionRow
<1> HIDE DEF t, e
<1>6. t \in [DOMAIN old -> UserPermissionRow(d)]
  BY <1>4, <1>5
<1>7. t \in Seq(UserPermissionRow(d))
  BY <1>1, <1>6, MapIs
<1>8. WellFormed(e) /\ Grows(d, e) /\ OneTable(d, e, "userPermission") /\ e.userPermission = t
  BY <1>3, <1>4, <1>5, <1>7, UserPermissionTable
<1>9. DirectRows(d, r.user, r.permission) \subseteq DOMAIN old
  BY DEF DirectRows
<1> QED
  BY <1>4, <1>5, <1>8, <1>9 DEF e

----------------------------------------------------------------------------
(* Statements on departments, templates and assignments *)

\* The rows of a table in which the row i becomes row.
LEMMA RowWritten ==
  ASSUME NEW d, NEW e, NEW n \in TableNames \ {"serial"}, NEW Row, WellFormed(d),
         TableOf(d, d[n], Row), NEW i \in DOMAIN d[n], NEW row \in Row,
         DOMAIN e = TableNames, e[n] = [d[n] EXCEPT ![i] = row],
         \A m \in TableNames \ {n} : e[m] = d[m]
  PROVE  /\ OneTable(d, e, n) /\ TableOf(e, e[n], Row) /\ DOMAIN e[n] = DOMAIN d[n]
         /\ \A j \in DOMAIN d[n] : e[n][j] = IF j = i THEN row ELSE d[n][j]
<1>1. e.serial = d.serial /\ d.serial \in Nat
  BY DEF TableNames, WellFormed
<1>2. OneTable(d, e, n)
  BY <1>1 DEF OneTable
<1>3. /\ DOMAIN e[n] = DOMAIN d[n]
      /\ \A j \in DOMAIN d[n] : e[n][j] = IF j = i THEN row ELSE d[n][j]
  OBVIOUS
<1>4. TableOf(e, e[n], Row)
  BY <1>1, <1>3 DEF TableOf
<1> QED
  BY <1>2, <1>3, <1>4

LEMMA createDepartmentKeeps ==
  ASSUME NEW d, WellFormed(d), NEW r, departmentCreateSchema(r)
  PROVE  LET e == createDepartment(d, r) IN
         /\ WellFormed(e) /\ Grows(d, e) /\ OneTable(d, e, "department")
         /\ DOMAIN e.department = DOMAIN d.department \cup {Fresh(d)} /\ Fresh(d) \in Ids
<1> DEFINE row == [code |-> r.code, active |-> TRUE]
           e == createDepartment(d, r)
<1>1. Inserts(d, e, "department", row)
  BY DEF createDepartment, Inserts, WellFormed, TableNames
<1>2. row \in DepartmentRow
  BY DEF DepartmentRow, departmentCreateSchema
<1> HIDE DEF row, e
<1>3. TableOf(d, d.department, DepartmentRow) /\ "department" \in TableNames \ {"serial"}
  BY DEF WellFormed, TableNames
<1>4. /\ OneTable(d, e, "department") /\ TableOf(e, e.department, DepartmentRow)
      /\ DOMAIN e.department = DOMAIN d.department \cup {Fresh(d)} /\ Fresh(d) \in Ids
  BY <1>1, <1>2, <1>3, InsertIs
<1>5. WellFormed(e) /\ Grows(d, e)
  BY <1>3, <1>4, OneTableKeeps, OneTableGrows
<1> QED
  BY <1>4, <1>5 DEF e

LEMMA updateDepartmentKeeps ==
  ASSUME NEW d, WellFormed(d), NEW r, departmentUpdateSchema(r), r.id \in DOMAIN d.department
  PROVE  LET e == updateDepartment(d, r) IN
         WellFormed(e) /\ Grows(d, e) /\ OneTable(d, e, "department")
<1> DEFINE old == d.department[r.id]
           row == [f \in DOMAIN old |-> IF f \in DOMAIN r THEN r[f] ELSE old[f]]
           e == updateDepartment(d, r)
<1>1. old \in DepartmentRow
  BY DEF WellFormed, TableOf
<1>2. row \in DepartmentRow
  BY <1>1 DEF DepartmentRow, departmentUpdateSchema, Optional
<1>3. /\ DOMAIN e = TableNames /\ e.department = [d.department EXCEPT ![r.id] = row]
      /\ \A m \in TableNames \ {"department"} : e[m] = d[m]
  BY DEF updateDepartment, WellFormed, TableNames
<1> HIDE DEF row, e
<1>4. TableOf(d, d.department, DepartmentRow) /\ "department" \in TableNames \ {"serial"}
  BY DEF WellFormed, TableNames
<1>5. OneTable(d, e, "department") /\ TableOf(e, e.department, DepartmentRow)
  BY <1>2, <1>3, <1>4, RowWritten
<1>6. WellFormed(e) /\ Grows(d, e)
  BY <1>4, <1>5, OneTableKeeps, OneTableGrows
<1> QED
  BY <1>5, <1>6 DEF e

LEMMA createTemplateKeeps ==
  ASSUME NEW d, WellFormed(d), NEW r, templateCreateSchema(r)
  PROVE  LET e == createTemplate(d, r) IN
         /\ WellFormed(e) /\ Grows(d, e) /\ OneTable(d, e, "template")
         /\ \A t \in DOMAIN d.template : e.template[t] = d.template[t]
<1> DEFINE row == [code |-> r.code, active |-> TRUE, deleted |-> FALSE]
           e == createTemplate(d, r)
<1>1. Inserts(d, e, "template", row)
  BY DEF createTemplate, Inserts, WellFormed, TableNames
<1>2. row \in TemplateRow
  BY DEF TemplateRow, templateCreateSchema
<1> HIDE DEF row, e
<1>3. TableOf(d, d.template, TemplateRow) /\ "template" \in TableNames \ {"serial"}
  BY DEF WellFormed, TableNames
<1>4. /\ OneTable(d, e, "template") /\ TableOf(e, e.template, TemplateRow)
      /\ DOMAIN e.template = DOMAIN d.template \cup {Fresh(d)}
      /\ \A t \in DOMAIN d.template : e.template[t] = d.template[t]
  BY <1>1, <1>2, <1>3, InsertIs
<1>5. WellFormed(e) /\ Grows(d, e)
  BY <1>3, <1>4, OneTableKeeps, OneTableGrows
<1> QED
  BY <1>4, <1>5 DEF e

\* The templates but i keep their rows, and i its id.
LEMMA TemplateTable ==
  ASSUME NEW d, WellFormed(d), NEW i \in DOMAIN d.template, NEW row \in TemplateRow,
         NEW e, DOMAIN e = TableNames, e.template = [d.template EXCEPT ![i] = row],
         \A m \in TableNames \ {"template"} : e[m] = d[m]
  PROVE  /\ WellFormed(e) /\ Grows(d, e) /\ OneTable(d, e, "template")
         /\ DOMAIN e.template = DOMAIN d.template
         /\ \A t \in DOMAIN d.template : e.template[t] = IF t = i THEN row ELSE d.template[t]
<1>1. TableOf(d, d.template, TemplateRow) /\ "template" \in TableNames \ {"serial"}
  BY DEF WellFormed, TableNames
<1>2. /\ OneTable(d, e, "template") /\ TableOf(e, e.template, TemplateRow)
      /\ DOMAIN e.template = DOMAIN d.template
      /\ \A t \in DOMAIN d.template : e.template[t] = IF t = i THEN row ELSE d.template[t]
  BY <1>1, RowWritten
<1>3. WellFormed(e) /\ Grows(d, e)
  BY <1>1, <1>2, OneTableKeeps, OneTableGrows
<1> QED
  BY <1>2, <1>3

LEMMA updateTemplateKeeps ==
  ASSUME NEW d, WellFormed(d), NEW r, templateUpdateSchema(r),
         r.id \in DOMAIN d.template
  PROVE  LET e == updateTemplate(d, r) IN
         /\ WellFormed(e) /\ Grows(d, e) /\ OneTable(d, e, "template")
         /\ DOMAIN e.template = DOMAIN d.template
         /\ \A t \in DOMAIN d.template : e.template[t].deleted = d.template[t].deleted
<1> DEFINE old == d.template[r.id]
           row == [f \in DOMAIN old |-> IF f \in DOMAIN r THEN r[f] ELSE old[f]]
           e == updateTemplate(d, r)
<1>1. old \in TemplateRow
  BY DEF WellFormed, TableOf
<1>2. row \in TemplateRow /\ row.deleted = old.deleted
  BY <1>1 DEF TemplateRow, templateUpdateSchema, Optional
<1>3. /\ DOMAIN e = TableNames /\ e.template = [d.template EXCEPT ![r.id] = row]
      /\ \A m \in TableNames \ {"template"} : e[m] = d[m]
  BY DEF updateTemplate, WellFormed, TableNames
<1> HIDE DEF row, e
<1>4. /\ WellFormed(e) /\ Grows(d, e) /\ OneTable(d, e, "template")
      /\ DOMAIN e.template = DOMAIN d.template
      /\ \A t \in DOMAIN d.template : e.template[t] = IF t = r.id THEN row ELSE d.template[t]
  BY <1>2, <1>3, TemplateTable
<1> QED
  BY <1>2, <1>4 DEF e

LEMMA deleteTemplateKeeps ==
  ASSUME NEW d, WellFormed(d), NEW i \in DOMAIN d.template
  PROVE  LET e == deleteTemplate(d, i) IN
         /\ WellFormed(e) /\ Grows(d, e) /\ OneTable(d, e, "template")
         /\ DOMAIN e.template = DOMAIN d.template
         /\ \A t \in DOMAIN d.template : t # i => e.template[t] = d.template[t]
<1> DEFINE old == d.template[i]
           row == [[old EXCEPT !.deleted = TRUE] EXCEPT !.active = FALSE]
           e == deleteTemplate(d, i)
<1>1. old \in TemplateRow
  BY DEF WellFormed, TableOf
<1>2. row \in TemplateRow
  BY <1>1 DEF TemplateRow
<1>3. /\ DOMAIN e = TableNames /\ e.template = [d.template EXCEPT ![i] = row]
      /\ \A m \in TableNames \ {"template"} : e[m] = d[m]
  BY DEF deleteTemplate, WellFormed, TableNames
<1> HIDE DEF row, e
<1>4. /\ WellFormed(e) /\ Grows(d, e) /\ OneTable(d, e, "template")
      /\ DOMAIN e.template = DOMAIN d.template
      /\ \A t \in DOMAIN d.template : e.template[t] = IF t = i THEN row ELSE d.template[t]
  BY <1>2, <1>3, TemplateTable
<1> QED
  BY <1>4 DEF e

LEMMA createAssignmentKeeps ==
  ASSUME NEW d, WellFormed(d), NEW r, assignmentCreateSchema(r)
  PROVE  LET e == createAssignment(d, r) IN
         /\ WellFormed(e) /\ Grows(d, e) /\ OneTable(d, e, "assignment")
         /\ Fresh(d) \notin DOMAIN d.assignment
         /\ DOMAIN e.assignment = DOMAIN d.assignment \cup {Fresh(d)}
         /\ \A a \in DOMAIN d.assignment : e.assignment[a] = d.assignment[a]
         /\ e.assignment[Fresh(d)] =
              [department |-> r.department, code |-> r.code, active |-> TRUE,
               template |-> IF "template" \in DOMAIN r THEN r.template ELSE NULL]
<1> DEFINE row == [department |-> r.department, code |-> r.code, active |-> TRUE,
                   template |-> IF "template" \in DOMAIN r THEN r.template ELSE NULL]
           e == createAssignment(d, r)
<1>1. Inserts(d, e, "assignment", row)
  BY DEF createAssignment, Inserts, WellFormed, TableNames
<1>2. row \in AssignmentRow
  BY DEF AssignmentRow, assignmentCreateSchema, Optional
<1> HIDE DEF row, e
<1>3. TableOf(d, d.assignment, AssignmentRow) /\ "assignment" \in TableNames \ {"serial"}
  BY DEF WellFormed, TableNames
<1>4. /\ OneTable(d, e, "assignment") /\ TableOf(e, e.assignment, AssignmentRow)
      /\ Fresh(d) \notin DOMAIN d.assignment
      /\ DOMAIN e.assignment = DOMAIN d.assignment \cup {Fresh(d)}
      /\ \A a \in DOMAIN d.assignment : e.assignment[a] = d.assignment[a]
      /\ e.assignment[Fresh(d)] = row
  <2> DEFINE Row == AssignmentRow
  <2>1. row \in Row /\ TableOf(d, d.assignment, Row)
    BY <1>2, <1>3
  <2> HIDE DEF Row
  <2>2. TableOf(d, d["assignment"], Row) /\ WellFormed(d)
    BY <2>1
  <2>3. /\ OneTable(d, e, "assignment") /\ TableOf(e, e["assignment"], Row)
        /\ Fresh(d) \notin DOMAIN d["assignment"]
        /\ DOMAIN e["assignment"] = DOMAIN d["assignment"] \cup {Fresh(d)}
        /\ \A a \in DOMAIN d["assignment"] : e["assignment"][a] = d["assignment"][a]
        /\ e["assignment"][Fresh(d)] = row
    BY <1>1, <1>3, <2>1, <2>2, InsertIs
  <2> QED
    BY <2>3 DEF Row
<1>5. WellFormed(e) /\ Grows(d, e)
  BY <1>3, <1>4, OneTableKeeps, OneTableGrows
<1> QED
  BY <1>4, <1>5 DEF e, row

LEMMA updateAssignmentKeeps ==
  ASSUME NEW d, WellFormed(d), NEW r, r.id \in DOMAIN d.assignment, r.active \in BOOLEAN
  PROVE  LET e == updateAssignment(d, r) IN
         /\ WellFormed(e) /\ Grows(d, e) /\ OneTable(d, e, "assignment")
         /\ DOMAIN e.assignment = DOMAIN d.assignment
         /\ \A a \in DOMAIN d.assignment :
              /\ e.assignment[a].department = d.assignment[a].department
              /\ e.assignment[a].code = d.assignment[a].code
              /\ e.assignment[a].template = d.assignment[a].template
<1> DEFINE old == d.assignment[r.id]
           row == [old EXCEPT !.active = r.active]
           e == updateAssignment(d, r)
<1>1. old \in AssignmentRow
  BY DEF WellFormed, TableOf
<1>2. /\ row \in AssignmentRow /\ row.department = old.department
      /\ row.code = old.code /\ row.template = old.template
  BY <1>1 DEF AssignmentRow
<1>3. /\ DOMAIN e = TableNames /\ e.assignment = [d.assignment EXCEPT ![r.id] = row]
      /\ \A m \in TableNames \ {"assignment"} : e[m] = d[m]
  BY DEF updateAssignment, WellFormed, TableNames
<1> HIDE DEF row, e
<1>4. TableOf(d, d.assignment, AssignmentRow) /\ "assignment" \in TableNames \ {"serial"}
  BY DEF WellFormed, TableNames
<1>5. /\ OneTable(d, e, "assignment") /\ TableOf(e, e.assignment, AssignmentRow)
      /\ DOMAIN e.assignment = DOMAIN d.assignment
      /\ \A a \in DOMAIN d.assignment : e.assignment[a] = IF a = r.id THEN row ELSE d.assignment[a]
  BY <1>2, <1>3, <1>4, RowWritten
<1>6. WellFormed(e) /\ Grows(d, e)
  BY <1>4, <1>5, OneTableKeeps, OneTableGrows
<1> QED
  BY <1>2, <1>5, <1>6 DEF e

\* Users lose their reference to an assignment that goes, and nothing else.
LEMMA deleteAssignmentsKeeps ==
  ASSUME NEW d, WellFormed(d), NEW ids
  PROVE  LET e == deleteAssignments(d, ids) IN
         /\ WellFormed(e) /\ Grows(d, e)
         /\ DOMAIN e = TableNames /\ e.serial = d.serial
         /\ \A m \in TableNames \ {"user", "assignment"} : e[m] = d[m]
         /\ DOMAIN e.assignment = DOMAIN d.assignment \ ids
         /\ \A a \in DOMAIN e.assignment : e.assignment[a] = d.assignment[a]
         /\ DOMAIN e.user = DOMAIN d.user
         /\ \A u \in DOMAIN d.user :
              /\ e.user[u] \in UserRow
              /\ \A f \in {"email", "username", "card", "active", "deleted", "status", "activated"} :
                   e.user[u][f] = d.user[u][f]
<1> DEFINE t == [u \in DOMAIN d.user |-> IF d.user[u].assignment \in ids
                                         THEN [d.user[u] EXCEPT !.assignment = NULL] ELSE d.user[u]]
           a == Remaining(d.assignment, ids)
           u == [d EXCEPT !.user = t]
           e == deleteAssignments(d, ids)
<1>1. DOMAIN d = TableNames
  BY DEF WellFormed
<1>2. /\ DOMAIN t = DOMAIN d.user
      /\ \A v \in DOMAIN d.user :
           /\ t[v] \in UserRow
           /\ \A f \in {"email", "username", "card", "active", "deleted", "status", "activated"} :
                t[v][f] = d.user[v][f]
  <2>1. \A v \in DOMAIN d.user : d.user[v] \in UserRow
    BY DEF WellFormed, TableOf
  <2> QED
    BY <2>1 DEF UserRow
<1>3. /\ DOMAIN e = TableNames /\ e.user = t /\ e.assignment = a
      /\ \A m \in TableNames \ {"user", "assignment"} : e[m] = d[m]
  BY <1>1 DEF deleteAssignments, TableNames
<1>4. DOMAIN a = DOMAIN d.assignment \ ids /\ \A i \in DOMAIN a : a[i] = d.assignment[i]
  BY DEF Remaining
<1> HIDE DEF t, a
<1>5. WellFormed(u) /\ Grows(d, u)
  BY <1>2, UserTable
<1>6. DOMAIN u = TableNames /\ u.user = t /\ \A m \in TableNames \ {"user"} : u[m] = d[m]
  BY <1>1 DEF TableNames
<1> HIDE DEF u, e
<1>7. e.serial = d.serial /\ u.serial = d.serial /\ u.assignment = d.assignment /\ u.serial \in Nat
      /\ u.role = d.role
  BY <1>3, <1>5, <1>6 DEF TableNames, WellFormed
<1>8. OneTable(u, e, "assignment")
  <2>1. \A m \in TableNames \ {"assignment", "serial"} : e[m] = u[m]
    BY <1>3, <1>6
  <2> QED
    BY <1>3, <1>7, <2>1 DEF OneTable
<1>9. TableOf(e, e.assignment, AssignmentRow)
  <2>1. TableOf(d, d.assignment, AssignmentRow)
    BY DEF WellFormed
  <2> QED
    BY <1>3, <1>4, <1>7, <2>1 DEF TableOf
<1>10. WellFormed(e) /\ Grows(u, e)
  <2>1. "assignment" \in TableNames \ {"serial"}
    BY DEF TableNames
  <2> QED
    BY <1>5, <1>8, <1>9, <2>1, OneTableKeeps, OneTableGrows
<1>11. Grows(d, e)
  BY <1>5, <1>7, <1>10, GrowsOn
<1> QED
  BY <1>2, <1>3, <1>4, <1>7, <1>10, <1>11 DEF e

LEMMA deleteDepartmentKeeps ==
  ASSUME NEW d, WellFormed(d), NEW i
  PROVE  LET e == deleteDepartment(d, i)
             f == deleteAssignments(d, AssignmentsOf(d, i)) IN
         /\ WellFormed(e) /\ Grows(d, e)
         /\ DOMAIN e = TableNames /\ e.serial = d.serial
         /\ \A m \in TableNames \ {"department"} : e[m] = f[m]
<1> DEFINE e == deleteDepartment(d, i)
           f == deleteAssignments(d, AssignmentsOf(d, i))
<1>1. WellFormed(f) /\ Grows(d, f) /\ f.role = d.role /\ f.department = d.department
      /\ f.serial = d.serial /\ DOMAIN f = TableNames
  BY deleteAssignmentsKeeps DEF TableNames
<1>2. e = [f EXCEPT !.department = Remaining(f.department, {i})]
  BY DEF deleteDepartment
<1> HIDE DEF e, f
<1>3. /\ DOMAIN e = TableNames /\ e.department = Remaining(f.department, {i})
      /\ \A m \in TableNames \ {"department"} : e[m] = f[m]
  BY <1>1, <1>2 DEF TableNames
<1>4. e.serial = f.serial /\ f.serial \in Nat /\ TableOf(f, f.department, DepartmentRow)
  BY <1>1, <1>3 DEF TableNames, WellFormed
<1>5. TableOf(e, e.department, DepartmentRow)
  BY <1>3, <1>4 DEF TableOf, Remaining
<1>6. OneTable(f, e, "department") /\ "department" \in TableNames \ {"serial"}
  BY <1>3, <1>4 DEF OneTable, TableNames
<1>7. WellFormed(e) /\ Grows(f, e)
  BY <1>1, <1>5, <1>6, OneTableKeeps, OneTableGrows
<1>8. Grows(d, e)
  BY <1>1, <1>7, GrowsOn
<1> QED
  BY <1>1, <1>3, <1>4, <1>7, <1>8 DEF e, f

\* The rows that the templates give: a template per row, in the department i.
LEMMA fromTemplatesKeeps ==
  ASSUME NEW d, WellFormed(d), NEW i \in Ids, NEW codes,
         DOMAIN codes \subseteq DOMAIN d.template, \A t \in DOMAIN codes : codes[t] \in Codes
  PROVE  LET e == fromTemplates(d, i, codes) IN
         /\ WellFormed(e) /\ Grows(d, e) /\ OneTable(d, e, "assignment")
         /\ DOMAIN d.assignment \subseteq DOMAIN e.assignment
         /\ \A a \in DOMAIN d.assignment : e.assignment[a] = d.assignment[a]
         /\ \A a \in DOMAIN e.assignment \ DOMAIN d.assignment :
              /\ e.assignment[a].department = i
              /\ e.assignment[a].template \in DOMAIN codes
              /\ SameCode(d, i, e.assignment[a].code) = {}
              /\ e.assignment[a].code = codes[e.assignment[a].template]
         /\ \A a, b \in DOMAIN e.assignment \ DOMAIN d.assignment :
              e.assignment[a].template = e.assignment[b].template => a = b
<1> DEFINE new == {t \in DOMAIN codes : SameCode(d, i, codes[t]) = {}}
           upto(t) == {t2 \in new : t2 <= t}
           id(t) == d.serial + Cardinality(upto(t))
           source(a) == CHOOSE t \in new : id(t) = a
           ids == {id(t) : t \in new}
           row(a) == [department |-> i, template |-> source(a), code |-> codes[source(a)],
                      active |-> TRUE]
           t2 == [a \in DOMAIN d.assignment \cup ids |->
                    IF a \in DOMAIN d.assignment THEN d.assignment[a] ELSE row(a)]
           e == fromTemplates(d, i, codes)
<1>1. /\ d.serial \in Nat /\ DOMAIN d.template \subseteq 1 .. d.serial
      /\ TableOf(d, d.assignment, AssignmentRow) /\ DOMAIN d = TableNames
  BY DEF WellFormed, TableOf
<1>2. IsFiniteSet(new) /\ Cardinality(new) \in Nat
  <2>1. new \subseteq 1 .. d.serial
    BY <1>1
  <2>2. IsFiniteSet(1 .. d.serial)
    BY <1>1, FS_Interval
  <2> QED
    BY <2>1, <2>2, FS_Subset, FS_CardinalityType
<1>3. e = [d EXCEPT !.serial = d.serial + Cardinality(new), !.assignment = t2]
  BY DEF fromTemplates
<1>4. ASSUME NEW t \in new
      PROVE  id(t) \in d.serial + 1 .. d.serial + Cardinality(new)
  <2>1. t \in Nat
    BY <1>1
  <2>2. upto(t) \subseteq new /\ t \in upto(t)
    BY <2>1
  <2>3. IsFiniteSet(upto(t)) /\ Cardinality(upto(t)) \in Nat
        /\ Cardinality(upto(t)) <= Cardinality(new)
    BY <1>2, <2>2, FS_Subset, FS_CardinalityType
  <2>4. Cardinality(upto(t)) # 0
    <3> HIDE DEF upto
    <3> QED BY <2>2, <2>3, FS_EmptySet
  <2> HIDE DEF upto, new
  <2> QED
    BY <1>1, <1>2, <2>3, <2>4
<1>5. ASSUME NEW a \in ids
      PROVE  source(a) \in new /\ id(source(a)) = a
  <2>1. PICK t \in new : id(t) = a
    OBVIOUS
  <2> HIDE DEF new, id
  <2> QED
    BY <2>1
<1>6. \A t \in new : t \in DOMAIN codes /\ SameCode(d, i, codes[t]) = {}
  OBVIOUS
<1>7. ids \subseteq d.serial + 1 .. d.serial + Cardinality(new)
  <2> HIDE DEF new, id
  <2> QED BY <1>4
<1>8. \A a \in ids : a \notin DOMAIN d.assignment
  <2> HIDE DEF new, ids
  <2> QED BY <1>1, <1>2, <1>7 DEF TableOf
<1>9. \A a \in ids : row(a) \in AssignmentRow
  <2>1. \A a \in ids : source(a) \in DOMAIN codes
    <3> HIDE DEF new, source, ids
    <3> QED BY <1>5, <1>6
  <2>2. \A a \in ids : source(a) \in Ids /\ codes[source(a)] \in Codes
    <3> HIDE DEF source, ids
    <3> QED BY <1>1, <2>1 DEF Ids
  <2> HIDE DEF source, ids
  <2> QED BY <2>2 DEF AssignmentRow
<1>10. /\ DOMAIN e = TableNames /\ e.assignment = t2 /\ e.serial = d.serial + Cardinality(new)
       /\ \A m \in TableNames \ {"assignment", "serial"} : e[m] = d[m]
  <2> HIDE DEF new, t2
  <2> QED BY <1>1, <1>3 DEF TableNames
<1> HIDE DEF new, id, ids, source, e
<1>11. OneTable(d, e, "assignment")
  BY <1>1, <1>2, <1>10 DEF OneTable
<1>12. /\ DOMAIN e.assignment = DOMAIN d.assignment \cup ids
       /\ \A a \in DOMAIN d.assignment : e.assignment[a] = d.assignment[a]
       /\ \A a \in ids : e.assignment[a] = row(a)
  BY <1>8, <1>10
<1>13. TableOf(e, e.assignment, AssignmentRow)
  <2> HIDE DEF row, t2
  <2>1. DOMAIN e.assignment \subseteq 1 .. e.serial
    <3>1. 1 .. d.serial \subseteq 1 .. e.serial
      BY <1>1, <1>2, <1>10
    <3>2. d.serial + 1 .. d.serial + Cardinality(new) \subseteq 1 .. e.serial
      BY <1>1, <1>2, <1>10
    <3> QED
      BY <1>1, <1>7, <1>12, <3>1, <3>2 DEF TableOf
  <2> QED
    BY <1>1, <1>9, <1>12, <2>1 DEF TableOf
<1>14. WellFormed(e) /\ Grows(d, e)
  <2>1. "assignment" \in TableNames \ {"serial"}
    BY DEF TableNames
  <2> QED
    BY <1>11, <1>13, <2>1, OneTableKeeps, OneTableGrows
<1>15. \A a \in DOMAIN e.assignment \ DOMAIN d.assignment :
         /\ e.assignment[a].department = i
         /\ e.assignment[a].template = source(a)
         /\ e.assignment[a].code = codes[source(a)]
         /\ source(a) \in new /\ id(source(a)) = a
  <2> SUFFICES ASSUME NEW a \in DOMAIN e.assignment \ DOMAIN d.assignment
               PROVE  /\ e.assignment[a].department = i
                      /\ e.assignment[a].template = source(a)
                      /\ e.assignment[a].code = codes[source(a)]
                      /\ source(a) \in new /\ id(source(a)) = a
    OBVIOUS
  <2>1. a \in ids
    <3> HIDE DEF row, t2
    <3> QED BY <1>12
  <2>2. e.assignment[a] = row(a)
    <3> HIDE DEF row, t2
    <3> QED BY <1>12, <2>1
  <2>3. source(a) \in new /\ id(source(a)) = a
    BY <1>5, <2>1
  <2> QED
    BY <2>2, <2>3
<1>16. \A a \in DOMAIN e.assignment \ DOMAIN d.assignment :
         /\ e.assignment[a].template \in DOMAIN codes
         /\ SameCode(d, i, e.assignment[a].code) = {}
         /\ e.assignment[a].code = codes[e.assignment[a].template]
  BY <1>6, <1>15
<1>17. \A a, b \in DOMAIN e.assignment \ DOMAIN d.assignment :
         e.assignment[a].template = e.assignment[b].template => a = b
  BY <1>15
<1> QED
  BY <1>11, <1>12, <1>14, <1>15, <1>16, <1>17 DEF e

----------------------------------------------------------------------------
(* What a handler knows *)

\* The roles that make an administrator are system roles from the start, as the first
\* migration inserts them; then no other role takes the name of one.
AdminNamed(d, r) == r \in DOMAIN d.role /\ d.role[r].name \in {"admin", "super_admin"}
Seeded(d) ==
  \A name \in {"admin", "super_admin"} :
    \E i \in DOMAIN d.role :
      d.role[i].name = name /\ d.role[i].system /\ ~d.role[i].deleted
SystemRoles == \A d \in Databases : Seeded(d)

LEMMA StaysSeeded ==
  ASSUME NEW d, NEW e, Seeded(d), Grows(d, e)
  PROVE  Seeded(e)
BY DEF Seeded, Grows

LEMMA NoNewAdminRole ==
  ASSUME NEW d, NEW e, Seeded(d), Grows(d, e), Consistent(e), NEW r, AdminNamed(e, r)
  PROVE  AdminNamed(d, r)
<1>1. PICK i \in DOMAIN d.role :
        d.role[i].name = e.role[r].name /\ d.role[i].system /\ ~d.role[i].deleted
  BY DEF Seeded, AdminNamed
<1>2. /\ i \in DOMAIN e.role /\ e.role[i].name = e.role[r].name
      /\ e.role[i].system /\ ~e.role[i].deleted
  BY <1>1 DEF Grows
<1>3. i # r => e.role[r].deleted
  BY <1>2 DEF AdminNamed, Consistent, UniqueIndex, Live
<1> QED
  BY <1>1, <1>2, <1>3 DEF AdminNamed, Grows

\* The request q of a handler at its statement pc passed its schema; what the handler
\* has checked of d still holds, and what it has read, s, is there to be used.
KnowsRegister(q, pc, s, d) ==
  /\ registerSchema(q)
  /\ "card" \in DOMAIN q /\ pc \notin {"start", "role"} => "card" \in DOMAIN s
  /\ pc = "role" => s.new \in DOMAIN d.user
Counted(s) == "admin" \in DOMAIN s /\ (s.admin => "admins" \in DOMAIN s /\ s.admins > 1)
KnowsActivate(q, pc, s, d) ==
  /\ activateSchema(q)
  /\ pc # "start" => q.id \in DOMAIN d.user
  /\ pc = "count" => "admin" \in DOMAIN s
  /\ pc = "write" => On(q) \/ Counted(s)
KnowsDelete(q, pc, s, d) ==
  /\ deleteSchema(q)
  /\ pc # "start" => q.id \in DOMAIN d.user
  /\ pc = "count" => "admin" \in DOMAIN s
  /\ pc = "write" => Counted(s)
KnowsChangeRole(q, pc, s, d) ==
  /\ changeRoleSchema(q)
  /\ pc \notin {"start", "count", "user"} => q.id \in DOMAIN d.user
  /\ pc \notin {"start", "count", "user", "role"} => q.role \in DOMAIN d.role
  /\ pc = "revive" => UserRoles(d, q.id, q.role) # {}
  /\ pc = "remove" => ~Assigns(q)
  /\ SystemRoles /\ ~Assigns(q) /\ pc \notin {"start", "count"} =>
       ("admins" \in DOMAIN s /\ s.admins > 1) \/ ~AdminNamed(d, q.role)
KnowsActivateImported(q, pc, s, d) ==
  /\ activateImportedSchema(q)
  /\ pc # "start" => /\ q.id \in DOMAIN d.user
                     /\ "target" \in DOMAIN s /\ s.target \in UserRow /\ ~s.target.activated
  /\ pc = "commit" /\ "role" \in DOMAIN q => q.role \in DOMAIN d.role
KnowsUpdate(q, pc, s, d) ==
  /\ "found" \in DOMAIN s => s.found \in Ids
  /\ pc \notin {"start", "active", "tenant", "exists"} => q.id \in DOMAIN d.user
  /\ pc = "write" /\ "card" \in DOMAIN q /\ q.card # NULL => "card" \in DOMAIN s

KnowsUpdateRole(q, pc, s, d) ==
  /\ roleUpdateSchema(q)
  /\ pc # "start" => q.id \in DOMAIN d.role /\ ~d.role[q.id].system
KnowsDeleteRole(q, pc, s, d) ==
  pc # "start" => q.id \in DOMAIN d.role /\ ~d.role[q.id].system
KnowsAssignPermission(q, pc, s, d) ==
  /\ pc # "start" => q.role \in DOMAIN d.role
  /\ pc \notin {"start", "permission"} => q.permission \in DOMAIN d.permission
  /\ pc = "write" => "row" \in DOMAIN s /\ s.row \in GrantRows(d, q) \cup {NULL}
KnowsRemovePermission(q, pc, s, d) ==
  pc # "start" => s.row \in DOMAIN d.rolePermission
KnowsGrant(q, pc, s, d) ==
  /\ grantSchema(q)
  /\ pc # "start" => q.user \in DOMAIN d.user
  /\ pc \notin {"start", "permission"} => q.permission \in DOMAIN d.permission
  /\ pc = "write" =>
       "row" \in DOMAIN s /\ s.row \in DirectRows(d, q.user, q.permission) \cup {NULL}
  /\ pc = "overwrite" => s.row \in DirectRows(d, q.user, q.permission)

KnowsCreateDepartment(q, pc, s, d) ==
  /\ departmentCreateSchema(q)
  /\ pc \in {"templates", "write"} => "new" \in DOMAIN s /\ s.new \in Ids
  /\ pc = "write" =>
       /\ "codes" \in DOMAIN s /\ DOMAIN s.codes \subseteq DOMAIN d.template
       /\ \A t \in DOMAIN s.codes : s.codes[t] \in Codes
       /\ \A t, u \in DOMAIN s.codes : s.codes[t] = s.codes[u] => t = u
KnowsDeleteDepartment(q, pc, s, d) ==
  pc \in {"assignments", "write"} => "members" \in DOMAIN s
KnowsCreateAssignment(q, pc, s, d) ==
  /\ assignmentCreateSchema(q)
  /\ pc \in {"template", "insert"} => "code" \in DOMAIN s
  /\ pc = "insert" /\ "template" \in DOMAIN q => "template" \in DOMAIN s
KnowsDeleteAssignment(q, pc, s, d) ==
  pc = "write" => "members" \in DOMAIN s
KnowsDeleteTemplate(q, pc, s, d) ==
  pc = "write" => "uses" \in DOMAIN s

KnowsOfAccounts(q, pc, s, d) ==
  /\ q.op = "user/register" => KnowsRegister(q, pc, s, d)
  /\ q.op = "user/activate" => KnowsActivate(q, pc, s, d)
  /\ q.op = "user/delete" => KnowsDelete(q, pc, s, d)
  /\ q.op = "user/changeRole" => KnowsChangeRole(q, pc, s, d)
  /\ q.op = "user/activateImported" => KnowsActivateImported(q, pc, s, d)
  /\ q.op = "user/update" => updateSchema(q) /\ KnowsUpdate(q, pc, s, d)
  /\ q.op = "user/assignDepartmentRoleAssignment" =>
       assignmentSchema(q) /\ KnowsUpdate(q, pc, s, d)
KnowsOfAccess(q, pc, s, d) ==
  /\ q.op = "role/create" => roleCreateSchema(q)
  /\ q.op = "role/update" => KnowsUpdateRole(q, pc, s, d)
  /\ q.op = "role/delete" => KnowsDeleteRole(q, pc, s, d)
  /\ q.op = "role/assignPermission" => KnowsAssignPermission(q, pc, s, d)
  /\ q.op = "role/removePermission" => KnowsRemovePermission(q, pc, s, d)
  /\ q.op = "permission/create" => permissionCreateSchema(q)
  /\ q.op = "permission/update" => permissionUpdateSchema(q)
  /\ q.op = "user/grantPermission" => KnowsGrant(q, pc, s, d)
KnowsOfOrg(q, pc, s, d) ==
  /\ q.op = "department/create" => KnowsCreateDepartment(q, pc, s, d)
  /\ q.op = "department/update" => departmentUpdateSchema(q)
  /\ q.op = "department/delete" => KnowsDeleteDepartment(q, pc, s, d)
  /\ q.op = "assignment/create" => KnowsCreateAssignment(q, pc, s, d)
  /\ q.op = "assignment/update" => assignmentUpdateSchema(q)
  /\ q.op = "assignment/delete" => KnowsDeleteAssignment(q, pc, s, d)
  /\ q.op = "template/create" => templateCreateSchema(q)
  /\ q.op = "template/update" => templateUpdateSchema(q)
  /\ q.op = "template/delete" => KnowsDeleteTemplate(q, pc, s, d)
Knows(q, pc, s, d) ==
  KnowsOfAccounts(q, pc, s, d) /\ KnowsOfAccess(q, pc, s, d) /\ KnowsOfOrg(q, pc, s, d)

\* What a handler knows stays true when the tables grow.
LEMMA KnowsStays ==
  ASSUME NEW d, NEW e, Grows(d, e), Consistent(e), SystemRoles => Seeded(d),
         NEW q, NEW pc, NEW s, Knows(q, pc, s, d)
  PROVE  Knows(q, pc, s, e)
<1>1. /\ DOMAIN d.user \subseteq DOMAIN e.user /\ DOMAIN d.role \subseteq DOMAIN e.role
      /\ DOMAIN d.permission \subseteq DOMAIN e.permission
      /\ DOMAIN d.template \subseteq DOMAIN e.template
      /\ \A i \in DOMAIN d.role : e.role[i].system = d.role[i].system
      /\ DOMAIN d.rolePermission \subseteq DOMAIN e.rolePermission
      /\ \A u, r : UserRoles(d, u, r) \subseteq UserRoles(e, u, r)
      /\ \A r : GrantRows(d, r) \subseteq GrantRows(e, r)
      /\ \A u, p : DirectRows(d, u, p) \subseteq DirectRows(e, u, p)
  BY DEF Grows, UserRoles, GrantRows, DirectRows
<1>2. KnowsOfAccounts(q, pc, s, e)
  <2>1. KnowsOfAccounts(q, pc, s, d)
    BY DEF Knows
  <2>2. \A r : SystemRoles /\ AdminNamed(e, r) => AdminNamed(d, r)
    BY NoNewAdminRole
  <2> QED
    BY <1>1, <2>1, <2>2 DEF KnowsOfAccounts, KnowsRegister, KnowsActivate, KnowsDelete,
       KnowsChangeRole, KnowsActivateImported, KnowsUpdate
<1>3. KnowsOfAccess(q, pc, s, e)
  <2>1. KnowsOfAccess(q, pc, s, d)
    BY DEF Knows
  <2> QED
    BY <1>1, <2>1 DEF KnowsOfAccess, KnowsUpdateRole, KnowsDeleteRole, KnowsAssignPermission,
       KnowsRemovePermission, KnowsGrant
<1>4. KnowsOfOrg(q, pc, s, e)
  <2>1. KnowsOfOrg(q, pc, s, d)
    BY DEF Knows
  <2> QED
    BY <1>1, <2>1 DEF KnowsOfOrg, KnowsCreateDepartment, KnowsDeleteDepartment,
       KnowsCreateAssignment, KnowsDeleteAssignment, KnowsDeleteTemplate
<1> QED
  BY <1>2, <1>3, <1>4 DEF Knows

----------------------------------------------------------------------------
(* The steps of handlers *)

\* A handler is idle, or at a statement of a request with what that takes.
Fine(c, d, m) ==
  \/ c = Idle
  \/ /\ c = [req |-> c.req, pc |-> c.pc, saw |-> c.saw]
     /\ c.req \in m /\ c.pc # "idle"
     /\ Knows(c.req, c.pc, c.saw, d)

\* The inductive invariant.
Inv ==
  /\ WellFormed(db) /\ Consistent(db)
  /\ SystemRoles => Seeded(db)
  /\ menu \in Menus
  /\ left \in 0 .. MaxRequests
  /\ DOMAIN call = Handlers
  /\ \A h \in Handlers : Fine(call[h], db, menu)

\* The handler moves, and no other.
Lands(h) ==
  /\ UNCHANGED <<menu, left>>
  /\ \E c : call' = [call EXCEPT ![h] = c] /\ Fine(c, db', menu)

LEMMA Busy ==
  ASSUME Inv, NEW h \in Handlers, call[h].pc # "idle"
  PROVE  /\ DOMAIN call[h] = {"req", "pc", "saw"}
         /\ call[h].req \in menu
         /\ Knows(call[h].req, call[h].pc, call[h].saw, db)
BY DEF Inv, Fine, Idle

LEMMA Refused ==
  ASSUME NEW h \in Handlers, Refuse(h)
  PROVE  Lands(h) /\ db' = db
BY DEF Refuse, Moves, Lands, Fine

LEMMA WentTo ==
  ASSUME Inv, NEW h \in Handlers, call[h].pc # "idle", NEW pc, pc # "idle", Goto(h, pc),
         pc # "done" => Knows(call[h].req, pc, call[h].saw, db')
  PROVE  Lands(h)
<1>1. CASE pc = "done"
  BY <1>1 DEF Goto, Moves, Lands, Fine
<1>2. CASE pc # "done"
  <2> DEFINE c == [call[h] EXCEPT !.pc = pc]
  <2>1. call' = [call EXCEPT ![h] = c] /\ UNCHANGED <<menu, left>>
    BY <1>2 DEF Goto, Moves
  <2>2. DOMAIN call[h] = {"req", "pc", "saw"} /\ call[h].req \in menu
    BY Busy
  <2>3. /\ c = [req |-> call[h].req, pc |-> pc, saw |-> call[h].saw]
        /\ c.req = call[h].req /\ c.pc = pc /\ c.saw = call[h].saw
    BY <2>2
  <2> HIDE DEF c
  <2> QED
    BY <1>2, <2>1, <2>2, <2>3 DEF Lands, Fine
<1> QED
  BY <1>1, <1>2

LEMMA NotedAt ==
  ASSUME Inv, NEW h \in Handlers, call[h].pc # "idle", NEW pc, pc # "idle", NEW guard, NEW v,
         Noted(h, guard, v, pc), Knows(call[h].req, pc, With(call[h].saw, guard, v), db')
  PROVE  Lands(h)
<1> DEFINE s == With(call[h].saw, guard, v)
           c == [call[h] EXCEPT !.pc = pc, !.saw = With(@, guard, v)]
<1>1. call' = [call EXCEPT ![h] = c] /\ UNCHANGED <<menu, left>>
  BY DEF Noted, Moves
<1>2. DOMAIN call[h] = {"req", "pc", "saw"} /\ call[h].req \in menu
  BY Busy
<1>3. /\ c = [req |-> call[h].req, pc |-> pc, saw |-> s]
      /\ c.req = call[h].req /\ c.pc = pc /\ c.saw = s
  <2> HIDE DEF s
  <2>1. c = [call[h] EXCEPT !.pc = pc, !.saw = s]
    BY <1>2 DEF s
  <2> HIDE DEF c
  <2> QED BY <1>2, <2>1
<1>4. Knows(call[h].req, pc, s, db')
  OBVIOUS
<1> HIDE DEF c, s
<1> QED
  BY <1>1, <1>2, <1>3, <1>4 DEF Lands, Fine

LEMMA Checked ==
  ASSUME Inv, NEW h \in Handlers, call[h].pc # "idle", NEW ok, NEW pc, pc # "idle",
         Check(h, ok, pc), ok /\ pc # "done" => Knows(call[h].req, pc, call[h].saw, db)
  PROVE  Lands(h) /\ db' = db
<1>1. CASE ok
  <2>1. Goto(h, pc) /\ db' = db
    BY <1>1 DEF Check
  <2>2. pc # "done" => Knows(call[h].req, pc, call[h].saw, db')
    BY <1>1, <2>1
  <2> QED
    BY <2>1, <2>2, WentTo
<1>2. CASE ~ok
  BY <1>2, Refused DEF Check
<1> QED
  BY <1>1, <1>2

LEMMA ReadIt ==
  ASSUME Inv, NEW h \in Handlers, call[h].pc # "idle", NEW guard, NEW v, NEW ok, NEW pc, pc # "idle",
         Read(h, guard, v, ok, pc),
         ok => Knows(call[h].req, pc, With(call[h].saw, guard, v), db)
  PROVE  Lands(h) /\ db' = db
<1>1. CASE ok
  <2>1. Noted(h, guard, v, pc) /\ db' = db
    BY <1>1 DEF Read
  <2>2. Knows(call[h].req, pc, With(call[h].saw, guard, v), db')
    BY <1>1, <2>1
  <2> QED
    BY <2>1, <2>2, NotedAt
<1>2. CASE ~ok
  BY <1>2, Refused DEF Read
<1> QED
  BY <1>1, <1>2

LEMMA Written ==
  ASSUME Inv, NEW h \in Handlers, call[h].pc # "idle", NEW e, NEW pc, pc # "idle",
         Write(h, e, pc), pc # "done" => Knows(call[h].req, pc, call[h].saw, e)
  PROVE  Lands(h) /\ (db' = db \/ (db' = e /\ Consistent(e)))
<1>1. CASE Consistent(e)
  <2>1. db' = e /\ Goto(h, pc)
    BY <1>1 DEF Write
  <2>2. pc # "done" => Knows(call[h].req, pc, call[h].saw, db')
    BY <2>1
  <2> QED
    BY <1>1, <2>1, <2>2, WentTo
<1>2. CASE ~Consistent(e)
  BY <1>2, Refused DEF Write
<1> QED
  BY <1>1, <1>2

\* What a handler writes, and at which statement.
Chosen(q, s) ==
  IF "found" \in DOMAIN s THEN With(q, "assignment", s.found)
  ELSE IF q.op = "user/update" \/ "assignment" \in DOMAIN q THEN q
  ELSE With(q, "assignment", NULL)
AccountWrite(h) ==
  LET q == call[h].req
      s == call[h].saw
  IN
    \/ At(h, "user/register", "insert") /\ db' = createUser(db, newUser(q))
    \/ /\ At(h, "user/register", "role")
       /\ \E i \in DOMAIN db.role : db' = insertUserRole(db, s.new, i)
    \/ At(h, "user/activate", "write") /\ db' = activateUser(db, q.id, On(q))
    \/ At(h, "user/delete", "write") /\ db' = deleteUser(db, q.id)
    \/ At(h, "user/changeRole", "insert") /\ db' = insertUserRole(db, q.id, q.role)
    \/ At(h, "user/changeRole", "revive") /\ db' = updateUserRole(db, q.id, q.role, TRUE)
    \/ At(h, "user/changeRole", "remove") /\ db' = updateUserRole(db, q.id, q.role, FALSE)
    \/ At(h, "user/activateImported", "commit") /\ db' = activateImportedUser(db, q, s.target)
    \/ /\ At(h, "user/update", "write") \/ At(h, "user/assignDepartmentRoleAssignment", "write")
       /\ db' = updateUser(db, Chosen(q, s), Updates(Chosen(q, s), s.email))
AccessWrite(h) ==
  LET q == call[h].req
      s == call[h].saw
  IN
    \/ At(h, "role/create", "insert") /\ db' = createRole(db, q)
    \/ At(h, "role/update", "write") /\ ~db.role[q.id].deleted /\ db' = updateRole(db, q)
    \/ At(h, "role/delete", "write") /\ db' = deleteRole(db, q.id)
    \/ At(h, "role/assignPermission", "write") /\ db' = assignPermission(db, q, s.row)
    \/ At(h, "role/removePermission", "write") /\ db' = removePermission(db, s.row)
    \/ At(h, "permission/create", "insert") /\ db' = createPermission(db, q)
    \/ /\ At(h, "permission/update", "write") /\ q.id \in DOMAIN db.permission
       /\ db' = updatePermission(db, q)
    \/ /\ At(h, "permission/delete", "write") /\ q.id \in DOMAIN db.permission
       /\ db' = deletePermission(db, q.id)
    \/ At(h, "user/grantPermission", "write") /\ db' = grant(db, q, s.row)
    \/ At(h, "user/grantPermission", "overwrite") /\ db' = overwrite(db, q, s.row)
    \/ At(h, "user/revokePermission", "write") /\ db' = revoke(db, q)
OrgWrite(h) ==
  LET q == call[h].req
      s == call[h].saw
  IN
    \/ At(h, "department/create", "insert") /\ db' = createDepartment(db, q)
    \/ At(h, "department/create", "write") /\ db' = fromTemplates(db, s.new, s.codes)
    \/ /\ At(h, "department/update", "write") /\ q.id \in DOMAIN db.department
       /\ db' = updateDepartment(db, q)
    \/ /\ At(h, "department/delete", "assignments")
       /\ db' = deleteAssignments(db, AssignmentsOf(db, q.id))
    \/ At(h, "department/delete", "write") /\ db' = deleteDepartment(db, q.id)
    \/ At(h, "assignment/create", "insert") /\ db' = createAssignment(db, q)
    \/ /\ At(h, "assignment/update", "write")
       /\ q.id \in DOMAIN db.assignment /\ "active" \in DOMAIN q /\ db' = updateAssignment(db, q)
    \/ At(h, "assignment/delete", "write") /\ db' = deleteAssignments(db, {q.id})
    \/ At(h, "template/create", "insert") /\ db' = createTemplate(db, q)
    \/ /\ At(h, "template/update", "write") /\ q.id \in LiveTemplates(db)
       /\ db' = updateTemplate(db, q)
    \/ /\ At(h, "template/delete", "write") /\ q.id \in LiveTemplates(db)
       /\ db' = deleteTemplate(db, q.id)
Wrote(h) ==
  Acts(h) /\ Consistent(db') /\ (AccountWrite(h) \/ AccessWrite(h) \/ OrgWrite(h))

Took(h) == Lands(h) /\ (db' = db \/ Wrote(h))

LEMMA Done ==
  ASSUME Inv, NEW h \in Handlers, call[h].pc # "idle", NEW e, Write(h, e, "done")
  PROVE  /\ Lands(h)
         /\ db' = db \/ (db' = e /\ Consistent(db') /\ Acts(h))
<1>1. Lands(h) /\ (db' = db \/ (db' = e /\ Consistent(e)))
  BY Written
<1>2. call' = [call EXCEPT ![h] = Idle]
  BY DEF Write, Refuse, Goto, Moves
<1>3. Acts(h)
  BY <1>2 DEF Acts, Inv, Idle
<1> QED
  BY <1>1, <1>3

----------------------------------------------------------------------------
(* The steps of requests for users *)

LEMMA DeleteUserTakes ==
  ASSUME Inv, NEW h \in Handlers, DeleteUser(h)
  PROVE  Took(h)
<1> DEFINE q == call[h].req
           s == call[h].saw
<1>1. CASE /\ At(h, "user/delete", "start")
           /\ Check(h, q.id \in LiveUsers(db), "role")
  <2>1. KnowsDelete(q, "start", s, db)
    BY <1>1, Busy DEF At, Knows, KnowsOfAccounts
  <2>2. q.id \in LiveUsers(db) => Knows(q, "role", s, db)
    BY <1>1, <2>1 DEF At, Knows, KnowsOfAccounts, KnowsOfAccess, KnowsOfOrg, KnowsDelete, LiveUsers
  <2> QED
    BY <1>1, <2>2, Checked DEF At, Took
<1>2. CASE /\ At(h, "user/delete", "role")
           /\ Read(h, "admin", hasAdminRole(db, q.id), TRUE,
                   IF hasAdminRole(db, q.id) THEN "count" ELSE "write")
  <2> DEFINE pc == IF hasAdminRole(db, q.id) THEN "count" ELSE "write"
             t == With(s, "admin", hasAdminRole(db, q.id))
  <2>1. KnowsDelete(q, "role", s, db)
    BY <1>2, Busy DEF At, Knows, KnowsOfAccounts
  <2>2. "admin" \in DOMAIN t
    BY NoteIs
  <2>3. t.admin = hasAdminRole(db, q.id)
    BY NoteIs
  <2> HIDE DEF t
  <2>4. KnowsDelete(q, pc, t, db)
    BY <2>1, <2>2, <2>3 DEF KnowsDelete, Counted
  <2>5. pc # "idle"
    OBVIOUS
  <2> HIDE DEF pc
  <2>6. Knows(q, pc, t, db)
    BY <1>2, <2>4 DEF At, Knows, KnowsOfAccounts, KnowsOfAccess, KnowsOfOrg
  <2> QED
    BY <1>2, <2>5, <2>6, ReadIt DEF At, Took, pc, t
<1>3. CASE /\ At(h, "user/delete", "count")
           /\ Read(h, "admins", countActiveAdmins(db), countActiveAdmins(db) > 1, "write")
  <2> DEFINE t == With(s, "admins", countActiveAdmins(db))
  <2>1. KnowsDelete(q, "count", s, db)
    BY <1>3, Busy DEF At, Knows, KnowsOfAccounts
  <2>2. "admins" \in DOMAIN t
    BY NoteIs
  <2>3. t.admins = countActiveAdmins(db)
    BY NoteIs
  <2>4. "admin" \in DOMAIN s => "admin" \in DOMAIN t
    BY NoteIs
  <2> HIDE DEF t
  <2>5. countActiveAdmins(db) > 1 => KnowsDelete(q, "write", t, db)
    BY <2>1, <2>2, <2>3, <2>4 DEF KnowsDelete, Counted
  <2>6. countActiveAdmins(db) > 1 => Knows(q, "write", t, db)
    BY <1>3, <2>5 DEF At, Knows, KnowsOfAccounts, KnowsOfAccess, KnowsOfOrg
  <2> QED
    BY <1>3, <2>6, ReadIt DEF At, Took, t
<1>4. CASE At(h, "user/delete", "write") /\ Write(h, deleteUser(db, q.id), "done")
  BY <1>4, Done DEF At, Took, Wrote, AccountWrite
<1> QED
  BY <1>1, <1>2, <1>3, <1>4 DEF DeleteUser

LEMMA ActivateUserTakes ==
  ASSUME Inv, NEW h \in Handlers, ActivateUser(h)
  PROVE  Took(h)
<1> DEFINE q == call[h].req
           s == call[h].saw
<1>1. CASE /\ At(h, "user/activate", "start")
           /\ Check(h, q.id \in LiveUsers(db) /\ (On(q) \/ q.id # q.by), IF On(q) THEN "write" ELSE "role")
  <2> DEFINE ok == q.id \in LiveUsers(db) /\ (On(q) \/ q.id # q.by)
  <2> DEFINE pc == IF On(q) THEN "write" ELSE "role"
  <2>1. KnowsActivate(q, "start", s, db)
    BY <1>1, Busy DEF At, Knows, KnowsOfAccounts
  <2>2. ok => KnowsActivate(q, pc, s, db)
    BY <2>1 DEF KnowsActivate, LiveUsers
  <2> HIDE DEF ok
  <2>3. ok => Knows(q, pc, s, db)
    BY <1>1, <2>2 DEF At, Knows, KnowsOfAccounts, KnowsOfAccess, KnowsOfOrg
  <2>4. pc # "idle"
    OBVIOUS
  <2> HIDE DEF pc
  <2> QED
    BY <1>1, <2>3, <2>4, Checked DEF At, Took, ok, pc
<1>2. CASE /\ At(h, "user/activate", "role")
           /\ Read(h, "admin", hasAdminRole(db, q.id), TRUE, IF hasAdminRole(db, q.id) THEN "count" ELSE "write")
  <2> DEFINE t == With(s, "admin", hasAdminRole(db, q.id))
             pc == IF hasAdminRole(db, q.id) THEN "count" ELSE "write"
  <2>1. KnowsActivate(q, "role", s, db)
    BY <1>2, Busy DEF At, Knows, KnowsOfAccounts
  <2>2. "admin" \in DOMAIN t
    BY NoteIs
  <2>3. t.admin = hasAdminRole(db, q.id)
    BY NoteIs
  <2> HIDE DEF t
  <2>4. KnowsActivate(q, pc, t, db)
    BY <2>1, <2>2, <2>3 DEF KnowsActivate, Counted
  <2>5. pc # "idle"
    OBVIOUS
  <2> HIDE DEF pc
  <2>6. Knows(q, pc, t, db)
    BY <1>2, <2>4 DEF At, Knows, KnowsOfAccounts, KnowsOfAccess, KnowsOfOrg
  <2> QED
    BY <1>2, <2>6, <2>5, ReadIt DEF At, Took, t, pc
<1>3. CASE /\ At(h, "user/activate", "count")
           /\ Read(h, "admins", countActiveAdmins(db), countActiveAdmins(db) > 1, "write")
  <2> DEFINE t == With(s, "admins", countActiveAdmins(db))
  <2>1. KnowsActivate(q, "count", s, db)
    BY <1>3, Busy DEF At, Knows, KnowsOfAccounts
  <2>2. "admins" \in DOMAIN t
    BY NoteIs
  <2>3. t.admins = countActiveAdmins(db)
    BY NoteIs
  <2>4. "admin" \in DOMAIN s => "admin" \in DOMAIN t
    BY NoteIs
  <2> HIDE DEF t
  <2>5. countActiveAdmins(db) > 1 => KnowsActivate(q, "write", t, db)
    BY <2>1, <2>2, <2>3, <2>4 DEF KnowsActivate, Counted
  <2>6. countActiveAdmins(db) > 1 => Knows(q, "write", t, db)
    BY <1>3, <2>5 DEF At, Knows, KnowsOfAccounts, KnowsOfAccess, KnowsOfOrg
  <2> QED
    BY <1>3, <2>6, ReadIt DEF At, Took, t
<1>4. CASE /\ At(h, "user/activate", "write")
           /\ Write(h, activateUser(db, q.id, On(q)), "done")
  BY <1>4, Done DEF At, Took, Wrote, AccountWrite
<1> QED
  BY <1>1, <1>2, <1>3, <1>4 DEF ActivateUser

\* What a registration inserts is a row of the table.
UserInserted(d, e, q) ==
  /\ OneTable(d, e, "user") /\ DOMAIN e.user = DOMAIN d.user \cup {Fresh(d)}
  /\ Fresh(d) \notin DOMAIN d.user
  /\ \A u \in DOMAIN d.user : e.user[u] = d.user[u]
  /\ e.user[Fresh(d)].card = (IF "card" \in DOMAIN q THEN q.card ELSE NULL)
  /\ e.user[Fresh(d)].activated = FALSE

LEMMA RegisterKeeps ==
  ASSUME NEW d, WellFormed(d), NEW q, registerSchema(q)
  PROVE  LET new == newUser(q)
             e == createUser(d, new) IN
         WellFormed(e) /\ Grows(d, e) /\ UserInserted(d, e, q)
<1> DEFINE new == newUser(q)
<1>1. /\ new.email \in Names /\ new.username \in Names
      /\ new.card \in Cards \cup {NULL} /\ new.assignment \in Ids \cup {NULL}
      /\ new.card = IF "card" \in DOMAIN q THEN q.card ELSE NULL
  BY DEF newUser, registerSchema, Required, Optional
<1> HIDE DEF new
<1> DEFINE e == createUser(d, new)
<1>2. /\ WellFormed(e) /\ Grows(d, e) /\ OneTable(d, e, "user")
      /\ Fresh(d) \notin DOMAIN d.user /\ DOMAIN e.user = DOMAIN d.user \cup {Fresh(d)}
      /\ \A u \in DOMAIN d.user : e.user[u] = d.user[u]
      /\ e.user[Fresh(d)] = [email |-> new.email, username |-> new.username, card |-> new.card,
                             active |-> TRUE, deleted |-> FALSE, status |-> "ACTIVE",
                             activated |-> FALSE, assignment |-> new.assignment]
  BY <1>1, createUserKeeps
<1> HIDE DEF e
<1>3. e.user[Fresh(d)].card = new.card /\ e.user[Fresh(d)].activated = FALSE
  BY <1>2
<1>4. UserInserted(d, e, q)
  BY <1>1, <1>2, <1>3 DEF UserInserted
<1> QED
  BY <1>2, <1>4 DEF e, new

LEMMA RegisterUserTakes ==
  ASSUME Inv, NEW h \in Handlers, RegisterUser(h)
  PROVE  Took(h)
<1> DEFINE q == call[h].req
           s == call[h].saw
<1>1. CASE /\ At(h, "user/register", "start")
           /\ Read(h, "card", CardHolders(db, q.card) # {}, CardHolders(db, q.card) = {}, "email")
  <2> DEFINE t == With(s, "card", CardHolders(db, q.card) # {})
  <2>1. KnowsRegister(q, "start", s, db)
    BY <1>1, Busy DEF At, Knows, KnowsOfAccounts
  <2>2. "card" \in DOMAIN t
    BY NoteIs
  <2> HIDE DEF t
  <2>3. CardHolders(db, q.card) = {} => KnowsRegister(q, "email", t, db)
    BY <2>1, <2>2 DEF KnowsRegister
  <2>4. CardHolders(db, q.card) = {} => Knows(q, "email", t, db)
    BY <1>1, <2>3 DEF At, Knows, KnowsOfAccounts, KnowsOfAccess, KnowsOfOrg
  <2> QED
    BY <1>1, <2>4, ReadIt DEF At, Took, t
<1>2. CASE /\ At(h, "user/register", "start")
           /\ "card" \notin DOMAIN q
           /\ Check(h, TRUE, "email")
  <2>1. KnowsRegister(q, "start", s, db)
    BY <1>2, Busy DEF At, Knows, KnowsOfAccounts
  <2>2. KnowsRegister(q, "email", s, db)
    BY <1>2, <2>1 DEF KnowsRegister
  <2>3. Knows(q, "email", s, db)
    BY <1>2, <2>2 DEF At, Knows, KnowsOfAccounts, KnowsOfAccess, KnowsOfOrg
  <2> QED
    BY <1>2, <2>3, Checked DEF At, Took
<1>3. CASE /\ At(h, "user/register", "email")
           /\ Check(h, UsersWith(db, "email", q.email) = {}, "username")
  <2>1. KnowsRegister(q, "email", s, db)
    BY <1>3, Busy DEF At, Knows, KnowsOfAccounts
  <2>2. UsersWith(db, "email", q.email) = {} => KnowsRegister(q, "username", s, db)
    BY <2>1 DEF KnowsRegister
  <2>3. UsersWith(db, "email", q.email) = {} => Knows(q, "username", s, db)
    BY <1>3, <2>2 DEF At, Knows, KnowsOfAccounts, KnowsOfAccess, KnowsOfOrg
  <2> QED
    BY <1>3, <2>3, Checked DEF At, Took
<1>4. CASE /\ At(h, "user/register", "username")
           /\ Check(h, UsersWith(db, "username", newUser(q).username) = {}, "assignment")
  <2> DEFINE ok == UsersWith(db, "username", newUser(q).username) = {}
  <2>1. KnowsRegister(q, "username", s, db)
    BY <1>4, Busy DEF At, Knows, KnowsOfAccounts
  <2>2. ok => KnowsRegister(q, "assignment", s, db)
    BY <2>1 DEF KnowsRegister
  <2> HIDE DEF ok
  <2>3. ok => Knows(q, "assignment", s, db)
    BY <1>4, <2>2 DEF At, Knows, KnowsOfAccounts, KnowsOfAccess, KnowsOfOrg
  <2> QED
    BY <1>4, <2>3, Checked DEF At, Took, ok
<1>5. CASE /\ At(h, "user/register", "assignment")
           /\ Check(h, "assignment" \in DOMAIN q =>
                       /\ q.assignment \in DOMAIN db.assignment
                       /\ db.assignment[q.assignment].active, "insert")
  <2> DEFINE ok == "assignment" \in DOMAIN q =>
                       /\ q.assignment \in DOMAIN db.assignment
                       /\ db.assignment[q.assignment].active
  <2>1. KnowsRegister(q, "assignment", s, db)
    BY <1>5, Busy DEF At, Knows, KnowsOfAccounts
  <2>2. ok => KnowsRegister(q, "insert", s, db)
    BY <2>1 DEF KnowsRegister
  <2> HIDE DEF ok
  <2>3. ok => Knows(q, "insert", s, db)
    BY <1>5, <2>2 DEF At, Knows, KnowsOfAccounts, KnowsOfAccess, KnowsOfOrg
  <2> QED
    BY <1>5, <2>3, Checked DEF At, Took, ok
<1>6. CASE /\ At(h, "user/register", "insert")
           /\ Consistent(createUser(db, newUser(q)))
           /\ db' = createUser(db, newUser(q)) /\ Noted(h, "new", Fresh(db), "role")
  <2> DEFINE t == With(s, "new", Fresh(db))
  <2>1. KnowsRegister(q, "insert", s, db)
    BY <1>6, Busy DEF At, Knows, KnowsOfAccounts
  <2>2. Fresh(db) \in DOMAIN db'.user
    <3> DEFINE e == createUser(db, newUser(q))
    <3>1. WellFormed(db) /\ registerSchema(q)
      BY <2>1 DEF KnowsRegister, Inv
    <3>2. UserInserted(db, e, q)
      BY <3>1, RegisterKeeps
    <3> HIDE DEF e
    <3>3. Fresh(db) \in DOMAIN e.user
      BY <3>2 DEF UserInserted
    <3> QED
      BY <1>6, <3>3 DEF e
  <2>3. t.new = Fresh(db)
    BY NoteIs
  <2> HIDE DEF t
  <2>4. KnowsRegister(q, "role", t, db')
    BY <2>1, <2>2, <2>3 DEF KnowsRegister
  <2>5. Knows(q, "role", t, db')
    BY <1>6, <2>4 DEF At, Knows, KnowsOfAccounts, KnowsOfAccess, KnowsOfOrg
  <2>6. Lands(h)
    BY <1>6, <2>5, NotedAt DEF At, t
  <2>7. Acts(h)
    BY <1>6, Busy DEF Noted, Moves, Acts, At, Inv
  <2> QED
    BY <1>6, <2>6, <2>7 DEF Took, Wrote, AccountWrite
<1>7. CASE /\ At(h, "user/register", "insert")
           /\ Refuse(h)
  BY <1>7, Refused DEF Took
<1>8. CASE /\ At(h, "user/register", "role")
           /\ \E i \in AnyOf({i \in DOMAIN db.role : db.role[i].name = "app_user"}) :
                \/ Write(h, IF i = NULL THEN db ELSE insertUserRole(db, s.new, i), "done")
                \/ Refuse(h)
  <2>1. PICK i \in AnyOf({i \in DOMAIN db.role : db.role[i].name = "app_user"}) :
          \/ Write(h, IF i = NULL THEN db ELSE insertUserRole(db, s.new, i), "done")
          \/ Refuse(h)
    BY <1>8
  <2>2. i = NULL \/ i \in DOMAIN db.role
    BY DEF AnyOf
  <2> QED
    BY <1>8, <2>1, <2>2, Done, Refused DEF At, Took, Wrote, AccountWrite
<1> QED
  BY <1>1, <1>2, <1>3, <1>4, <1>5, <1>6, <1>7, <1>8 DEF RegisterUser

LEMMA ChangeRoleTakes ==
  ASSUME Inv, NEW h \in Handlers, ChangeRole(h)
  PROVE  Took(h)
<1> DEFINE q == call[h].req
           s == call[h].saw
           named(names) == q.role \in DOMAIN db.role /\ db.role[q.role].name \in names
<1>1. CASE /\ At(h, "user/changeRole", "start")
           /\ Check(h, IF Assigns(q) THEN ~named({"super_admin"}) ELSE q.id # q.by, IF ~Assigns(q) /\ named({"admin", "super_admin"}) THEN "count" ELSE "user")
  <2> DEFINE ok == IF Assigns(q) THEN ~named({"super_admin"}) ELSE q.id # q.by
  <2> DEFINE pc == IF ~Assigns(q) /\ named({"admin", "super_admin"}) THEN "count" ELSE "user"
  <2>1. KnowsChangeRole(q, "start", s, db)
    BY <1>1, Busy DEF At, Knows, KnowsOfAccounts
  <2>2. ok => KnowsChangeRole(q, pc, s, db)
    BY <2>1 DEF KnowsChangeRole, AdminNamed
  <2> HIDE DEF ok
  <2>3. ok => Knows(q, pc, s, db)
    BY <1>1, <2>2 DEF At, Knows, KnowsOfAccounts, KnowsOfAccess, KnowsOfOrg
  <2>4. pc # "idle"
    OBVIOUS
  <2> HIDE DEF pc
  <2> QED
    BY <1>1, <2>3, <2>4, Checked DEF At, Took, ok, pc
<1>2. CASE /\ At(h, "user/changeRole", "count")
           /\ Read(h, "admins", countActiveAdmins(db), countActiveAdmins(db) > 1, "user")
  <2> DEFINE t == With(s, "admins", countActiveAdmins(db))
  <2>1. KnowsChangeRole(q, "count", s, db)
    BY <1>2, Busy DEF At, Knows, KnowsOfAccounts
  <2>2. "admins" \in DOMAIN t /\ t.admins = countActiveAdmins(db)
    <3>1. "admins" \in DOMAIN t
      BY NoteIs
    <3>2. t["admins"] = countActiveAdmins(db)
      BY NoteIs
    <3> QED
      BY <3>1, <3>2
  <2> HIDE DEF t
  <2>3. countActiveAdmins(db) > 1 => KnowsChangeRole(q, "user", t, db)
    BY <2>1, <2>2 DEF KnowsChangeRole
  <2>4. countActiveAdmins(db) > 1 => Knows(q, "user", t, db)
    BY <1>2, <2>3 DEF At, Knows, KnowsOfAccounts, KnowsOfAccess, KnowsOfOrg
  <2> QED
    BY <1>2, <2>4, ReadIt DEF At, Took, t
<1> QED
  BY <1>1, <1>2 DEF ChangeRole

LEMMA SetRoleTakes ==
  ASSUME Inv, NEW h \in Handlers, SetRole(h)
  PROVE  Took(h)
<1> DEFINE q == call[h].req
           s == call[h].saw
<1>1. CASE /\ At(h, "user/changeRole", "user")
           /\ Check(h, q.id \in LiveUsers(db), "role")
  <2>1. KnowsChangeRole(q, "user", s, db)
    BY <1>1, Busy DEF At, Knows, KnowsOfAccounts
  <2>2. q.id \in LiveUsers(db) => KnowsChangeRole(q, "role", s, db)
    BY <2>1 DEF KnowsChangeRole, LiveUsers
  <2>3. q.id \in LiveUsers(db) => Knows(q, "role", s, db)
    BY <1>1, <2>2 DEF At, Knows, KnowsOfAccounts, KnowsOfAccess, KnowsOfOrg
  <2> QED
    BY <1>1, <2>3, Checked DEF At, Took
<1>2. CASE /\ At(h, "user/changeRole", "role")
           /\ Check(h, q.role \in DOMAIN db.role, "row")
  <2>1. KnowsChangeRole(q, "role", s, db)
    BY <1>2, Busy DEF At, Knows, KnowsOfAccounts
  <2>2. q.role \in DOMAIN db.role => KnowsChangeRole(q, "row", s, db)
    BY <2>1 DEF KnowsChangeRole
  <2>3. q.role \in DOMAIN db.role => Knows(q, "row", s, db)
    BY <1>2, <2>2 DEF At, Knows, KnowsOfAccounts, KnowsOfAccess, KnowsOfOrg
  <2> QED
    BY <1>2, <2>3, Checked DEF At, Took
<1>3. CASE /\ At(h, "user/changeRole", "row")
           /\ \E i \in AnyOf(UserRoles(db, q.id, q.role)) :
                LET active == i # NULL /\ db.userRole[i].active IN
                IF Assigns(q) THEN Check(h, ~active, IF i = NULL THEN "insert" ELSE "revive")
                              ELSE Check(h, active, "remove")
  <2>1. PICK i \in AnyOf(UserRoles(db, q.id, q.role)) :
          LET active == i # NULL /\ db.userRole[i].active IN
          IF Assigns(q) THEN Check(h, ~active, IF i = NULL THEN "insert" ELSE "revive")
                        ELSE Check(h, active, "remove")
    BY <1>3
  <2>2. KnowsChangeRole(q, "row", s, db)
    BY <1>3, Busy DEF At, Knows, KnowsOfAccounts
  <2>3. i # NULL => i \in UserRoles(db, q.id, q.role)
    BY DEF AnyOf
  <2> DEFINE active == i # NULL /\ db.userRole[i].active
             pc == IF i = NULL THEN "insert" ELSE "revive"
  <2>4. Assigns(q) => Knows(q, pc, s, db)
    <3>1. Assigns(q) => KnowsChangeRole(q, pc, s, db)
      BY <2>2, <2>3 DEF KnowsChangeRole
    <3> HIDE DEF pc
    <3> QED
      BY <1>3, <3>1 DEF At, Knows, KnowsOfAccounts, KnowsOfAccess, KnowsOfOrg
  <2>5. ~Assigns(q) => Knows(q, "remove", s, db)
    <3>1. ~Assigns(q) => KnowsChangeRole(q, "remove", s, db)
      BY <2>2 DEF KnowsChangeRole
    <3> QED
      BY <1>3, <3>1 DEF At, Knows, KnowsOfAccounts, KnowsOfAccess, KnowsOfOrg
  <2>6. pc # "idle"
    OBVIOUS
  <2>7. CASE Assigns(q)
    <3>1. Check(h, ~active, pc)
      BY <2>1, <2>7
    <3> HIDE DEF pc, active
    <3> QED
      BY <1>3, <2>4, <2>6, <2>7, <3>1, Checked DEF At, Took
  <2>8. CASE ~Assigns(q)
    <3>1. Check(h, active, "remove")
      BY <2>1, <2>8
    <3> HIDE DEF active
    <3> QED
      BY <1>3, <2>5, <2>8, <3>1, Checked DEF At, Took
  <2> QED
    BY <2>7, <2>8
<1>4. CASE /\ At(h, "user/changeRole", "insert")
           /\ Write(h, insertUserRole(db, q.id, q.role), "done")
  BY <1>4, Done DEF At, Took, Wrote, AccountWrite
<1>5. CASE /\ At(h, "user/changeRole", "revive")
           /\ Write(h, updateUserRole(db, q.id, q.role, TRUE), "done")
  BY <1>5, Done DEF At, Took, Wrote, AccountWrite
<1>6. CASE /\ At(h, "user/changeRole", "remove")
           /\ Write(h, updateUserRole(db, q.id, q.role, FALSE), "done")
  BY <1>6, Done DEF At, Took, Wrote, AccountWrite
<1> QED
  BY <1>1, <1>2, <1>3, <1>4, <1>5, <1>6 DEF SetRole

LEMMA ActivateImportedTakes ==
  ASSUME Inv, NEW h \in Handlers, ActivateImported(h)
  PROVE  Took(h)
<1> DEFINE q == call[h].req
           s == call[h].saw
<1>1. CASE /\ At(h, "user/activateImported", "start") /\ q.id \in DOMAIN db.user
           /\ Read(h, "target", db.user[q.id],
                   ~db.user[q.id].deleted /\ db.user[q.id].status = "IMPORTED"
                     /\ ~db.user[q.id].activated, "email")
  <2> DEFINE t == With(s, "target", db.user[q.id])
             ok == ~db.user[q.id].deleted /\ db.user[q.id].status = "IMPORTED"
                     /\ ~db.user[q.id].activated
  <2>1. KnowsActivateImported(q, "start", s, db)
    BY <1>1, Busy DEF At, Knows, KnowsOfAccounts
  <2>2. "target" \in DOMAIN t
    BY NoteIs
  <2>3. t.target = db.user[q.id]
    BY NoteIs
  <2>4. db.user[q.id] \in UserRow
    BY <1>1 DEF Inv, WellFormed, TableOf
  <2> HIDE DEF t
  <2>5. ok => KnowsActivateImported(q, "email", t, db)
    BY <1>1, <2>1, <2>2, <2>3, <2>4 DEF KnowsActivateImported
  <2> HIDE DEF ok
  <2>6. ok => Knows(q, "email", t, db)
    BY <1>1, <2>5 DEF At, Knows, KnowsOfAccounts, KnowsOfAccess, KnowsOfOrg
  <2> QED
    BY <1>1, <2>6, ReadIt DEF At, Took, t, ok
<1>2. CASE /\ At(h, "user/activateImported", "start")
           /\ Refuse(h)
  BY <1>2, Refused DEF Took
<1>3. CASE /\ At(h, "user/activateImported", "email")
           /\ Check(h, \A u \in LiveUsers(db) \ {q.id} :
                    Lower(db.user[u].email) # Lower(q.email), "username")
  <2> DEFINE ok == \A u \in LiveUsers(db) \ {q.id} :
                    Lower(db.user[u].email) # Lower(q.email)
  <2>1. KnowsActivateImported(q, "email", s, db)
    BY <1>3, Busy DEF At, Knows, KnowsOfAccounts
  <2>2. ok => KnowsActivateImported(q, "username", s, db)
    BY <2>1 DEF KnowsActivateImported
  <2> HIDE DEF ok
  <2>3. ok => Knows(q, "username", s, db)
    BY <1>3, <2>2 DEF At, Knows, KnowsOfAccounts, KnowsOfAccess, KnowsOfOrg
  <2> QED
    BY <1>3, <2>3, Checked DEF At, Took, ok
<1>4. CASE /\ At(h, "user/activateImported", "username")
           /\ Check(h, "username" \in DOMAIN q =>
                    \A u \in LiveUsers(db) \ {q.id} :
                      Lower(db.user[u].username) # Lower(q.username), "assignment")
  <2> DEFINE ok == "username" \in DOMAIN q =>
                    \A u \in LiveUsers(db) \ {q.id} :
                      Lower(db.user[u].username) # Lower(q.username)
  <2>1. KnowsActivateImported(q, "username", s, db)
    BY <1>4, Busy DEF At, Knows, KnowsOfAccounts
  <2>2. ok => KnowsActivateImported(q, "assignment", s, db)
    BY <2>1 DEF KnowsActivateImported
  <2> HIDE DEF ok
  <2>3. ok => Knows(q, "assignment", s, db)
    BY <1>4, <2>2 DEF At, Knows, KnowsOfAccounts, KnowsOfAccess, KnowsOfOrg
  <2> QED
    BY <1>4, <2>3, Checked DEF At, Took, ok
<1>5. CASE /\ At(h, "user/activateImported", "assignment")
           /\ Check(h, "assignment" \in DOMAIN q =>
                  /\ q.assignment \in DOMAIN db.assignment
                  /\ db.assignment[q.assignment].active, "role")
  <2> DEFINE ok == "assignment" \in DOMAIN q =>
                  /\ q.assignment \in DOMAIN db.assignment
                  /\ db.assignment[q.assignment].active
  <2>1. KnowsActivateImported(q, "assignment", s, db)
    BY <1>5, Busy DEF At, Knows, KnowsOfAccounts
  <2>2. ok => KnowsActivateImported(q, "role", s, db)
    BY <2>1 DEF KnowsActivateImported
  <2> HIDE DEF ok
  <2>3. ok => Knows(q, "role", s, db)
    BY <1>5, <2>2 DEF At, Knows, KnowsOfAccounts, KnowsOfAccess, KnowsOfOrg
  <2> QED
    BY <1>5, <2>3, Checked DEF At, Took, ok
<1>6. CASE /\ At(h, "user/activateImported", "role")
           /\ Check(h, "role" \in DOMAIN q =>
                  /\ q.role \in DOMAIN db.role
                  /\ ~db.role[q.role].deleted /\ db.role[q.role].active, "commit")
  <2> DEFINE ok == "role" \in DOMAIN q =>
                  /\ q.role \in DOMAIN db.role
                  /\ ~db.role[q.role].deleted /\ db.role[q.role].active
  <2>1. KnowsActivateImported(q, "role", s, db)
    BY <1>6, Busy DEF At, Knows, KnowsOfAccounts
  <2>2. ok => KnowsActivateImported(q, "commit", s, db)
    BY <2>1 DEF KnowsActivateImported
  <2> HIDE DEF ok
  <2>3. ok => Knows(q, "commit", s, db)
    BY <1>6, <2>2 DEF At, Knows, KnowsOfAccounts, KnowsOfAccess, KnowsOfOrg
  <2> QED
    BY <1>6, <2>3, Checked DEF At, Took, ok
<1>7. CASE /\ At(h, "user/activateImported", "commit")
           /\ Write(h, activateImportedUser(db, q, s.target), "done")
  BY <1>7, Done DEF At, Took, Wrote, AccountWrite
<1>8. CASE /\ At(h, "user/activateImported", "commit")
           /\ Refuse(h)
  BY <1>8, Refused DEF Took
<1> QED
  BY <1>1, <1>2, <1>3, <1>4, <1>5, <1>6, <1>7, <1>8 DEF ActivateImported

LEMMA UpdateKnows ==
  ASSUME Inv, NEW h \in Handlers, NEW pc, pc # "idle",
         At(h, "user/update", pc) \/ At(h, "user/assignDepartmentRoleAssignment", pc)
  PROVE  /\ KnowsUpdate(call[h].req, pc, call[h].saw, db)
         /\ \A pc2, s2 : KnowsUpdate(call[h].req, pc2, s2, db) => Knows(call[h].req, pc2, s2, db)
<1> DEFINE q == call[h].req
           s == call[h].saw
<1>1. /\ q.op \in {"user/update", "user/assignDepartmentRoleAssignment"}
      /\ Knows(q, pc, s, db)
  BY Busy DEF At
<1>2. /\ KnowsUpdate(q, pc, s, db)
      /\ q.op = "user/update" => updateSchema(q)
      /\ q.op = "user/assignDepartmentRoleAssignment" => assignmentSchema(q)
  BY <1>1 DEF Knows, KnowsOfAccounts
<1>3. ASSUME NEW pc2, NEW s2, KnowsUpdate(q, pc2, s2, db)
      PROVE  Knows(q, pc2, s2, db)
  BY <1>1, <1>2, <1>3 DEF Knows, KnowsOfAccounts, KnowsOfAccess, KnowsOfOrg
<1> QED
  BY <1>2, <1>3

LEMMA UpdateUserTakes ==
  ASSUME Inv, NEW h \in Handlers, UpdateUser(h)
  PROVE  Took(h)
<1> DEFINE q == call[h].req
           s == call[h].saw
           Here(pc) == At(h, "user/update", pc)
                       \/ At(h, "user/assignDepartmentRoleAssignment", pc)
           chosen == Chosen(q, s)
           fields == Updates(chosen, s.email)
<1>1. CASE /\ At(h, "user/update", "start") \/ Here("exists")
           /\ q.id \in DOMAIN db.user
           /\ Read(h, "email", db.user[q.id].email, TRUE, "email")
  <2> DEFINE t == With(s, "email", db.user[q.id].email)
  <2>1. KnowsUpdate(q, "start", s, db) \/ KnowsUpdate(q, "exists", s, db)
    BY <1>1, UpdateKnows
  <2>2. "found" \in DOMAIN t => "found" \in DOMAIN s
    BY NoteIs
  <2>3. "found" \in DOMAIN s => t.found = s.found
    BY NoteIs
  <2> HIDE DEF t
  <2>4. KnowsUpdate(q, "email", t, db)
    BY <1>1, <2>1, <2>2, <2>3 DEF KnowsUpdate
  <2>5. Knows(q, "email", t, db)
    BY <1>1, <2>4, UpdateKnows
  <2> QED
    BY <1>1, <2>5, ReadIt DEF At, Took, t
<1>2. CASE /\ Refuse(h)
  BY <1>2, Refused DEF Took
<1>3. CASE /\ Here("email")
           /\ \E u \in AnyOf(UsersWith(db, "email", q.email)) : Check(h, u \in {NULL, q.id}, "username")
  <2>1. PICK u : Check(h, u \in {NULL, q.id}, "username")
    BY <1>3
  <2>2. KnowsUpdate(q, "username", s, db)
    BY <1>3, UpdateKnows DEF KnowsUpdate
  <2>3. Knows(q, "username", s, db)
    BY <1>3, <2>2, UpdateKnows
  <2> QED
    BY <1>3, <2>1, <2>3, Checked DEF At, Took
<1>4. CASE /\ Here("email")
           /\ Check(h, TRUE, "username")
  <2>1. KnowsUpdate(q, "email", s, db)
    BY <1>4, UpdateKnows
  <2>2. KnowsUpdate(q, "username", s, db)
    BY <1>4, <2>1 DEF KnowsUpdate
  <2>3. Knows(q, "username", s, db)
    BY <1>4, <2>2, UpdateKnows
  <2> QED
    BY <1>4, <2>3, Checked DEF At, Took
<1>5. CASE /\ Here("username")
           /\ \E u \in AnyOf(UsersWith(db, "username", q.username)) : Check(h, u \in {NULL, q.id}, "assignment")
  <2>1. PICK u : Check(h, u \in {NULL, q.id}, "assignment")
    BY <1>5
  <2>2. KnowsUpdate(q, "assignment", s, db)
    BY <1>5, UpdateKnows DEF KnowsUpdate
  <2>3. Knows(q, "assignment", s, db)
    BY <1>5, <2>2, UpdateKnows
  <2> QED
    BY <1>5, <2>1, <2>3, Checked DEF At, Took
<1>6. CASE /\ Here("username")
           /\ Check(h, TRUE, "assignment")
  <2>1. KnowsUpdate(q, "username", s, db)
    BY <1>6, UpdateKnows
  <2>2. KnowsUpdate(q, "assignment", s, db)
    BY <1>6, <2>1 DEF KnowsUpdate
  <2>3. Knows(q, "assignment", s, db)
    BY <1>6, <2>2, UpdateKnows
  <2> QED
    BY <1>6, <2>3, Checked DEF At, Took
<1>7. CASE /\ Here("assignment")
           /\ Check(h, "assignment" \in DOMAIN chosen =>
                    chosen.assignment \in DOMAIN db.assignment \cup {NULL}, IF "assignment" \notin DOMAIN chosen /\ "code" \in DOMAIN q THEN "own" ELSE "card")
  <2>1. KnowsUpdate(q, "assignment", s, db)
    BY <1>7, UpdateKnows
  <2> DEFINE ok == "assignment" \in DOMAIN chosen =>
                    chosen.assignment \in DOMAIN db.assignment \cup {NULL}
  <2> DEFINE pc == IF "assignment" \notin DOMAIN chosen /\ "code" \in DOMAIN q THEN "own" ELSE "card"
  <2>2. ok => KnowsUpdate(q, pc, s, db)
    BY <1>7, <2>1 DEF KnowsUpdate
  <2>4. pc # "idle"
    OBVIOUS
  <2> HIDE DEF pc, ok
  <2>3. ok => Knows(q, pc, s, db)
    BY <1>7, <2>2, UpdateKnows
  <2> QED
    BY <1>7, <2>3, <2>4, Checked DEF At, Took, pc, ok
<1>8. CASE /\ Here("own")
           /\ Read(h, "own", db.user[q.id].assignment, TRUE, "department")
  <2> DEFINE t == With(s, "own", db.user[q.id].assignment)
  <2>1. KnowsUpdate(q, "own", s, db)
    BY <1>8, UpdateKnows
  <2>2. "own" \in DOMAIN t
    BY NoteIs
  <2>3. "found" \in DOMAIN t => "found" \in DOMAIN s
    BY NoteIs
  <2>4. "found" \in DOMAIN s => t.found = s.found
    BY NoteIs
  <2> HIDE DEF t
  <2>5. KnowsUpdate(q, "department", t, db)
    BY <1>8, <2>1, <2>2, <2>3, <2>4 DEF KnowsUpdate
  <2>6. Knows(q, "department", t, db)
    BY <1>8, <2>5, UpdateKnows
  <2> QED
    BY <1>8, <2>6, ReadIt DEF At, Took, t
<1>9. CASE /\ Here("department")
           /\ \E d : Read(h, "department", d, d # NULL, "code")
  <2>1. PICK d : Read(h, "department", d, d # NULL, "code")
    BY <1>9
  <2> DEFINE t == With(s, "department", d)
  <2>2. KnowsUpdate(q, "department", s, db)
    BY <1>9, UpdateKnows
  <2>3. "found" \in DOMAIN t => "found" \in DOMAIN s
    BY NoteIs
  <2>4. "found" \in DOMAIN s => t.found = s.found
    BY NoteIs
  <2> HIDE DEF t
  <2>5. KnowsUpdate(q, "code", t, db)
    BY <1>9, <2>2, <2>3, <2>4 DEF KnowsUpdate
  <2>6. Knows(q, "code", t, db)
    BY <1>9, <2>5, UpdateKnows
  <2> QED
    BY <1>9, <2>1, <2>6, ReadIt DEF At, Took, t
<1>10. CASE /\ Here("code")
           /\ \E a \in AnyOf({a \in DOMAIN db.assignment :
                                 /\ db.assignment[a].department = s.department
                                 /\ db.assignment[a].code = q.code}) :
                Read(h, "found", a, a # NULL, "card")
  <2>1. PICK a \in AnyOf({a \in DOMAIN db.assignment :
                               /\ db.assignment[a].department = s.department
                               /\ db.assignment[a].code = q.code}) :
          Read(h, "found", a, a # NULL, "card")
    BY <1>10
  <2>2. a # NULL => a \in Ids
    <3>1. DOMAIN db.assignment \subseteq Ids
      BY DEF Inv, WellFormed, TableOf, Ids
    <3> QED
      BY <3>1 DEF AnyOf
  <2> DEFINE t == With(s, "found", a)
  <2>3. KnowsUpdate(q, "code", s, db)
    BY <1>10, UpdateKnows
  <2>4. t.found = a
    BY NoteIs
  <2> HIDE DEF t
  <2>5. a # NULL => KnowsUpdate(q, "card", t, db)
    BY <1>10, <2>2, <2>3, <2>4 DEF KnowsUpdate
  <2>6. a # NULL => Knows(q, "card", t, db)
    BY <1>10, <2>5, UpdateKnows
  <2> QED
    BY <1>10, <2>1, <2>6, ReadIt DEF At, Took, t
<1>11. CASE /\ Here("card")
           /\ Read(h, "card", CardHolders(db, q.card) \ {q.id} # {}, CardHolders(db, q.card) \ {q.id} = {}, "write")
  <2> DEFINE t == With(s, "card", CardHolders(db, q.card) \ {q.id} # {})
  <2>1. KnowsUpdate(q, "card", s, db)
    BY <1>11, UpdateKnows
  <2>2. "card" \in DOMAIN t
    BY NoteIs
  <2>3. "found" \in DOMAIN t => "found" \in DOMAIN s
    BY NoteIs
  <2>4. "found" \in DOMAIN s => t.found = s.found
    BY NoteIs
  <2> HIDE DEF t
  <2>5. CardHolders(db, q.card) \ {q.id} = {} => KnowsUpdate(q, "write", t, db)
    BY <1>11, <2>1, <2>2, <2>3, <2>4 DEF KnowsUpdate
  <2>6. CardHolders(db, q.card) \ {q.id} = {} => Knows(q, "write", t, db)
    BY <1>11, <2>5, UpdateKnows
  <2> QED
    BY <1>11, <2>6, ReadIt DEF At, Took, t
<1>12. CASE /\ Here("card")
           /\ ~("card" \in DOMAIN q /\ q.card # NULL)
           /\ Check(h, TRUE, "write")
  <2>1. KnowsUpdate(q, "card", s, db)
    BY <1>12, UpdateKnows
  <2>2. KnowsUpdate(q, "write", s, db)
    BY <1>12, <2>1 DEF KnowsUpdate
  <2>3. Knows(q, "write", s, db)
    BY <1>12, <2>2, UpdateKnows
  <2> QED
    BY <1>12, <2>3, Checked DEF At, Took
<1>13. CASE Here("write") /\ Write(h, updateUser(db, chosen, fields), "done")
  BY <1>13, Done DEF At, Took, Wrote, AccountWrite
<1> HIDE DEF chosen
<1> QED
  BY <1>1, <1>2, <1>3, <1>4, <1>5, <1>6, <1>7, <1>8, <1>9, <1>10, <1>11, <1>12, <1>13 DEF UpdateUser, Chosen, chosen

LEMMA AssignUserTakes ==
  ASSUME Inv, NEW h \in Handlers, AssignUser(h)
  PROVE  Took(h)
<1> DEFINE q == call[h].req
           s == call[h].saw
           op == "user/assignDepartmentRoleAssignment"
<1>1. CASE /\ At(h, op, "start")
           /\ Check(h, q.id \in LiveUsers(db), "active")
  <2>1. KnowsUpdate(q, "active", s, db)
    BY <1>1, UpdateKnows DEF KnowsUpdate
  <2>2. Knows(q, "active", s, db)
    BY <1>1, <2>1, UpdateKnows
  <2> QED
    BY <1>1, <2>2, Checked DEF At, Took
<1>2. CASE /\ At(h, op, "active")
           /\ Check(h, q.id \in LiveUsers(db) /\ db.user[q.id].active
                   /\ db.user[q.id].status = "ACTIVE", "tenant")
  <2>1. KnowsUpdate(q, "tenant", s, db)
    BY <1>2, UpdateKnows DEF KnowsUpdate
  <2>2. Knows(q, "tenant", s, db)
    BY <1>2, <2>1, UpdateKnows
  <2> QED
    BY <1>2, <2>2, Checked DEF At, Took
<1>3. CASE /\ At(h, op, "tenant")
           /\ Check(h, "assignment" \in DOMAIN q => q.assignment \in DOMAIN db.assignment \cup {NULL}, "exists")
  <2>1. KnowsUpdate(q, "exists", s, db)
    BY <1>3, UpdateKnows DEF KnowsUpdate
  <2>2. Knows(q, "exists", s, db)
    BY <1>3, <2>1, UpdateKnows
  <2> QED
    BY <1>3, <2>2, Checked DEF At, Took
<1> QED
  BY <1>1, <1>2, <1>3 DEF AssignUser

----------------------------------------------------------------------------
(* The steps of requests for roles and permissions *)

LEMMA CreateRoleTakes ==
  ASSUME Inv, NEW h \in Handlers, CreateRole(h)
  PROVE  Took(h)
<1> DEFINE q == call[h].req
           s == call[h].saw
<1>1. CASE /\ At(h, "role/create", "start")
           /\ Check(h, \A i \in DOMAIN db.role : db.role[i].name # q.name, "insert")
  <2> DEFINE ok == \A i \in DOMAIN db.role : db.role[i].name # q.name
  <2>1. roleCreateSchema(q)
    BY <1>1, Busy DEF At, Knows, KnowsOfAccess
  <2>3. Knows(q, "insert", s, db)
    BY <1>1, <2>1 DEF At, Knows, KnowsOfAccounts, KnowsOfAccess, KnowsOfOrg
  <2> QED
    BY <1>1, <2>3, Checked DEF At, Took, ok
<1>2. CASE /\ At(h, "role/create", "insert")
           /\ Write(h, createRole(db, q), "done")
  BY <1>2, Done DEF At, Took, Wrote, AccessWrite
<1> QED
  BY <1>1, <1>2 DEF CreateRole

LEMMA UpdateRoleTakes ==
  ASSUME Inv, NEW h \in Handlers, UpdateRole(h)
  PROVE  Took(h)
<1> DEFINE q == call[h].req
           s == call[h].saw
<1>1. CASE /\ At(h, "role/update", "start") /\ q.id \in DOMAIN db.role
           /\ Read(h, "name", db.role[q.id].name, ~db.role[q.id].system, "name")
  <2> DEFINE t == With(s, "name", db.role[q.id].name)
  <2>1. KnowsUpdateRole(q, "start", s, db)
    BY <1>1, Busy DEF At, Knows, KnowsOfAccess
  <2>2. "name" \in DOMAIN t
    BY NoteIs
  <2> HIDE DEF t
  <2>3. ~db.role[q.id].system => KnowsUpdateRole(q, "name", t, db)
    BY <1>1, <2>1, <2>2 DEF KnowsUpdateRole
  <2>4. ~db.role[q.id].system => Knows(q, "name", t, db)
    BY <1>1, <2>3 DEF At, Knows, KnowsOfAccounts, KnowsOfAccess, KnowsOfOrg
  <2> QED
    BY <1>1, <2>4, ReadIt DEF At, Took, t
<1>2. CASE /\ At(h, "role/update", "start")
           /\ Refuse(h)
  BY <1>2, Refused DEF Took
<1>3. CASE /\ At(h, "role/update", "name")
           /\ Check(h, "name" \in DOMAIN q /\ q.name # s.name =>
                    \A i \in DOMAIN db.role : db.role[i].name # q.name, "write")
  <2> DEFINE ok == "name" \in DOMAIN q /\ q.name # s.name =>
                    \A i \in DOMAIN db.role : db.role[i].name # q.name
  <2>1. KnowsUpdateRole(q, "name", s, db)
    BY <1>3, Busy DEF At, Knows, KnowsOfAccess
  <2>2. ok => KnowsUpdateRole(q, "write", s, db)
    BY <2>1 DEF KnowsUpdateRole
  <2> HIDE DEF ok
  <2>3. ok => Knows(q, "write", s, db)
    BY <1>3, <2>2 DEF At, Knows, KnowsOfAccounts, KnowsOfAccess, KnowsOfOrg
  <2> QED
    BY <1>3, <2>3, Checked DEF At, Took, ok
<1>4. CASE /\ At(h, "role/update", "write")
           /\ Refuse(h)
  BY <1>4, Refused DEF Took
<1>5. CASE /\ At(h, "role/update", "write")
           /\ ~db.role[q.id].deleted
           /\ Write(h, updateRole(db, q), "done")
  BY <1>5, Done DEF At, Took, Wrote, AccessWrite
<1> QED
  BY <1>1, <1>2, <1>3, <1>4, <1>5 DEF UpdateRole

LEMMA DeleteRoleTakes ==
  ASSUME Inv, NEW h \in Handlers, DeleteRole(h)
  PROVE  Took(h)
<1> DEFINE q == call[h].req
           s == call[h].saw
<1>1. CASE /\ At(h, "role/delete", "start")
           /\ Check(h, q.id \in DOMAIN db.role /\ ~db.role[q.id].system, "count")
  <2> DEFINE ok == q.id \in DOMAIN db.role /\ ~db.role[q.id].system
  <2>1. KnowsDeleteRole(q, "start", s, db)
    BY <1>1, Busy DEF At, Knows, KnowsOfAccess
  <2>2. ok => KnowsDeleteRole(q, "count", s, db)
    BY <2>1 DEF KnowsDeleteRole
  <2> HIDE DEF ok
  <2>3. ok => Knows(q, "count", s, db)
    BY <1>1, <2>2 DEF At, Knows, KnowsOfAccounts, KnowsOfAccess, KnowsOfOrg
  <2> QED
    BY <1>1, <2>3, Checked DEF At, Took, ok
<1>2. CASE /\ At(h, "role/delete", "count")
           /\ Check(h, \A i \in DOMAIN db.userRole :
                    db.userRole[i].role = q.id => ~db.userRole[i].active, "write")
  <2> DEFINE ok == \A i \in DOMAIN db.userRole :
                    db.userRole[i].role = q.id => ~db.userRole[i].active
  <2>1. KnowsDeleteRole(q, "count", s, db)
    BY <1>2, Busy DEF At, Knows, KnowsOfAccess
  <2>2. ok => KnowsDeleteRole(q, "write", s, db)
    BY <2>1 DEF KnowsDeleteRole
  <2> HIDE DEF ok
  <2>3. ok => Knows(q, "write", s, db)
    BY <1>2, <2>2 DEF At, Knows, KnowsOfAccounts, KnowsOfAccess, KnowsOfOrg
  <2> QED
    BY <1>2, <2>3, Checked DEF At, Took, ok
<1>3. CASE /\ At(h, "role/delete", "write")
           /\ Write(h, deleteRole(db, q.id), "done")
  BY <1>3, Done DEF At, Took, Wrote, AccessWrite
<1> QED
  BY <1>1, <1>2, <1>3 DEF DeleteRole

LEMMA AssignPermissionTakes ==
  ASSUME Inv, NEW h \in Handlers, AssignPermission(h)
  PROVE  Took(h)
<1> DEFINE q == call[h].req
           s == call[h].saw
<1>1. CASE /\ At(h, "role/assignPermission", "start")
           /\ Check(h, q.role \in DOMAIN db.role, "permission")
  <2>1. KnowsAssignPermission(q, "start", s, db)
    BY <1>1, Busy DEF At, Knows, KnowsOfAccess
  <2>2. q.role \in DOMAIN db.role => KnowsAssignPermission(q, "permission", s, db)
    BY <2>1 DEF KnowsAssignPermission
  <2>3. q.role \in DOMAIN db.role => Knows(q, "permission", s, db)
    BY <1>1, <2>2 DEF At, Knows, KnowsOfAccounts, KnowsOfAccess, KnowsOfOrg
  <2> QED
    BY <1>1, <2>3, Checked DEF At, Took
<1>2. CASE /\ At(h, "role/assignPermission", "permission")
           /\ Check(h, q.permission \in DOMAIN db.permission, "row")
  <2>1. KnowsAssignPermission(q, "permission", s, db)
    BY <1>2, Busy DEF At, Knows, KnowsOfAccess
  <2>2. q.permission \in DOMAIN db.permission => KnowsAssignPermission(q, "row", s, db)
    BY <2>1 DEF KnowsAssignPermission
  <2>3. q.permission \in DOMAIN db.permission => Knows(q, "row", s, db)
    BY <1>2, <2>2 DEF At, Knows, KnowsOfAccounts, KnowsOfAccess, KnowsOfOrg
  <2> QED
    BY <1>2, <2>3, Checked DEF At, Took
<1>3. CASE /\ At(h, "role/assignPermission", "row")
           /\ \E i \in AnyOf(GrantRows(db, q)) : Read(h, "row", i, i = NULL \/ db.rolePermission[i].deleted, "write")
  <2>1. PICK i \in AnyOf(GrantRows(db, q)) : Read(h, "row", i, i = NULL \/ db.rolePermission[i].deleted, "write")
    BY <1>3
  <2>2. i = NULL \/ i \in GrantRows(db, q)
    BY DEF AnyOf
  <2> DEFINE t == With(s, "row", i)
             ok == i = NULL \/ db.rolePermission[i].deleted
             pc == "write"
  <2>3. KnowsAssignPermission(q, "row", s, db)
    BY <1>3, Busy DEF At, Knows, KnowsOfAccess
  <2>4. "row" \in DOMAIN t
    BY NoteIs
  <2>5. t.row = i
    BY NoteIs
  <2> HIDE DEF t
  <2>6. ok => KnowsAssignPermission(q, pc, t, db)
    BY <2>2, <2>3, <2>4, <2>5 DEF KnowsAssignPermission
  <2>7. pc # "idle"
    OBVIOUS
  <2> HIDE DEF pc, ok
  <2>8. ok => Knows(q, pc, t, db)
    BY <1>3, <2>6 DEF At, Knows, KnowsOfAccounts, KnowsOfAccess, KnowsOfOrg
  <2> QED
    BY <1>3, <2>1, <2>7, <2>8, ReadIt DEF At, Took, t, ok, pc
<1>4. CASE /\ At(h, "role/assignPermission", "write")
           /\ Write(h, assignPermission(db, q, s.row), "done")
  BY <1>4, Done DEF At, Took, Wrote, AccessWrite
<1> QED
  BY <1>1, <1>2, <1>3, <1>4 DEF AssignPermission

LEMMA RemovePermissionTakes ==
  ASSUME Inv, NEW h \in Handlers, RemovePermission(h)
  PROVE  Took(h)
<1> DEFINE q == call[h].req
           s == call[h].saw
<1>1. CASE /\ At(h, "role/removePermission", "start")
           /\ \E i \in AnyOf(GrantRows(db, q)) : Read(h, "row", i, i # NULL /\ ~db.rolePermission[i].deleted, "write")
  <2>1. PICK i \in AnyOf(GrantRows(db, q)) : Read(h, "row", i, i # NULL /\ ~db.rolePermission[i].deleted, "write")
    BY <1>1
  <2>2. i = NULL \/ i \in GrantRows(db, q)
    BY DEF AnyOf
  <2> DEFINE t == With(s, "row", i)
             ok == i # NULL /\ ~db.rolePermission[i].deleted
             pc == "write"
  <2>3. KnowsRemovePermission(q, "start", s, db)
    BY <1>1, Busy DEF At, Knows, KnowsOfAccess
  <2>4. "row" \in DOMAIN t
    BY NoteIs
  <2>5. t.row = i
    BY NoteIs
  <2> HIDE DEF t
  <2>6. ok => KnowsRemovePermission(q, pc, t, db)
    BY <2>2, <2>3, <2>4, <2>5 DEF KnowsRemovePermission, GrantRows
  <2>7. pc # "idle"
    OBVIOUS
  <2> HIDE DEF pc, ok
  <2>8. ok => Knows(q, pc, t, db)
    BY <1>1, <2>6 DEF At, Knows, KnowsOfAccounts, KnowsOfAccess, KnowsOfOrg
  <2> QED
    BY <1>1, <2>1, <2>7, <2>8, ReadIt DEF At, Took, t, ok, pc
<1>2. CASE /\ At(h, "role/removePermission", "write")
           /\ Refuse(h)
  BY <1>2, Refused DEF Took
<1>3. CASE /\ At(h, "role/removePermission", "write")
           /\ Write(h, removePermission(db, s.row), "done")
  BY <1>3, Done DEF At, Took, Wrote, AccessWrite
<1> QED
  BY <1>1, <1>2, <1>3 DEF RemovePermission

LEMMA CreatePermissionTakes ==
  ASSUME Inv, NEW h \in Handlers, CreatePermission(h)
  PROVE  Took(h)
<1> DEFINE q == call[h].req
           s == call[h].saw
<1>1. CASE /\ At(h, "permission/create", "start")
           /\ Check(h, SamePermission(db, q.resource, q.action) = {}, "insert")
  <2>1. permissionCreateSchema(q)
    BY <1>1, Busy DEF At, Knows, KnowsOfAccess
  <2>3. Knows(q, "insert", s, db)
    BY <1>1, <2>1 DEF At, Knows, KnowsOfAccounts, KnowsOfAccess, KnowsOfOrg
  <2> QED
    BY <1>1, <2>3, Checked DEF At, Took
<1>2. CASE /\ At(h, "permission/create", "insert")
           /\ Write(h, createPermission(db, q), "done")
  BY <1>2, Done DEF At, Took, Wrote, AccessWrite
<1> QED
  BY <1>1, <1>2 DEF CreatePermission

LEMMA UpdatePermissionTakes ==
  ASSUME Inv, NEW h \in Handlers, UpdatePermission(h)
  PROVE  Took(h)
<1> DEFINE q == call[h].req
           s == call[h].saw
<1>1. CASE /\ At(h, "permission/update", "start")
           /\ Check(h, LivePermission(db, q.id) /\ ~db.permission[q.id].system, IF DOMAIN q \cap {"resource", "action"} = {} THEN "done" ELSE "current")
  <2> DEFINE ok == LivePermission(db, q.id) /\ ~db.permission[q.id].system
  <2> DEFINE pc == IF DOMAIN q \cap {"resource", "action"} = {} THEN "done" ELSE "current"
  <2>1. permissionUpdateSchema(q)
    BY <1>1, Busy DEF At, Knows, KnowsOfAccess
  <2>3. Knows(q, pc, s, db)
    BY <1>1, <2>1 DEF At, Knows, KnowsOfAccounts, KnowsOfAccess, KnowsOfOrg
  <2>4. pc # "idle"
    OBVIOUS
  <2> HIDE DEF pc
  <2> QED
    BY <1>1, <2>3, <2>4, Checked DEF At, Took, ok, pc
<1>2. CASE /\ At(h, "permission/update", "current")
           /\ Read(h, "current", db.permission[q.id], LivePermission(db, q.id), "conflict")
  <2>1. permissionUpdateSchema(q)
    BY <1>2, Busy DEF At, Knows, KnowsOfAccess
  <2>2. \A t : Knows(q, "conflict", t, db)
    BY <1>2, <2>1 DEF At, Knows, KnowsOfAccounts, KnowsOfAccess, KnowsOfOrg
  <2> QED
    BY <1>2, <2>2, ReadIt DEF At, Took
<1>3. CASE /\ At(h, "permission/update", "conflict")
           /\ \E ok : Check(h, ok, "write")
  <2>1. permissionUpdateSchema(q)
    BY <1>3, Busy DEF At, Knows, KnowsOfAccess
  <2>2. Knows(q, "write", s, db)
    BY <1>3, <2>1 DEF At, Knows, KnowsOfAccounts, KnowsOfAccess, KnowsOfOrg
  <2> QED
    BY <1>3, <2>2, Checked DEF At, Took
<1>4. CASE /\ At(h, "permission/update", "write")
           /\ LivePermission(db, q.id)
           /\ Write(h, updatePermission(db, q), "done")
  BY <1>4, Done DEF At, Took, Wrote, AccessWrite, LivePermission
<1>5. CASE /\ At(h, "permission/update", "write")
           /\ Refuse(h)
  BY <1>5, Refused DEF Took
<1> QED
  BY <1>1, <1>2, <1>3, <1>4, <1>5 DEF UpdatePermission

LEMMA DeletePermissionTakes ==
  ASSUME Inv, NEW h \in Handlers, DeletePermission(h)
  PROVE  Took(h)
<1> DEFINE q == call[h].req
           s == call[h].saw
<1>1. CASE /\ At(h, "permission/delete", "start")
           /\ Check(h, LivePermission(db, q.id) /\ ~db.permission[q.id].system, "write")
  <2> DEFINE ok == LivePermission(db, q.id) /\ ~db.permission[q.id].system
  <2>3. Knows(q, "write", s, db)
    BY <1>1 DEF At, Knows, KnowsOfAccounts, KnowsOfAccess, KnowsOfOrg
  <2> QED
    BY <1>1, <2>3, Checked DEF At, Took, ok
<1>2. CASE /\ At(h, "permission/delete", "write")
           /\ LivePermission(db, q.id)
           /\ Write(h, deletePermission(db, q.id), "done")
  BY <1>2, Done DEF At, Took, Wrote, AccessWrite, LivePermission
<1>3. CASE /\ At(h, "permission/delete", "write")
           /\ Refuse(h)
  BY <1>3, Refused DEF Took
<1> QED
  BY <1>1, <1>2, <1>3 DEF DeletePermission

LEMMA GrantPermissionTakes ==
  ASSUME Inv, NEW h \in Handlers, GrantPermission(h)
  PROVE  Took(h)
<1> DEFINE q == call[h].req
           s == call[h].saw
<1>1. CASE /\ At(h, "user/grantPermission", "start")
           /\ Check(h, q.user \in LiveUsers(db), "permission")
  <2>1. KnowsGrant(q, "start", s, db)
    BY <1>1, Busy DEF At, Knows, KnowsOfAccess
  <2>2. q.user \in LiveUsers(db) => KnowsGrant(q, "permission", s, db)
    BY <2>1 DEF KnowsGrant, LiveUsers
  <2>3. q.user \in LiveUsers(db) => Knows(q, "permission", s, db)
    BY <1>1, <2>2 DEF At, Knows, KnowsOfAccounts, KnowsOfAccess, KnowsOfOrg
  <2> QED
    BY <1>1, <2>3, Checked DEF At, Took
<1>2. CASE /\ At(h, "user/grantPermission", "permission")
           /\ Check(h, LivePermission(db, q.permission), "row")
  <2>1. KnowsGrant(q, "permission", s, db)
    BY <1>2, Busy DEF At, Knows, KnowsOfAccess
  <2>2. LivePermission(db, q.permission) => KnowsGrant(q, "row", s, db)
    BY <2>1 DEF KnowsGrant, LivePermission
  <2>3. LivePermission(db, q.permission) => Knows(q, "row", s, db)
    BY <1>2, <2>2 DEF At, Knows, KnowsOfAccounts, KnowsOfAccess, KnowsOfOrg
  <2> QED
    BY <1>2, <2>3, Checked DEF At, Took
<1>3. CASE /\ At(h, "user/grantPermission", "row")
           /\ \E i \in AnyOf(DirectRows(db, q.user, q.permission)) : Read(h, "row", i, TRUE, IF i = NULL \/ db.userPermission[i].deleted THEN "write" ELSE "overwrite")
  <2>1. PICK i \in AnyOf(DirectRows(db, q.user, q.permission)) : Read(h, "row", i, TRUE, IF i = NULL \/ db.userPermission[i].deleted THEN "write" ELSE "overwrite")
    BY <1>3
  <2>2. i = NULL \/ i \in DirectRows(db, q.user, q.permission)
    BY DEF AnyOf
  <2> DEFINE t == With(s, "row", i)
             ok == TRUE
             pc == IF i = NULL \/ db.userPermission[i].deleted THEN "write" ELSE "overwrite"
  <2>3. KnowsGrant(q, "row", s, db)
    BY <1>3, Busy DEF At, Knows, KnowsOfAccess
  <2>4. "row" \in DOMAIN t
    BY NoteIs
  <2>5. t.row = i
    BY NoteIs
  <2> HIDE DEF t
  <2>6. ok => KnowsGrant(q, pc, t, db)
    BY <2>2, <2>3, <2>4, <2>5 DEF KnowsGrant
  <2>7. pc # "idle"
    OBVIOUS
  <2> HIDE DEF pc, ok
  <2>8. ok => Knows(q, pc, t, db)
    BY <1>3, <2>6 DEF At, Knows, KnowsOfAccounts, KnowsOfAccess, KnowsOfOrg
  <2> QED
    BY <1>3, <2>1, <2>7, <2>8, ReadIt DEF At, Took, t, ok, pc
<1>4. CASE /\ At(h, "user/grantPermission", "write")
           /\ Write(h, grant(db, q, s.row), "done")
  BY <1>4, Done DEF At, Took, Wrote, AccessWrite
<1>5. CASE /\ At(h, "user/grantPermission", "overwrite")
           /\ Write(h, overwrite(db, q, s.row), "done")
  BY <1>5, Done DEF At, Took, Wrote, AccessWrite
<1> QED
  BY <1>1, <1>2, <1>3, <1>4, <1>5 DEF GrantPermission

LEMMA RevokePermissionTakes ==
  ASSUME Inv, NEW h \in Handlers, RevokePermission(h)
  PROVE  Took(h)
<1> DEFINE q == call[h].req
           s == call[h].saw
<1>1. CASE /\ At(h, "user/revokePermission", "start")
           /\ Check(h, q.user \in LiveUsers(db), "write")
  <2>3. Knows(q, "write", s, db)
    BY <1>1 DEF At, Knows, KnowsOfAccounts, KnowsOfAccess, KnowsOfOrg
  <2> QED
    BY <1>1, <2>3, Checked DEF At, Took
<1>2. CASE /\ At(h, "user/revokePermission", "write")
           /\ Refuse(h)
  BY <1>2, Refused DEF Took
<1>3. CASE /\ At(h, "user/revokePermission", "write")
           /\ Write(h, revoke(db, q), "done")
  BY <1>3, Done DEF At, Took, Wrote, AccessWrite
<1> QED
  BY <1>1, <1>2, <1>3 DEF RevokePermission

----------------------------------------------------------------------------
(* The steps of requests for departments *)

LEMMA CreateDepartmentTakes ==
  ASSUME Inv, NEW h \in Handlers, CreateDepartment(h)
  PROVE  Took(h)
<1> DEFINE q == call[h].req
           s == call[h].saw
           templates == {t \in LiveTemplates(db) : db.template[t].active}
<1>1. CASE /\ At(h, "department/create", "start")
           /\ Check(h, \A i \in DOMAIN db.department : db.department[i].code # q.code, "insert")
  <2> DEFINE ok == \A i \in DOMAIN db.department : db.department[i].code # q.code
  <2>1. KnowsCreateDepartment(q, "start", s, db)
    BY <1>1, Busy DEF At, Knows, KnowsOfOrg
  <2>2. ok => KnowsCreateDepartment(q, "insert", s, db)
    BY <2>1 DEF KnowsCreateDepartment
  <2> HIDE DEF ok
  <2>3. ok => Knows(q, "insert", s, db)
    BY <1>1, <2>2 DEF At, Knows, KnowsOfAccounts, KnowsOfAccess, KnowsOfOrg
  <2> QED
    BY <1>1, <2>3, Checked DEF At, Took, ok
<1>2. CASE /\ At(h, "department/create", "insert")
           /\ Consistent(createDepartment(db, q))
           /\ db' = createDepartment(db, q)
           /\ Goto(h, "done") \/ Noted(h, "new", Fresh(db), "templates")
  <2>1. KnowsCreateDepartment(q, "insert", s, db)
    BY <1>2, Busy DEF At, Knows, KnowsOfOrg
  <2> DEFINE t == With(s, "new", Fresh(db))
  <2>2. t.new = Fresh(db)
    BY NoteIs
  <2>8. "new" \in DOMAIN t
    BY NoteIs
  <2>3. Fresh(db) \in Ids
    BY DEF Inv, WellFormed, Fresh, Ids
  <2> HIDE DEF t
  <2>4. KnowsCreateDepartment(q, "templates", t, db')
    BY <2>1, <2>2, <2>3, <2>8 DEF KnowsCreateDepartment
  <2>5. Knows(q, "templates", t, db')
    BY <1>2, <2>4 DEF At, Knows, KnowsOfAccounts, KnowsOfAccess, KnowsOfOrg
  <2>6. Lands(h)
    <3>1. CASE Goto(h, "done")
      BY <1>2, <3>1, WentTo DEF At
    <3>2. CASE Noted(h, "new", Fresh(db), "templates")
      <4>1. Knows(q, "templates", With(s, "new", Fresh(db)), db')
        BY <2>5 DEF t
      <4> QED
        BY <1>2, <3>2, <4>1, NotedAt DEF At
    <3> QED
      BY <1>2, <3>1, <3>2
  <2>7. Acts(h)
    <3>1. DOMAIN call[h] = {"req", "pc", "saw"} /\ DOMAIN call = Handlers
      BY <1>2, Busy DEF At, Inv
    <3>2. CASE Goto(h, "done")
      BY <1>2, <3>1, <3>2 DEF Goto, Moves, Acts, At, Idle
    <3>3. CASE Noted(h, "new", Fresh(db), "templates")
      <4> DEFINE c == [call[h] EXCEPT !.pc = "templates", !.saw = With(@, "new", Fresh(db))]
      <4>1. call' = [call EXCEPT ![h] = c]
        BY <3>3 DEF Noted, Moves
      <4>2. c.pc = "templates"
        BY <3>1
      <4> HIDE DEF c
      <4> QED
        BY <1>2, <3>1, <4>1, <4>2 DEF Acts, At
    <3> QED
      BY <1>2, <3>2, <3>3
  <2> QED
    BY <1>2, <2>6, <2>7 DEF Took, Wrote, OrgWrite
<1>3. CASE /\ At(h, "department/create", "insert")
           /\ Refuse(h)
  BY <1>3, Refused DEF Took
<1>4. CASE /\ At(h, "department/create", "templates")
           /\ Read(h, "codes", [t \in templates |-> db.template[t].code], templates # {}, "write")
  <2> DEFINE codes == [t \in templates |-> db.template[t].code]
             t2 == With(s, "codes", codes)
  <2>1. KnowsCreateDepartment(q, "templates", s, db)
    BY <1>4, Busy DEF At, Knows, KnowsOfOrg
  <2>2. "codes" \in DOMAIN t2
    BY NoteIs
  <2>3. t2.codes = codes
    BY NoteIs
  <2>4. t2.new = s.new
    <3>1. "new" \in DOMAIN s
      BY <2>1 DEF KnowsCreateDepartment
    <3> QED
      BY <3>1, NoteIs
  <2>5. /\ DOMAIN codes \subseteq DOMAIN db.template
        /\ \A t \in DOMAIN codes : codes[t] \in Codes
        /\ \A t, u \in DOMAIN codes : codes[t] = codes[u] => t = u
    <3>1. \A t \in DOMAIN db.template : db.template[t].code \in Codes
      BY DEF Inv, WellFormed, TableOf, TemplateRow
    <3>2. \A t, u \in LiveTemplates(db) : db.template[t].code = db.template[u].code => t = u
      BY DEF Inv, Consistent, UniqueIndex, Live, LiveTemplates
    <3> QED
      BY <3>1, <3>2 DEF LiveTemplates
  <2> HIDE DEF codes, t2
  <2>6. KnowsCreateDepartment(q, "write", t2, db)
    <3>1. departmentCreateSchema(q) /\ t2.new \in Ids
      BY <2>1, <2>4 DEF KnowsCreateDepartment
    <3>2. "new" \in DOMAIN t2
      <4>1. "new" \in DOMAIN s
        BY <2>1 DEF KnowsCreateDepartment
      <4> QED
        BY <4>1, NoteIs DEF t2
    <3>3. /\ DOMAIN t2.codes \subseteq DOMAIN db.template
          /\ \A t \in DOMAIN t2.codes : t2.codes[t] \in Codes
          /\ \A t, u \in DOMAIN t2.codes : t2.codes[t] = t2.codes[u] => t = u
      BY <2>3, <2>5
    <3> QED
      BY <2>2, <3>1, <3>2, <3>3 DEF KnowsCreateDepartment
  <2>7. Knows(q, "write", t2, db)
    BY <1>4, <2>6 DEF At, Knows, KnowsOfAccounts, KnowsOfAccess, KnowsOfOrg
  <2> QED
    BY <1>4, <2>7, ReadIt DEF At, Took, t2, codes
<1>5. CASE /\ At(h, "department/create", "write")
           /\ Write(h, fromTemplates(db, s.new, s.codes), "done")
  BY <1>5, Done DEF At, Took, Wrote, OrgWrite
<1>6. CASE /\ At(h, "department/create", "write")
           /\ Refuse(h)
  BY <1>6, Refused DEF Took
<1> QED
  BY <1>1, <1>2, <1>3, <1>4, <1>5, <1>6 DEF CreateDepartment

LEMMA UpdateDepartmentTakes ==
  ASSUME Inv, NEW h \in Handlers, UpdateDepartment(h)
  PROVE  Took(h)
<1> DEFINE q == call[h].req
           s == call[h].saw
<1>1. CASE /\ At(h, "department/update", "start")
           /\ Check(h, q.id \in DOMAIN db.department, IF DOMAIN q \cap {"code", "active"} = {} THEN "done" ELSE "code")
  <2> DEFINE pc == IF DOMAIN q \cap {"code", "active"} = {} THEN "done" ELSE "code"
  <2>1. departmentUpdateSchema(q)
    BY <1>1, Busy DEF At, Knows, KnowsOfOrg
  <2>3. Knows(q, pc, s, db)
    BY <1>1, <2>1 DEF At, Knows, KnowsOfAccounts, KnowsOfAccess, KnowsOfOrg
  <2>4. pc # "idle"
    OBVIOUS
  <2> HIDE DEF pc
  <2> QED
    BY <1>1, <2>3, <2>4, Checked DEF At, Took, pc
<1>2. CASE /\ At(h, "department/update", "code")
           /\ \E ok : Check(h, ok, "write")
  <2>1. departmentUpdateSchema(q)
    BY <1>2, Busy DEF At, Knows, KnowsOfOrg
  <2>2. Knows(q, "write", s, db)
    BY <1>2, <2>1 DEF At, Knows, KnowsOfAccounts, KnowsOfAccess, KnowsOfOrg
  <2> QED
    BY <1>2, <2>2, Checked DEF At, Took
<1>3. CASE /\ At(h, "department/update", "write")
           /\ q.id \in DOMAIN db.department
           /\ Write(h, updateDepartment(db, q), "done")
  BY <1>3, Done DEF At, Took, Wrote, OrgWrite
<1>4. CASE /\ At(h, "department/update", "write")
           /\ Refuse(h)
  BY <1>4, Refused DEF Took
<1> QED
  BY <1>1, <1>2, <1>3, <1>4 DEF UpdateDepartment

LEMMA DeleteDepartmentTakes ==
  ASSUME Inv, NEW h \in Handlers, DeleteDepartment(h)
  PROVE  Took(h)
<1> DEFINE q == call[h].req
           s == call[h].saw
<1>1. CASE /\ At(h, "department/delete", "start")
           /\ Check(h, q.id \in DOMAIN db.department, "count")
  <2>1. KnowsDeleteDepartment(q, "start", s, db)
    BY <1>1, Busy DEF At, Knows, KnowsOfOrg
  <2>2. q.id \in DOMAIN db.department => KnowsDeleteDepartment(q, "count", s, db)
    BY <2>1 DEF KnowsDeleteDepartment
  <2>3. q.id \in DOMAIN db.department => Knows(q, "count", s, db)
    BY <1>1, <2>2 DEF At, Knows, KnowsOfAccounts, KnowsOfAccess, KnowsOfOrg
  <2> QED
    BY <1>1, <2>3, Checked DEF At, Took
<1>2. CASE /\ At(h, "department/delete", "count")
           /\ Read(h, "members", checkDependencies(db, q.id), checkDependencies(db, q.id) = 0, "assignments")
  <2> DEFINE t == With(s, "members", checkDependencies(db, q.id))
  <2>1. KnowsDeleteDepartment(q, "count", s, db)
    BY <1>2, Busy DEF At, Knows, KnowsOfOrg
  <2>2. "members" \in DOMAIN t
    BY NoteIs
  <2> HIDE DEF t
  <2>3. checkDependencies(db, q.id) = 0 => KnowsDeleteDepartment(q, "assignments", t, db)
    BY <2>1, <2>2 DEF KnowsDeleteDepartment
  <2>4. checkDependencies(db, q.id) = 0 => Knows(q, "assignments", t, db)
    BY <1>2, <2>3 DEF At, Knows, KnowsOfAccounts, KnowsOfAccess, KnowsOfOrg
  <2> QED
    BY <1>2, <2>4, ReadIt DEF At, Took, t
<1>3. CASE /\ At(h, "department/delete", "assignments")
           /\ Write(h, deleteAssignments(db, AssignmentsOf(db, q.id)), "write")
  <2> DEFINE e == deleteAssignments(db, AssignmentsOf(db, q.id))
  <2>1. KnowsDeleteDepartment(q, "assignments", s, db)
    BY <1>3, Busy DEF At, Knows, KnowsOfOrg
  <2>2. KnowsDeleteDepartment(q, "write", s, e)
    BY <2>1 DEF KnowsDeleteDepartment
  <2> HIDE DEF e
  <2>3. Knows(q, "write", s, e)
    BY <1>3, <2>2 DEF At, Knows, KnowsOfAccounts, KnowsOfAccess, KnowsOfOrg
  <2>4. Lands(h) /\ (db' = db \/ (db' = e /\ Consistent(db')))
    <3>1. Write(h, e, "write")
      BY <1>3 DEF e
    <3> QED
      BY <1>3, <2>3, <3>1, Written DEF At
  <2>5. Acts(h)
    <3>1. /\ call' = [call EXCEPT ![h] = Idle]
             \/ call' = [call EXCEPT ![h] = [call[h] EXCEPT !.pc = "write"]]
          /\ DOMAIN call[h] = {"req", "pc", "saw"} /\ DOMAIN call = Handlers
      BY <1>3, Busy DEF Write, Refuse, Goto, Moves, At, Inv
    <3> QED
      BY <1>3, <3>1 DEF Acts, At, Idle
  <2> QED
    BY <1>3, <2>4, <2>5 DEF Took, Wrote, OrgWrite, e
<1>4. CASE /\ At(h, "department/delete", "write")
           /\ q.id \in DOMAIN db.department
           /\ Write(h, deleteDepartment(db, q.id), "done")
  BY <1>4, Done DEF At, Took, Wrote, OrgWrite
<1>5. CASE /\ At(h, "department/delete", "write")
           /\ Refuse(h)
  BY <1>5, Refused DEF Took
<1> QED
  BY <1>1, <1>2, <1>3, <1>4, <1>5 DEF DeleteDepartment

LEMMA CreateAssignmentTakes ==
  ASSUME Inv, NEW h \in Handlers, CreateAssignment(h)
  PROVE  Took(h)
<1> DEFINE q == call[h].req
           s == call[h].saw
<1>1. CASE /\ At(h, "assignment/create", "start")
           /\ Check(h, q.department \in DOMAIN db.department, "code")
  <2>1. KnowsCreateAssignment(q, "start", s, db)
    BY <1>1, Busy DEF At, Knows, KnowsOfOrg
  <2>2. q.department \in DOMAIN db.department => KnowsCreateAssignment(q, "code", s, db)
    BY <2>1 DEF KnowsCreateAssignment
  <2>3. q.department \in DOMAIN db.department => Knows(q, "code", s, db)
    BY <1>1, <2>2 DEF At, Knows, KnowsOfAccounts, KnowsOfAccess, KnowsOfOrg
  <2> QED
    BY <1>1, <2>3, Checked DEF At, Took
<1>2. CASE /\ At(h, "assignment/create", "code")
           /\ Read(h, "code", SameCode(db, q.department, q.code) # {}, SameCode(db, q.department, q.code) = {}, "template")
  <2> DEFINE t == With(s, "code", SameCode(db, q.department, q.code) # {})
  <2>1. KnowsCreateAssignment(q, "code", s, db)
    BY <1>2, Busy DEF At, Knows, KnowsOfOrg
  <2>2. "code" \in DOMAIN t
    BY NoteIs
  <2> HIDE DEF t
  <2>3. SameCode(db, q.department, q.code) = {} => KnowsCreateAssignment(q, "template", t, db)
    BY <2>1, <2>2 DEF KnowsCreateAssignment
  <2>4. SameCode(db, q.department, q.code) = {} => Knows(q, "template", t, db)
    BY <1>2, <2>3 DEF At, Knows, KnowsOfAccounts, KnowsOfAccess, KnowsOfOrg
  <2> QED
    BY <1>2, <2>4, ReadIt DEF At, Took, t
<1>3. CASE /\ At(h, "assignment/create", "template")
           /\ Read(h, "template", q.template \in LiveTemplates(db), q.template \in LiveTemplates(db), "insert")
  <2> DEFINE t == With(s, "template", q.template \in LiveTemplates(db))
  <2>1. KnowsCreateAssignment(q, "template", s, db)
    BY <1>3, Busy DEF At, Knows, KnowsOfOrg
  <2>2. "template" \in DOMAIN t
    BY NoteIs
  <2>3. "code" \in DOMAIN s => "code" \in DOMAIN t
    BY NoteIs
  <2> HIDE DEF t
  <2>4. q.template \in LiveTemplates(db) => KnowsCreateAssignment(q, "insert", t, db)
    BY <2>1, <2>2, <2>3 DEF KnowsCreateAssignment
  <2>5. q.template \in LiveTemplates(db) => Knows(q, "insert", t, db)
    BY <1>3, <2>4 DEF At, Knows, KnowsOfAccounts, KnowsOfAccess, KnowsOfOrg
  <2> QED
    BY <1>3, <2>5, ReadIt DEF At, Took, t
<1>4. CASE /\ At(h, "assignment/create", "template") /\ "template" \notin DOMAIN q
           /\ Check(h, TRUE, "insert")
  <2>1. KnowsCreateAssignment(q, "template", s, db)
    BY <1>4, Busy DEF At, Knows, KnowsOfOrg
  <2>2. KnowsCreateAssignment(q, "insert", s, db)
    BY <1>4, <2>1 DEF KnowsCreateAssignment
  <2>3. Knows(q, "insert", s, db)
    BY <1>4, <2>2 DEF At, Knows, KnowsOfAccounts, KnowsOfAccess, KnowsOfOrg
  <2> QED
    BY <1>4, <2>3, Checked DEF At, Took
<1>5. CASE /\ At(h, "assignment/create", "insert")
           /\ Write(h, createAssignment(db, q), "done")
  BY <1>5, Done DEF At, Took, Wrote, OrgWrite
<1> QED
  BY <1>1, <1>2, <1>3, <1>4, <1>5 DEF CreateAssignment

LEMMA UpdateAssignmentTakes ==
  ASSUME Inv, NEW h \in Handlers, UpdateAssignment(h)
  PROVE  Took(h)
<1> DEFINE q == call[h].req
           s == call[h].saw
<1>1. CASE /\ At(h, "assignment/update", "start")
           /\ Check(h, q.id \in DOMAIN db.assignment, "write")
  <2>1. assignmentUpdateSchema(q)
    BY <1>1, Busy DEF At, Knows, KnowsOfOrg
  <2>3. Knows(q, "write", s, db)
    BY <1>1, <2>1 DEF At, Knows, KnowsOfAccounts, KnowsOfAccess, KnowsOfOrg
  <2> QED
    BY <1>1, <2>3, Checked DEF At, Took
<1>2. CASE /\ At(h, "assignment/update", "write")
           /\ q.id \in DOMAIN db.assignment /\ "active" \in DOMAIN q
           /\ Write(h, updateAssignment(db, q), "done")
  BY <1>2, Done DEF At, Took, Wrote, OrgWrite
<1>3. CASE /\ At(h, "assignment/update", "write")
           /\ Refuse(h)
  BY <1>3, Refused DEF Took
<1> QED
  BY <1>1, <1>2, <1>3 DEF UpdateAssignment

LEMMA DeleteAssignmentTakes ==
  ASSUME Inv, NEW h \in Handlers, DeleteAssignment(h)
  PROVE  Took(h)
<1> DEFINE q == call[h].req
           s == call[h].saw
<1>1. CASE /\ At(h, "assignment/delete", "start")
           /\ Check(h, q.id \in DOMAIN db.assignment, "count")
  <2>1. KnowsDeleteAssignment(q, "start", s, db)
    BY <1>1, Busy DEF At, Knows, KnowsOfOrg
  <2>2. q.id \in DOMAIN db.assignment => KnowsDeleteAssignment(q, "count", s, db)
    BY <2>1 DEF KnowsDeleteAssignment
  <2>3. q.id \in DOMAIN db.assignment => Knows(q, "count", s, db)
    BY <1>1, <2>2 DEF At, Knows, KnowsOfAccounts, KnowsOfAccess, KnowsOfOrg
  <2> QED
    BY <1>1, <2>3, Checked DEF At, Took
<1>2. CASE /\ At(h, "assignment/delete", "count")
           /\ Read(h, "members", Cardinality(Members(db, {q.id})), Members(db, {q.id}) = {}, "write")
  <2> DEFINE t == With(s, "members", Cardinality(Members(db, {q.id})))
  <2>1. KnowsDeleteAssignment(q, "count", s, db)
    BY <1>2, Busy DEF At, Knows, KnowsOfOrg
  <2>2. "members" \in DOMAIN t
    BY NoteIs
  <2> HIDE DEF t
  <2>3. Members(db, {q.id}) = {} => KnowsDeleteAssignment(q, "write", t, db)
    BY <2>1, <2>2 DEF KnowsDeleteAssignment
  <2>4. Members(db, {q.id}) = {} => Knows(q, "write", t, db)
    BY <1>2, <2>3 DEF At, Knows, KnowsOfAccounts, KnowsOfAccess, KnowsOfOrg
  <2> QED
    BY <1>2, <2>4, ReadIt DEF At, Took, t
<1>3. CASE /\ At(h, "assignment/delete", "write")
           /\ q.id \in DOMAIN db.assignment
           /\ Write(h, deleteAssignments(db, {q.id}), "done")
  BY <1>3, Done DEF At, Took, Wrote, OrgWrite
<1>4. CASE /\ At(h, "assignment/delete", "write")
           /\ Refuse(h)
  BY <1>4, Refused DEF Took
<1> QED
  BY <1>1, <1>2, <1>3, <1>4 DEF DeleteAssignment

LEMMA CreateTemplateTakes ==
  ASSUME Inv, NEW h \in Handlers, CreateTemplate(h)
  PROVE  Took(h)
<1> DEFINE q == call[h].req
           s == call[h].saw
<1>1. CASE /\ At(h, "template/create", "start")
           /\ Check(h, \A t \in LiveTemplates(db) : db.template[t].code # q.code, "insert")
  <2> DEFINE ok == \A t \in LiveTemplates(db) : db.template[t].code # q.code
  <2>1. templateCreateSchema(q)
    BY <1>1, Busy DEF At, Knows, KnowsOfOrg
  <2>3. Knows(q, "insert", s, db)
    BY <1>1, <2>1 DEF At, Knows, KnowsOfAccounts, KnowsOfAccess, KnowsOfOrg
  <2> QED
    BY <1>1, <2>3, Checked DEF At, Took, ok
<1>2. CASE /\ At(h, "template/create", "insert")
           /\ Write(h, createTemplate(db, q), "done")
  BY <1>2, Done DEF At, Took, Wrote, OrgWrite
<1> QED
  BY <1>1, <1>2 DEF CreateTemplate

LEMMA UpdateTemplateTakes ==
  ASSUME Inv, NEW h \in Handlers, UpdateTemplate(h)
  PROVE  Took(h)
<1> DEFINE q == call[h].req
           s == call[h].saw
<1>1. CASE /\ At(h, "template/update", "start")
           /\ Check(h, "code" \in DOMAIN q =>
                  \A t \in LiveTemplates(db) \ {q.id} : db.template[t].code # q.code, "exists")
  <2> DEFINE ok == "code" \in DOMAIN q =>
                  \A t \in LiveTemplates(db) \ {q.id} : db.template[t].code # q.code
  <2>1. templateUpdateSchema(q)
    BY <1>1, Busy DEF At, Knows, KnowsOfOrg
  <2>3. Knows(q, "exists", s, db)
    BY <1>1, <2>1 DEF At, Knows, KnowsOfAccounts, KnowsOfAccess, KnowsOfOrg
  <2> QED
    BY <1>1, <2>3, Checked DEF At, Took, ok
<1>2. CASE /\ At(h, "template/update", "exists")
           /\ Check(h, q.id \in LiveTemplates(db) /\ DOMAIN q \cap {"code", "active"} # {}, "write")
  <2> DEFINE ok == q.id \in LiveTemplates(db) /\ DOMAIN q \cap {"code", "active"} # {}
  <2>1. templateUpdateSchema(q)
    BY <1>2, Busy DEF At, Knows, KnowsOfOrg
  <2>3. Knows(q, "write", s, db)
    BY <1>2, <2>1 DEF At, Knows, KnowsOfAccounts, KnowsOfAccess, KnowsOfOrg
  <2> QED
    BY <1>2, <2>3, Checked DEF At, Took, ok
<1>3. CASE /\ At(h, "template/update", "write")
           /\ Write(h, IF q.id \in LiveTemplates(db) THEN updateTemplate(db, q) ELSE db, "done")
  BY <1>3, Done DEF At, Took, Wrote, OrgWrite
<1> QED
  BY <1>1, <1>2, <1>3 DEF UpdateTemplate

LEMMA DeleteTemplateTakes ==
  ASSUME Inv, NEW h \in Handlers, DeleteTemplate(h)
  PROVE  Took(h)
<1> DEFINE q == call[h].req
           s == call[h].saw
<1>1. CASE /\ At(h, "template/delete", "start")
           /\ Read(h, "uses", Cardinality(Uses(db, q.id)), Uses(db, q.id) = {}, "write")
  <2> DEFINE t == With(s, "uses", Cardinality(Uses(db, q.id)))
  <2>1. KnowsDeleteTemplate(q, "start", s, db)
    BY <1>1, Busy DEF At, Knows, KnowsOfOrg
  <2>2. "uses" \in DOMAIN t
    BY NoteIs
  <2> HIDE DEF t
  <2>3. Uses(db, q.id) = {} => KnowsDeleteTemplate(q, "write", t, db)
    BY <2>1, <2>2 DEF KnowsDeleteTemplate
  <2>4. Uses(db, q.id) = {} => Knows(q, "write", t, db)
    BY <1>1, <2>3 DEF At, Knows, KnowsOfAccounts, KnowsOfAccess, KnowsOfOrg
  <2> QED
    BY <1>1, <2>4, ReadIt DEF At, Took, t
<1>2. CASE /\ At(h, "template/delete", "write")
           /\ q.id \in LiveTemplates(db)
           /\ Write(h, deleteTemplate(db, q.id), "done")
  BY <1>2, Done DEF At, Took, Wrote, OrgWrite
<1>3. CASE /\ At(h, "template/delete", "write")
           /\ Refuse(h)
  BY <1>3, Refused DEF Took
<1> QED
  BY <1>1, <1>2, <1>3 DEF DeleteTemplate

----------------------------------------------------------------------------
(* What a write makes of the tables *)

LEMMA UpdatesAre ==
  ASSUME NEW q, NEW s, NEW pc, NEW d, KnowsUpdate(q, pc, s, d),
         \/ q.op = "user/update" /\ updateSchema(q)
         \/ q.op = "user/assignDepartmentRoleAssignment" /\ assignmentSchema(q)
  PROVE  LET r == Chosen(q, s)
             fields == Updates(r, s.email) IN
         /\ fields \in SUBSET {"email", "username", "card", "assignment"}
         /\ r.id = q.id
         /\ "email" \in fields => r.email \in Names
         /\ "username" \in fields => r.username \in Names
         /\ "card" \in fields => r.card \in Cards \cup {NULL} /\ "card" \in DOMAIN q /\ r.card = q.card
         /\ "assignment" \in fields => r.assignment \in Ids \cup {NULL}
<1> DEFINE r == Chosen(q, s)
           fields == Updates(r, s.email)
<1>1. \A f \in fields : f \in DOMAIN r /\ f \in {"email", "username", "card", "assignment"}
  BY DEF Updates
<1>2. /\ q.id \in Ids /\ Optional(q, "email", Names) /\ Optional(q, "username", Names)
      /\ Optional(q, "card", Cards \cup {NULL}) /\ Optional(q, "assignment", Ids \cup {NULL})
      /\ "id" \in DOMAIN q
  BY DEF updateSchema, assignmentSchema, Optional, Required
<1>3. "found" \in DOMAIN s => s.found \in Ids
  BY DEF KnowsUpdate
<1>4. /\ DOMAIN r \subseteq DOMAIN q \cup {"assignment"}
      /\ r.id = q.id
      /\ \A f \in DOMAIN q : f # "assignment" => r[f] = q[f]
      /\ "assignment" \in DOMAIN r => r.assignment \in Ids \cup {NULL}
  <2>1. CASE "found" \in DOMAIN s
    <3>1. r = With(q, "assignment", s.found)
      BY <2>1 DEF Chosen
    <3> HIDE DEF r
    <3>2. \A y : y \in DOMAIN r /\ y # "assignment" => y \in DOMAIN q
      BY <3>1, NoteIs
    <3>3. r["assignment"] = s.found
      BY <3>1, NoteIs
    <3>4. \A f \in DOMAIN q : f # "assignment" => r[f] = q[f]
      BY <3>1, NoteIs
    <3> QED
      BY <1>2, <1>3, <2>1, <3>2, <3>3, <3>4
  <2>2. CASE "found" \notin DOMAIN s /\ r = q
    <3> HIDE DEF r
    <3> QED
      BY <1>2, <2>2 DEF Optional
  <2>3. CASE "found" \notin DOMAIN s /\ r = With(q, "assignment", NULL)
    <3> HIDE DEF r
    <3>2. \A y : y \in DOMAIN r /\ y # "assignment" => y \in DOMAIN q
      BY <2>3, NoteIs
    <3>3. r["assignment"] = NULL
      BY <2>3, NoteIs
    <3>4. \A f \in DOMAIN q : f # "assignment" => r[f] = q[f]
      BY <2>3, NoteIs
    <3> QED
      BY <1>2, <2>3, <3>2, <3>3, <3>4
  <2> QED
    BY <2>1, <2>2, <2>3 DEF Chosen
<1> HIDE DEF r, fields
<1>5. fields \in SUBSET {"email", "username", "card", "assignment"}
  BY <1>1
<1>6. \A f \in fields : f # "assignment" => f \in DOMAIN q /\ r[f] = q[f]
  BY <1>1, <1>4
<1>7. /\ "email" \in fields => r.email \in Names
      /\ "username" \in fields => r.username \in Names
  BY <1>2, <1>6 DEF Optional
<1>8. "card" \in fields => r.card \in Cards \cup {NULL} /\ "card" \in DOMAIN q /\ r.card = q.card
  BY <1>2, <1>6 DEF Optional
<1> QED
  BY <1>1, <1>4, <1>5, <1>7, <1>8 DEF r, fields

\* What a write changes: every table it says nothing of stays as it is.
UserRoleInserted(d, e) ==
  /\ OneTable(d, e, "userRole")
  /\ \A i \in DOMAIN d.userRole : i \in DOMAIN e.userRole /\ e.userRole[i] = d.userRole[i]
UserActivated(d, e, q, old) ==
  /\ \A m \in TableNames \ {"user", "userRole", "audit", "serial"} : e[m] = d[m]
  /\ RoleActivated(d, e, q)
  /\ DOMAIN e.user = DOMAIN d.user /\ q.id \in DOMAIN d.user
  /\ \A u \in DOMAIN d.user \ {q.id} : e.user[u] = d.user[u]
  /\ e.user[q.id].activated /\ e.user[q.id].active
  /\ e.user[q.id].deleted = d.user[q.id].deleted /\ e.user[q.id].card = d.user[q.id].card
  /\ \E n : /\ n \notin DOMAIN d.audit /\ DOMAIN e.audit = DOMAIN d.audit \cup {n}
            /\ \A i \in DOMAIN d.audit : e.audit[i] = d.audit[i]
            /\ e.audit[n].user = q.id /\ e.audit[n].old = old.email
CardWritten(h) ==
  LET q == call[h].req IN
  db'.user[q.id].card # db.user[q.id].card =>
    At(h, "user/update", "write") /\ "card" \in DOMAIN q /\ db'.user[q.id].card = q.card
AccountEffect(h) ==
  LET q == call[h].req
      s == call[h].saw
  IN
    \/ At(h, "user/register", "insert") /\ UserInserted(db, db', q)
    \/ UserRoleInserted(db, db')
    \/ /\ At(h, "user/activate", "write") /\ UserWritten(db, db', q.id, {"active"})
       /\ db'.user[q.id].active = On(q)
    \/ /\ At(h, "user/delete", "write") /\ UserWritten(db, db', q.id, {"deleted"})
       /\ db'.user[q.id].deleted
    \/ UserRolesSet(db, db', q.id, q.role, TRUE)
    \/ At(h, "user/changeRole", "remove") /\ UserRolesSet(db, db', q.id, q.role, FALSE)
    \/ At(h, "user/activateImported", "commit") /\ UserActivated(db, db', q, s.target)
    \/ /\ UserWritten(db, db', q.id, {"email", "username", "card", "assignment"})
       /\ CardWritten(h)

LEMMA AccountWriteKeeps ==
  ASSUME Inv, NEW h \in Handlers, AccountWrite(h)
  PROVE  WellFormed(db') /\ Grows(db, db') /\ AccountEffect(h)
<1> DEFINE q == call[h].req
           s == call[h].saw
<1> USE DEF At
<1>0. WellFormed(db)
  BY DEF Inv
<1>1. CASE At(h, "user/register", "insert") /\ db' = createUser(db, newUser(q))
  <2>1. registerSchema(q)
    BY <1>1, <1>0, Busy DEF Knows, KnowsOfAccounts, KnowsRegister
  <2>2. WellFormed(db') /\ Grows(db, db') /\ UserInserted(db, db', q)
    BY <1>0, <1>1, <2>1, RegisterKeeps
  <2> QED
    BY <1>1, <2>2 DEF AccountEffect
<1>2. CASE /\ At(h, "user/register", "role")
           /\ \E i \in DOMAIN db.role : db' = insertUserRole(db, s.new, i)
  <2>1. PICK i \in DOMAIN db.role : db' = insertUserRole(db, s.new, i)
    BY <1>2
  <2>2. s.new \in DOMAIN db.user
    BY <1>2, Busy DEF Knows, KnowsOfAccounts, KnowsRegister
  <2> DEFINE n == Len(db.userRole) + 1
  <2>3. /\ WellFormed(db') /\ Grows(db, db') /\ OneTable(db, db', "userRole")
        /\ DOMAIN db'.userRole = DOMAIN db.userRole \cup {n}
        /\ \A j \in DOMAIN db.userRole : db'.userRole[j] = db.userRole[j]
    BY <1>0, <2>1, <2>2, insertUserRoleKeeps
  <2> HIDE DEF n
  <2>4. UserRoleInserted(db, db')
    BY <2>3 DEF UserRoleInserted
  <2> QED
    BY <2>3, <2>4 DEF AccountEffect
<1>3. CASE At(h, "user/activate", "write") /\ db' = activateUser(db, q.id, On(q))
  <2>1. q.id \in DOMAIN db.user /\ On(q) \in BOOLEAN
    BY <1>3, <1>0, Busy DEF Knows, KnowsOfAccounts, KnowsActivate, On, activateSchema, Optional
  <2>2. /\ WellFormed(db') /\ Grows(db, db') /\ UserWritten(db, db', q.id, {"active"})
        /\ db'.user[q.id].active = On(q)
    BY <1>0, <1>3, <2>1, activateUserKeeps
  <2> QED
    BY <1>3, <2>2 DEF AccountEffect
<1>4. CASE At(h, "user/delete", "write") /\ db' = deleteUser(db, q.id)
  <2>1. q.id \in DOMAIN db.user
    BY <1>4, <1>0, Busy DEF Knows, KnowsOfAccounts, KnowsDelete
  <2>2. /\ WellFormed(db') /\ Grows(db, db') /\ UserWritten(db, db', q.id, {"deleted"})
        /\ db'.user[q.id].deleted
    BY <1>0, <1>4, <2>1, deleteUserKeeps
  <2> QED
    BY <1>4, <2>2 DEF AccountEffect
<1>5. CASE At(h, "user/changeRole", "insert") /\ db' = insertUserRole(db, q.id, q.role)
  <2>1. q.id \in DOMAIN db.user /\ q.role \in DOMAIN db.role
    BY <1>5, <1>0, Busy DEF Knows, KnowsOfAccounts, KnowsChangeRole
  <2> DEFINE n == Len(db.userRole) + 1
  <2>2. /\ WellFormed(db') /\ Grows(db, db') /\ OneTable(db, db', "userRole")
        /\ DOMAIN db'.userRole = DOMAIN db.userRole \cup {n}
        /\ \A i \in DOMAIN db.userRole : db'.userRole[i] = db.userRole[i]
    BY <1>0, <1>5, <2>1, insertUserRoleKeeps
  <2> HIDE DEF n
  <2>3. UserRoleInserted(db, db')
    BY <2>2 DEF UserRoleInserted
  <2> QED
    BY <2>2, <2>3 DEF AccountEffect
<1>6. CASE At(h, "user/changeRole", "revive") /\ db' = updateUserRole(db, q.id, q.role, TRUE)
  <2>1. WellFormed(db') /\ Grows(db, db') /\ UserRolesSet(db, db', q.id, q.role, TRUE)
    BY <1>0, <1>6, updateUserRoleKeeps
  <2> QED
    BY <2>1 DEF AccountEffect
<1>7. CASE At(h, "user/changeRole", "remove") /\ db' = updateUserRole(db, q.id, q.role, FALSE)
  <2>1. WellFormed(db') /\ Grows(db, db') /\ UserRolesSet(db, db', q.id, q.role, FALSE)
    BY <1>0, <1>7, updateUserRoleKeeps
  <2> QED
    BY <1>7, <2>1 DEF AccountEffect
<1>8. CASE At(h, "user/activateImported", "commit") /\ db' = activateImportedUser(db, q, s.target)
  <2>1. /\ activateImportedSchema(q) /\ q.id \in DOMAIN db.user /\ s.target \in UserRow
        /\ "role" \in DOMAIN q => q.role \in DOMAIN db.role
    BY <1>8, <1>0, Busy DEF Knows, KnowsOfAccounts, KnowsActivateImported
  <2> DEFINE n == Len(db.audit) + 1
  <2>2. /\ WellFormed(db') /\ Grows(db, db')
        /\ \A m \in TableNames \ {"user", "userRole", "audit", "serial"} : db'[m] = db[m]
        /\ RoleActivated(db, db', q)
        /\ DOMAIN db'.user = DOMAIN db.user
        /\ \A u \in DOMAIN db.user :
             db'.user[u] = IF u = q.id THEN ActivatedUser(db, q) ELSE db.user[u]
        /\ DOMAIN db'.audit = DOMAIN db.audit \cup {n} /\ n \notin DOMAIN db.audit
        /\ \A i \in DOMAIN db.audit : db'.audit[i] = db.audit[i]
        /\ db'.audit[n] = [user |-> q.id, by |-> q.by, old |-> s.target.email, new |-> Lower(q.email)]
    BY <1>0, <1>8, <2>1, activateImportedUserKeeps
  <2>3. /\ db'.user[q.id].activated /\ db'.user[q.id].active
        /\ db'.user[q.id].deleted = db.user[q.id].deleted
        /\ db'.user[q.id].card = db.user[q.id].card
    <3>1. db'.user[q.id] = ActivatedUser(db, q) /\ db.user[q.id] \in UserRow
      BY <1>0, <2>1, <2>2 DEF WellFormed, TableOf
    <3> QED
      BY <3>1 DEF ActivatedUser, UserRow
  <2>4. db'.audit[n].user = q.id /\ db'.audit[n].old = s.target.email
    BY <2>2
  <2> HIDE DEF n
  <2>5. UserActivated(db, db', q, s.target)
    BY <2>1, <2>2, <2>3, <2>4 DEF UserActivated
  <2> QED
    BY <1>8, <2>2, <2>5 DEF AccountEffect
<1>9. CASE /\ At(h, "user/update", "write") \/ At(h, "user/assignDepartmentRoleAssignment", "write")
           /\ db' = updateUser(db, Chosen(q, s), Updates(Chosen(q, s), s.email))
  <2> DEFINE r == Chosen(q, s)
             fields == Updates(r, s.email)
  <2>1. /\ KnowsUpdate(q, "write", s, db)
        /\ \/ q.op = "user/update" /\ updateSchema(q)
           \/ q.op = "user/assignDepartmentRoleAssignment" /\ assignmentSchema(q)
    BY <1>9, Busy DEF Knows, KnowsOfAccounts
  <2>2. /\ fields \in SUBSET {"email", "username", "card", "assignment"}
        /\ r.id = q.id
        /\ "email" \in fields => r.email \in Names
        /\ "username" \in fields => r.username \in Names
        /\ "card" \in fields => r.card \in Cards \cup {NULL} /\ "card" \in DOMAIN q /\ r.card = q.card
        /\ "assignment" \in fields => r.assignment \in Ids \cup {NULL}
    BY <2>1, UpdatesAre
  <2>3. q.id \in DOMAIN db.user
    BY <2>1 DEF KnowsUpdate
  <2>4. db' = updateUser(db, r, fields)
    BY <1>9
  <2> HIDE DEF r, fields
  <2>5. /\ WellFormed(db') /\ Grows(db, db')
        /\ UserWritten(db, db', q.id, {"email", "username", "card", "assignment"})
        /\ db'.user[q.id].card = IF "card" \in fields THEN r.card ELSE db.user[q.id].card
    BY <1>0, <2>2, <2>3, <2>4, updateUserKeeps
  <2>6. CardWritten(h)
    <3>1. "card" \in DOMAIN q => q.op # "user/assignDepartmentRoleAssignment"
      BY <2>1 DEF assignmentSchema
    <3> QED
      BY <1>9, <2>2, <2>5, <3>1 DEF CardWritten
  <2> QED
    BY <2>5, <2>6 DEF AccountEffect
<1> QED
  BY <1>1, <1>2, <1>3, <1>4, <1>5, <1>6, <1>7, <1>8, <1>9 DEF AccountWrite

\* Of roles that are protected or deleted, names and activity stay.
RolesWritten(d, e) ==
  /\ OneTable(d, e, "role")
  /\ \A i \in DOMAIN d.role :
       \/ ~d.role[i].system /\ ~d.role[i].deleted
       \/ e.role[i].name = d.role[i].name /\ e.role[i].active = d.role[i].active
\* Rows for a role and a permission: none is new, or one for those of the request.
GrantsWritten(h) ==
  LET q == call[h].req
      s == call[h].saw
      n == Len(db.rolePermission) + 1
  IN
    /\ OneTable(db, db', "rolePermission")
    /\ \/ DOMAIN db'.rolePermission = DOMAIN db.rolePermission
       \/ /\ q.op = "role/assignPermission" /\ "row" \in DOMAIN s /\ s.row = NULL
          /\ n \notin DOMAIN db.rolePermission
          /\ DOMAIN db'.rolePermission = DOMAIN db.rolePermission \cup {n}
          /\ db'.rolePermission[n].role = q.role
          /\ db'.rolePermission[n].permission = q.permission
DirectWritten(h) ==
  LET q == call[h].req
      s == call[h].saw
      n == Len(db.userPermission) + 1
  IN
    /\ OneTable(db, db', "userPermission")
    /\ \/ DOMAIN db'.userPermission = DOMAIN db.userPermission
       \/ /\ q.op # "role/assignPermission" /\ "row" \in DOMAIN s /\ s.row = NULL
          /\ n \notin DOMAIN db.userPermission
          /\ DOMAIN db'.userPermission = DOMAIN db.userPermission \cup {n}
          /\ db'.userPermission[n].user = q.user
          /\ db'.userPermission[n].permission = q.permission
AccessEffect(h) ==
  \/ RolesWritten(db, db')
  \/ OneTable(db, db', "permission")
  \/ GrantsWritten(h)
  \/ DirectWritten(h)

LEMMA AccessWriteKeeps ==
  ASSUME Inv, NEW h \in Handlers, AccessWrite(h)
  PROVE  WellFormed(db') /\ Grows(db, db') /\ AccessEffect(h)
<1> DEFINE q == call[h].req
           s == call[h].saw
<1> USE DEF At
<1>0. WellFormed(db)
  BY DEF Inv
<1>1. CASE At(h, "role/create", "insert") /\ db' = createRole(db, q)
  <2>1. roleCreateSchema(q)
    BY <1>1, <1>0, Busy DEF Knows, KnowsOfAccess
  <2>2. /\ WellFormed(db') /\ Grows(db, db') /\ OneTable(db, db', "role")
        /\ \A i \in DOMAIN db.role : db'.role[i] = db.role[i]
    BY <1>0, <1>1, <2>1, createRoleKeeps
  <2>3. RolesWritten(db, db')
    BY <2>2 DEF RolesWritten
  <2> QED
    BY <2>2, <2>3 DEF AccessEffect
<1>2. CASE At(h, "role/update", "write") /\ ~db.role[q.id].deleted /\ db' = updateRole(db, q)
  <2>1. roleUpdateSchema(q) /\ q.id \in DOMAIN db.role /\ ~db.role[q.id].system
    BY <1>2, <1>0, Busy DEF Knows, KnowsOfAccess, KnowsUpdateRole
  <2>2. /\ WellFormed(db') /\ Grows(db, db') /\ OneTable(db, db', "role")
        /\ \A j \in DOMAIN db.role : j # q.id => db'.role[j] = db.role[j]
    BY <1>0, <1>2, <2>1, updateRoleKeeps
  <2>3. RolesWritten(db, db')
    BY <1>2, <2>1, <2>2 DEF RolesWritten
  <2> QED
    BY <2>2, <2>3 DEF AccessEffect
<1>3. CASE At(h, "role/delete", "write") /\ db' = deleteRole(db, q.id)
  <2>1. q.id \in DOMAIN db.role /\ ~db.role[q.id].system
    BY <1>3, <1>0, Busy DEF Knows, KnowsOfAccess, KnowsDeleteRole
  <2>2. /\ WellFormed(db') /\ Grows(db, db') /\ OneTable(db, db', "role")
        /\ \A j \in DOMAIN db.role : /\ db'.role[j].name = db.role[j].name
                                      /\ db'.role[j].active = db.role[j].active
    BY <1>0, <1>3, <2>1, deleteRoleKeeps
  <2>3. RolesWritten(db, db')
    BY <2>2 DEF RolesWritten
  <2> QED
    BY <2>2, <2>3 DEF AccessEffect
<1>4. CASE At(h, "role/assignPermission", "write") /\ db' = assignPermission(db, q, s.row)
  <2>1. /\ q.role \in DOMAIN db.role /\ q.permission \in DOMAIN db.permission
        /\ "row" \in DOMAIN s /\ (s.row = NULL \/ s.row \in DOMAIN db.rolePermission)
    BY <1>4, <1>0, Busy DEF Knows, KnowsOfAccess, KnowsAssignPermission, GrantRows
  <2> DEFINE n == Len(db.rolePermission) + 1
  <2>2. /\ WellFormed(db') /\ Grows(db, db') /\ OneTable(db, db', "rolePermission")
        /\ n \notin DOMAIN db.rolePermission
    BY <1>0, <1>4, <2>1, assignPermissionKeeps
  <2>3. DOMAIN db'.rolePermission =
          DOMAIN db.rolePermission \cup (IF s.row = NULL THEN {n} ELSE {})
    BY <1>0, <1>4, <2>1, assignPermissionKeeps
  <2>4. s.row = NULL => /\ db'.rolePermission[n].role = q.role
                        /\ db'.rolePermission[n].permission = q.permission
    BY <1>0, <1>4, <2>1, assignPermissionKeeps
  <2>5. GrantsWritten(h)
    BY <1>4, <2>1, <2>2, <2>3, <2>4 DEF GrantsWritten
  <2> QED
    BY <2>2, <2>5 DEF AccessEffect
<1>5. CASE At(h, "role/removePermission", "write") /\ db' = removePermission(db, s.row)
  <2>1. s.row \in DOMAIN db.rolePermission
    BY <1>5, <1>0, Busy DEF Knows, KnowsOfAccess, KnowsRemovePermission
  <2>2. /\ WellFormed(db') /\ Grows(db, db') /\ OneTable(db, db', "rolePermission")
        /\ DOMAIN db'.rolePermission = DOMAIN db.rolePermission
    BY <1>0, <1>5, <2>1, removePermissionKeeps
  <2>3. GrantsWritten(h)
    BY <2>2 DEF GrantsWritten
  <2> QED
    BY <2>2, <2>3 DEF AccessEffect
<1>6. CASE At(h, "permission/create", "insert") /\ db' = createPermission(db, q)
  <2>1. permissionCreateSchema(q)
    BY <1>6, <1>0, Busy DEF Knows, KnowsOfAccess
  <2>2. WellFormed(db') /\ Grows(db, db') /\ OneTable(db, db', "permission")
    BY <1>0, <1>6, <2>1, createPermissionKeeps
  <2> QED
    BY <2>2 DEF AccessEffect
<1>7. CASE At(h, "permission/update", "write") /\ q.id \in DOMAIN db.permission /\ db' = updatePermission(db, q)
  <2>1. permissionUpdateSchema(q)
    BY <1>7, <1>0, Busy DEF Knows, KnowsOfAccess
  <2>2. WellFormed(db') /\ Grows(db, db') /\ OneTable(db, db', "permission")
    BY <1>0, <1>7, <2>1, updatePermissionKeeps
  <2> QED
    BY <2>2 DEF AccessEffect
<1>8. CASE /\ At(h, "permission/delete", "write") /\ q.id \in DOMAIN db.permission
           /\ db' = deletePermission(db, q.id)
  <2>1. WellFormed(db') /\ Grows(db, db') /\ OneTable(db, db', "permission")
    BY <1>0, <1>8, deletePermissionKeeps
  <2> QED
    BY <2>1 DEF AccessEffect
<1>9. CASE At(h, "user/grantPermission", "write") /\ db' = grant(db, q, s.row)
  <2>1. /\ q.user \in DOMAIN db.user /\ q.permission \in DOMAIN db.permission /\ grantSchema(q)
        /\ "row" \in DOMAIN s /\ (s.row = NULL \/ s.row \in DOMAIN db.userPermission)
    BY <1>9, <1>0, Busy DEF Knows, KnowsOfAccess, KnowsGrant, DirectRows
  <2> DEFINE n == Len(db.userPermission) + 1
             j == IF s.row = NULL THEN n ELSE s.row
  <2>2. Granted(db, db', q, j) /\ n \notin DOMAIN db.userPermission
    BY <1>0, <1>9, <2>1, grantKeeps
  <2>3. DOMAIN db'.userPermission = DOMAIN db.userPermission \cup {j}
    BY <1>0, <1>9, <2>1, grantKeeps
  <2>4. s.row = NULL => /\ db'.userPermission[j].user = q.user
                        /\ db'.userPermission[j].permission = q.permission
    BY <1>0, <1>9, <2>1, grantKeeps
  <2>5. WellFormed(db') /\ Grows(db, db') /\ OneTable(db, db', "userPermission")
    BY <2>2 DEF Granted
  <2>6. DirectWritten(h)
    BY <1>9, <2>1, <2>2, <2>3, <2>4, <2>5 DEF DirectWritten
  <2> QED
    BY <2>5, <2>6 DEF AccessEffect
<1>10. CASE At(h, "user/grantPermission", "overwrite") /\ db' = overwrite(db, q, s.row)
  <2>1. s.row \in DOMAIN db.userPermission /\ grantSchema(q)
    BY <1>10, <1>0, Busy DEF Knows, KnowsOfAccess, KnowsGrant, DirectRows
  <2>2. /\ Granted(db, db', q, s.row)
        /\ DOMAIN db'.userPermission = DOMAIN db.userPermission
    BY <1>0, <1>10, <2>1, overwriteKeeps
  <2>3. WellFormed(db') /\ Grows(db, db') /\ OneTable(db, db', "userPermission")
    BY <2>2 DEF Granted
  <2>4. DirectWritten(h)
    BY <2>2, <2>3 DEF DirectWritten
  <2> QED
    BY <2>3, <2>4 DEF AccessEffect
<1>11. CASE At(h, "user/revokePermission", "write") /\ db' = revoke(db, q)
  <2>1. /\ WellFormed(db') /\ Grows(db, db') /\ OneTable(db, db', "userPermission")
        /\ DOMAIN db'.userPermission = DOMAIN db.userPermission
    BY <1>0, <1>11, revokeKeeps
  <2>2. DirectWritten(h)
    BY <2>1 DEF DirectWritten
  <2> QED
    BY <2>1, <2>2 DEF AccessEffect
<1> QED
  BY <1>1, <1>2, <1>3, <1>4, <1>5, <1>6, <1>7, <1>8, <1>9, <1>10, <1>11 DEF AccessWrite

\* New assignments have codes their department had not, and no two the same.
AssignmentsMade(d, e, i, codes) ==
  /\ OneTable(d, e, "assignment") /\ DOMAIN d.assignment \subseteq DOMAIN e.assignment
  /\ \A a \in DOMAIN d.assignment : e.assignment[a] = d.assignment[a]
  /\ \A a \in DOMAIN e.assignment \ DOMAIN d.assignment :
       /\ e.assignment[a].department = i
       /\ e.assignment[a].template \in DOMAIN codes
       /\ SameCode(d, i, e.assignment[a].code) = {}
       /\ e.assignment[a].code = codes[e.assignment[a].template]
  /\ \A a, b \in DOMAIN e.assignment \ DOMAIN d.assignment :
       e.assignment[a].template = e.assignment[b].template => a = b
AssignmentMade(d, e, q) ==
  /\ OneTable(d, e, "assignment") /\ Fresh(d) \notin DOMAIN d.assignment
  /\ DOMAIN e.assignment = DOMAIN d.assignment \cup {Fresh(d)}
  /\ \A a \in DOMAIN d.assignment : e.assignment[a] = d.assignment[a]
  /\ e.assignment[Fresh(d)].department = q.department
  /\ e.assignment[Fresh(d)].code = q.code
  /\ e.assignment[Fresh(d)].template = (IF "template" \in DOMAIN q THEN q.template ELSE NULL)
AssignmentsUpdated(d, e) ==
  /\ OneTable(d, e, "assignment") /\ DOMAIN e.assignment = DOMAIN d.assignment
  /\ \A a \in DOMAIN d.assignment :
       /\ e.assignment[a].department = d.assignment[a].department
       /\ e.assignment[a].code = d.assignment[a].code
       /\ e.assignment[a].template = d.assignment[a].template
\* Assignments go, of users nothing but the reference to them.
AssignmentsDeleted(d, e, ids) ==
  /\ \A m \in TableNames \ {"user", "department", "assignment"} : e[m] = d[m]
  /\ DOMAIN e.assignment = DOMAIN d.assignment \ ids
  /\ \A a \in DOMAIN e.assignment : e.assignment[a] = d.assignment[a]
  /\ DOMAIN e.user = DOMAIN d.user
  /\ \A u \in DOMAIN d.user :
       /\ e.user[u].card = d.user[u].card /\ e.user[u].activated = d.user[u].activated
       /\ e.user[u].active = d.user[u].active /\ e.user[u].deleted = d.user[u].deleted
\* No template is deleted but t.
TemplatesWritten(d, e, ids) ==
  /\ OneTable(d, e, "template")
  /\ \A t \in DOMAIN d.template \ ids : e.template[t].deleted = d.template[t].deleted
OrgEffect(h) ==
  LET q == call[h].req
      s == call[h].saw
  IN
    \/ OneTable(db, db', "department")
    \/ /\ At(h, "department/create", "write") /\ AssignmentsMade(db, db', s.new, s.codes)
       /\ "codes" \in DOMAIN s /\ DOMAIN s.codes \subseteq DOMAIN db.template
       /\ \A t, u \in DOMAIN s.codes : s.codes[t] = s.codes[u] => t = u
    \/ /\ q.op = "department/delete" /\ "members" \in DOMAIN s
       /\ AssignmentsDeleted(db, db', AssignmentsOf(db, q.id))
    \/ /\ q.op = "assignment/delete" /\ "members" \in DOMAIN s
       /\ AssignmentsDeleted(db, db', {q.id})
    \/ /\ AssignmentMade(db, db', q) /\ "code" \in DOMAIN s
       /\ "template" \in DOMAIN q => "template" \in DOMAIN s
    \/ AssignmentsUpdated(db, db')
    \/ TemplatesWritten(db, db', {})
    \/ TemplatesWritten(db, db', {q.id}) /\ "uses" \in DOMAIN s

LEMMA AssignmentsGo ==
  ASSUME NEW d, WellFormed(d), NEW ids
  PROVE  LET e == deleteAssignments(d, ids) IN
         WellFormed(e) /\ Grows(d, e) /\ AssignmentsDeleted(d, e, ids)
<1> DEFINE e == deleteAssignments(d, ids)
<1>1. /\ WellFormed(e) /\ Grows(d, e)
      /\ \A m \in TableNames \ {"user", "assignment"} : e[m] = d[m]
      /\ DOMAIN e.assignment = DOMAIN d.assignment \ ids
      /\ \A a \in DOMAIN e.assignment : e.assignment[a] = d.assignment[a]
      /\ DOMAIN e.user = DOMAIN d.user
      /\ \A u \in DOMAIN d.user :
           /\ e.user[u] \in UserRow
           /\ \A f \in {"email", "username", "card", "active", "deleted", "status", "activated"} :
                e.user[u][f] = d.user[u][f]
  BY deleteAssignmentsKeeps
<1> HIDE DEF e
<1>2. \A m \in TableNames \ {"user", "department", "assignment"} : e[m] = d[m]
  BY <1>1
<1>3. \A u \in DOMAIN d.user :
        /\ e.user[u].card = d.user[u].card /\ e.user[u].activated = d.user[u].activated
        /\ e.user[u].active = d.user[u].active /\ e.user[u].deleted = d.user[u].deleted
  BY <1>1
<1> QED
  BY <1>1, <1>2, <1>3 DEF AssignmentsDeleted, e

LEMMA AssignmentComes ==
  ASSUME NEW d, WellFormed(d), NEW r, assignmentCreateSchema(r)
  PROVE  LET e == createAssignment(d, r) IN
         WellFormed(e) /\ Grows(d, e) /\ AssignmentMade(d, e, r)
<1> DEFINE e == createAssignment(d, r)
           template == IF "template" \in DOMAIN r THEN r.template ELSE NULL
<1>1. /\ WellFormed(e) /\ Grows(d, e) /\ OneTable(d, e, "assignment")
      /\ Fresh(d) \notin DOMAIN d.assignment
      /\ DOMAIN e.assignment = DOMAIN d.assignment \cup {Fresh(d)}
      /\ \A a \in DOMAIN d.assignment : e.assignment[a] = d.assignment[a]
      /\ e.assignment[Fresh(d)] =
           [department |-> r.department, code |-> r.code, active |-> TRUE, template |-> template]
  BY createAssignmentKeeps
<1> HIDE DEF e
<1>2. /\ e.assignment[Fresh(d)].department = r.department
      /\ e.assignment[Fresh(d)].code = r.code
      /\ e.assignment[Fresh(d)].template = template
  BY <1>1
<1> QED
  BY <1>1, <1>2 DEF AssignmentMade, e

LEMMA OrgWriteKeeps ==
  ASSUME Inv, NEW h \in Handlers, OrgWrite(h)
  PROVE  WellFormed(db') /\ Grows(db, db') /\ OrgEffect(h)
<1> DEFINE q == call[h].req
           s == call[h].saw
<1> USE DEF At
<1>0. WellFormed(db)
  BY DEF Inv
<1>1. CASE At(h, "department/create", "insert") /\ db' = createDepartment(db, q)
  <2>1. departmentCreateSchema(q)
    BY <1>1, <1>0, Busy DEF Knows, KnowsOfOrg, KnowsCreateDepartment
  <2>2. WellFormed(db') /\ Grows(db, db') /\ OneTable(db, db', "department")
    BY <1>0, <1>1, <2>1, createDepartmentKeeps
  <2> QED
    BY <2>2 DEF OrgEffect
<1>2. CASE At(h, "department/create", "write") /\ db' = fromTemplates(db, s.new, s.codes)
  <2>1. /\ s.new \in Ids /\ DOMAIN s.codes \subseteq DOMAIN db.template
        /\ \A t \in DOMAIN s.codes : s.codes[t] \in Codes
        /\ "codes" \in DOMAIN s
        /\ \A t, u \in DOMAIN s.codes : s.codes[t] = s.codes[u] => t = u
    BY <1>2, <1>0, Busy DEF Knows, KnowsOfOrg, KnowsCreateDepartment
  <2>2. /\ WellFormed(db') /\ Grows(db, db') /\ OneTable(db, db', "assignment")
        /\ DOMAIN db.assignment \subseteq DOMAIN db'.assignment
        /\ \A a \in DOMAIN db.assignment : db'.assignment[a] = db.assignment[a]
    BY <1>0, <1>2, <2>1, fromTemplatesKeeps
  <2>3. \A a \in DOMAIN db'.assignment \ DOMAIN db.assignment :
          /\ db'.assignment[a].department = s.new
          /\ db'.assignment[a].template \in DOMAIN s.codes
          /\ SameCode(db, s.new, db'.assignment[a].code) = {}
          /\ db'.assignment[a].code = s.codes[db'.assignment[a].template]
    BY <1>0, <1>2, <2>1, fromTemplatesKeeps
  <2>4. \A a, b \in DOMAIN db'.assignment \ DOMAIN db.assignment :
          db'.assignment[a].template = db'.assignment[b].template => a = b
    BY <1>0, <1>2, <2>1, fromTemplatesKeeps
  <2>5. AssignmentsMade(db, db', s.new, s.codes)
    BY <2>2, <2>3, <2>4 DEF AssignmentsMade
  <2> QED
    BY <1>2, <2>1, <2>2, <2>5 DEF OrgEffect
<1>3. CASE At(h, "department/update", "write") /\ q.id \in DOMAIN db.department /\ db' = updateDepartment(db, q)
  <2>1. departmentUpdateSchema(q)
    BY <1>3, <1>0, Busy DEF Knows, KnowsOfOrg
  <2>2. WellFormed(db') /\ Grows(db, db') /\ OneTable(db, db', "department")
    BY <1>0, <1>3, <2>1, updateDepartmentKeeps
  <2> QED
    BY <2>2 DEF OrgEffect
<1>4. CASE /\ At(h, "department/delete", "assignments")
           /\ db' = deleteAssignments(db, AssignmentsOf(db, q.id))
  <2>1. "members" \in DOMAIN s
    BY <1>4, <1>0, Busy DEF Knows, KnowsOfOrg, KnowsDeleteDepartment
  <2>2. WellFormed(db') /\ Grows(db, db') /\ AssignmentsDeleted(db, db', AssignmentsOf(db, q.id))
    BY <1>0, <1>4, AssignmentsGo
  <2> QED
    BY <1>4, <2>1, <2>2 DEF OrgEffect
<1>5. CASE At(h, "department/delete", "write") /\ db' = deleteDepartment(db, q.id)
  <2>1. "members" \in DOMAIN s
    BY <1>5, <1>0, Busy DEF Knows, KnowsOfOrg, KnowsDeleteDepartment
  <2> DEFINE f == deleteAssignments(db, AssignmentsOf(db, q.id))
  <2>2. /\ WellFormed(db') /\ Grows(db, db')
        /\ \A m \in TableNames \ {"department"} : db'[m] = f[m]
    BY <1>0, <1>5, deleteDepartmentKeeps
  <2>3. AssignmentsDeleted(db, f, AssignmentsOf(db, q.id))
    BY <1>0, AssignmentsGo
  <2> HIDE DEF f
  <2>4. AssignmentsDeleted(db, db', AssignmentsOf(db, q.id))
    BY <2>2, <2>3 DEF AssignmentsDeleted, TableNames
  <2> QED
    BY <1>5, <2>1, <2>2, <2>4 DEF OrgEffect
<1>6. CASE At(h, "assignment/create", "insert") /\ db' = createAssignment(db, q)
  <2>1. assignmentCreateSchema(q)
    BY <1>6, <1>0, Busy DEF Knows, KnowsOfOrg, KnowsCreateAssignment
  <2>2. "code" \in DOMAIN s /\ ("template" \in DOMAIN q => "template" \in DOMAIN s)
    BY <1>6, <1>0, Busy DEF Knows, KnowsOfOrg, KnowsCreateAssignment
  <2>3. WellFormed(db') /\ Grows(db, db') /\ AssignmentMade(db, db', q)
    BY <1>0, <1>6, <2>1, AssignmentComes
  <2> QED
    BY <2>2, <2>3 DEF OrgEffect
<1>7. CASE At(h, "assignment/update", "write") /\ q.id \in DOMAIN db.assignment /\ "active" \in DOMAIN q /\ db' = updateAssignment(db, q)
  <2>1. q.active \in BOOLEAN
    BY <1>7, <1>0, Busy DEF Knows, KnowsOfOrg, assignmentUpdateSchema, Optional
  <2>2. /\ WellFormed(db') /\ Grows(db, db') /\ OneTable(db, db', "assignment")
        /\ DOMAIN db'.assignment = DOMAIN db.assignment
        /\ \A a \in DOMAIN db.assignment :
             /\ db'.assignment[a].department = db.assignment[a].department
             /\ db'.assignment[a].code = db.assignment[a].code
             /\ db'.assignment[a].template = db.assignment[a].template
    BY <1>0, <1>7, <2>1, updateAssignmentKeeps
  <2>3. AssignmentsUpdated(db, db')
    BY <2>2 DEF AssignmentsUpdated
  <2> QED
    BY <2>2, <2>3 DEF OrgEffect
<1>8. CASE At(h, "assignment/delete", "write") /\ db' = deleteAssignments(db, {q.id})
  <2>1. "members" \in DOMAIN s
    BY <1>8, <1>0, Busy DEF Knows, KnowsOfOrg, KnowsDeleteAssignment
  <2>2. WellFormed(db') /\ Grows(db, db') /\ AssignmentsDeleted(db, db', {q.id})
    BY <1>0, <1>8, AssignmentsGo
  <2> QED
    BY <1>8, <2>1, <2>2 DEF OrgEffect
<1>9. CASE At(h, "template/create", "insert") /\ db' = createTemplate(db, q)
  <2>1. templateCreateSchema(q)
    BY <1>9, <1>0, Busy DEF Knows, KnowsOfOrg
  <2>2. /\ WellFormed(db') /\ Grows(db, db') /\ OneTable(db, db', "template")
        /\ \A t \in DOMAIN db.template : db'.template[t] = db.template[t]
    BY <1>0, <1>9, <2>1, createTemplateKeeps
  <2>3. TemplatesWritten(db, db', {})
    BY <2>2 DEF TemplatesWritten
  <2> QED
    BY <2>2, <2>3 DEF OrgEffect
<1>10. CASE At(h, "template/update", "write") /\ q.id \in LiveTemplates(db) /\ db' = updateTemplate(db, q)
  <2>1. templateUpdateSchema(q) /\ q.id \in DOMAIN db.template
    BY <1>10, <1>0, Busy DEF Knows, KnowsOfOrg, LiveTemplates
  <2>2. /\ WellFormed(db') /\ Grows(db, db') /\ OneTable(db, db', "template")
        /\ \A t \in DOMAIN db.template : db'.template[t].deleted = db.template[t].deleted
    BY <1>0, <1>10, <2>1, updateTemplateKeeps
  <2>3. TemplatesWritten(db, db', {})
    BY <2>2 DEF TemplatesWritten
  <2> QED
    BY <2>2, <2>3 DEF OrgEffect
<1>11. CASE /\ At(h, "template/delete", "write") /\ q.id \in LiveTemplates(db)
           /\ db' = deleteTemplate(db, q.id)
  <2>1. "uses" \in DOMAIN s /\ q.id \in DOMAIN db.template
    BY <1>11, <1>0, Busy DEF Knows, KnowsOfOrg, KnowsDeleteTemplate, LiveTemplates
  <2>2. /\ WellFormed(db') /\ Grows(db, db') /\ OneTable(db, db', "template")
        /\ \A t \in DOMAIN db.template : t # q.id => db'.template[t] = db.template[t]
    BY <1>0, <1>11, <2>1, deleteTemplateKeeps
  <2>3. TemplatesWritten(db, db', {q.id})
    BY <2>2 DEF TemplatesWritten
  <2> QED
    BY <2>1, <2>2, <2>3 DEF OrgEffect
<1> QED
  BY <1>1, <1>2, <1>3, <1>4, <1>5, <1>6, <1>7, <1>8, <1>9, <1>10, <1>11 DEF OrgWrite

LEMMA WroteKeeps ==
  ASSUME Inv, NEW h \in Handlers, Wrote(h)
  PROVE  WellFormed(db') /\ Grows(db, db') /\ Consistent(db')
BY AccountWriteKeeps, AccessWriteKeeps, OrgWriteKeeps DEF Wrote

----------------------------------------------------------------------------
(* Requests begin *)

\* A handler begins with a payload that passed its schema and has seen nothing.
LEMMA Began ==
  ASSUME Inv, NEW h \in Handlers, NEW valid, Begin(h, valid), valid \subseteq menu,
         \A r \in valid : Knows(r, "start", << >>, db)
  PROVE  Inv' /\ db' = db
<1>1. PICK r \in valid : call' = [call EXCEPT ![h] = [req |-> r, pc |-> "start", saw |-> << >>]]
  BY DEF Begin
<1>2. /\ db' = db /\ menu' = menu /\ left' = left - 1 /\ left > 0
  BY DEF Begin
<1> DEFINE c == [req |-> r, pc |-> "start", saw |-> << >>]
<1>3. c = [req |-> c.req, pc |-> c.pc, saw |-> c.saw] /\ c.req = r /\ c.pc = "start" /\ c.saw = << >>
  OBVIOUS
<1>4. call' = [call EXCEPT ![h] = c]
  BY <1>1
<1> HIDE DEF c
<1>5. Fine(c, db, menu)
  BY <1>3 DEF Fine
<1>6. /\ left \in 0 .. MaxRequests /\ DOMAIN call = Handlers
      /\ \A k \in Handlers : Fine(call[k], db, menu)
  BY DEF Inv
<1>7. DOMAIN call' = Handlers /\ \A k \in Handlers : Fine(call'[k], db, menu)
  BY <1>4, <1>5, <1>6
<1>8. left' \in 0 .. MaxRequests
  BY <1>2, <1>6, MaxRequestsAssumption
<1> QED
  BY <1>2, <1>7, <1>8 DEF Inv

LEMMA NothingSeen ==
  ASSUME NEW f PROVE f \notin DOMAIN << >>
OBVIOUS

LEMMA AccountRequestBegins ==
  ASSUME Inv, NEW h \in Handlers, AccountRequest(h)
  PROVE  Inv' /\ db' = db
<1>1. CASE user_register(h)
  <2> DEFINE valid == {r \in Payloads("user/register") : registerSchema(r)}
  <2>1. \A r \in valid : Knows(r, "start", << >>, db)
    <3>1. \A r : registerSchema(r) => KnowsRegister(r, "start", << >>, db)
      BY DEF KnowsRegister
    <3> QED
      BY <3>1 DEF Payloads, Knows, KnowsOfAccounts, KnowsOfAccess, KnowsOfOrg
  <2>2. valid \subseteq menu /\ Begin(h, valid)
    BY <1>1 DEF Payloads, user_register
  <2> QED
    BY <2>1, <2>2, Began
<1>2. CASE user_activate(h)
  <2> DEFINE valid == {r \in Payloads("user/activate") : activateSchema(r)}
  <2>1. \A r \in valid : Knows(r, "start", << >>, db)
    <3>1. \A r : activateSchema(r) => KnowsActivate(r, "start", << >>, db)
      BY DEF KnowsActivate
    <3> QED
      BY <3>1 DEF Payloads, Knows, KnowsOfAccounts, KnowsOfAccess, KnowsOfOrg
  <2>2. valid \subseteq menu /\ Begin(h, valid)
    BY <1>2 DEF Payloads, user_activate
  <2> QED
    BY <2>1, <2>2, Began
<1>3. CASE user_delete(h)
  <2> DEFINE valid == {r \in Payloads("user/delete") : deleteSchema(r)}
  <2>1. \A r \in valid : Knows(r, "start", << >>, db)
    <3>1. \A r : deleteSchema(r) => KnowsDelete(r, "start", << >>, db)
      BY DEF KnowsDelete
    <3> QED
      BY <3>1 DEF Payloads, Knows, KnowsOfAccounts, KnowsOfAccess, KnowsOfOrg
  <2>2. valid \subseteq menu /\ Begin(h, valid)
    BY <1>3 DEF Payloads, user_delete
  <2> QED
    BY <2>1, <2>2, Began
<1>4. CASE user_changeRole(h)
  <2> DEFINE valid == {r \in Payloads("user/changeRole") : changeRoleSchema(r)}
  <2>1. \A r \in valid : Knows(r, "start", << >>, db)
    <3>1. \A r : changeRoleSchema(r) => KnowsChangeRole(r, "start", << >>, db)
      BY DEF KnowsChangeRole
    <3> QED
      BY <3>1 DEF Payloads, Knows, KnowsOfAccounts, KnowsOfAccess, KnowsOfOrg
  <2>2. valid \subseteq menu /\ Begin(h, valid)
    BY <1>4 DEF Payloads, user_changeRole
  <2> QED
    BY <2>1, <2>2, Began
<1>5. CASE user_activateImported(h)
  <2> DEFINE valid == {r \in Payloads("user/activateImported") : activateImportedSchema(r)}
  <2>1. \A r \in valid : Knows(r, "start", << >>, db)
    <3>1. \A r : activateImportedSchema(r) => KnowsActivateImported(r, "start", << >>, db)
      BY DEF KnowsActivateImported
    <3> QED
      BY <3>1 DEF Payloads, Knows, KnowsOfAccounts, KnowsOfAccess, KnowsOfOrg
  <2>2. valid \subseteq menu /\ Begin(h, valid)
    BY <1>5 DEF Payloads, user_activateImported
  <2> QED
    BY <2>1, <2>2, Began
<1>6. CASE user_update(h)
  <2> DEFINE valid == {r \in Payloads("user/update") : updateSchema(r)}
  <2>1. \A r \in valid : Knows(r, "start", << >>, db)
    <3>1. \A r : KnowsUpdate(r, "start", << >>, db)
      BY NothingSeen DEF KnowsUpdate
    <3> QED
      BY <3>1 DEF Payloads, Knows, KnowsOfAccounts, KnowsOfAccess, KnowsOfOrg
  <2>2. valid \subseteq menu /\ Begin(h, valid)
    BY <1>6 DEF Payloads, user_update
  <2> QED
    BY <2>1, <2>2, Began
<1>7. CASE user_assign(h)
  <2> DEFINE valid == {r \in Payloads("user/assignDepartmentRoleAssignment") : assignmentSchema(r)}
  <2>1. \A r \in valid : Knows(r, "start", << >>, db)
    <3>1. \A r : KnowsUpdate(r, "start", << >>, db)
      BY NothingSeen DEF KnowsUpdate
    <3> QED
      BY <3>1 DEF Payloads, Knows, KnowsOfAccounts, KnowsOfAccess, KnowsOfOrg
  <2>2. valid \subseteq menu /\ Begin(h, valid)
    BY <1>7 DEF Payloads, user_assign
  <2> QED
    BY <2>1, <2>2, Began
<1> QED
  BY <1>1, <1>2, <1>3, <1>4, <1>5, <1>6, <1>7 DEF AccountRequest

LEMMA AccessRequestBegins ==
  ASSUME Inv, NEW h \in Handlers, AccessRequest(h)
  PROVE  Inv' /\ db' = db
<1>1. CASE role_create(h)
  <2> DEFINE valid == {r \in Payloads("role/create") : roleCreateSchema(r)}
  <2>1. \A r \in valid : Knows(r, "start", << >>, db)
    BY DEF Payloads, Knows, KnowsOfAccounts, KnowsOfAccess, KnowsOfOrg
  <2>2. valid \subseteq menu /\ Begin(h, valid)
    BY <1>1 DEF Payloads, role_create
  <2> QED
    BY <2>1, <2>2, Began
<1>2. CASE role_update(h)
  <2> DEFINE valid == {r \in Payloads("role/update") : roleUpdateSchema(r)}
  <2>1. \A r \in valid : Knows(r, "start", << >>, db)
    <3>1. \A r : roleUpdateSchema(r) => KnowsUpdateRole(r, "start", << >>, db)
      BY DEF KnowsUpdateRole
    <3> QED
      BY <3>1 DEF Payloads, Knows, KnowsOfAccounts, KnowsOfAccess, KnowsOfOrg
  <2>2. valid \subseteq menu /\ Begin(h, valid)
    BY <1>2 DEF Payloads, role_update
  <2> QED
    BY <2>1, <2>2, Began
<1>3. CASE role_delete(h)
  <2> DEFINE valid == {r \in Payloads("role/delete") : roleSchema(r)}
  <2>1. \A r \in valid : Knows(r, "start", << >>, db)
    <3>1. \A r : roleSchema(r) => KnowsDeleteRole(r, "start", << >>, db)
      BY DEF KnowsDeleteRole
    <3> QED
      BY <3>1 DEF Payloads, Knows, KnowsOfAccounts, KnowsOfAccess, KnowsOfOrg
  <2>2. valid \subseteq menu /\ Begin(h, valid)
    BY <1>3 DEF Payloads, role_delete
  <2> QED
    BY <2>1, <2>2, Began
<1>4. CASE role_assignPermission(h)
  <2> DEFINE valid == {r \in Payloads("role/assignPermission") : rolePermissionSchema(r)}
  <2>1. \A r \in valid : Knows(r, "start", << >>, db)
    <3>1. \A r : rolePermissionSchema(r) => KnowsAssignPermission(r, "start", << >>, db)
      BY DEF KnowsAssignPermission
    <3> QED
      BY <3>1 DEF Payloads, Knows, KnowsOfAccounts, KnowsOfAccess, KnowsOfOrg
  <2>2. valid \subseteq menu /\ Begin(h, valid)
    BY <1>4 DEF Payloads, role_assignPermission
  <2> QED
    BY <2>1, <2>2, Began
<1>5. CASE role_removePermission(h)
  <2> DEFINE valid == {r \in Payloads("role/removePermission") : rolePermissionSchema(r)}
  <2>1. \A r \in valid : Knows(r, "start", << >>, db)
    <3>1. \A r : rolePermissionSchema(r) => KnowsRemovePermission(r, "start", << >>, db)
      BY DEF KnowsRemovePermission
    <3> QED
      BY <3>1 DEF Payloads, Knows, KnowsOfAccounts, KnowsOfAccess, KnowsOfOrg
  <2>2. valid \subseteq menu /\ Begin(h, valid)
    BY <1>5 DEF Payloads, role_removePermission
  <2> QED
    BY <2>1, <2>2, Began
<1>6. CASE permission_create(h)
  <2> DEFINE valid == {r \in Payloads("permission/create") : permissionCreateSchema(r)}
  <2>1. \A r \in valid : Knows(r, "start", << >>, db)
    BY DEF Payloads, Knows, KnowsOfAccounts, KnowsOfAccess, KnowsOfOrg
  <2>2. valid \subseteq menu /\ Begin(h, valid)
    BY <1>6 DEF Payloads, permission_create
  <2> QED
    BY <2>1, <2>2, Began
<1>7. CASE permission_update(h)
  <2> DEFINE valid == {r \in Payloads("permission/update") : permissionUpdateSchema(r)}
  <2>1. \A r \in valid : Knows(r, "start", << >>, db)
    BY DEF Payloads, Knows, KnowsOfAccounts, KnowsOfAccess, KnowsOfOrg
  <2>2. valid \subseteq menu /\ Begin(h, valid)
    BY <1>7 DEF Payloads, permission_update
  <2> QED
    BY <2>1, <2>2, Began
<1>8. CASE permission_delete(h)
  <2> DEFINE valid == {r \in Payloads("permission/delete") : permissionSchema(r)}
  <2>1. \A r \in valid : Knows(r, "start", << >>, db)
    BY DEF Payloads, Knows, KnowsOfAccounts, KnowsOfAccess, KnowsOfOrg
  <2>2. valid \subseteq menu /\ Begin(h, valid)
    BY <1>8 DEF Payloads, permission_delete
  <2> QED
    BY <2>1, <2>2, Began
<1>9. CASE user_grantPermission(h)
  <2> DEFINE valid == {r \in Payloads("user/grantPermission") : grantSchema(r)}
  <2>1. \A r \in valid : Knows(r, "start", << >>, db)
    <3>1. \A r : grantSchema(r) => KnowsGrant(r, "start", << >>, db)
      BY DEF KnowsGrant
    <3> QED
      BY <3>1 DEF Payloads, Knows, KnowsOfAccounts, KnowsOfAccess, KnowsOfOrg
  <2>2. valid \subseteq menu /\ Begin(h, valid)
    BY <1>9 DEF Payloads, user_grantPermission
  <2> QED
    BY <2>1, <2>2, Began
<1>10. CASE user_revokePermission(h)
  <2> DEFINE valid == {r \in Payloads("user/revokePermission") : revokeSchema(r)}
  <2>1. \A r \in valid : Knows(r, "start", << >>, db)
    BY DEF Payloads, Knows, KnowsOfAccounts, KnowsOfAccess, KnowsOfOrg
  <2>2. valid \subseteq menu /\ Begin(h, valid)
    BY <1>10 DEF Payloads, user_revokePermission
  <2> QED
    BY <2>1, <2>2, Began
<1> QED
  BY <1>1, <1>2, <1>3, <1>4, <1>5, <1>6, <1>7, <1>8, <1>9, <1>10 DEF AccessRequest

LEMMA OrgRequestBegins ==
  ASSUME Inv, NEW h \in Handlers, OrgRequest(h)
  PROVE  Inv' /\ db' = db
<1>1. CASE department_create(h)
  <2> DEFINE valid == {r \in Payloads("department/create") : departmentCreateSchema(r)}
  <2>1. \A r \in valid : Knows(r, "start", << >>, db)
    <3>1. \A r : departmentCreateSchema(r) => KnowsCreateDepartment(r, "start", << >>, db)
      BY DEF KnowsCreateDepartment
    <3> QED
      BY <3>1 DEF Payloads, Knows, KnowsOfAccounts, KnowsOfAccess, KnowsOfOrg
  <2>2. valid \subseteq menu /\ Begin(h, valid)
    BY <1>1 DEF Payloads, department_create
  <2> QED
    BY <2>1, <2>2, Began
<1>2. CASE department_update(h)
  <2> DEFINE valid == {r \in Payloads("department/update") : departmentUpdateSchema(r)}
  <2>1. \A r \in valid : Knows(r, "start", << >>, db)
    BY DEF Payloads, Knows, KnowsOfAccounts, KnowsOfAccess, KnowsOfOrg
  <2>2. valid \subseteq menu /\ Begin(h, valid)
    BY <1>2 DEF Payloads, department_update
  <2> QED
    BY <2>1, <2>2, Began
<1>3. CASE department_delete(h)
  <2> DEFINE valid == {r \in Payloads("department/delete") : departmentDeleteSchema(r)}
  <2>1. \A r \in valid : Knows(r, "start", << >>, db)
    <3>1. \A r : departmentDeleteSchema(r) => KnowsDeleteDepartment(r, "start", << >>, db)
      BY DEF KnowsDeleteDepartment
    <3> QED
      BY <3>1 DEF Payloads, Knows, KnowsOfAccounts, KnowsOfAccess, KnowsOfOrg
  <2>2. valid \subseteq menu /\ Begin(h, valid)
    BY <1>3 DEF Payloads, department_delete
  <2> QED
    BY <2>1, <2>2, Began
<1>4. CASE assignment_create(h)
  <2> DEFINE valid == {r \in Payloads("assignment/create") : assignmentCreateSchema(r)}
  <2>1. \A r \in valid : Knows(r, "start", << >>, db)
    <3>1. \A r : assignmentCreateSchema(r) => KnowsCreateAssignment(r, "start", << >>, db)
      BY DEF KnowsCreateAssignment
    <3> QED
      BY <3>1 DEF Payloads, Knows, KnowsOfAccounts, KnowsOfAccess, KnowsOfOrg
  <2>2. valid \subseteq menu /\ Begin(h, valid)
    BY <1>4 DEF Payloads, assignment_create
  <2> QED
    BY <2>1, <2>2, Began
<1>5. CASE assignment_update(h)
  <2> DEFINE valid == {r \in Payloads("assignment/update") : assignmentUpdateSchema(r)}
  <2>1. \A r \in valid : Knows(r, "start", << >>, db)
    BY DEF Payloads, Knows, KnowsOfAccounts, KnowsOfAccess, KnowsOfOrg
  <2>2. valid \subseteq menu /\ Begin(h, valid)
    BY <1>5 DEF Payloads, assignment_update
  <2> QED
    BY <2>1, <2>2, Began
<1>6. CASE assignment_delete(h)
  <2> DEFINE valid == {r \in Payloads("assignment/delete") : assignmentDeleteSchema(r)}
  <2>1. \A r \in valid : Knows(r, "start", << >>, db)
    <3>1. \A r : assignmentDeleteSchema(r) => KnowsDeleteAssignment(r, "start", << >>, db)
      BY DEF KnowsDeleteAssignment
    <3> QED
      BY <3>1 DEF Payloads, Knows, KnowsOfAccounts, KnowsOfAccess, KnowsOfOrg
  <2>2. valid \subseteq menu /\ Begin(h, valid)
    BY <1>6 DEF Payloads, assignment_delete
  <2> QED
    BY <2>1, <2>2, Began
<1>7. CASE template_create(h)
  <2> DEFINE valid == {r \in Payloads("template/create") : templateCreateSchema(r)}
  <2>1. \A r \in valid : Knows(r, "start", << >>, db)
    BY DEF Payloads, Knows, KnowsOfAccounts, KnowsOfAccess, KnowsOfOrg
  <2>2. valid \subseteq menu /\ Begin(h, valid)
    BY <1>7 DEF Payloads, template_create
  <2> QED
    BY <2>1, <2>2, Began
<1>8. CASE template_update(h)
  <2> DEFINE valid == {r \in Payloads("template/update") : templateUpdateSchema(r)}
  <2>1. \A r \in valid : Knows(r, "start", << >>, db)
    BY DEF Payloads, Knows, KnowsOfAccounts, KnowsOfAccess, KnowsOfOrg
  <2>2. valid \subseteq menu /\ Begin(h, valid)
    BY <1>8 DEF Payloads, template_update
  <2> QED
    BY <2>1, <2>2, Began
<1>9. CASE template_delete(h)
  <2> DEFINE valid == {r \in Payloads("template/delete") : templateDeleteSchema(r)}
  <2>1. \A r \in valid : Knows(r, "start", << >>, db)
    <3>1. \A r : templateDeleteSchema(r) => KnowsDeleteTemplate(r, "start", << >>, db)
      BY DEF KnowsDeleteTemplate
    <3> QED
      BY <3>1 DEF Payloads, Knows, KnowsOfAccounts, KnowsOfAccess, KnowsOfOrg
  <2>2. valid \subseteq menu /\ Begin(h, valid)
    BY <1>9 DEF Payloads, template_delete
  <2> QED
    BY <2>1, <2>2, Began
<1> QED
  BY <1>1, <1>2, <1>3, <1>4, <1>5, <1>6, <1>7, <1>8, <1>9 DEF OrgRequest

----------------------------------------------------------------------------
(* The inductive invariant *)

Step(h) == AccountStep(h) \/ AccessStep(h) \/ OrgStep(h)
Request(h) == AccountRequest(h) \/ AccessRequest(h) \/ OrgRequest(h)

LEMMA StepTakes ==
  ASSUME Inv, NEW h \in Handlers, Step(h)
  PROVE  Took(h)
<1>1. CASE AccountStep(h)
  BY <1>1, RegisterUserTakes, ActivateUserTakes, DeleteUserTakes, ChangeRoleTakes, SetRoleTakes,
     ActivateImportedTakes, UpdateUserTakes, AssignUserTakes DEF AccountStep
<1>2. CASE AccessStep(h)
  BY <1>2, CreateRoleTakes, UpdateRoleTakes, DeleteRoleTakes, AssignPermissionTakes,
     RemovePermissionTakes, CreatePermissionTakes, UpdatePermissionTakes, DeletePermissionTakes,
     GrantPermissionTakes, RevokePermissionTakes DEF AccessStep
<1>3. CASE OrgStep(h)
  BY <1>3, CreateDepartmentTakes, UpdateDepartmentTakes, DeleteDepartmentTakes,
     CreateAssignmentTakes, UpdateAssignmentTakes, DeleteAssignmentTakes, CreateTemplateTakes,
     UpdateTemplateTakes, DeleteTemplateTakes DEF OrgStep
<1> QED
  BY <1>1, <1>2, <1>3 DEF Step

LEMMA RequestBegins ==
  ASSUME Inv, NEW h \in Handlers, Request(h)
  PROVE  Inv' /\ db' = db
BY AccountRequestBegins, AccessRequestBegins, OrgRequestBegins DEF Request

LEMMA TookKeeps ==
  ASSUME Inv, NEW h \in Handlers, Took(h)
  PROVE  Inv'
<1>1. WellFormed(db') /\ Consistent(db') /\ Grows(db, db')
  <2>1. CASE db' = db
    BY <2>1, GrowsSame DEF Inv
  <2>2. CASE Wrote(h)
    BY <2>2, WroteKeeps
  <2> QED
    BY <2>1, <2>2 DEF Took
<1>0. (SystemRoles => Seeded(db)) /\ (SystemRoles => Seeded(db'))
  BY <1>1, StaysSeeded DEF Inv
<1>2. PICK c : call' = [call EXCEPT ![h] = c] /\ Fine(c, db', menu)
  BY DEF Took, Lands
<1>3. menu' = menu /\ left' = left
  BY DEF Took, Lands
<1>4. ASSUME NEW k \in Handlers
      PROVE  Fine(call'[k], db', menu)
  <2>1. CASE k = h
    BY <1>2, <2>1 DEF Inv
  <2>2. CASE k # h
    <3>1. call'[k] = call[k] /\ Fine(call[k], db, menu)
      BY <1>2, <2>2 DEF Inv
    <3> QED
      BY <1>0, <1>1, <3>1, KnowsStays DEF Fine
  <2> QED
    BY <2>1, <2>2
<1>5. /\ DOMAIN call' = Handlers /\ left' \in 0 .. MaxRequests /\ menu' \in Menus
      /\ \A k \in Handlers : Fine(call'[k], db', menu')
  BY <1>2, <1>3, <1>4 DEF Inv
<1> QED
  BY <1>0, <1>1, <1>5 DEF Inv

LEMMA InvHolds == Spec => []Inv
<1>1. Init => Inv
  BY DatabasesAssumption, MaxRequestsAssumption DEF Init, Inv, Fine, SystemRoles
<1>2. Inv /\ [Next]_vars => Inv'
  <2> SUFFICES ASSUME Inv, [Next]_vars PROVE Inv'
    OBVIOUS
  <2>1. CASE UNCHANGED vars
    BY <2>1 DEF vars, Inv, Fine
  <2>2. CASE Stop
    BY <2>2 DEF Stop, vars, Inv, Fine
  <2>3. ASSUME NEW h \in Handlers, Request(h) PROVE Inv'
    BY <2>3, RequestBegins
  <2>4. ASSUME NEW h \in Handlers, Step(h) PROVE Inv'
    BY <2>4, StepTakes, TookKeeps
  <2> QED
    BY <2>1, <2>2, <2>3, <2>4 DEF Next, Step, Request
<1> QED
  BY <1>1, <1>2, PTL DEF Spec

\* Whatever requests interleave, the rows keep the types of their columns and refer to
\* rows that exist, the unique indexes hold, and every handler is at a request it was made.
THEOREM TablesKeepTypes == Spec => []TypeOK
<1>1. Inv => TypeOK
  BY DEF Inv, TypeOK, Fine
<1> QED
  BY <1>1, InvHolds, PTL

----------------------------------------------------------------------------
(* What a step makes of the tables *)

\* A step leaves the tables alone or is a write of one handler.
LEMMA NextWrites ==
  ASSUME Inv, [Next]_vars
  PROVE  db' = db \/ \E h \in Handlers : Wrote(h)
<1>1. CASE UNCHANGED vars \/ Stop
  BY <1>1 DEF vars, Stop
<1>2. ASSUME NEW h \in Handlers, Request(h) PROVE db' = db
  BY <1>2, RequestBegins
<1>3. ASSUME NEW h \in Handlers, Step(h) PROVE db' = db \/ Wrote(h)
  BY <1>3, StepTakes DEF Took
<1> QED
  BY <1>1, <1>2, <1>3 DEF Next, Step, Request

Effect(h) == AccountEffect(h) \/ AccessEffect(h) \/ OrgEffect(h)

LEMMA WriteHasEffect ==
  ASSUME Inv, NEW h \in Handlers, Wrote(h)
  PROVE  WellFormed(db') /\ Grows(db, db') /\ Consistent(db') /\ Acts(h) /\ Effect(h)
BY AccountWriteKeeps, AccessWriteKeeps, OrgWriteKeeps DEF Wrote, Effect

LEMMA OthersStay ==
  ASSUME NEW d, NEW e, NEW n, OneTable(d, e, n)
  PROVE  /\ n # "user" => e.user = d.user
         /\ n # "role" => e.role = d.role
         /\ n # "userRole" => e.userRole = d.userRole
         /\ n # "rolePermission" => e.rolePermission = d.rolePermission
         /\ n # "userPermission" => e.userPermission = d.userPermission
         /\ n # "template" => e.template = d.template
         /\ n # "assignment" => e.assignment = d.assignment
         /\ n # "audit" => e.audit = d.audit
BY DEF OneTable, TableNames

\* The requests of a group write their own tables.
LEMMA AccountsLeave ==
  ASSUME NEW h \in Handlers, AccountEffect(h)
  PROVE  /\ db'.role = db.role /\ db'.template = db.template /\ db'.assignment = db.assignment
         /\ db'.rolePermission = db.rolePermission /\ db'.userPermission = db.userPermission
<1> DEFINE q == call[h].req
<1>1. CASE OneTable(db, db', "user") \/ OneTable(db, db', "userRole")
  BY <1>1, OthersStay
<1>2. CASE \A m \in TableNames \ {"user", "userRole", "audit", "serial"} : db'[m] = db[m]
  BY <1>2 DEF TableNames
<1> QED
  BY <1>1, <1>2 DEF AccountEffect, UserInserted, UserRoleInserted, UserWritten, UserRolesSet, UserActivated

LEMMA AccessLeaves ==
  ASSUME NEW h \in Handlers, AccessEffect(h)
  PROVE  /\ db'.user = db.user /\ db'.userRole = db.userRole /\ db'.template = db.template
         /\ db'.assignment = db.assignment /\ db'.audit = db.audit
<1>1. CASE RolesWritten(db, db')
  BY <1>1, OthersStay DEF RolesWritten
<1>2. CASE OneTable(db, db', "permission")
  BY <1>2, OthersStay
<1>3. CASE GrantsWritten(h)
  BY <1>3, OthersStay DEF GrantsWritten
<1>4. CASE DirectWritten(h)
  BY <1>4, OthersStay DEF DirectWritten
<1> QED
  BY <1>1, <1>2, <1>3, <1>4 DEF AccessEffect

\* Of the users nothing changes but their assignments.
UsersKept(d, e) ==
  /\ DOMAIN e.user = DOMAIN d.user
  /\ \A u \in DOMAIN d.user :
       /\ e.user[u].card = d.user[u].card /\ e.user[u].activated = d.user[u].activated
       /\ e.user[u].active = d.user[u].active /\ e.user[u].deleted = d.user[u].deleted

LEMMA OrgLeaves ==
  ASSUME NEW h \in Handlers, OrgEffect(h)
  PROVE  /\ db'.role = db.role /\ db'.userRole = db.userRole /\ db'.audit = db.audit
         /\ db'.rolePermission = db.rolePermission /\ db'.userPermission = db.userPermission
         /\ UsersKept(db, db')
<1>1. CASE \E n \in {"department", "assignment", "template"} : OneTable(db, db', n)
  BY <1>1, OthersStay DEF UsersKept
<1>2. CASE \E ids : AssignmentsDeleted(db, db', ids)
  BY <1>2 DEF AssignmentsDeleted, UsersKept, TableNames
<1> QED
  BY <1>1, <1>2 DEF OrgEffect, AssignmentsMade, AssignmentMade, AssignmentsUpdated, TemplatesWritten

----------------------------------------------------------------------------
(* References *)

LEMMA MembersAreFinite ==
  ASSUME NEW d, WellFormed(d), NEW ids
  PROVE  IsFiniteSet(Members(d, ids))
<1>1. d.serial \in Nat /\ Members(d, ids) \subseteq 1 .. d.serial
  BY DEF WellFormed, TableOf, Members, LiveUsers
<1>2. IsFiniteSet(1 .. d.serial)
  BY <1>1, FS_Interval
<1> HIDE DEF Members
<1> QED
  BY <1>1, <1>2, FS_Subset

LEMMA AssignmentsKept ==
  ASSUME Inv, NEW h \in Handlers, Wrote(h), NEW u \in LiveUsers(db), LosesAssignment(u)
  PROVE  MembersCame(h)
<1> DEFINE q == call[h].req
           a == db.user[u].assignment
<1>1. /\ u \in DOMAIN db.user /\ a \in DOMAIN db.assignment /\ a \notin DOMAIN db'.assignment
  BY DEF LosesAssignment, LiveUsers, Inv, Consistent
<1>2. Effect(h) /\ WellFormed(db)
  BY WriteHasEffect DEF Inv
<1>3. OrgEffect(h)
  BY <1>1, <1>2, AccountsLeave, AccessLeaves DEF Effect
<1>4. CASE /\ q.op = "department/delete" /\ "members" \in DOMAIN call[h].saw
           /\ AssignmentsDeleted(db, db', AssignmentsOf(db, q.id))
  <2>1. u \in Members(db, AssignmentsOf(db, q.id))
    BY <1>1, <1>4 DEF AssignmentsDeleted, Members
  <2>2. /\ Cardinality(Members(db, AssignmentsOf(db, q.id))) # 0
        /\ Cardinality(Members(db, AssignmentsOf(db, q.id))) \in Nat
    BY <1>2, <2>1, MembersAreFinite, FS_EmptySet, FS_CardinalityType
  <2> QED
    BY <1>4, <2>2 DEF MembersCame, Saw, checkDependencies
<1>5. CASE /\ q.op = "assignment/delete" /\ "members" \in DOMAIN call[h].saw
           /\ AssignmentsDeleted(db, db', {q.id})
  <2>1. u \in Members(db, {q.id})
    BY <1>1, <1>5 DEF AssignmentsDeleted, Members
  <2> QED
    BY <1>5, <2>1 DEF MembersCame, Saw
<1>6. CASE \E n \in {"department", "template"} : OneTable(db, db', n)
  BY <1>1, <1>6, OthersStay
<1>7. CASE \E i, codes : AssignmentsMade(db, db', i, codes)
  BY <1>1, <1>7 DEF AssignmentsMade
<1>8. CASE AssignmentMade(db, db', q) \/ AssignmentsUpdated(db, db')
  BY <1>1, <1>8 DEF AssignmentMade, AssignmentsUpdated
<1> QED
  BY <1>3, <1>4, <1>5, <1>6, <1>7, <1>8 DEF OrgEffect, TemplatesWritten

LEMMA TemplatesKept ==
  ASSUME Inv, NEW h \in Handlers, Wrote(h), ~(Orphans(db') \subseteq Orphans(db))
  PROVE  TemplateChanged(h)
<1> DEFINE q == call[h].req
           s == call[h].saw
<1>0. PICK a \in Orphans(db') : a \notin Orphans(db)
  OBVIOUS
<1> DEFINE t == db'.assignment[a].template
<1>1. /\ a \in DOMAIN db'.assignment /\ t # NULL /\ db'.template[t].deleted
      /\ t \in DOMAIN db'.template
      /\ a \in DOMAIN db.assignment /\ db.assignment[a].template = t =>
           t \in DOMAIN db.template /\ ~db.template[t].deleted
  <2>1. Consistent(db') /\ Consistent(db)
    BY WriteHasEffect DEF Inv
  <2> QED
    BY <1>0, <2>1 DEF Orphans, Consistent
<1>2. Effect(h)
  BY WriteHasEffect
<1>3. OrgEffect(h)
  BY <1>1, <1>2, AccountsLeave, AccessLeaves DEF Effect
<1>4. CASE OneTable(db, db', "department")
  BY <1>1, <1>4, OthersStay
<1>5. CASE /\ AssignmentsMade(db, db', s.new, s.codes)
           /\ "codes" \in DOMAIN s /\ DOMAIN s.codes \subseteq DOMAIN db.template
  <2>1. db'.template = db.template /\ (a \notin DOMAIN db.assignment => t \in DOMAIN s.codes)
    BY <1>1, <1>5, OthersStay DEF AssignmentsMade
  <2>2. a \notin DOMAIN db.assignment
    BY <1>1, <1>5, <2>1 DEF AssignmentsMade
  <2>3. t \in DOMAIN s.codes /\ t \notin LiveTemplates(db)
    BY <1>1, <2>1, <2>2 DEF LiveTemplates
  <2> QED
    BY <1>5, <2>3 DEF TemplateChanged, Saw
<1>6. CASE \E ids : AssignmentsDeleted(db, db', ids)
  BY <1>1, <1>6 DEF AssignmentsDeleted, TableNames
<1>7. CASE AssignmentMade(db, db', q) /\ ("template" \in DOMAIN q => "template" \in DOMAIN s)
  <2>1. db'.template = db.template
    BY <1>7, OthersStay DEF AssignmentMade
  <2>2. a = Fresh(db)
    BY <1>1, <1>7, <2>1 DEF AssignmentMade
  <2>3. "template" \in DOMAIN q /\ q.template = t /\ t \notin LiveTemplates(db)
    BY <1>1, <1>7, <2>1, <2>2 DEF AssignmentMade, LiveTemplates
  <2> QED
    BY <1>7, <2>3 DEF TemplateChanged, Saw
<1>8. CASE AssignmentsUpdated(db, db')
  <2>1. db'.template = db.template
    BY <1>8, OthersStay DEF AssignmentsUpdated
  <2> QED
    BY <1>1, <1>8, <2>1 DEF AssignmentsUpdated
<1>9. CASE \E ids : TemplatesWritten(db, db', ids) /\ (ids # {} => ids = {q.id} /\ "uses" \in DOMAIN s)
  <2>1. PICK ids : TemplatesWritten(db, db', ids) /\ (ids # {} => ids = {q.id} /\ "uses" \in DOMAIN s)
    BY <1>9
  <2>2. db'.assignment = db.assignment
    BY <2>1, OthersStay DEF TemplatesWritten
  <2>3. t \in DOMAIN db.template /\ t \in ids
    BY <1>1, <2>1, <2>2 DEF TemplatesWritten
  <2>4. a \in Uses(db, q.id)
    BY <1>1, <2>1, <2>2, <2>3 DEF Uses
  <2> QED
    BY <2>1, <2>3, <2>4 DEF TemplateChanged, Saw
<1> QED
  <2>1. TemplatesWritten(db, db', {}) => \E ids : TemplatesWritten(db, db', ids) /\ (ids # {} => ids = {q.id} /\ "uses" \in DOMAIN s)
    OBVIOUS
  <2>2. TemplatesWritten(db, db', {q.id}) /\ "uses" \in DOMAIN s
          => \E ids : TemplatesWritten(db, db', ids) /\ (ids # {} => ids = {q.id} /\ "uses" \in DOMAIN s)
    OBVIOUS
  <2> QED
    BY <1>3, <1>4, <1>5, <1>6, <1>7, <1>8, <1>9, <2>1, <2>2 DEF OrgEffect

\* Whoever deletes, and whatever is created meanwhile: a live user loses the department
\* role, or an assignment its template, only when they came after the count.
THEOREM ReferencesStay == Spec => ReferencesKept
<1> DEFINE Kept ==
      /\ (\E u \in LiveUsers(db) : LosesAssignment(u)) => \E h \in Handlers : Acts(h) /\ MembersCame(h)
      /\ ~(Orphans(db') \subseteq Orphans(db)) => \E h \in Handlers : Acts(h) /\ TemplateChanged(h)
<1>1. Inv /\ [Next]_vars => [Kept]_vars
  <2> SUFFICES ASSUME Inv, [Next]_vars PROVE Kept
    OBVIOUS
  <2>1. CASE db' = db
    BY <2>1 DEF LosesAssignment, LiveUsers, Inv, Consistent
  <2>2. ASSUME NEW h \in Handlers, Wrote(h) PROVE Kept
    BY <2>2, WriteHasEffect, AssignmentsKept, TemplatesKept
  <2> QED
    BY <2>1, <2>2, NextWrites
<1> QED
  BY <1>1, InvHolds, PTL DEF Spec, ReferencesKept

----------------------------------------------------------------------------
(* The activation of imported users *)

\* The audit is of users that there are: those who have been activated.
Audited(d) ==
  /\ \A i \in DOMAIN d.audit : d.audit[i].user \in DOMAIN d.user
  /\ \A u \in DOMAIN d.user :
       d.user[u].activated <=> \E i \in DOMAIN d.audit : d.audit[i].user = u

LEMMA WriteKeepsAudited ==
  ASSUME Inv, NEW h \in Handlers, Wrote(h), Audited(db)
  PROVE  Audited(db')
<1> DEFINE q == call[h].req
           s == call[h].saw
<1>1. Effect(h) /\ Grows(db, db')
  BY WriteHasEffect
<1>2. CASE UserInserted(db, db', q)
  <2>1. db'.audit = db.audit
    BY <1>2, OthersStay DEF UserInserted
  <2> QED
    BY <1>2, <2>1 DEF UserInserted, Audited
<1>3. CASE \E columns : UserWritten(db, db', q.id, columns) /\ "activated" \notin columns
  <2>1. PICK columns : UserWritten(db, db', q.id, columns) /\ "activated" \notin columns
    BY <1>3
  <2>2. db'.audit = db.audit
    BY <2>1, OthersStay DEF UserWritten
  <2>3. /\ DOMAIN db'.user = DOMAIN db.user
        /\ \A u \in DOMAIN db.user : db'.user[u].activated = db.user[u].activated
    BY <2>1 DEF UserWritten, UserColumns
  <2> QED
    BY <2>2, <2>3 DEF Audited
<1>4. CASE OneTable(db, db', "userRole")
  BY <1>4, OthersStay DEF Audited
<1>5. CASE UserActivated(db, db', q, s.target)
  <2>1. PICK n : /\ n \notin DOMAIN db.audit /\ DOMAIN db'.audit = DOMAIN db.audit \cup {n}
                 /\ \A i \in DOMAIN db.audit : db'.audit[i] = db.audit[i]
                 /\ db'.audit[n].user = q.id
    BY <1>5 DEF UserActivated
  <2>2. /\ DOMAIN db'.user = DOMAIN db.user /\ q.id \in DOMAIN db.user
        /\ \A u \in DOMAIN db.user \ {q.id} : db'.user[u] = db.user[u]
        /\ db'.user[q.id].activated
    BY <1>5 DEF UserActivated
  <2>3. ASSUME NEW u \in DOMAIN db'.user
        PROVE  db'.user[u].activated <=> \E i \in DOMAIN db'.audit : db'.audit[i].user = u
    <3>1. CASE u = q.id
      BY <2>1, <2>2, <3>1
    <3>2. CASE u # q.id
      <4>1. (\E i \in DOMAIN db'.audit : db'.audit[i].user = u)
              <=> \E i \in DOMAIN db.audit : db.audit[i].user = u
        BY <2>1, <3>2
      <4> QED
        BY <2>2, <3>2, <4>1 DEF Audited
    <3> QED
      BY <3>1, <3>2
  <2> QED
    BY <2>1, <2>2, <2>3 DEF Audited
<1>6. CASE AccessEffect(h)
  BY <1>6, AccessLeaves DEF Audited
<1>7. CASE OrgEffect(h)
  BY <1>7, OrgLeaves DEF UsersKept, Audited
<1>8. CASE AccountEffect(h)
  <2>1. ASSUME NEW columns, UserWritten(db, db', q.id, columns), "activated" \notin columns
        PROVE  Audited(db')
    BY <1>3, <2>1
  <2> QED
    BY <1>2, <1>4, <1>5, <1>8, <2>1 DEF AccountEffect, UserRoleInserted, UserRolesSet
<1> QED
  BY <1>1, <1>6, <1>7, <1>8 DEF Effect

\* The user and the audit row are one transaction, which no request comes between.
THEOREM ActivationIsAudited ==
  ASSUME \A d \in Databases : Audited(d)
  PROVE  Spec => []ActivationAudited
<1>1. Init => Audited(db)
  BY DEF Init
<1>2. Inv /\ Audited(db) /\ [Next]_vars => Audited(db')
  BY NextWrites, WriteKeepsAudited
<1>3. Audited(db) => ActivationAudited
  BY DEF Audited, ActivationAudited
<1>4. Inv /\ Audited(db) /\ [Next]_vars => Audited(db)'
  BY <1>2
<1> QED
  BY <1>1, <1>3, <1>4, InvHolds, PTL DEF Spec

\* A new audit row is of a user who was not activated and has the address the user had,
\* or else of one who has changed since the first statement of the activation.
LEMMA ActivationIsNew ==
  ASSUME Inv, NEW h \in Handlers, Wrote(h), NEW i \in DOMAIN db'.audit \ DOMAIN db.audit
  PROVE  LET row == db'.audit[i] IN
         \/ ~db.user[row.user].activated /\ row.old = db.user[row.user].email
         \/ TargetChanged(h)
<1> DEFINE q == call[h].req
           s == call[h].saw
<1>1. Effect(h)
  BY WriteHasEffect
<1>2. db'.audit # db.audit
  OBVIOUS
<1>3. AccountEffect(h)
  BY <1>1, <1>2, AccessLeaves, OrgLeaves DEF Effect
<1>4. At(h, "user/activateImported", "commit") /\ UserActivated(db, db', q, s.target)
  <2>1. ~OneTable(db, db', "user") /\ ~OneTable(db, db', "userRole")
    BY <1>2, OthersStay
  <2> QED
    BY <1>3, <2>1 DEF AccountEffect, UserInserted, UserRoleInserted, UserWritten, UserRolesSet
<1>5. db'.audit[i].user = q.id /\ db'.audit[i].old = s.target.email
  BY <1>4 DEF UserActivated
<1>6. "target" \in DOMAIN s /\ ~s.target.activated
  BY <1>4, Busy DEF At, Knows, KnowsOfAccounts, KnowsActivateImported
<1> QED
  BY <1>5, <1>6 DEF TargetChanged, Saw

\* An imported user is activated once, whichever activations and updates of it interleave.
THEOREM OneActivation == Spec => ActivatedOnce
<1> DEFINE Once ==
      \A i \in DOMAIN db'.audit \ DOMAIN db.audit :
        LET row == db'.audit[i] IN
          \/ ~db.user[row.user].activated /\ row.old = db.user[row.user].email
          \/ \E h \in Handlers : Acts(h) /\ TargetChanged(h)
<1>1. Inv /\ [Next]_vars => [Once]_vars
  <2> SUFFICES ASSUME Inv, [Next]_vars PROVE Once
    OBVIOUS
  <2>1. CASE db' = db
    BY <2>1
  <2>2. ASSUME NEW h \in Handlers, Wrote(h) PROVE Once
    BY <2>2, WriteHasEffect, ActivationIsNew
  <2> QED
    BY <2>1, <2>2, NextWrites
<1> QED
  BY <1>1, InvHolds, PTL DEF Spec, ActivatedOnce

----------------------------------------------------------------------------
(* Administrators *)

LEMMA AdminsAreFinite ==
  ASSUME NEW d, WellFormed(d)
  PROVE  IsFiniteSet(ActiveAdmins(d)) /\ countActiveAdmins(d) \in Nat
<1>1. d.serial \in Nat /\ ActiveAdmins(d) \subseteq 1 .. d.serial
  BY DEF WellFormed, TableOf, ActiveAdmins
<1>2. IsFiniteSet(1 .. d.serial)
  BY <1>1, FS_Interval
<1>3. IsFiniteSet(ActiveAdmins(d))
  <2> HIDE DEF ActiveAdmins
  <2> QED BY <1>1, <1>2, FS_Subset
<1> QED
  BY <1>3, FS_CardinalityType DEF countActiveAdmins

\* Who is the only administrator is one, and the count is not more than one.
LEMMA OnlyAdmin ==
  ASSUME NEW d, WellFormed(d), NEW u, ActiveAdmins(d) # {}, ActiveAdmins(d) \subseteq {u}
  PROVE  hasAdminRole(d, u) /\ countActiveAdmins(d) = 1
<1>1. ActiveAdmins(d) = {u}
  OBVIOUS
<1>2. hasAdminRole(d, u)
  <2>1. u \in ActiveAdmins(d)
    BY <1>1
  <2> QED
    BY <2>1 DEF ActiveAdmins
<1> QED
  BY <1>1, <1>2, FS_Singleton DEF countActiveAdmins

\* Who is an administrator stays one.
LEMMA AdminsStay ==
  ASSUME NEW d, NEW e, NEW users,
         \A u \in DOMAIN d.user \ users :
           /\ u \in DOMAIN e.user
           /\ ~d.user[u].deleted /\ d.user[u].active => ~e.user[u].deleted /\ e.user[u].active,
         \A i \in DOMAIN d.userRole : AdminRow(d, d.userRole[i]) /\ d.userRole[i].user \notin users =>
           \E j \in DOMAIN e.userRole :
             e.userRole[j].user = d.userRole[i].user /\ AdminRow(e, e.userRole[j])
  PROVE  ActiveAdmins(d) \ users \subseteq ActiveAdmins(e)
BY DEF ActiveAdmins, hasAdminRole

\* A request for a user may only take an administrator it counted.
LEMMA AccountsKeepAdmins ==
  ASSUME SystemRoles, Inv, NEW h \in Handlers, AccountEffect(h),
         ActiveAdmins(db) # {}, ActiveAdmins(db') = {}
  PROVE  AdminsChanged(h)
<1> DEFINE q == call[h].req
           s == call[h].saw
<1>0. WellFormed(db) /\ db'.role = db.role
  BY AccountsLeave DEF Inv
<1>1. CASE UserInserted(db, db', q)
  <2>0. db'.userRole = db.userRole
    BY <1>1, OthersStay DEF UserInserted
  <2>1. \A i \in DOMAIN db.userRole : AdminRow(db, db.userRole[i]) =>
          \E j \in DOMAIN db'.userRole :
            db'.userRole[j].user = db.userRole[i].user /\ AdminRow(db', db'.userRole[j])
    BY <1>0, <2>0 DEF AdminRow
  <2>2. \A u \in DOMAIN db.user : u \in DOMAIN db'.user /\ db'.user[u] = db.user[u]
    BY <1>1 DEF UserInserted
  <2>3. ActiveAdmins(db) \ {} \subseteq ActiveAdmins(db')
    BY <2>1, <2>2, AdminsStay
  <2> QED
    BY <2>3
<1>2. CASE UserRoleInserted(db, db')
  <2>1. db'.user = db.user
    BY <1>2, OthersStay DEF UserRoleInserted
  <2>2. \A i \in DOMAIN db.userRole : i \in DOMAIN db'.userRole /\ db'.userRole[i] = db.userRole[i]
    BY <1>2 DEF UserRoleInserted
  <2>3. \A i \in DOMAIN db.userRole : AdminRow(db, db.userRole[i]) =>
          \E j \in DOMAIN db'.userRole :
            db'.userRole[j].user = db.userRole[i].user /\ AdminRow(db', db'.userRole[j])
    BY <1>0, <2>2 DEF AdminRow
  <2>4. ActiveAdmins(db) \ {} \subseteq ActiveAdmins(db')
    BY <2>1, <2>3, AdminsStay
  <2> QED
    BY <2>4
<1>3. ASSUME NEW columns, UserWritten(db, db', q.id, columns)
      PROVE  ActiveAdmins(db) \ {q.id} \subseteq ActiveAdmins(db')
  <2>0. db'.userRole = db.userRole
    BY <1>3, OthersStay DEF UserWritten
  <2>1. \A i \in DOMAIN db.userRole : AdminRow(db, db.userRole[i]) /\ db.userRole[i].user \notin {q.id} =>
          \E j \in DOMAIN db'.userRole :
            db'.userRole[j].user = db.userRole[i].user /\ AdminRow(db', db'.userRole[j])
    BY <1>0, <2>0 DEF AdminRow
  <2>2. \A u \in DOMAIN db.user \ {q.id} :
          /\ u \in DOMAIN db'.user
          /\ ~db.user[u].deleted /\ db.user[u].active => ~db'.user[u].deleted /\ db'.user[u].active
    BY <1>3 DEF UserWritten
  <2> QED
    BY <2>1, <2>2, AdminsStay
<1>4. ASSUME NEW columns, UserWritten(db, db', q.id, columns),
             ~db.user[q.id].deleted /\ db.user[q.id].active
               => ~db'.user[q.id].deleted /\ db'.user[q.id].active
      PROVE  FALSE
  <2>0. db'.userRole = db.userRole
    BY <1>4, OthersStay DEF UserWritten
  <2>1. \A i \in DOMAIN db.userRole : AdminRow(db, db.userRole[i]) =>
          \E j \in DOMAIN db'.userRole :
            db'.userRole[j].user = db.userRole[i].user /\ AdminRow(db', db'.userRole[j])
    BY <1>0, <2>0 DEF AdminRow
  <2>2. \A u \in DOMAIN db.user :
          /\ u \in DOMAIN db'.user
          /\ ~db.user[u].deleted /\ db.user[u].active => ~db'.user[u].deleted /\ db'.user[u].active
    BY <1>4 DEF UserWritten
  <2>3. ActiveAdmins(db) \ {} \subseteq ActiveAdmins(db')
    BY <2>1, <2>2, AdminsStay
  <2> QED
    BY <2>3
<1>5. ASSUME Counted(s), ActiveAdmins(db) \ {q.id} \subseteq ActiveAdmins(db')
      PROVE  AdminsChanged(h)
  <2>1. hasAdminRole(db, q.id) /\ countActiveAdmins(db) = 1
    <3>1. ActiveAdmins(db) \subseteq {q.id}
      BY <1>5
    <3> QED
      BY <1>0, <3>1, OnlyAdmin
  <2>2. CASE s.admin
    BY <1>5, <2>1, <2>2 DEF Counted, AdminsChanged, Saw
  <2>3. CASE ~s.admin
    BY <1>5, <2>1, <2>3 DEF Counted, AdminsChanged, Saw
  <2> QED
    BY <2>2, <2>3
<1>6. CASE /\ At(h, "user/activate", "write") /\ UserWritten(db, db', q.id, {"active"})
           /\ db'.user[q.id].active = On(q)
  <2>1. On(q) \/ Counted(s)
    BY <1>6, Busy DEF At, Knows, KnowsOfAccounts, KnowsActivate
  <2>2. CASE On(q)
    <3>1. db'.user[q.id].deleted = db.user[q.id].deleted
      BY <1>6 DEF UserWritten, UserColumns
    <3> QED
      BY <1>4, <1>6, <2>2, <3>1
  <2>3. CASE Counted(s)
    BY <1>3, <1>5, <1>6, <2>3
  <2> QED
    BY <2>1, <2>2, <2>3
<1>7. CASE At(h, "user/delete", "write") /\ UserWritten(db, db', q.id, {"deleted"})
  <2>1. Counted(s)
    BY <1>7, Busy DEF At, Knows, KnowsOfAccounts, KnowsDelete
  <2> QED
    BY <1>3, <1>5, <1>7, <2>1
<1>8. CASE UserRolesSet(db, db', q.id, q.role, TRUE)
  <2>1. db'.user = db.user
    BY <1>8, OthersStay DEF UserRolesSet
  <2>2. \A i \in DOMAIN db.userRole : AdminRow(db, db.userRole[i]) =>
          \E j \in DOMAIN db'.userRole :
            db'.userRole[j].user = db.userRole[i].user /\ AdminRow(db', db'.userRole[j])
    BY <1>0, <1>8 DEF UserRolesSet, AdminRow
  <2>3. ActiveAdmins(db) \ {} \subseteq ActiveAdmins(db')
    BY <2>1, <2>2, AdminsStay
  <2> QED
    BY <2>3
<1>9. CASE At(h, "user/changeRole", "remove") /\ UserRolesSet(db, db', q.id, q.role, FALSE)
  <2>1. db'.user = db.user
    BY <1>9, OthersStay DEF UserRolesSet
  <2>2. ("admins" \in DOMAIN s /\ s.admins > 1) \/ ~AdminNamed(db, q.role)
    BY <1>9, Busy DEF At, Knows, KnowsOfAccounts, KnowsChangeRole
  <2>3. CASE ~AdminNamed(db, q.role)
    <3>1. ASSUME NEW i \in DOMAIN db.userRole, AdminRow(db, db.userRole[i])
          PROVE  /\ i \in DOMAIN db'.userRole /\ db'.userRole[i].user = db.userRole[i].user
                 /\ AdminRow(db', db'.userRole[i])
      <4>1. db.userRole \in Seq(UserRoleRow(db))
        BY <1>0 DEF WellFormed
      <4>2. db.userRole[i] \in UserRoleRow(db)
        BY <4>1, SeqIs
      <4>3. i \notin UserRoles(db, q.id, q.role)
        BY <2>3, <3>1, <4>2 DEF AdminNamed, UserRoles, AdminRow, UserRoleRow
      <4> QED
        BY <1>0, <1>9, <3>1, <4>3 DEF UserRolesSet, AdminRow
    <3>2. ActiveAdmins(db) \ {} \subseteq ActiveAdmins(db')
      BY <2>1, <3>1, AdminsStay
    <3> QED
      BY <3>2
  <2>4. CASE "admins" \in DOMAIN s /\ s.admins > 1
    <3>1. \A i \in DOMAIN db.userRole : AdminRow(db, db.userRole[i]) /\ db.userRole[i].user \notin {q.id} =>
            \E j \in DOMAIN db'.userRole :
              db'.userRole[j].user = db.userRole[i].user /\ AdminRow(db', db'.userRole[j])
      BY <1>0, <1>9 DEF UserRolesSet, UserRoles, AdminRow
    <3>2. ActiveAdmins(db) \ {q.id} \subseteq ActiveAdmins(db')
      BY <2>1, <3>1, AdminsStay
    <3>3. countActiveAdmins(db) = 1
      BY <1>0, <3>2, OnlyAdmin
    <3> QED
      BY <2>4, <3>3 DEF AdminsChanged, Saw
  <2> QED
    BY <2>2, <2>3, <2>4
<1>10. CASE UserActivated(db, db', q, s.target)
  <2>1. \A u \in DOMAIN db.user :
          /\ u \in DOMAIN db'.user
          /\ ~db.user[u].deleted /\ db.user[u].active => ~db'.user[u].deleted /\ db'.user[u].active
    BY <1>10 DEF UserActivated
  <2>2. ASSUME NEW i \in DOMAIN db.userRole, AdminRow(db, db.userRole[i])
        PROVE  \E j \in DOMAIN db'.userRole :
                 db'.userRole[j].user = db.userRole[i].user /\ AdminRow(db', db'.userRole[j])
    <3>1. RoleActivated(db, db', q)
      BY <1>10 DEF UserActivated
    <3>2. CASE "role" \in DOMAIN q /\ i \in UserRoles(db, q.id, q.role)
      <4>1. PICK n \in DOMAIN db'.userRole :
              db'.userRole[n] = [user |-> q.id, role |-> q.role, active |-> TRUE, deleted |-> FALSE]
        BY <3>1, <3>2 DEF RoleActivated
      <4>2. db'.userRole[n].user = q.id /\ db'.userRole[n].role = q.role /\ db'.userRole[n].active
        BY <4>1
      <4> QED
        BY <1>0, <2>2, <3>2, <4>2 DEF UserRoles, AdminRow
    <3>3. CASE ~("role" \in DOMAIN q /\ i \in UserRoles(db, q.id, q.role))
      BY <1>0, <2>2, <3>1, <3>3 DEF RoleActivated, AdminRow
    <3> QED
      BY <3>2, <3>3
  <2>3. ActiveAdmins(db) \ {} \subseteq ActiveAdmins(db')
    BY <2>1, <2>2, AdminsStay
  <2> QED
    BY <2>3
<1>11. CASE UserWritten(db, db', q.id, {"email", "username", "card", "assignment"})
  <2>1. db'.user[q.id].deleted = db.user[q.id].deleted /\ db'.user[q.id].active = db.user[q.id].active
    BY <1>11 DEF UserWritten, UserColumns
  <2> QED
    BY <1>4, <1>11, <2>1
<1> QED
  BY <1>1, <1>2, <1>6, <1>7, <1>8, <1>9, <1>10, <1>11 DEF AccountEffect

\* The roles of administrators are system roles, which no request renames or deactivates.
LEMMA RolesKeepAdmins ==
  ASSUME SystemRoles, Inv, NEW h \in Handlers, AccessEffect(h)
  PROVE  ActiveAdmins(db) \subseteq ActiveAdmins(db')
<1>0. /\ WellFormed(db) /\ Consistent(db) /\ Seeded(db)
      /\ db'.user = db.user /\ db'.userRole = db.userRole
  BY AccessLeaves DEF Inv
<1>1. ASSUME NEW i \in DOMAIN db.userRole, AdminRow(db, db.userRole[i])
      PROVE  AdminRow(db', db.userRole[i])
  <2> DEFINE r == db.userRole[i].role
  <2>1. CASE RolesWritten(db, db')
    <3>1. db.userRole \in Seq(UserRoleRow(db))
      BY <1>0 DEF WellFormed
    <3>2. db.userRole[i] \in UserRoleRow(db)
      BY <3>1, SeqIs
    <3>3. r \in DOMAIN db.role /\ db.role[r].name \in {"admin", "super_admin"}
      BY <1>1, <3>2 DEF UserRoleRow, AdminRow
    <3>4. db.role[r].system \/ db.role[r].deleted
      BY <1>0, <3>3 DEF Seeded, Consistent, UniqueIndex, Live
    <3>5. db'.role[r].name = db.role[r].name /\ db'.role[r].active = db.role[r].active
      BY <2>1, <3>3, <3>4 DEF RolesWritten
    <3> QED
      BY <1>1, <3>5 DEF AdminRow
  <2>2. CASE db'.role = db.role
    BY <1>1, <2>2 DEF AdminRow
  <2>3. OneTable(db, db', "permission") \/ GrantsWritten(h) \/ DirectWritten(h) => db'.role = db.role
    BY OthersStay DEF GrantsWritten, DirectWritten
  <2> QED
    BY <2>1, <2>2, <2>3 DEF AccessEffect
<1>2. ActiveAdmins(db) \ {} \subseteq ActiveAdmins(db')
  BY <1>0, <1>1, AdminsStay
<1> QED
  BY <1>2

LEMMA AdminStays ==
  ASSUME SystemRoles, Inv, NEW h \in Handlers, Wrote(h),
         ActiveAdmins(db) # {}, ActiveAdmins(db') = {}
  PROVE  AdminsChanged(h)
<1>1. Effect(h)
  BY WriteHasEffect
<1>2. CASE OrgEffect(h)
  <2>0. db'.role = db.role /\ db'.userRole = db.userRole /\ UsersKept(db, db')
    BY <1>2, OrgLeaves
  <2>1. \A i \in DOMAIN db.userRole : AdminRow(db, db.userRole[i]) =>
          \E j \in DOMAIN db'.userRole :
            db'.userRole[j].user = db.userRole[i].user /\ AdminRow(db', db'.userRole[j])
    BY <2>0 DEF AdminRow
  <2>2. \A u \in DOMAIN db.user :
          /\ u \in DOMAIN db'.user
          /\ ~db.user[u].deleted /\ db.user[u].active => ~db'.user[u].deleted /\ db'.user[u].active
    BY <2>0 DEF UsersKept
  <2>3. ActiveAdmins(db) \ {} \subseteq ActiveAdmins(db')
    BY <2>1, <2>2, AdminsStay
  <2> QED
    BY <2>3
<1> QED
  BY <1>1, <1>2, AccountsKeepAdmins, RolesKeepAdmins DEF Effect

\* Where the roles of administrators are system roles, the last administrator goes only by
\* a request whose count of administrators no longer holds.
THEOREM LastAdminStays ==
  ASSUME SystemRoles
  PROVE  Spec => AdminKept
<1> DEFINE Kept == ActiveAdmins(db) # {} /\ ActiveAdmins(db') = {} =>
                     \E h \in Handlers : Acts(h) /\ AdminsChanged(h)
<1>1. Inv /\ [Next]_vars => [Kept]_vars
  <2> SUFFICES ASSUME Inv, [Next]_vars PROVE Kept
    OBVIOUS
  <2>1. CASE db' = db
    BY <2>1
  <2>2. ASSUME NEW h \in Handlers, Wrote(h) PROVE Kept
    BY <2>2, WriteHasEffect, AdminStays
  <2> QED
    BY <2>1, <2>2, NextWrites
<1> QED
  BY <1>1, InvHolds, PTL DEF Spec, AdminKept

----------------------------------------------------------------------------
(* Rows that no index guards *)

LEMMA OneElement ==
  ASSUME NEW S, IsFiniteSet(S), NEW x \in S
  PROVE  Cardinality(S) = 1 <=> \A y \in S : y = x
<1>1. (\A y \in S : y = x) => S = {x}
  OBVIOUS
<1> QED
  BY <1>1, FS_Singleton

LEMMA RowsAreFinite ==
  ASSUME NEW S, NEW s \in Seq(S), NEW rows, rows \subseteq DOMAIN s
  PROVE  IsFiniteSet(rows)
<1>1. IsFiniteSet(1 .. Len(s))
  BY FS_Interval
<1> QED
  BY <1>1, SeqIs, FS_Subset

LEMMA GrantsAre ==
  ASSUME NEW d, WellFormed(d)
  PROVE  GrantsUnique(d) <=>
           \A i, j \in DOMAIN d.rolePermission :
             /\ d.rolePermission[i].role = d.rolePermission[j].role
             /\ d.rolePermission[i].permission = d.rolePermission[j].permission
             => i = j
<1>1. ASSUME NEW i \in DOMAIN d.rolePermission
      PROVE  Cardinality(GrantRows(d, d.rolePermission[i])) = 1
               <=> \A j \in GrantRows(d, d.rolePermission[i]) : j = i
  <2>1. i \in GrantRows(d, d.rolePermission[i])
    BY DEF GrantRows
  <2>2. d.rolePermission \in Seq(RolePermissionRow(d))
    BY DEF WellFormed
  <2>3. GrantRows(d, d.rolePermission[i]) \subseteq DOMAIN d.rolePermission
    BY DEF GrantRows
  <2>4. IsFiniteSet(GrantRows(d, d.rolePermission[i]))
    BY <2>2, <2>3, RowsAreFinite
  <2> QED
    BY <2>1, <2>4, OneElement
<1> QED
  BY <1>1 DEF GrantsUnique, GrantRows

LEMMA DirectAre ==
  ASSUME NEW d, WellFormed(d)
  PROVE  DirectUnique(d) <=>
           \A i, j \in DOMAIN d.userPermission :
             /\ d.userPermission[i].user = d.userPermission[j].user
             /\ d.userPermission[i].permission = d.userPermission[j].permission
             => i = j
<1> DEFINE Rows(i) == DirectRows(d, d.userPermission[i].user, d.userPermission[i].permission)
<1>1. ASSUME NEW i \in DOMAIN d.userPermission
      PROVE  Cardinality(Rows(i)) = 1 <=> \A j \in Rows(i) : j = i
  <2>1. i \in Rows(i)
    BY DEF DirectRows
  <2>2. d.userPermission \in Seq(UserPermissionRow(d))
    BY DEF WellFormed
  <2>3. Rows(i) \subseteq DOMAIN d.userPermission
    BY DEF DirectRows
  <2> HIDE DEF Rows
  <2>4. IsFiniteSet(Rows(i))
    BY <2>2, <2>3, RowsAreFinite
  <2> QED
    BY <2>1, <2>4, OneElement
<1> QED
  BY <1>1 DEF DirectUnique, DirectRows

LEMMA CodesAre ==
  ASSUME NEW d, WellFormed(d), Consistent(d)
  PROVE  CodesUnique(d) <=>
           \A a, b \in DOMAIN d.assignment :
             /\ d.assignment[a].department = d.assignment[b].department
             /\ d.assignment[a].code = d.assignment[b].code
             => a = b
<1> DEFINE Same(a) == SameCode(d, d.assignment[a].department, d.assignment[a].code)
<1>1. ASSUME NEW a \in DOMAIN d.assignment
      PROVE  Cardinality(Same(a)) = 1 <=> \A b \in Same(a) : b = a
  <2>1. a \in Same(a)
    BY DEF SameCode, AssignmentsOf
  <2>2. d.serial \in Nat /\ Same(a) \subseteq 1 .. d.serial
    BY DEF WellFormed, TableOf, SameCode, AssignmentsOf
  <2>3. IsFiniteSet(1 .. d.serial)
    BY <2>2, FS_Interval
  <2> HIDE DEF Same
  <2>4. IsFiniteSet(Same(a))
    BY <2>2, <2>3, FS_Subset
  <2> QED
    BY <2>1, <2>4, OneElement
<1>2. CodesUnique(d) <=> \A a \in DOMAIN d.assignment : Cardinality(Same(a)) = 1
  BY DEF CodesUnique, AssignmentsOf, Consistent
<1> QED
  BY <1>1, <1>2 DEF SameCode, AssignmentsOf

LEMMA CardsStay ==
  ASSUME Inv, NEW h \in Handlers, Wrote(h), CardsUnique(db), ~CardsUnique(db')
  PROVE  CardTaken(h)
<1> DEFINE q == call[h].req
           s == call[h].saw
           card(u) == db'.user[u].card
<1>0. Effect(h)
  BY WriteHasEffect
<1>1. PICK u, v \in LiveUsers(db') : card(u) = card(v) /\ card(u) # NULL /\ u # v
  BY DEF CardsUnique
<1>2. /\ u \in DOMAIN db'.user /\ v \in DOMAIN db'.user
      /\ ~db'.user[u].deleted /\ ~db'.user[v].deleted
  BY DEF LiveUsers
\* One of the two is new, or has got the card now.
<1>3. \E w \in {u, v} :
        ~(/\ w \in DOMAIN db.user /\ ~db.user[w].deleted
          /\ db.user[w].card = card(w))
  <2> SUFFICES ASSUME \A w \in {u, v} : /\ w \in DOMAIN db.user /\ ~db.user[w].deleted
                                        /\ db.user[w].card = card(w)
               PROVE  FALSE
    OBVIOUS
  <2>1. u \in LiveUsers(db) /\ v \in LiveUsers(db)
    BY DEF LiveUsers
  <2> QED
    BY <1>1, <2>1 DEF CardsUnique
<1> HIDE DEF card
<1>4. AccountEffect(h)
  BY <1>0, <1>2, <1>3, AccessLeaves, OrgLeaves DEF Effect, UsersKept, card
<1>5. CASE At(h, "user/register", "insert") /\ UserInserted(db, db', q)
  <2>1. PICK w \in {u, v} : w = Fresh(db)
    BY <1>2, <1>3, <1>5 DEF UserInserted, card
  <2>2. PICK x \in {u, v} : x # w /\ x \in DOMAIN db.user /\ db'.user[x] = db.user[x]
    BY <1>1, <1>2, <1>5, <2>1 DEF UserInserted
  <2>3. card(w) = (IF "card" \in DOMAIN q THEN q.card ELSE NULL) /\ card(x) = card(w) /\ card(w) # NULL
    BY <1>1, <1>5, <2>1, <2>2 DEF UserInserted, card
  <2>4. "card" \in DOMAIN q /\ x \in CardHolders(db, q.card)
    BY <1>2, <2>2, <2>3 DEF CardHolders, LiveUsers, card
  <2>5. "card" \in DOMAIN s
    BY <1>5, <2>4, Busy DEF At, Knows, KnowsOfAccounts, KnowsRegister
  <2> QED
    BY <1>5, <2>4, <2>5 DEF CardTaken, Saw, At
<1>6. CASE OneTable(db, db', "userRole")
  BY <1>2, <1>3, <1>6, OthersStay DEF card
<1>7. CASE UserWritten(db, db', q.id, {"active"})
  BY <1>2, <1>3, <1>7 DEF UserWritten, UserColumns, card
<1>8. CASE UserWritten(db, db', q.id, {"deleted"}) /\ db'.user[q.id].deleted
  BY <1>2, <1>3, <1>8 DEF UserWritten, UserColumns, card
<1>9. CASE UserActivated(db, db', q, s.target)
  BY <1>2, <1>3, <1>9 DEF UserActivated, card
<1>10. CASE UserWritten(db, db', q.id, {"email", "username", "card", "assignment"}) /\ CardWritten(h)
  <2>1. /\ DOMAIN db'.user = DOMAIN db.user
        /\ \A w \in DOMAIN db.user \ {q.id} : db'.user[w] = db.user[w]
        /\ db'.user[q.id].deleted = db.user[q.id].deleted
    BY <1>10 DEF UserWritten, UserColumns
  <2>2. q.id \in {u, v} /\ db.user[q.id].card # db'.user[q.id].card
    BY <1>2, <1>3, <2>1 DEF card
  <2>3. At(h, "user/update", "write") /\ "card" \in DOMAIN q /\ card(q.id) = q.card
    BY <1>10, <2>2 DEF CardWritten, card
  <2>4. PICK x \in {u, v} : x # q.id
    BY <1>1
  <2>5. card(x) = q.card /\ q.card # NULL /\ x \in CardHolders(db, q.card)
    BY <1>1, <1>2, <2>1, <2>2, <2>3, <2>4 DEF CardHolders, LiveUsers, card
  <2>6. "card" \in DOMAIN s
    BY <2>3, <2>5, Busy DEF At, Knows, KnowsOfAccounts, KnowsUpdate
  <2> QED
    BY <2>3, <2>4, <2>5, <2>6 DEF CardTaken, Saw, At
<1> QED
  BY <1>4, <1>5, <1>6, <1>7, <1>8, <1>9, <1>10 DEF AccountEffect, UserRoleInserted, UserRolesSet

LEMMA GrantsStay ==
  ASSUME Inv, NEW h \in Handlers, Wrote(h), GrantsUnique(db), ~GrantsUnique(db')
  PROVE  RowInserted(h)
<1> DEFINE q == call[h].req
           s == call[h].saw
           n == Len(db.rolePermission) + 1
           old == db.rolePermission
           new == db'.rolePermission
<1>0. Effect(h) /\ WellFormed(db) /\ WellFormed(db') /\ Grows(db, db')
  BY WriteHasEffect DEF Inv
<1>1. PICK i, j \in DOMAIN new :
        new[i].role = new[j].role /\ new[i].permission = new[j].permission /\ i # j
  BY <1>0, GrantsAre
<1>2. ~(i \in DOMAIN old /\ j \in DOMAIN old)
  <2>1. \A k \in DOMAIN old : new[k].role = old[k].role /\ new[k].permission = old[k].permission
    BY <1>0 DEF Grows
  <2>2. \A k, l \in DOMAIN old :
          old[k].role = old[l].role /\ old[k].permission = old[l].permission => k = l
    BY <1>0, GrantsAre
  <2> QED
    BY <1>1, <2>1, <2>2
<1>3. DOMAIN new # DOMAIN old
  BY <1>2
<1>4. new # old
  BY <1>3
<1>5. AccessEffect(h)
  BY <1>0, <1>4, AccountsLeave, OrgLeaves DEF Effect
<1>6. GrantsWritten(h)
  BY <1>4, <1>5, OthersStay DEF AccessEffect, RolesWritten, DirectWritten
<1>7. /\ q.op = "role/assignPermission" /\ "row" \in DOMAIN s /\ s.row = NULL
      /\ n \notin DOMAIN old /\ DOMAIN new = DOMAIN old \cup {n}
      /\ new[n].role = q.role /\ new[n].permission = q.permission
  BY <1>3, <1>6 DEF GrantsWritten
<1>8. PICK k \in {i, j} : k \in DOMAIN old /\ new[k].role = q.role /\ new[k].permission = q.permission
  BY <1>1, <1>2, <1>7
<1>9. k \in GrantRows(db, q)
  BY <1>0, <1>8 DEF Grows, GrantRows
<1> QED
  BY <1>7, <1>9 DEF RowInserted, Saw

LEMMA DirectStays ==
  ASSUME Inv, NEW h \in Handlers, Wrote(h), DirectUnique(db), ~DirectUnique(db')
  PROVE  RowInserted(h)
<1> DEFINE q == call[h].req
           s == call[h].saw
           n == Len(db.userPermission) + 1
           old == db.userPermission
           new == db'.userPermission
<1>0. Effect(h) /\ WellFormed(db) /\ WellFormed(db') /\ Grows(db, db')
  BY WriteHasEffect DEF Inv
<1>1. PICK i, j \in DOMAIN new :
        new[i].user = new[j].user /\ new[i].permission = new[j].permission /\ i # j
  BY <1>0, DirectAre
<1>2. ~(i \in DOMAIN old /\ j \in DOMAIN old)
  <2>1. \A k \in DOMAIN old : new[k].user = old[k].user /\ new[k].permission = old[k].permission
    BY <1>0 DEF Grows
  <2>2. \A k, l \in DOMAIN old :
          old[k].user = old[l].user /\ old[k].permission = old[l].permission => k = l
    BY <1>0, DirectAre
  <2> QED
    BY <1>1, <2>1, <2>2
<1>3. DOMAIN new # DOMAIN old
  BY <1>2
<1>4. new # old
  BY <1>3
<1>5. AccessEffect(h)
  BY <1>0, <1>4, AccountsLeave, OrgLeaves DEF Effect
<1>6. DirectWritten(h)
  BY <1>4, <1>5, OthersStay DEF AccessEffect, RolesWritten, GrantsWritten
<1>7. /\ q.op # "role/assignPermission" /\ "row" \in DOMAIN s /\ s.row = NULL
      /\ n \notin DOMAIN old /\ DOMAIN new = DOMAIN old \cup {n}
      /\ new[n].user = q.user /\ new[n].permission = q.permission
  BY <1>3, <1>6 DEF DirectWritten
<1>8. PICK k \in {i, j} : k \in DOMAIN old /\ new[k].user = q.user /\ new[k].permission = q.permission
  BY <1>1, <1>2, <1>7
<1>9. k \in DirectRows(db, q.user, q.permission)
  BY <1>0, <1>8 DEF Grows, DirectRows
<1> QED
  BY <1>7, <1>9 DEF RowInserted, Saw

LEMMA CodesStay ==
  ASSUME Inv, NEW h \in Handlers, Wrote(h), CodesUnique(db), ~CodesUnique(db')
  PROVE  CodeTaken(h)
<1> DEFINE q == call[h].req
           s == call[h].saw
           old == db.assignment
           new == db'.assignment
<1>0. Effect(h) /\ WellFormed(db) /\ WellFormed(db') /\ Consistent(db) /\ Consistent(db')
  BY WriteHasEffect DEF Inv
<1>1. PICK a, b \in DOMAIN new :
        new[a].department = new[b].department /\ new[a].code = new[b].code /\ a # b
  BY <1>0, CodesAre
<1>2. \A k, l \in DOMAIN old :
        old[k].department = old[l].department /\ old[k].code = old[l].code => k = l
  BY <1>0, CodesAre
<1>3. ASSUME \A k \in DOMAIN new : /\ k \in DOMAIN old /\ new[k].code = old[k].code
                                   /\ new[k].department = old[k].department
      PROVE  FALSE
  BY <1>1, <1>2, <1>3
<1>4. OrgEffect(h)
  BY <1>0, <1>3, AccountsLeave, AccessLeaves DEF Effect
<1>5. CASE OneTable(db, db', "department")
  BY <1>3, <1>5, OthersStay
<1>6. CASE \E ids : TemplatesWritten(db, db', ids)
  BY <1>3, <1>6, OthersStay DEF TemplatesWritten
<1>7. CASE \E ids : AssignmentsDeleted(db, db', ids)
  BY <1>3, <1>7 DEF AssignmentsDeleted
<1>8. CASE AssignmentsUpdated(db, db')
  BY <1>3, <1>8 DEF AssignmentsUpdated
<1>9. CASE /\ AssignmentsMade(db, db', s.new, s.codes)
           /\ \A t, u \in DOMAIN s.codes : s.codes[t] = s.codes[u] => t = u
  <2>1. ASSUME NEW x \in DOMAIN new \ DOMAIN old, NEW y \in DOMAIN old,
               new[x].department = new[y].department, new[x].code = new[y].code
        PROVE  FALSE
    <3>1. new[x].department = s.new /\ SameCode(db, s.new, new[x].code) = {} /\ new[y] = old[y]
      BY <1>9 DEF AssignmentsMade
    <3>2. y \in SameCode(db, s.new, new[x].code)
      BY <2>1, <3>1 DEF SameCode, AssignmentsOf
    <3> QED
      BY <3>1, <3>2
  <2>2. CASE a \in DOMAIN old /\ b \in DOMAIN old
    BY <1>1, <1>2, <1>9, <2>2 DEF AssignmentsMade
  <2>3. CASE a \notin DOMAIN old /\ b \notin DOMAIN old
    BY <1>1, <1>9, <2>3 DEF AssignmentsMade
  <2> QED
    BY <1>1, <2>1, <2>2, <2>3
<1>10. CASE AssignmentMade(db, db', q) /\ "code" \in DOMAIN s
  <2>1. PICK x \in {a, b} : x \in DOMAIN old /\ new[x].department = q.department /\ new[x].code = q.code
    <3>1. a = Fresh(db) \/ b = Fresh(db)
      BY <1>1, <1>2, <1>10 DEF AssignmentMade
    <3> QED
      BY <1>1, <1>10, <3>1 DEF AssignmentMade
  <2>2. x \in SameCode(db, q.department, q.code)
    BY <1>10, <2>1 DEF AssignmentMade, SameCode, AssignmentsOf
  <2> QED
    BY <1>10, <2>2 DEF CodeTaken, Saw
<1> QED
  BY <1>4, <1>5, <1>6, <1>7, <1>8, <1>9, <1>10 DEF OrgEffect

\* Of cards, grants and codes there are two only where a request inserted or wrote one
\* after another had taken its place.
THEOREM RowsStayUnique == Spec => RowsUnique
<1> DEFINE Unique ==
      /\ CardsUnique(db) => CardsUnique(db') \/ \E h \in Handlers : Acts(h) /\ CardTaken(h)
      /\ GrantsUnique(db) => GrantsUnique(db') \/ \E h \in Handlers : Acts(h) /\ RowInserted(h)
      /\ DirectUnique(db) => DirectUnique(db') \/ \E h \in Handlers : Acts(h) /\ RowInserted(h)
      /\ CodesUnique(db) => CodesUnique(db') \/ \E h \in Handlers : Acts(h) /\ CodeTaken(h)
<1>1. Inv /\ [Next]_vars => [Unique]_vars
  <2> SUFFICES ASSUME Inv, [Next]_vars PROVE Unique
    OBVIOUS
  <2>1. CASE db' = db
    BY <2>1
  <2>2. ASSUME NEW h \in Handlers, Wrote(h) PROVE Unique
    BY <2>2, WriteHasEffect, CardsStay, GrantsStay, DirectStays, CodesStay
  <2> QED
    BY <2>1, <2>2, NextWrites
<1> QED
  BY <1>1, InvHolds, PTL DEF Spec, RowsUnique

----------------------------------------------------------------------------
(* Decisions *)

\* A request begins in a handler that is idle, and moves that handler alone.
Begun(h) == call[h] = Idle /\ \E c : call' = [call EXCEPT ![h] = c]

LEMMA RequestBegun ==
  ASSUME NEW h, Request(h)
  PROVE  Begun(h)
<1>1. \A valid : Begin(h, valid) => Begun(h)
  BY DEF Begin, Begun
<1>2. AccountRequest(h) => Begun(h)
  BY <1>1 DEF AccountRequest, user_register, user_activate, user_delete, user_changeRole,
     user_activateImported, user_update, user_assign
<1>3. AccessRequest(h) => Begun(h)
  BY <1>1 DEF AccessRequest, role_create, role_update, role_delete, role_assignPermission,
     role_removePermission, permission_create, permission_update, permission_delete,
     user_grantPermission, user_revokePermission
<1>4. OrgRequest(h) => Begun(h)
  BY <1>1 DEF OrgRequest, department_create, department_update, department_delete,
     assignment_create, assignment_update, assignment_delete, template_create, template_update,
     template_delete
<1> QED
  BY <1>2, <1>3, <1>4 DEF Request

\* A busy handler that moves takes a step of its own.
LEMMA BusySteps ==
  ASSUME Inv, [Next]_vars, NEW h \in Handlers, call[h].pc # "idle", Acts(h)
  PROVE  Step(h)
<1>1. DOMAIN call = Handlers
  BY DEF Inv
<1>2. ASSUME NEW k \in Handlers, NEW c, call' = [call EXCEPT ![k] = c]
      PROVE  k = h
  BY <1>1, <1>2 DEF Acts
<1>3. ASSUME NEW k \in Handlers, Request(k) PROVE FALSE
  BY <1>2, <1>3, RequestBegun DEF Begun, Idle
<1>4. ASSUME NEW k \in Handlers, Step(k) PROVE Step(h)
  <2>1. Lands(k)
    BY <1>4, StepTakes DEF Took
  <2> QED
    BY <1>2, <1>4, <2>1 DEF Lands
<1>5. ~UNCHANGED vars /\ ~Stop
  BY DEF Acts, vars, Stop
<1> QED
  BY <1>3, <1>4, <1>5 DEF Next, Step, Request

\* The step of each statement that carries out a decision.
LEMMA AccountStepAt ==
  ASSUME NEW h, AccountStep(h)
  PROVE  /\ call[h].req.op = "user/changeRole" => ChangeRole(h) \/ SetRole(h)
         /\ call[h].req.op = "user/activateImported" => ActivateImported(h)
         /\ call[h].req.op \notin {"user/grantPermission", "user/revokePermission"}
<1>1. RegisterUser(h) => call[h].req.op = "user/register"
  BY DEF RegisterUser, At
<1>2. ActivateUser(h) => call[h].req.op = "user/activate"
  BY DEF ActivateUser, At
<1>3. DeleteUser(h) => call[h].req.op = "user/delete"
  BY DEF DeleteUser, At
<1>4. ChangeRole(h) \/ SetRole(h) => call[h].req.op = "user/changeRole"
  BY DEF ChangeRole, SetRole, At
<1>5. ActivateImported(h) => call[h].req.op = "user/activateImported"
  BY DEF ActivateImported, At
<1>6. UpdateUser(h) =>
        call[h].req.op \in {"user/update", "user/assignDepartmentRoleAssignment"}
  BY DEF UpdateUser, At
<1>7. AssignUser(h) => call[h].req.op = "user/assignDepartmentRoleAssignment"
  BY DEF AssignUser, At
<1> QED
  BY <1>1, <1>2, <1>3, <1>4, <1>5, <1>6, <1>7 DEF AccountStep

LEMMA AccessStepAt ==
  ASSUME NEW h, AccessStep(h)
  PROVE  /\ call[h].req.op = "user/grantPermission" => GrantPermission(h)
         /\ call[h].req.op = "user/revokePermission" => RevokePermission(h)
         /\ call[h].req.op \notin {"user/changeRole", "user/activateImported"}
<1>1. CreateRole(h) => call[h].req.op = "role/create"
  BY DEF CreateRole, At
<1>2. UpdateRole(h) => call[h].req.op = "role/update"
  BY DEF UpdateRole, At
<1>3. DeleteRole(h) => call[h].req.op = "role/delete"
  BY DEF DeleteRole, At
<1>4. AssignPermission(h) => call[h].req.op = "role/assignPermission"
  BY DEF AssignPermission, At
<1>5. RemovePermission(h) => call[h].req.op = "role/removePermission"
  BY DEF RemovePermission, At
<1>6. CreatePermission(h) => call[h].req.op = "permission/create"
  BY DEF CreatePermission, At
<1>7. UpdatePermission(h) => call[h].req.op = "permission/update"
  BY DEF UpdatePermission, At
<1>8. DeletePermission(h) => call[h].req.op = "permission/delete"
  BY DEF DeletePermission, At
<1>9. GrantPermission(h) => call[h].req.op = "user/grantPermission"
  BY DEF GrantPermission, At
<1>10. RevokePermission(h) => call[h].req.op = "user/revokePermission"
  BY DEF RevokePermission, At
<1> QED
  BY <1>1, <1>2, <1>3, <1>4, <1>5, <1>6, <1>7, <1>8, <1>9, <1>10 DEF AccessStep

LEMMA OrgStepAt ==
  ASSUME NEW h, OrgStep(h)
  PROVE  call[h].req.op \notin {"user/changeRole", "user/activateImported",
                                "user/grantPermission", "user/revokePermission"}
<1>1. CreateDepartment(h) => call[h].req.op = "department/create"
  BY DEF CreateDepartment, At
<1>2. UpdateDepartment(h) => call[h].req.op = "department/update"
  BY DEF UpdateDepartment, At
<1>3. DeleteDepartment(h) => call[h].req.op = "department/delete"
  BY DEF DeleteDepartment, At
<1>4. CreateAssignment(h) => call[h].req.op = "assignment/create"
  BY DEF CreateAssignment, At
<1>5. UpdateAssignment(h) => call[h].req.op = "assignment/update"
  BY DEF UpdateAssignment, At
<1>6. DeleteAssignment(h) => call[h].req.op = "assignment/delete"
  BY DEF DeleteAssignment, At
<1>7. CreateTemplate(h) => call[h].req.op = "template/create"
  BY DEF CreateTemplate, At
<1>8. UpdateTemplate(h) => call[h].req.op = "template/update"
  BY DEF UpdateTemplate, At
<1>9. DeleteTemplate(h) => call[h].req.op = "template/delete"
  BY DEF DeleteTemplate, At
<1> QED
  BY <1>1, <1>2, <1>3, <1>4, <1>5, <1>6, <1>7, <1>8, <1>9 DEF OrgStep

LEMMA StepDecides ==
  ASSUME NEW h, Step(h)
  PROVE  LET q == call[h].req
             s == call[h].saw
         IN
         /\ At(h, "user/grantPermission", "write") => Write(h, grant(db, q, s.row), "done")
         /\ At(h, "user/grantPermission", "overwrite") => Write(h, overwrite(db, q, s.row), "done")
         /\ At(h, "user/revokePermission", "write") =>
              \/ Write(h, revoke(db, q), "done")
              \/ /\ \A i \in DirectRows(db, q.user, q.permission) : db.userPermission[i].deleted
                 /\ Refuse(h)
         /\ At(h, "user/changeRole", "remove") =>
              Write(h, updateUserRole(db, q.id, q.role, FALSE), "done")
         /\ At(h, "user/changeRole", "revive") =>
              Write(h, updateUserRole(db, q.id, q.role, TRUE), "done")
         /\ At(h, "user/activateImported", "commit") =>
              Write(h, activateImportedUser(db, q, s.target), "done") \/ Refuse(h)
<1>1. call[h].req.op = "user/grantPermission" => GrantPermission(h)
  BY AccountStepAt, AccessStepAt, OrgStepAt DEF Step
<1>2. call[h].req.op = "user/revokePermission" => RevokePermission(h)
  BY AccountStepAt, AccessStepAt, OrgStepAt DEF Step
<1>3. call[h].req.op = "user/changeRole" => ChangeRole(h) \/ SetRole(h)
  BY AccountStepAt, AccessStepAt, OrgStepAt DEF Step
<1>4. call[h].req.op = "user/activateImported" => ActivateImported(h)
  BY AccountStepAt, AccessStepAt, OrgStepAt DEF Step
<1>5. At(h, "user/grantPermission", "write") =>
        Write(h, grant(db, call[h].req, call[h].saw.row), "done")
  BY <1>1 DEF GrantPermission, At
<1>6. At(h, "user/grantPermission", "overwrite") =>
        Write(h, overwrite(db, call[h].req, call[h].saw.row), "done")
  BY <1>1 DEF GrantPermission, At
<1>7. At(h, "user/revokePermission", "write") =>
        \/ Write(h, revoke(db, call[h].req), "done")
        \/ /\ \A i \in DirectRows(db, call[h].req.user, call[h].req.permission) :
                db.userPermission[i].deleted
           /\ Refuse(h)
  BY <1>2 DEF RevokePermission, At
<1>8. At(h, "user/changeRole", "remove") =>
        Write(h, updateUserRole(db, call[h].req.id, call[h].req.role, FALSE), "done")
  BY <1>3 DEF ChangeRole, SetRole, At
<1>9. At(h, "user/changeRole", "revive") =>
        Write(h, updateUserRole(db, call[h].req.id, call[h].req.role, TRUE), "done")
  BY <1>3 DEF ChangeRole, SetRole, At
<1>10. At(h, "user/activateImported", "commit") =>
        Write(h, activateImportedUser(db, call[h].req, call[h].saw.target), "done") \/ Refuse(h)
  BY <1>4 DEF ActivateImported, At
<1> QED
  BY <1>5, <1>6, <1>7, <1>8, <1>9, <1>10

\* No index and no foreign key is about direct permissions.
LEMMA DirectStaysConsistent ==
  ASSUME NEW d, NEW e, Consistent(d), OneTable(d, e, "userPermission")
  PROVE  Consistent(e)
<1>1. /\ e.user = d.user /\ e.role = d.role /\ e.permission = d.permission
      /\ e.department = d.department /\ e.template = d.template /\ e.userRole = d.userRole
      /\ e.assignment = d.assignment
  BY DEF OneTable, TableNames
<1> QED
  BY <1>1 DEF Consistent

\* The index on roles of users is all that a change of them can break.
LEMMA RolesStayConsistent ==
  ASSUME NEW d, NEW e, Consistent(d), OneTable(d, e, "userRole"),
         \A i, j \in DOMAIN e.userRole :
           /\ e.userRole[i].active /\ ~e.userRole[i].deleted
           /\ e.userRole[j].active /\ ~e.userRole[j].deleted
           /\ e.userRole[i].user = e.userRole[j].user /\ e.userRole[i].role = e.userRole[j].role
           => i = j
  PROVE  Consistent(e)
<1>1. /\ e.user = d.user /\ e.role = d.role /\ e.permission = d.permission
      /\ e.department = d.department /\ e.template = d.template /\ e.assignment = d.assignment
  BY DEF OneTable, TableNames
<1>2. UniqueIndex(e.userRole, LAMBDA r : r.active /\ ~r.deleted, LAMBDA r : <<r.user, r.role>>)
  BY DEF UniqueIndex
<1> QED
  BY <1>1, <1>2 DEF Consistent

LEMMA IndexOfUserRoles ==
  ASSUME NEW d, Consistent(d), NEW i \in DOMAIN d.userRole, NEW j \in DOMAIN d.userRole,
         d.userRole[i].active, ~d.userRole[i].deleted,
         d.userRole[j].active, ~d.userRole[j].deleted,
         d.userRole[i].user = d.userRole[j].user, d.userRole[i].role = d.userRole[j].role
  PROVE  i = j
BY DEF Consistent, UniqueIndex

\* A row that grants is what the session sees, unless another contradicts it.
LEMMA LiveRowDecides ==
  ASSUME NEW e, WellFormed(e), NEW r, NEW g \in BOOLEAN, NEW j \in LiveDirect(e, r),
         e.userPermission[j].granted = g
  PROVE  \/ Cardinality(LiveDirect(e, r)) > 1
         \/ getPermissions(e, r.user, r.permission) = {g /\ LivePermission(e, r.permission)}
<1> DEFINE S == LiveDirect(e, r)
<1>1. e.userPermission \in Seq(UserPermissionRow(e))
  BY DEF WellFormed
<1>2. S \subseteq DOMAIN e.userPermission
  BY DEF LiveDirect, DirectRows
<1>3. S = {i \in DirectRows(e, r.user, r.permission) : ~e.userPermission[i].deleted}
  BY DEF LiveDirect
<1> HIDE DEF S
<1>4. IsFiniteSet(S)
  BY <1>1, <1>2, RowsAreFinite
<1>5. Cardinality(S) \in Nat /\ (Cardinality(S) = 0 <=> S = {})
  BY <1>4, FS_CardinalityType, FS_EmptySet
<1>6. j \in S
  BY DEF S
<1>7. Cardinality(S) = 1 => S = {j}
  BY <1>4, <1>6, OneElement
<1>8. S = {j} => getPermissions(e, r.user, r.permission)
                   = {g /\ LivePermission(e, r.permission)}
  BY <1>3 DEF getPermissions, LivePermission
<1> QED
  BY <1>5, <1>6, <1>7, <1>8 DEF S

LEMMA GrantHolds ==
  ASSUME NEW d, WellFormed(d), Consistent(d), NEW r, grantSchema(r), r.user \in DOMAIN d.user,
         r.permission \in DOMAIN d.permission,
         NEW i \in DirectRows(d, r.user, r.permission) \cup {NULL}
  PROVE  LET e == grant(d, r, i) IN
         /\ Consistent(e)
         /\ \/ Cardinality(LiveDirect(e, r)) > 1
            \/ getPermissions(e, r.user, r.permission)
                 = {Field(r, "granted", TRUE) /\ LivePermission(e, r.permission)}
<1> DEFINE e == grant(d, r, i)
           j == IF i = NULL THEN Len(d.userPermission) + 1 ELSE i
<1>1. i = NULL \/ i \in DOMAIN d.userPermission
  BY DEF DirectRows
<1>2. /\ Granted(d, e, r, j)
      /\ DOMAIN e.userPermission = DOMAIN d.userPermission \cup {j}
      /\ ~e.userPermission[j].deleted
      /\ i = NULL => e.userPermission[j].user = r.user /\ e.userPermission[j].permission = r.permission
  BY <1>1, grantKeeps
<1> HIDE DEF e
<1>3. WellFormed(e) /\ Grows(d, e) /\ OneTable(d, e, "userPermission")
      /\ e.userPermission[j].granted = Field(r, "granted", TRUE)
  BY <1>2 DEF Granted
<1>4. Consistent(e)
  BY <1>3, DirectStaysConsistent
<1>5. e.userPermission[j].user = r.user /\ e.userPermission[j].permission = r.permission
  BY <1>2, <1>3 DEF DirectRows, Grows
<1> HIDE DEF j
<1>6. j \in LiveDirect(e, r)
  BY <1>2, <1>5 DEF LiveDirect, DirectRows
<1>7. Field(r, "granted", TRUE) \in BOOLEAN
  BY DEF grantSchema, Optional, Field
<1> QED
  BY <1>3, <1>4, <1>6, <1>7, LiveRowDecides DEF e

LEMMA OverwriteHolds ==
  ASSUME NEW d, WellFormed(d), Consistent(d), NEW r, grantSchema(r),
         NEW i \in DirectRows(d, r.user, r.permission), ~d.userPermission[i].deleted
  PROVE  LET e == overwrite(d, r, i) IN
         /\ Consistent(e)
         /\ \/ Cardinality(LiveDirect(e, r)) > 1
            \/ getPermissions(e, r.user, r.permission)
                 = {Field(r, "granted", TRUE) /\ LivePermission(e, r.permission)}
<1> DEFINE e == overwrite(d, r, i)
<1>1. i \in DOMAIN d.userPermission
  BY DEF DirectRows
<1>2. /\ Granted(d, e, r, i)
      /\ DOMAIN e.userPermission = DOMAIN d.userPermission
      /\ ~e.userPermission[i].deleted
  BY <1>1, overwriteKeeps
<1> HIDE DEF e
<1>3. WellFormed(e) /\ Grows(d, e) /\ OneTable(d, e, "userPermission")
      /\ e.userPermission[i].granted = Field(r, "granted", TRUE)
  BY <1>2 DEF Granted
<1>4. Consistent(e)
  BY <1>3, DirectStaysConsistent
<1>5. e.userPermission[i].user = r.user /\ e.userPermission[i].permission = r.permission
  BY <1>2, <1>3 DEF DirectRows, Grows
<1>6. i \in LiveDirect(e, r)
  BY <1>1, <1>2, <1>5 DEF LiveDirect, DirectRows
<1>7. Field(r, "granted", TRUE) \in BOOLEAN
  BY DEF grantSchema, Optional, Field
<1> QED
  BY <1>3, <1>4, <1>6, <1>7, LiveRowDecides DEF e

LEMMA RevokeHolds ==
  ASSUME NEW d, WellFormed(d), Consistent(d), NEW r
  PROVE  LET e == revoke(d, r) IN Consistent(e) /\ LiveDirect(e, r) = {}
<1> DEFINE e == revoke(d, r)
<1>1. /\ WellFormed(e) /\ Grows(d, e) /\ OneTable(d, e, "userPermission")
      /\ DOMAIN e.userPermission = DOMAIN d.userPermission
      /\ \A i \in DirectRows(d, r.user, r.permission) : e.userPermission[i].deleted
  BY revokeKeeps
<1> HIDE DEF e
<1>2. DirectRows(e, r.user, r.permission) = DirectRows(d, r.user, r.permission)
  BY <1>1 DEF DirectRows, Grows
<1>3. LiveDirect(e, r) = {}
  BY <1>1, <1>2 DEF LiveDirect
<1>4. Consistent(e)
  BY <1>1, DirectStaysConsistent
<1> QED
  BY <1>3, <1>4 DEF e

\* A role that is removed is held by no row.
LEMMA RemoveHolds ==
  ASSUME NEW d, WellFormed(d), Consistent(d), NEW u, NEW r
  PROVE  LET e == updateUserRole(d, u, r, FALSE) IN
         Consistent(e) /\ \A i \in UserRoles(e, u, r) : ~e.userRole[i].active
<1> DEFINE e == updateUserRole(d, u, r, FALSE)
<1>1. UserRolesSet(d, e, u, r, FALSE)
  BY updateUserRoleKeeps
<1> HIDE DEF e
<1>2. OneTable(d, e, "userRole") /\ DOMAIN e.userRole = DOMAIN d.userRole
  BY <1>1 DEF UserRolesSet
<1>3. \A i \in DOMAIN d.userRole :
        /\ e.userRole[i].user = d.userRole[i].user /\ e.userRole[i].role = d.userRole[i].role
        /\ e.userRole[i].deleted = d.userRole[i].deleted
        /\ e.userRole[i].active => d.userRole[i].active /\ i \notin UserRoles(d, u, r)
  BY <1>1 DEF UserRolesSet
<1>4. Consistent(e)
  BY <1>2, <1>3, IndexOfUserRoles, RolesStayConsistent
<1>5. \A i \in UserRoles(e, u, r) : ~e.userRole[i].active
  BY <1>2, <1>3 DEF UserRoles
<1> QED
  BY <1>4, <1>5 DEF e

\* A role that is revived is held, unless two rows of it stand in each other's way.
LEMMA ReviveHolds ==
  ASSUME NEW d, WellFormed(d), Consistent(d), NEW q, UserRoles(d, q.id, q.role) # {}
  PROVE  LET e == updateUserRole(d, q.id, q.role, TRUE) IN
         /\ \E i \in UserRoles(e, q.id, q.role) : e.userRole[i].active
         /\ Consistent(e) \/ Cardinality(UndeletedRoles(d, q)) > 1
<1> DEFINE e == updateUserRole(d, q.id, q.role, TRUE)
           S == UndeletedRoles(d, q)
<1>1. UserRolesSet(d, e, q.id, q.role, TRUE)
  BY updateUserRoleKeeps
<1> HIDE DEF e
<1>2. OneTable(d, e, "userRole") /\ DOMAIN e.userRole = DOMAIN d.userRole
  BY <1>1 DEF UserRolesSet
<1>3. \A i \in DOMAIN d.userRole :
        /\ e.userRole[i].user = d.userRole[i].user /\ e.userRole[i].role = d.userRole[i].role
        /\ e.userRole[i].deleted = d.userRole[i].deleted
        /\ i \in UserRoles(d, q.id, q.role) => e.userRole[i].active
        /\ i \notin UserRoles(d, q.id, q.role) => e.userRole[i].active = d.userRole[i].active
  BY <1>1 DEF UserRolesSet
<1>4. \E i \in UserRoles(e, q.id, q.role) : e.userRole[i].active
  BY <1>2, <1>3 DEF UserRoles
<1>5. ASSUME ~(Cardinality(S) > 1) PROVE Consistent(e)
  <2>1. d.userRole \in Seq(UserRoleRow(d)) /\ S \subseteq DOMAIN d.userRole
    BY DEF WellFormed, UndeletedRoles, UserRoles
  <2>2. IsFiniteSet(S)
    <3> HIDE DEF S
    <3> QED
      BY <2>1, RowsAreFinite
  <2>3. Cardinality(S) \in Nat /\ (Cardinality(S) = 0 <=> S = {})
    <3> HIDE DEF S
    <3> QED
      BY <2>2, FS_CardinalityType, FS_EmptySet
  <2>4. \A i, j \in S : i = j
    <3> HIDE DEF S
    <3>1. Cardinality(S) \in {0, 1}
      BY <1>5, <2>3
    <3> SUFFICES ASSUME NEW i \in S, NEW j \in S PROVE i = j
      OBVIOUS
    <3>2. Cardinality(S) = 1
      BY <2>3, <3>1
    <3> QED
      BY <2>2, <3>2, OneElement
  <2>5. ASSUME NEW i \in DOMAIN e.userRole, NEW j \in DOMAIN e.userRole,
               e.userRole[i].active, ~e.userRole[i].deleted,
               e.userRole[j].active, ~e.userRole[j].deleted,
               e.userRole[i].user = e.userRole[j].user, e.userRole[i].role = e.userRole[j].role
        PROVE  i = j
    <3>1. CASE i \in UserRoles(d, q.id, q.role)
      <4>1. j \in UserRoles(d, q.id, q.role)
        BY <1>2, <1>3, <2>5, <3>1 DEF UserRoles
      <4>2. i \in S /\ j \in S
        BY <1>2, <1>3, <2>5, <3>1, <4>1 DEF UndeletedRoles
      <4> QED
        BY <2>4, <4>2
    <3>2. CASE i \notin UserRoles(d, q.id, q.role)
      <4>1. j \notin UserRoles(d, q.id, q.role)
        BY <1>2, <1>3, <2>5, <3>2 DEF UserRoles
      <4> QED
        BY <1>2, <1>3, <2>5, <3>2, <4>1, IndexOfUserRoles
    <3> QED
      BY <3>1, <3>2
  <2> QED
    BY <1>2, <2>5, RolesStayConsistent
<1> QED
  BY <1>4, <1>5 DEF e

\* The last statement of a request is carried out, or breaks a constraint and changes nothing.
LEMMA WriteOnce ==
  ASSUME NEW h, NEW e, Write(h, e, "done")
  PROVE  (Consistent(e) /\ db' = e) \/ (~Consistent(e) /\ db' = db)
BY DEF Write, Refuse

LEMMA GrantIsSeen ==
  ASSUME Inv, [Next]_vars, NEW h \in Handlers,
         Deciding(h, "user/grantPermission", "write")
  PROVE  LET r == call[h].req IN
         \/ Cardinality(LiveDirect(db', r)) > 1
         \/ getPermissions(db', r.user, r.permission)
              = {Field(r, "granted", TRUE) /\ LivePermission(db', r.permission)}
<1> DEFINE q == call[h].req
           s == call[h].saw
<1>1. At(h, "user/grantPermission", "write") /\ Acts(h) /\ call[h].pc # "idle"
  BY DEF Deciding, At
<1>2. Write(h, grant(db, q, s.row), "done")
  BY <1>1, BusySteps, StepDecides
<1>3. KnowsGrant(q, "write", s, db)
  BY <1>1, Busy DEF At, Knows, KnowsOfAccess
<1>4. /\ grantSchema(q) /\ q.user \in DOMAIN db.user /\ q.permission \in DOMAIN db.permission
      /\ s.row \in DirectRows(db, q.user, q.permission) \cup {NULL}
  BY <1>3 DEF KnowsGrant
<1>5. WellFormed(db) /\ Consistent(db)
  BY DEF Inv
<1> DEFINE e == grant(db, q, s.row)
<1>6. /\ Consistent(e)
      /\ \/ Cardinality(LiveDirect(e, q)) > 1
         \/ getPermissions(e, q.user, q.permission)
              = {Field(q, "granted", TRUE) /\ LivePermission(e, q.permission)}
  BY <1>4, <1>5, GrantHolds
<1> HIDE DEF e, q, s
<1>7. db' = e
  BY <1>2, <1>6, WriteOnce DEF e
<1> QED
  BY <1>6, <1>7 DEF q

LEMMA OverwriteIsSeen ==
  ASSUME Inv, [Next]_vars, NEW h \in Handlers,
         Deciding(h, "user/grantPermission", "overwrite"), ~RowRevoked(h)
  PROVE  LET r == call[h].req IN
         \/ Cardinality(LiveDirect(db', r)) > 1
         \/ getPermissions(db', r.user, r.permission)
              = {Field(r, "granted", TRUE) /\ LivePermission(db', r.permission)}
<1> DEFINE q == call[h].req
           s == call[h].saw
<1>1. At(h, "user/grantPermission", "overwrite") /\ Acts(h) /\ call[h].pc # "idle"
  BY DEF Deciding, At
<1>2. Write(h, overwrite(db, q, s.row), "done")
  BY <1>1, BusySteps, StepDecides
<1>3. KnowsGrant(q, "overwrite", s, db)
  BY <1>1, Busy DEF At, Knows, KnowsOfAccess
<1>4. grantSchema(q) /\ s.row \in DirectRows(db, q.user, q.permission)
  BY <1>3 DEF KnowsGrant
<1>5. WellFormed(db) /\ Consistent(db)
  BY DEF Inv
<1>6. ~db.userPermission[s.row].deleted
  BY <1>1 DEF RowRevoked
<1> DEFINE e == overwrite(db, q, s.row)
<1>7. /\ Consistent(e)
      /\ \/ Cardinality(LiveDirect(e, q)) > 1
         \/ getPermissions(e, q.user, q.permission)
              = {Field(q, "granted", TRUE) /\ LivePermission(e, q.permission)}
  BY <1>4, <1>5, <1>6, OverwriteHolds
<1> HIDE DEF e, q, s
<1>8. db' = e
  BY <1>2, <1>7, WriteOnce DEF e
<1> QED
  BY <1>7, <1>8 DEF q

LEMMA RevocationIsSeen ==
  ASSUME Inv, [Next]_vars, NEW h \in Handlers,
         Deciding(h, "user/revokePermission", "write")
  PROVE  LiveDirect(db', call[h].req) = {}
<1> DEFINE q == call[h].req
<1>1. At(h, "user/revokePermission", "write") /\ Acts(h) /\ call[h].pc # "idle"
  BY DEF Deciding, At
<1>2. \/ Write(h, revoke(db, q), "done")
      \/ /\ \A i \in DirectRows(db, q.user, q.permission) : db.userPermission[i].deleted
         /\ Refuse(h)
  BY <1>1, BusySteps, StepDecides
<1>3. WellFormed(db) /\ Consistent(db)
  BY DEF Inv
<1> HIDE DEF q
<1>4. CASE Write(h, revoke(db, q), "done")
  <2> DEFINE e == revoke(db, q)
  <2>1. Consistent(e) /\ LiveDirect(e, q) = {}
    BY <1>3, RevokeHolds
  <2> HIDE DEF e
  <2>2. db' = e
    BY <1>4, <2>1, WriteOnce DEF e
  <2> QED
    BY <2>1, <2>2 DEF q
<1>5. CASE /\ \A i \in DirectRows(db, q.user, q.permission) : db.userPermission[i].deleted
           /\ Refuse(h)
  BY <1>5 DEF Refuse, LiveDirect, q
<1> QED
  BY <1>2, <1>4, <1>5

LEMMA RemovalIsSeen ==
  ASSUME Inv, [Next]_vars, NEW h \in Handlers,
         Deciding(h, "user/changeRole", "remove")
  PROVE  LET r == call[h].req IN
         \A i \in UserRoles(db', r.id, r.role) : ~db'.userRole[i].active
<1> DEFINE q == call[h].req
<1>1. At(h, "user/changeRole", "remove") /\ Acts(h) /\ call[h].pc # "idle"
  BY DEF Deciding, At
<1>2. Write(h, updateUserRole(db, q.id, q.role, FALSE), "done")
  BY <1>1, BusySteps, StepDecides
<1>3. WellFormed(db) /\ Consistent(db)
  BY DEF Inv
<1> DEFINE e == updateUserRole(db, q.id, q.role, FALSE)
<1>4. Consistent(e) /\ \A i \in UserRoles(e, q.id, q.role) : ~e.userRole[i].active
  BY <1>3, RemoveHolds
<1> HIDE DEF e, q
<1>5. db' = e
  BY <1>2, <1>4, WriteOnce DEF e
<1> QED
  BY <1>4, <1>5 DEF q

LEMMA RevivalIsSeen ==
  ASSUME Inv, [Next]_vars, NEW h \in Handlers,
         Deciding(h, "user/changeRole", "revive")
  PROVE  LET r == call[h].req IN
         \/ \E i \in UserRoles(db', r.id, r.role) : db'.userRole[i].active
         \/ Cardinality(UndeletedRoles(db, r)) > 1
<1> DEFINE q == call[h].req
<1>1. At(h, "user/changeRole", "revive") /\ Acts(h) /\ call[h].pc # "idle"
  BY DEF Deciding, At
<1>2. Write(h, updateUserRole(db, q.id, q.role, TRUE), "done")
  BY <1>1, BusySteps, StepDecides
<1>3. WellFormed(db) /\ Consistent(db)
  BY DEF Inv
<1>4. KnowsChangeRole(q, "revive", call[h].saw, db)
  BY <1>1, Busy DEF At, Knows, KnowsOfAccounts
<1>5. UserRoles(db, q.id, q.role) # {}
  BY <1>4 DEF KnowsChangeRole
<1> DEFINE e == updateUserRole(db, q.id, q.role, TRUE)
<1>6. /\ \E i \in UserRoles(e, q.id, q.role) : e.userRole[i].active
      /\ Consistent(e) \/ Cardinality(UndeletedRoles(db, q)) > 1
  BY <1>3, <1>5, ReviveHolds
<1> HIDE DEF e, q
<1>7. db' = e \/ Cardinality(UndeletedRoles(db, q)) > 1
  BY <1>2, <1>6, WriteOnce DEF e
<1> QED
  BY <1>6, <1>7 DEF q

LEMMA ActivationIsSeen ==
  ASSUME Inv, [Next]_vars, NEW h \in Handlers,
         Deciding(h, "user/activateImported", "commit"), db' # db,
         "role" \in DOMAIN call[h].req
  PROVE  LET r == call[h].req IN
         \E i \in UserRoles(db', r.id, r.role) :
           db'.userRole[i].active /\ ~db'.userRole[i].deleted
<1> DEFINE q == call[h].req
           s == call[h].saw
<1>1. At(h, "user/activateImported", "commit") /\ Acts(h) /\ call[h].pc # "idle"
  BY DEF Deciding, At
<1>2. Write(h, activateImportedUser(db, q, s.target), "done") \/ Refuse(h)
  BY <1>1, BusySteps, StepDecides
<1>3. KnowsActivateImported(q, "commit", s, db)
  BY <1>1, Busy DEF At, Knows, KnowsOfAccounts
<1>4. /\ activateImportedSchema(q) /\ q.id \in DOMAIN db.user /\ s.target \in UserRow
      /\ q.role \in DOMAIN db.role
  BY <1>3 DEF KnowsActivateImported
<1>5. WellFormed(db)
  BY DEF Inv
<1> DEFINE e == activateImportedUser(db, q, s.target)
<1>6. RoleActivated(db, e, q)
  BY <1>4, <1>5, activateImportedUserKeeps
<1> HIDE DEF e
<1>7. db' = e
  BY <1>2, WriteOnce DEF e, Refuse
<1>8. PICK n \in DOMAIN e.userRole :
        e.userRole[n] = [user |-> q.id, role |-> q.role, active |-> TRUE, deleted |-> FALSE]
  BY <1>6 DEF RoleActivated
<1>9. n \in UserRoles(e, q.id, q.role) /\ e.userRole[n].active /\ ~e.userRole[n].deleted
  BY <1>8 DEF UserRoles
<1> HIDE DEF q
<1> QED
  BY <1>7, <1>9 DEF q

\* What a handler decided is what the session reads from then on: a permission granted
\* or denied, a direct permission revoked, a role taken or given, an imported user's
\* role (userPermission/grant, revoke, user/changeRole, activateImportedUser).  It fails
\* only for live rows that contradict each other, for a row revoked under the UPDATE, and
\* for two rows of a role, of which the unique index lets one be active.
THEOREM DecisionsAreKept == Spec => DecisionsHold
<1> DEFINE Holds ==
      \A h \in Handlers :
       LET r == call[h].req IN
       /\ Deciding(h, "user/grantPermission", "write") \/ Deciding(h, "user/grantPermission", "overwrite") =>
            \/ Cardinality(LiveDirect(db', r)) > 1
            \/ RowRevoked(h)
            \/ getPermissions(db', r.user, r.permission)
                 = {Field(r, "granted", TRUE) /\ LivePermission(db', r.permission)}
       /\ Deciding(h, "user/revokePermission", "write") => LiveDirect(db', r) = {}
       /\ Deciding(h, "user/changeRole", "remove") =>
            \A i \in UserRoles(db', r.id, r.role) : ~db'.userRole[i].active
       /\ Deciding(h, "user/changeRole", "revive") =>
            \/ \E i \in UserRoles(db', r.id, r.role) : db'.userRole[i].active
            \/ Cardinality(UndeletedRoles(db, r)) > 1
       /\ Deciding(h, "user/activateImported", "commit") /\ db' # db /\ "role" \in DOMAIN r =>
            \E i \in UserRoles(db', r.id, r.role) :
              db'.userRole[i].active /\ ~db'.userRole[i].deleted
<1>1. Inv /\ [Next]_vars => [Holds]_vars
  <2> SUFFICES ASSUME Inv, [Next]_vars PROVE Holds
    OBVIOUS
  <2> QED
    BY GrantIsSeen, OverwriteIsSeen, RevocationIsSeen, RemovalIsSeen, RevivalIsSeen, ActivationIsSeen
<1> QED
  BY <1>1, InvHolds, PTL DEF Spec, DecisionsHold
=============================================================================
