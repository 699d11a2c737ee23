------------------------------ MODULE Accounts ------------------------------
(***************************************************************************)
(* The requests that write users: registration, activation, deletion,      *)
(* change of role, activation of an imported user, update, and assignment  *)
(* of a department role.  Passwords, names, telephone numbers and the like *)
(* are left out: nothing is checked against them.                          *)
(***************************************************************************)
EXTENDS Tables

(* Payloads *)

registerSchema(r) ==
  /\ Required(r, {"email"}) /\ r.email \in Names
  /\ Optional(r, "username", Names)
  /\ Optional(r, "card", Cards) /\ Optional(r, "assignment", Ids)
activateSchema(r) == r.id \in Ids /\ Optional(r, "activate", BOOLEAN)
deleteSchema(r) == r.id \in Ids
changeRoleSchema(r) ==
  r.id \in Ids /\ r.role \in Ids /\ Optional(r, "action", {"assign", "remove"})
activateImportedSchema(r) ==
  /\ r.id \in Ids /\ r.by \in Ids /\ r.email \in Names
  /\ Optional(r, "username", Names)
  /\ Optional(r, "role", Ids) /\ Optional(r, "assignment", Ids)
updateSchema(r) ==
  /\ Required(r, {"id"}) /\ r.id \in Ids
  /\ Optional(r, "email", Names) /\ Optional(r, "username", Names)
  /\ Optional(r, "card", Cards \cup {NULL})
  /\ Optional(r, "assignment", Ids \cup {NULL}) /\ Optional(r, "code", Codes)
  /\ Optional(r, "department", Ids)
assignmentSchema(r) ==
  /\ Required(r, {"id"}) /\ DOMAIN r \subseteq {"op", "id", "assignment"}
  /\ r.id \in Ids /\ Optional(r, "assignment", Ids \cup {NULL})

----------------------------------------------------------------------------
(* Administrators *)

AdminRow(d, r) ==
  r.active /\ d.role[r.role].name \in {"admin", "super_admin"} /\ d.role[r.role].active

hasAdminRole(d, u) ==
  \E i \in DOMAIN d.userRole : d.userRole[i].user = u /\ AdminRow(d, d.userRole[i])

ActiveAdmins(d) ==
  {u \in DOMAIN d.user : ~d.user[u].deleted /\ d.user[u].active /\ hasAdminRole(d, u)}
\* Mutant: administrators who have been deleted or deactivated count.
countAdmins(d) == Cardinality({u \in DOMAIN d.user : hasAdminRole(d, u)})
countActiveAdmins(d) == Cardinality(ActiveAdmins(d))

----------------------------------------------------------------------------
(* Statements *)

deleteUser(d, u) == [d EXCEPT !.user[u].deleted = TRUE]
activateUser(d, u, on) == [d EXCEPT !.user[u].active = on]

createUser(d, r) ==
  [d EXCEPT
    !.serial = Fresh(d),
    !.user = Inserted(@, Fresh(d),
       [email |-> r.email, username |-> r.username, card |-> r.card,
        active |-> TRUE, deleted |-> FALSE, status |-> "ACTIVE",
        activated |-> FALSE, assignment |-> r.assignment])]

\* What a registration inserts: the user name defaults to the address.
newUser(r) ==
  LET field(f) == IF f \in DOMAIN r THEN r[f] ELSE NULL
  IN [email |-> r.email, card |-> field("card"), assignment |-> field("assignment"),
      username |-> IF "username" \in DOMAIN r THEN r.username ELSE r.email]

CardHolders(d, card) == {u \in LiveUsers(d) : d.user[u].card = card}

UserRoles(d, u, r) ==
  {i \in DOMAIN d.userRole : d.userRole[i].user = u /\ d.userRole[i].role = r}

\* Mutant: the two ids are swapped.
insertUserRoleSwapped(d, u, r) ==
  [d EXCEPT !.userRole =
     Append(@, [user |-> r, role |-> u, active |-> TRUE, deleted |-> FALSE])]
insertUserRole(d, u, r) ==
  [d EXCEPT !.userRole =
     Append(@, [user |-> u, role |-> r, active |-> TRUE, deleted |-> FALSE])]

\* The rows of this user and role, deleted ones included, become active or not.
updateUserRole(d, u, r, on) ==
  [d EXCEPT !.userRole =
     [i \in DOMAIN @ |-> IF i \in UserRoles(d, u, r) THEN [@[i] EXCEPT !.active = on]
                                                    ELSE @[i]]]

retireUserRole(d, u, r) ==
  [d EXCEPT !.userRole =
     [i \in DOMAIN @ |->
        IF i \in UserRoles(d, u, r) /\ @[i].active /\ ~@[i].deleted
        THEN [@[i] EXCEPT !.active = FALSE, !.deleted = TRUE] ELSE @[i]]]

\* Mutant: only a change of the address is audited.
activationAuditOfChange(d, r, old) ==
  IF old.email = Lower(r.email) THEN d.audit
  ELSE Append(d.audit, [user |-> r.id, by |-> r.by, old |-> old.email, new |-> Lower(r.email)])
\* Mutant: the audit row is made after the address has been overwritten.
activationAuditLate(d, r, old) ==
  Append(d.audit, [user |-> r.id, by |-> r.by, old |-> Lower(r.email), new |-> Lower(r.email)])
activationAudit(d, r, old) ==
  Append(d.audit, [user |-> r.id, by |-> r.by, old |-> old.email, new |-> Lower(r.email)])

\* The transaction of activateImportedUser: the user as it was read is old.
activateImportedUser(d, r, old) ==
  LET user == [d.user[r.id] EXCEPT
                 !.email = Lower(r.email), !.status = "ACTIVE", !.activated = TRUE,
                 !.active = TRUE,
                 !.username = IF "username" \in DOMAIN r THEN r.username ELSE @,
                 !.assignment = IF "assignment" \in DOMAIN r THEN r.assignment ELSE @]
      roles == IF "role" \in DOMAIN r
               THEN insertUserRole(retireUserRole(d, r.id, r.role), r.id, r.role)
               ELSE d
  IN [roles EXCEPT
        !.user[r.id] = user,
        !.audit = activationAudit(d, r, old)]

\* The fields of r that go into the UPDATE, and the row they make.
Updates(r, email) ==
  {f \in DOMAIN r \cap {"email", "username", "card", "assignment"} :
     f = "email" => r.email # email}
updateUser(d, r, fields) ==
  [d EXCEPT !.user[r.id] = [f \in DOMAIN @ |-> IF f \in fields THEN r[f] ELSE @[f]]]

----------------------------------------------------------------------------
(* API methods *)

user_register(h) == Begin(h, {r \in Payloads("user/register") : registerSchema(r)})
user_activate(h) == Begin(h, {r \in Payloads("user/activate") : activateSchema(r)})
user_delete(h) == Begin(h, {r \in Payloads("user/delete") : deleteSchema(r)})
user_changeRole(h) == Begin(h, {r \in Payloads("user/changeRole") : changeRoleSchema(r)})
user_activateImported(h) ==
  Begin(h, {r \in Payloads("user/activateImported") : activateImportedSchema(r)})
user_update(h) == Begin(h, {r \in Payloads("user/update") : updateSchema(r)})
user_assign(h) ==
  Begin(h, {r \in Payloads("user/assignDepartmentRoleAssignment") : assignmentSchema(r)})

----------------------------------------------------------------------------
(* Handlers *)

\* Schema defaults.
On(r) == "activate" \in DOMAIN r => r.activate
Assigns(r) == "action" \in DOMAIN r => r.action = "assign"

\* Deletion and deactivation: the user, whether it is an administrator, how
\* many there are, and the UPDATE.
DeleteUser(h) ==
  LET r == call[h].req IN
    \/ /\ At(h, "user/delete", "start")
       /\ Check(h, r.id \in LiveUsers(db), "role")
    \/ /\ At(h, "user/delete", "role")
       /\ Read(h, "admin", hasAdminRole(db, r.id), TRUE,
               IF hasAdminRole(db, r.id) THEN "count" ELSE "write")
    \/ /\ At(h, "user/delete", "count")
       /\ Read(h, "admins", countActiveAdmins(db), countActiveAdmins(db) > 1, "write")
    \/ /\ At(h, "user/delete", "write")
       /\ Write(h, deleteUser(db, r.id), "done")

ActivateUser(h) ==
  LET r == call[h].req IN
    \/ /\ At(h, "user/activate", "start")
       /\ Check(h, r.id \in LiveUsers(db) /\ (On(r) \/ r.id # r.by),
                IF On(r) THEN "write" ELSE "role")
    \/ /\ At(h, "user/activate", "role")
       /\ Read(h, "admin", hasAdminRole(db, r.id), TRUE,
               IF hasAdminRole(db, r.id) THEN "count" ELSE "write")
    \/ /\ At(h, "user/activate", "count")
       /\ Read(h, "admins", countActiveAdmins(db), countActiveAdmins(db) > 1, "write")
    \/ /\ At(h, "user/activate", "write")
       /\ Write(h, activateUser(db, r.id, On(r)), "done")

\* Registration: the checks, the INSERT, and the default role, whose failure is
\* only logged.
RegisterUser(h) ==
  LET r == call[h].req
      new == newUser(r)
  IN
    \/ /\ At(h, "user/register", "start")
       /\ LET held == CardHolders(db, r.card)
          IN IF "card" \in DOMAIN r THEN Read(h, "card", held # {}, held = {}, "email")
                                    ELSE Check(h, TRUE, "email")
    \/ /\ At(h, "user/register", "email")
       /\ Check(h, UsersWith(db, "email", r.email) = {}, "username")
    \/ /\ At(h, "user/register", "username")
       /\ Check(h, UsersWith(db, "username", new.username) = {}, "assignment")
    \/ /\ At(h, "user/register", "assignment")
       /\ Check(h, "assignment" \in DOMAIN r =>
                   /\ r.assignment \in DOMAIN db.assignment
                   /\ db.assignment[r.assignment].active, "insert")
    \/ /\ At(h, "user/register", "insert")
       /\ IF Consistent(createUser(db, new))
          THEN db' = createUser(db, new) /\ Noted(h, "new", Fresh(db), "role")
          ELSE Refuse(h)
    \/ /\ At(h, "user/register", "role")
       /\ \E i \in AnyOf({i \in DOMAIN db.role : db.role[i].name = "app_user"}) :
            \/ Write(h, IF i = NULL THEN db
                        ELSE insertUserRole(db, call[h].saw.new, i), "done")
            \/ Refuse(h)

\* Change of role: the guards of the domain.
ChangeRole(h) ==
  LET r == call[h].req
      named(names) == r.role \in DOMAIN db.role /\ db.role[r.role].name \in names
  IN
    \/ /\ At(h, "user/changeRole", "start")
       /\ Check(h, IF Assigns(r) THEN ~named({"super_admin"}) ELSE r.id # r.by,
                IF ~Assigns(r) /\ named({"admin", "super_admin"}) THEN "count" ELSE "user")
    \/ /\ At(h, "user/changeRole", "count")
       /\ Read(h, "admins", countActiveAdmins(db), countActiveAdmins(db) > 1, "user")

\* The repository's reads of the user, the role and a row of UserRole, and the
\* write that row calls for.
SetRole(h) ==
  LET r == call[h].req IN
    \/ /\ At(h, "user/changeRole", "user")
       /\ Check(h, r.id \in LiveUsers(db), "role")
    \/ /\ At(h, "user/changeRole", "role")
       /\ Check(h, r.role \in DOMAIN db.role, "row")
    \/ /\ At(h, "user/changeRole", "row")
       /\ \E i \in AnyOf(UserRoles(db, r.id, r.role)) :
            LET active == i # NULL /\ db.userRole[i].active IN
            IF Assigns(r) THEN Check(h, ~active, IF i = NULL THEN "insert" ELSE "revive")
                          ELSE Check(h, active, "remove")
    \/ /\ At(h, "user/changeRole", "insert")
       /\ Write(h, insertUserRole(db, r.id, r.role), "done")
    \/ /\ At(h, "user/changeRole", "revive")
       /\ Write(h, updateUserRole(db, r.id, r.role, TRUE), "done")
    \/ /\ At(h, "user/changeRole", "remove")
       /\ Write(h, updateUserRole(db, r.id, r.role, FALSE), "done")

\* Activation of an imported user: checks in autocommit, then one transaction,
\* which may also fail and be rolled back.
ActivateImported(h) ==
  LET r == call[h].req IN
    \/ /\ At(h, "user/activateImported", "start")
       /\ IF r.id \in DOMAIN db.user
          THEN LET u == db.user[r.id] IN
               Read(h, "target", u,
                    ~u.deleted /\ u.status = "IMPORTED" /\ ~u.activated, "email")
          ELSE Refuse(h)
    \/ /\ At(h, "user/activateImported", "email")
       /\ Check(h, \A u \in LiveUsers(db) \ {r.id} :
                     Lower(db.user[u].email) # Lower(r.email), "username")
    \/ /\ At(h, "user/activateImported", "username")
       /\ Check(h, "username" \in DOMAIN r =>
                     \A u \in LiveUsers(db) \ {r.id} :
                       Lower(db.user[u].username) # Lower(r.username), "assignment")
    \/ /\ At(h, "user/activateImported", "assignment")
       /\ Check(h, "assignment" \in DOMAIN r =>
                   /\ r.assignment \in DOMAIN db.assignment
                   /\ db.assignment[r.assignment].active, "role")
    \/ /\ At(h, "user/activateImported", "role")
       /\ Check(h, "role" \in DOMAIN r =>
                   /\ r.role \in DOMAIN db.role
                   /\ ~db.role[r.role].deleted /\ db.role[r.role].active, "commit")
    \/ /\ At(h, "user/activateImported", "commit")
       /\ \/ Write(h, activateImportedUser(db, r, call[h].saw.target), "done")
          \/ Refuse(h)

\* Update of a user, also as the second half of the assignment of a department
\* role.  A role given by its code is looked up in the user's own department.
UpdateUser(h) ==
  LET r == call[h].req
      saw == call[h].saw
      Here(pc) == At(h, "user/update", pc)
                  \/ At(h, "user/assignDepartmentRoleAssignment", pc)
      chosen == IF "found" \in DOMAIN saw THEN With(r, "assignment", saw.found)
                ELSE IF r.op = "user/update" \/ "assignment" \in DOMAIN r THEN r
                ELSE With(r, "assignment", NULL)
      fields == Updates(chosen, saw.email)
  IN
    \/ /\ At(h, "user/update", "start") \/ Here("exists")
       /\ IF r.id \in DOMAIN db.user
          THEN Read(h, "email", db.user[r.id].email, TRUE, "email") ELSE Refuse(h)
    \/ /\ Here("email")
       /\ IF "email" \in DOMAIN r /\ r.email # saw.email
          THEN \E u \in AnyOf(UsersWith(db, "email", r.email)) : Check(h, u \in {NULL, r.id}, "username")
          ELSE Check(h, TRUE, "username")
    \/ /\ Here("username")
       /\ IF "username" \in DOMAIN r
          THEN \E u \in AnyOf(UsersWith(db, "username", r.username)) :
                 Check(h, u \in {NULL, r.id}, "assignment")
          ELSE Check(h, TRUE, "assignment")
    \/ /\ Here("assignment")
       /\ Check(h, "assignment" \in DOMAIN chosen =>
                     chosen.assignment \in DOMAIN db.assignment \cup {NULL},
                IF "assignment" \notin DOMAIN chosen /\ "code" \in DOMAIN r THEN "own" ELSE "card")
    \/ /\ Here("own")
       /\ Read(h, "own", db.user[r.id].assignment, TRUE, "department")
    \/ /\ Here("department")
       /\ LET given == IF "department" \in DOMAIN r /\ r.department \in DOMAIN db.department
                       THEN r.department ELSE NULL
              d == IF saw.own \in DOMAIN db.assignment
                   THEN db.assignment[saw.own].department ELSE given
          IN Read(h, "department", d, d # NULL, "code")
    \/ /\ Here("code")
       /\ \E a \in AnyOf({a \in DOMAIN db.assignment :
                             /\ db.assignment[a].department = saw.department
                             /\ db.assignment[a].code = r.code}) :
            Read(h, "found", a, a # NULL, "card")
    \/ /\ Here("card")
       /\ LET held == CardHolders(db, r.card) \ {r.id}
          IN IF "card" \in DOMAIN r /\ r.card # NULL
             THEN Read(h, "card", held # {}, held = {}, "write")
             ELSE Check(h, TRUE, "write")
    \/ /\ Here("write")
       /\ IF fields = {} THEN Refuse(h) ELSE Write(h, updateUser(db, chosen, fields), "done")

AssignUser(h) ==
  LET r == call[h].req
      Here(pc) == At(h, "user/assignDepartmentRoleAssignment", pc)
  IN
    \/ /\ Here("start")
       /\ Check(h, r.id \in LiveUsers(db), "active")
    \/ /\ Here("active")
       /\ Check(h, r.id \in LiveUsers(db) /\ db.user[r.id].active
                   /\ db.user[r.id].status = "ACTIVE", "tenant")
    \/ /\ Here("tenant")
       /\ Check(h, "assignment" \in DOMAIN r => r.assignment \in DOMAIN db.assignment \cup {NULL},
                "exists")

AccountStep(h) ==
  \/ RegisterUser(h) \/ ActivateUser(h) \/ DeleteUser(h) \/ ChangeRole(h) \/ SetRole(h)
  \/ ActivateImported(h) \/ UpdateUser(h) \/ AssignUser(h)

AccountRequest(h) ==
  \/ user_register(h) \/ user_activate(h) \/ user_delete(h) \/ user_changeRole(h)
  \/ user_activateImported(h) \/ user_update(h) \/ user_assign(h)
=============================================================================
