--------------------------- MODULE AccessControl ---------------------------
(***************************************************************************)
(* The requests that write roles, permissions and who has them, and the    *)
(* permissions a session gets.  Expiry of a permission is left out.        *)
(***************************************************************************)
EXTENDS Tables

----------------------------------------------------------------------------
(* Payloads *)

roleCreateSchema(r) == r.name \in RoleNames /\ Optional(r, "system", BOOLEAN)
roleUpdateSchema(r) ==
  r.id \in Ids /\ Optional(r, "name", RoleNames) /\ Optional(r, "active", BOOLEAN)
roleSchema(r) == r.id \in Ids
rolePermissionSchema(r) == r.role \in Ids /\ r.permission \in Ids
permissionCreateSchema(r) ==
  r.resource \in Resources /\ r.action \in Actions /\ Optional(r, "system", BOOLEAN)
permissionUpdateSchema(r) ==
  /\ r.id \in Ids
  /\ Optional(r, "resource", Resources) /\ Optional(r, "action", Actions)
permissionSchema(r) == r.id \in Ids
grantSchema(r) ==
  r.user \in Ids /\ r.permission \in Ids /\ Optional(r, "granted", BOOLEAN)
revokeSchema(r) == r.user \in Ids /\ r.permission \in Ids

role_create(h) == Begin(h, {r \in Payloads("role/create") : roleCreateSchema(r)})
role_update(h) == Begin(h, {r \in Payloads("role/update") : roleUpdateSchema(r)})
role_delete(h) == Begin(h, {r \in Payloads("role/delete") : roleSchema(r)})
role_assignPermission(h) ==
  Begin(h, {r \in Payloads("role/assignPermission") : rolePermissionSchema(r)})
role_removePermission(h) ==
  Begin(h, {r \in Payloads("role/removePermission") : rolePermissionSchema(r)})
permission_create(h) ==
  Begin(h, {r \in Payloads("permission/create") : permissionCreateSchema(r)})
permission_update(h) ==
  Begin(h, {r \in Payloads("permission/update") : permissionUpdateSchema(r)})
permission_delete(h) ==
  Begin(h, {r \in Payloads("permission/delete") : permissionSchema(r)})
user_grantPermission(h) ==
  Begin(h, {r \in Payloads("user/grantPermission") : grantSchema(r)})
user_revokePermission(h) ==
  Begin(h, {r \in Payloads("user/revokePermission") : revokeSchema(r)})

----------------------------------------------------------------------------
(* Rows *)

Field(r, f, old) == IF f \in DOMAIN r THEN r[f] ELSE old

\* The rows that the SELECT before the write of a grant looks through: the
\* deleted ones too.
GrantRows(d, r) ==
  {i \in DOMAIN d.rolePermission :
     d.rolePermission[i].role = r.role /\ d.rolePermission[i].permission = r.permission}
DirectRows(d, u, p) ==
  {i \in DOMAIN d.userPermission :
     d.userPermission[i].user = u /\ d.userPermission[i].permission = p}

SamePermission(d, resource, action) ==
  {p \in DOMAIN d.permission :
     /\ d.permission[p].resource = resource /\ d.permission[p].action = action
     /\ ~d.permission[p].deleted}
LivePermission(d, p) == p \in DOMAIN d.permission /\ ~d.permission[p].deleted

\* The permissions a user's roles give, and the outcomes for permission p: a
\* direct row overrides the roles, the one read last if there are several.
RolePermissions(d, u) ==
  {d.rolePermission[j].permission :
     j \in {j \in DOMAIN d.rolePermission :
              /\ ~d.rolePermission[j].deleted
              /\ \E i \in DOMAIN d.userRole :
                   /\ d.userRole[i].user = u /\ d.userRole[i].active
                   /\ d.userRole[i].role = d.rolePermission[j].role}}
getPermissions(d, u, p) ==
  LET direct == {i \in DirectRows(d, u, p) : ~d.userPermission[i].deleted} IN
    IF ~LivePermission(d, p) THEN {FALSE}
    ELSE IF direct = {} THEN {p \in RolePermissions(d, u)}
    ELSE {d.userPermission[i].granted : i \in direct}

----------------------------------------------------------------------------
(* Statements *)

createRole(d, r) ==
  [d EXCEPT !.serial = Fresh(d),
            !.role = Inserted(@, Fresh(d),
               [name |-> r.name, system |-> Field(r, "system", FALSE), active |-> TRUE, deleted |-> FALSE])]
\* UPDATE ... WHERE is_deleted = false
updateRole(d, r) ==
  [d EXCEPT !.role[r.id].name = Field(r, "name", @),
            !.role[r.id].active = Field(r, "active", @)]
deleteRole(d, i) == [d EXCEPT !.role[i].deleted = TRUE]

\* Mutant: a deleted row is not restored.
assignPermissionAgain(d, r, i) ==
  [d EXCEPT !.rolePermission =
     Append(@, [role |-> r.role, permission |-> r.permission, deleted |-> FALSE])]
assignPermission(d, r, i) ==
  [d EXCEPT !.rolePermission =
     IF i = NULL
     THEN Append(@, [role |-> r.role, permission |-> r.permission, deleted |-> FALSE])
     ELSE [@ EXCEPT ![i].deleted = FALSE]]
removePermission(d, i) == [d EXCEPT !.rolePermission[i].deleted = TRUE]

\* Mutant: the row found is overwritten but stays deleted.
grantKeepsDeleted(d, r, i) ==
  [d EXCEPT !.userPermission =
     IF i = NULL
     THEN Append(@, [user |-> r.user, permission |-> r.permission,
                     granted |-> Field(r, "granted", TRUE), deleted |-> FALSE])
     ELSE [@ EXCEPT ![i].granted = Field(r, "granted", TRUE)]]
grant(d, r, i) ==
  [d EXCEPT !.userPermission =
     IF i = NULL
     THEN Append(@, [user |-> r.user, permission |-> r.permission,
                     granted |-> Field(r, "granted", TRUE), deleted |-> FALSE])
     ELSE [@ EXCEPT ![i].granted = Field(r, "granted", TRUE), ![i].deleted = FALSE]]
\* The UPDATE of a row that was not deleted when it was found.
overwrite(d, r, i) ==
  [d EXCEPT !.userPermission[i].granted = Field(r, "granted", TRUE)]
revoke(d, r) ==
  [d EXCEPT !.userPermission =
     [i \in DOMAIN @ |-> IF i \in DirectRows(d, r.user, r.permission)
                         THEN [@[i] EXCEPT !.deleted = TRUE] ELSE @[i]]]

createPermission(d, r) ==
  [d EXCEPT !.serial = Fresh(d),
            !.permission = Inserted(@, Fresh(d),
               [resource |-> r.resource, action |-> r.action,
                system |-> Field(r, "system", FALSE), deleted |-> FALSE])]
updatePermission(d, r) ==
  [d EXCEPT !.permission[r.id].resource = Field(r, "resource", @),
            !.permission[r.id].action = Field(r, "action", @)]
deletePermission(d, p) == [d EXCEPT !.permission[p].deleted = TRUE]

----------------------------------------------------------------------------
(* Handlers *)

CreateRole(h) ==
  LET r == call[h].req IN
    \/ /\ At(h, "role/create", "start")
       /\ Check(h, \A i \in DOMAIN db.role : db.role[i].name # r.name, "insert")
    \/ /\ At(h, "role/create", "insert")
       /\ Write(h, createRole(db, r), "done")

UpdateRole(h) ==
  LET r == call[h].req IN
    \/ /\ At(h, "role/update", "start")
       /\ IF r.id \in DOMAIN db.role
          THEN Read(h, "name", db.role[r.id].name, ~db.role[r.id].system, "name")
          ELSE Refuse(h)
    \/ /\ At(h, "role/update", "name")
       /\ Check(h, "name" \in DOMAIN r /\ r.name # call[h].saw.name =>
                     \A i \in DOMAIN db.role : db.role[i].name # r.name, "write")
    \/ /\ At(h, "role/update", "write")
       /\ IF db.role[r.id].deleted \/ DOMAIN r \cap {"name", "active"} = {}
          THEN Refuse(h) ELSE Write(h, updateRole(db, r), "done")

\* A role is deleted when no user has it.
DeleteRole(h) ==
  LET r == call[h].req IN
    \/ /\ At(h, "role/delete", "start")
       /\ Check(h, r.id \in DOMAIN db.role /\ ~db.role[r.id].system, "count")
    \/ /\ At(h, "role/delete", "count")
       /\ Check(h, \A i \in DOMAIN db.userRole :
                     db.userRole[i].role = r.id => ~db.userRole[i].active, "write")
    \/ /\ At(h, "role/delete", "write")
       /\ Write(h, deleteRole(db, r.id), "done")

\* A permission of a role is found and restored, or inserted.
AssignPermission(h) ==
  LET r == call[h].req IN
    \/ /\ At(h, "role/assignPermission", "start")
       /\ Check(h, r.role \in DOMAIN db.role, "permission")
    \/ /\ At(h, "role/assignPermission", "permission")
       /\ Check(h, r.permission \in DOMAIN db.permission, "row")
    \/ /\ At(h, "role/assignPermission", "row")
       /\ \E i \in AnyOf(GrantRows(db, r)) :
            Read(h, "row", i, i = NULL \/ db.rolePermission[i].deleted, "write")
    \/ /\ At(h, "role/assignPermission", "write")
       /\ Write(h, assignPermission(db, r, call[h].saw.row), "done")

RemovePermission(h) ==
  LET r == call[h].req IN
    \/ /\ At(h, "role/removePermission", "start")
       /\ \E i \in AnyOf(GrantRows(db, r)) :
            Read(h, "row", i, i # NULL /\ ~db.rolePermission[i].deleted, "write")
    \/ /\ At(h, "role/removePermission", "write")
       /\ IF db.rolePermission[call[h].saw.row].deleted
          THEN Refuse(h) ELSE Write(h, removePermission(db, call[h].saw.row), "done")

CreatePermission(h) ==
  LET r == call[h].req IN
    \/ /\ At(h, "permission/create", "start")
       /\ Check(h, SamePermission(db, r.resource, r.action) = {}, "insert")
    \/ /\ At(h, "permission/create", "insert")
       /\ Write(h, createPermission(db, r), "done")

UpdatePermission(h) ==
  LET r == call[h].req IN
    \/ /\ At(h, "permission/update", "start")
       /\ Check(h, LivePermission(db, r.id) /\ ~db.permission[r.id].system,
                IF DOMAIN r \cap {"resource", "action"} = {} THEN "done" ELSE "current")
    \/ /\ At(h, "permission/update", "current")
       /\ Read(h, "current", db.permission[r.id], LivePermission(db, r.id), "conflict")
    \/ /\ At(h, "permission/update", "conflict")
       /\ LET old == call[h].saw.current IN
          Check(h, SamePermission(db, Field(r, "resource", old.resource),
                                      Field(r, "action", old.action)) \subseteq {r.id}, "write")
    \/ /\ At(h, "permission/update", "write")
       /\ IF LivePermission(db, r.id)
          THEN Write(h, updatePermission(db, r), "done") ELSE Refuse(h)

DeletePermission(h) ==
  LET r == call[h].req IN
    \/ /\ At(h, "permission/delete", "start")
       /\ Check(h, LivePermission(db, r.id) /\ ~db.permission[r.id].system, "write")
    \/ /\ At(h, "permission/delete", "write")
       /\ IF LivePermission(db, r.id)
          THEN Write(h, deletePermission(db, r.id), "done") ELSE Refuse(h)

\* A permission of a user is found and overwritten or restored, or inserted.
GrantPermission(h) ==
  LET r == call[h].req IN
    \/ /\ At(h, "user/grantPermission", "start")
       /\ Check(h, r.user \in LiveUsers(db), "permission")
    \/ /\ At(h, "user/grantPermission", "permission")
       /\ Check(h, LivePermission(db, r.permission), "row")
    \/ /\ At(h, "user/grantPermission", "row")
       /\ \E i \in AnyOf(DirectRows(db, r.user, r.permission)) :
            Read(h, "row", i, TRUE,
                 IF i = NULL \/ db.userPermission[i].deleted THEN "write" ELSE "overwrite")
    \/ /\ At(h, "user/grantPermission", "write")
       /\ Write(h, grant(db, r, call[h].saw.row), "done")
    \/ /\ At(h, "user/grantPermission", "overwrite")
       /\ Write(h, overwrite(db, r, call[h].saw.row), "done")

RevokePermission(h) ==
  LET r == call[h].req IN
    \/ /\ At(h, "user/revokePermission", "start")
       /\ Check(h, r.user \in LiveUsers(db), "write")
    \/ /\ At(h, "user/revokePermission", "write")
       /\ IF \A i \in DirectRows(db, r.user, r.permission) : db.userPermission[i].deleted
          THEN Refuse(h) ELSE Write(h, revoke(db, r), "done")

AccessStep(h) ==
  \/ CreateRole(h) \/ UpdateRole(h) \/ DeleteRole(h)
  \/ AssignPermission(h) \/ RemovePermission(h)
  \/ CreatePermission(h) \/ UpdatePermission(h) \/ DeletePermission(h)
  \/ GrantPermission(h) \/ RevokePermission(h)

AccessRequest(h) ==
  \/ role_create(h) \/ role_update(h) \/ role_delete(h)
  \/ role_assignPermission(h) \/ role_removePermission(h)
  \/ permission_create(h) \/ permission_update(h) \/ permission_delete(h)
  \/ user_grantPermission(h) \/ user_revokePermission(h)
=============================================================================
