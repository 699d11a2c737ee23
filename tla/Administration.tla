--------------------------- MODULE Administration ---------------------------
(***************************************************************************)
(* All requests that administer users, access and departments, against one *)
(* another on the same tables.  What the code checks it checks before it   *)
(* writes, in a statement of its own: the properties say that the checks   *)
(* are enough for a request nobody overtakes between its check and its     *)
(* write, and so that nothing but such an overtaking can break the rules.  *)
(***************************************************************************)
EXTENDS Accounts, AccessControl, OrgStructure

Stop ==
  /\ left = 0
  /\ \A h \in Handlers : call[h] = Idle
  /\ UNCHANGED vars

Next ==
  \/ \E h \in Handlers :
       \/ AccountRequest(h) \/ AccessRequest(h) \/ OrgRequest(h)
       \/ AccountStep(h) \/ AccessStep(h) \/ OrgStep(h)
  \/ Stop

Spec == Init /\ [][Next]_vars

----------------------------------------------------------------------------
(* Reads that were overtaken *)

Acts(h) == call'[h] # call[h]
Saw(h, guard) == guard \in DOMAIN call[h].saw

\* What h read is no longer what the tables say.
AdminsChanged(h) ==
  \/ Saw(h, "admin") /\ call[h].saw.admin # hasAdminRole(db, call[h].req.id)
  \/ Saw(h, "admins") /\ call[h].saw.admins # countActiveAdmins(db)
CardTaken(h) ==
  Saw(h, "card") /\ \E u \in CardHolders(db, call[h].req.card) :
    call[h].req.op = "user/update" => u # call[h].req.id
RowInserted(h) ==
  LET r == call[h].req IN
  /\ Saw(h, "row")
  /\ call[h].saw.row = NULL
  /\ IF r.op = "role/assignPermission" THEN GrantRows(db, r) # {}
     ELSE DirectRows(db, r.user, r.permission) # {}
\* The row that h found in place and overwrites has been revoked.
RowRevoked(h) ==
  At(h, "user/grantPermission", "overwrite") /\ db.userPermission[call[h].saw.row].deleted
CodeTaken(h) ==
  Saw(h, "code") /\ SameCode(db, call[h].req.department, call[h].req.code) # {}
MembersCame(h) ==
  LET r == call[h].req IN
  /\ Saw(h, "members")
  /\ IF r.op = "department/delete" THEN checkDependencies(db, r.id) > 0
     ELSE Members(db, {r.id}) # {}
TemplateChanged(h) ==
  LET r == call[h].req IN
  \/ Saw(h, "uses") /\ Uses(db, r.id) # {}
  \/ Saw(h, "template") /\ r.template \notin LiveTemplates(db)
  \/ Saw(h, "codes") /\ ~(DOMAIN call[h].saw.codes \subseteq LiveTemplates(db))
TargetChanged(h) ==
  Saw(h, "target") /\ call[h].saw.target # db.user[call[h].req.id]

----------------------------------------------------------------------------
(* Properties *)

\* The tables keep their types and every handler is idle or at a request of the menu.
TypeOK ==
  /\ WellFormed(db) /\ Consistent(db)
  /\ menu \in Menus
  /\ left \in 0 .. MaxRequests
  /\ \A h \in Handlers : call[h] = Idle \/ call[h].req \in menu

\* The last active administrator is never deleted, deactivated or stripped of the
\* role, unless by a request that counted the administrators before another
\* request took one away (domain/user delete, activate, changeRole).
AdminKept ==
  [][ActiveAdmins(db) # {} /\ ActiveAdmins(db') = {} =>
       \E h \in Handlers : Acts(h) /\ AdminsChanged(h)]_vars

CardsUnique(d) ==
  \A u, v \in LiveUsers(d) :
    d.user[u].card = d.user[v].card /\ d.user[u].card # NULL => u = v
GrantsUnique(d) ==
  \A i \in DOMAIN d.rolePermission : Cardinality(GrantRows(d, d.rolePermission[i])) = 1
DirectUnique(d) ==
  \A i \in DOMAIN d.userPermission :
    Cardinality(DirectRows(d, d.userPermission[i].user, d.userPermission[i].permission)) = 1
CodesUnique(d) ==
  \A i \in DOMAIN d.department : \A a \in AssignmentsOf(d, i) :
    Cardinality(SameCode(d, i, d.assignment[a].code)) = 1

\* What no index guards, the checks guard: one live user per card, one row per
\* role and permission and per user and permission, one assignment per code of a
\* department, unless a request inserts a row after another took its place.
RowsUnique ==
  [][/\ CardsUnique(db) =>
          CardsUnique(db') \/ \E h \in Handlers : Acts(h) /\ CardTaken(h)
     /\ GrantsUnique(db) =>
          GrantsUnique(db') \/ \E h \in Handlers : Acts(h) /\ RowInserted(h)
     /\ DirectUnique(db) =>
          DirectUnique(db') \/ \E h \in Handlers : Acts(h) /\ RowInserted(h)
     /\ CodesUnique(db) =>
          CodesUnique(db') \/ \E h \in Handlers : Acts(h) /\ CodeTaken(h)]_vars

\* The user's assignment is gone from the tables.
LosesAssignment(u) ==
  /\ db.user[u].assignment # NULL
  /\ db.user[u].assignment \notin DOMAIN db'.assignment
\* Assignments made from a template that has been deleted.
Orphans(d) ==
  {a \in DOMAIN d.assignment :
     d.assignment[a].template # NULL /\ d.template[d.assignment[a].template].deleted}

\* Deleting a department or an assignment takes no live user's department role,
\* and no assignment refers to a deleted template, unless the users or the
\* templates changed between the count and the write.
ReferencesKept ==
  [][/\ (\E u \in LiveUsers(db) : LosesAssignment(u)) =>
          \E h \in Handlers : Acts(h) /\ MembersCame(h)
     /\ ~(Orphans(db') \subseteq Orphans(db)) =>
          \E h \in Handlers : Acts(h) /\ TemplateChanged(h)]_vars

\* The activation of an imported user and its audit row are one transaction: no
\* user is activated without one and none has one without being activated.
ActivationAudited ==
  \A u \in DOMAIN db.user :
    db.user[u].activated <=> \E i \in DOMAIN db.audit : db.audit[i].user = u

\* A user is activated once, and the audit row names the address the user had,
\* unless the user changed between the check and the transaction.
ActivatedOnce ==
  [][\A i \in DOMAIN db'.audit \ DOMAIN db.audit :
       LET row == db'.audit[i] IN
         \/ ~db.user[row.user].activated /\ row.old = db.user[row.user].email
         \/ \E h \in Handlers : Acts(h) /\ TargetChanged(h)]_vars

Deciding(h, op, pc) == At(h, op, pc) /\ Acts(h)
LiveDirect(d, r) ==
  {i \in DirectRows(d, r.user, r.permission) : ~d.userPermission[i].deleted}

UndeletedRoles(d, r) ==
  {i \in UserRoles(d, r.id, r.role) : ~d.userRole[i].deleted}

\* A decision that was carried out is what the next session sees: the permission
\* granted, denied or back to what the roles give, the role held or not, even
\* when the user has old and deleted rows, unless two live rows contradict, the row
\* was revoked between its SELECT and its UPDATE, or two assignments at once have
\* left two rows of a role, which the unique index keeps from being active together.
DecisionsHold ==
  [][\A h \in Handlers :
       LET r == call[h].req IN
       /\ Deciding(h, "user/grantPermission", "write") \/ Deciding(h, "user/grantPermission", "overwrite") =>
            \/ Cardinality(LiveDirect(db', r)) > 1
            \/ RowRevoked(h)
            \/ getPermissions(db', r.user, r.permission)
                 = {Field(r, "granted", TRUE) /\ LivePermission(db', r.permission)}
       /\ Deciding(h, "user/revokePermission", "write") => LiveDirect(db', r) = {}
       /\ Deciding(h, "user/changeRole", "remove") =>
            \A i \in UserRoles(db', r.id, r.role) : ~db'.userRole[i].active
       /\ Deciding(h, "user/changeRole", "revive") =>
            \/ \E i \in UserRoles(db', r.id, r.role) : db'.userRole[i].active
            \/ Cardinality(UndeletedRoles(db, r)) > 1
       /\ Deciding(h, "user/activateImported", "commit") /\ db' # db /\ "role" \in DOMAIN r =>
            \E i \in UserRoles(db', r.id, r.role) :
              db'.userRole[i].active /\ ~db'.userRole[i].deleted]_vars
=============================================================================
