---------------------------- MODULE OrgStructure ----------------------------
(***************************************************************************)
(* The requests that write departments, the templates of department roles, *)
(* and the roles a department has (DepartmentRoleAssignment), which users  *)
(* refer to.  Departments and assignments are deleted for good: the schema *)
(* then sets the reference of their users to NULL.                         *)
(***************************************************************************)
EXTENDS Tables

----------------------------------------------------------------------------
(* Payloads *)

departmentCreateSchema(r) == r.code \in Codes /\ Optional(r, "templates", BOOLEAN)
departmentUpdateSchema(r) ==
  r.id \in Ids /\ Optional(r, "code", Codes) /\ Optional(r, "active", BOOLEAN)
departmentDeleteSchema(r) == r.id \in Ids
assignmentCreateSchema(r) ==
  r.department \in Ids /\ r.code \in Codes /\ Optional(r, "template", Ids)
assignmentUpdateSchema(r) == r.id \in Ids /\ Optional(r, "active", BOOLEAN)
assignmentDeleteSchema(r) == r.id \in Ids
templateCreateSchema(r) == r.code \in Codes
templateUpdateSchema(r) ==
  /\ DOMAIN r \subseteq {"op", "id", "code", "active"}
  /\ r.id \in Ids /\ Optional(r, "code", Codes) /\ Optional(r, "active", BOOLEAN)
templateDeleteSchema(r) == r.id \in Ids

department_create(h) ==
  Begin(h, {r \in Payloads("department/create") : departmentCreateSchema(r)})
department_update(h) ==
  Begin(h, {r \in Payloads("department/update") : departmentUpdateSchema(r)})
department_delete(h) ==
  Begin(h, {r \in Payloads("department/delete") : departmentDeleteSchema(r)})
assignment_create(h) ==
  Begin(h, {r \in Payloads("assignment/create") : assignmentCreateSchema(r)})
assignment_update(h) ==
  Begin(h, {r \in Payloads("assignment/update") : assignmentUpdateSchema(r)})
assignment_delete(h) ==
  Begin(h, {r \in Payloads("assignment/delete") : assignmentDeleteSchema(r)})
template_create(h) ==
  Begin(h, {r \in Payloads("template/create") : templateCreateSchema(r)})
template_update(h) ==
  Begin(h, {r \in Payloads("template/update") : templateUpdateSchema(r)})
template_delete(h) ==
  Begin(h, {r \in Payloads("template/delete") : templateDeleteSchema(r)})

----------------------------------------------------------------------------
(* Rows *)

AssignmentsOf(d, i) == {a \in DOMAIN d.assignment : d.assignment[a].department = i}
\* Users who are not deleted and have one of these roles.
Members(d, assignments) == {u \in LiveUsers(d) : d.user[u].assignment \in assignments}
checkDependencies(d, i) == Cardinality(Members(d, AssignmentsOf(d, i)))

LiveTemplates(d) == {t \in DOMAIN d.template : ~d.template[t].deleted}
SameCode(d, i, code) == {a \in AssignmentsOf(d, i) : d.assignment[a].code = code}
\* Mutant: a template is in use when a user has an assignment made from it.
UsesHeld(d, t) ==
  {a \in DOMAIN d.assignment : d.assignment[a].template = t /\ Members(d, {a}) # {}}
Uses(d, t) == {a \in DOMAIN d.assignment : d.assignment[a].template = t}

----------------------------------------------------------------------------
(* Statements *)

\* DELETE of assignments; the foreign key of User sets its references to NULL.
deleteAssignments(d, ids) ==
  [d EXCEPT !.assignment = Remaining(@, ids),
            !.user = [u \in DOMAIN @ |->
               IF @[u].assignment \in ids THEN [@[u] EXCEPT !.assignment = NULL] ELSE @[u]]]

createDepartment(d, r) ==
  [d EXCEPT !.serial = Fresh(d),
            !.department = Inserted(@, Fresh(d), [code |-> r.code, active |-> TRUE])]
updateDepartment(d, r) ==
  [d EXCEPT !.department[r.id] =
     [f \in DOMAIN @ |-> IF f \in DOMAIN r THEN r[f] ELSE @[f]]]
\* The DELETE of the department, with the rows the foreign key cascades to.
deleteDepartment(d, i) ==
  [deleteAssignments(d, AssignmentsOf(d, i)) EXCEPT !.department = Remaining(@, {i})]

createAssignment(d, r) ==
  [d EXCEPT !.serial = Fresh(d),
            !.assignment = Inserted(@, Fresh(d),
               [department |-> r.department, code |-> r.code, active |-> TRUE,
                template |-> IF "template" \in DOMAIN r THEN r.template ELSE NULL])]
updateAssignment(d, r) ==
  [d EXCEPT !.assignment[r.id].active = r.active]

\* One INSERT of a row per template, given with the codes they were read with.
\* Rows of a department that already has the code are left out.
fromTemplates(d, i, codes) ==
  LET new == {t \in DOMAIN codes : SameCode(d, i, codes[t]) = {}}
      id(t) == d.serial + Cardinality({t2 \in new : t2 <= t})
      source(a) == CHOOSE t \in new : id(t) = a
  IN [d EXCEPT !.serial = @ + Cardinality(new),
               !.assignment = [a \in DOMAIN @ \cup {id(t) : t \in new} |->
                  IF a \in DOMAIN @ THEN @[a]
                  ELSE [department |-> i, template |-> source(a), code |-> codes[source(a)],
                        active |-> TRUE]]]

createTemplate(d, r) ==
  [d EXCEPT !.serial = Fresh(d),
            !.template = Inserted(@, Fresh(d),
               [code |-> r.code, active |-> TRUE, deleted |-> FALSE])]
updateTemplate(d, r) ==
  [d EXCEPT !.template[r.id] =
     [f \in DOMAIN @ |-> IF f \in DOMAIN r THEN r[f] ELSE @[f]]]
deleteTemplate(d, t) ==
  [d EXCEPT !.template[t].deleted = TRUE, !.template[t].active = FALSE]

----------------------------------------------------------------------------
(* Handlers *)

\* A new department gets an assignment for every active template.  The second
\* INSERT names a conflict on (department_id, code): where the database has no
\* such index it fails, and the department stays without them.
CreateDepartment(h) ==
  LET r == call[h].req
      templates == {t \in LiveTemplates(db) : db.template[t].active}
  IN
    \/ /\ At(h, "department/create", "start")
       /\ Check(h, \A i \in DOMAIN db.department : db.department[i].code # r.code, "insert")
    \/ /\ At(h, "department/create", "insert")
       /\ IF Consistent(createDepartment(db, r))
          THEN /\ db' = createDepartment(db, r)
               /\ IF "templates" \in DOMAIN r /\ ~r.templates THEN Goto(h, "done")
                  ELSE Noted(h, "new", Fresh(db), "templates")
          ELSE Refuse(h)
    \/ /\ At(h, "department/create", "templates")
       /\ Read(h, "codes", [t \in templates |-> db.template[t].code], templates # {}, "write")
    \/ /\ At(h, "department/create", "write")
       /\ \/ Write(h, fromTemplates(db, call[h].saw.new, call[h].saw.codes), "done")
          \/ Refuse(h)

UpdateDepartment(h) ==
  LET r == call[h].req
      others == DOMAIN db.department \ {r.id}
  IN
    \/ /\ At(h, "department/update", "start")
       /\ Check(h, r.id \in DOMAIN db.department,
                IF DOMAIN r \cap {"code", "active"} = {} THEN "done" ELSE "code")
    \/ /\ At(h, "department/update", "code")
       /\ Check(h, "code" \in DOMAIN r => \A i \in others : db.department[i].code # r.code,
                "write")
    \/ /\ At(h, "department/update", "write")
       /\ IF r.id \in DOMAIN db.department
          THEN Write(h, updateDepartment(db, r), "done") ELSE Refuse(h)

\* A department is deleted when no user has one of its roles: first its
\* assignments, then the department.
DeleteDepartment(h) ==
  LET r == call[h].req IN
    \/ /\ At(h, "department/delete", "start")
       /\ Check(h, r.id \in DOMAIN db.department, "count")
    \/ /\ At(h, "department/delete", "count")
       /\ Read(h, "members", checkDependencies(db, r.id),
               checkDependencies(db, r.id) = 0, "assignments")
    \/ /\ At(h, "department/delete", "assignments")
       /\ Write(h, deleteAssignments(db, AssignmentsOf(db, r.id)), "write")
    \/ /\ At(h, "department/delete", "write")
       /\ IF r.id \in DOMAIN db.department
          THEN Write(h, deleteDepartment(db, r.id), "done") ELSE Refuse(h)

CreateAssignment(h) ==
  LET r == call[h].req IN
    \/ /\ At(h, "assignment/create", "start")
       /\ Check(h, r.department \in DOMAIN db.department, "code")
    \/ /\ At(h, "assignment/create", "code")
       /\ Read(h, "code", SameCode(db, r.department, r.code) # {},
               SameCode(db, r.department, r.code) = {}, "template")
    \/ /\ At(h, "assignment/create", "template")
       /\ IF "template" \in DOMAIN r
          THEN Read(h, "template", r.template \in LiveTemplates(db),
                    r.template \in LiveTemplates(db), "insert")
          ELSE Check(h, TRUE, "insert")
    \/ /\ At(h, "assignment/create", "insert")
       /\ Write(h, createAssignment(db, r), "done")

\* The UPDATE sets every column: one the payload leaves out is NULL, which the
\* column does not take.
UpdateAssignment(h) ==
  LET r == call[h].req IN
    \/ /\ At(h, "assignment/update", "start")
       /\ Check(h, r.id \in DOMAIN db.assignment, "write")
    \/ /\ At(h, "assignment/update", "write")
       /\ IF r.id \in DOMAIN db.assignment /\ "active" \in DOMAIN r
          THEN Write(h, updateAssignment(db, r), "done") ELSE Refuse(h)

\* An assignment is deleted when no user has it.
DeleteAssignment(h) ==
  LET r == call[h].req IN
    \/ /\ At(h, "assignment/delete", "start")
       /\ Check(h, r.id \in DOMAIN db.assignment, "count")
    \/ /\ At(h, "assignment/delete", "count")
       /\ Read(h, "members", Cardinality(Members(db, {r.id})),
               Members(db, {r.id}) = {}, "write")
    \/ /\ At(h, "assignment/delete", "write")
       /\ IF r.id \in DOMAIN db.assignment
          THEN Write(h, deleteAssignments(db, {r.id}), "done") ELSE Refuse(h)

CreateTemplate(h) ==
  LET r == call[h].req IN
    \/ /\ At(h, "template/create", "start")
       /\ Check(h, \A t \in LiveTemplates(db) : db.template[t].code # r.code, "insert")
    \/ /\ At(h, "template/create", "insert")
       /\ Write(h, createTemplate(db, r), "done")

UpdateTemplate(h) ==
  LET r == call[h].req IN
    \/ /\ At(h, "template/update", "start")
       /\ Check(h, "code" \in DOMAIN r =>
                   \A t \in LiveTemplates(db) \ {r.id} : db.template[t].code # r.code, "exists")
    \/ /\ At(h, "template/update", "exists")
       /\ Check(h, r.id \in LiveTemplates(db) /\ DOMAIN r \cap {"code", "active"} # {}, "write")
    \/ /\ At(h, "template/update", "write")
       /\ Write(h, IF r.id \in LiveTemplates(db) THEN updateTemplate(db, r) ELSE db, "done")

\* A template is deleted when no assignment was made from it.
DeleteTemplate(h) ==
  LET r == call[h].req IN
    \/ /\ At(h, "template/delete", "start")
       /\ Read(h, "uses", Cardinality(Uses(db, r.id)), Uses(db, r.id) = {}, "write")
    \/ /\ At(h, "template/delete", "write")
       /\ IF r.id \in LiveTemplates(db)
          THEN Write(h, deleteTemplate(db, r.id), "done") ELSE Refuse(h)

OrgStep(h) ==
  \/ CreateDepartment(h) \/ UpdateDepartment(h) \/ DeleteDepartment(h)
  \/ CreateAssignment(h) \/ UpdateAssignment(h) \/ DeleteAssignment(h)
  \/ CreateTemplate(h) \/ UpdateTemplate(h) \/ DeleteTemplate(h)

OrgRequest(h) ==
  \/ department_create(h) \/ department_update(h) \/ department_delete(h)
  \/ assignment_create(h) \/ assignment_update(h) \/ assignment_delete(h)
  \/ template_create(h) \/ template_update(h) \/ template_delete(h)
=============================================================================
