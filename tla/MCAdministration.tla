-------------------------- MODULE MCAdministration --------------------------
(* Every two of the requests below against each other, each made again and again. *)
EXTENDS Administration, TLC

MCWords == {"ann", "bob", "cyd", "dan", "eve"}
MCUser(word, card, status, assignment) ==
  [email |-> <<word, "lower">>, username |-> <<word, "lower">>, card |-> card,
   active |-> TRUE, deleted |-> FALSE, status |-> status, activated |-> FALSE,
   assignment |-> assignment]
MCRole(name, system) ==
  [name |-> name, system |-> system, active |-> TRUE, deleted |-> FALSE]
MCHolds(u, r) == [user |-> u, role |-> r, active |-> TRUE, deleted |-> FALSE]

\* Two administrators, a member of a department, an imported user.
MCDatabase ==
  [user |-> <<MCUser("ann", 0, "ACTIVE", 0), MCUser("bob", 0, "ACTIVE", 0),
              MCUser("cyd", 1, "ACTIVE", 1), MCUser("dan", 0, "IMPORTED", 0)>>,
   role |-> <<MCRole("super_admin", TRUE), MCRole("admin", TRUE),
              MCRole("app_user", TRUE), MCRole("clerk", FALSE)>>,
   permission |->
     <<[resource |-> "user", action |-> "read", system |-> TRUE, deleted |-> FALSE],
       [resource |-> "user", action |-> "list", system |-> FALSE, deleted |-> FALSE]>>,
   userRole |-> <<MCHolds(1, 1), MCHolds(2, 2), MCHolds(3, 3), MCHolds(4, 3)>>,
   rolePermission |-> <<[role |-> 3, permission |-> 1, deleted |-> FALSE]>>,
   userPermission |-> << >>,
   department |-> <<[code |-> "ops", active |-> TRUE]>>,
   template |-> <<[code |-> "lead", active |-> TRUE, deleted |-> FALSE],
                  [code |-> "clerk", active |-> TRUE, deleted |-> FALSE]>>,
   assignment |->
     <<[department |-> 1, template |-> 1, code |-> "lead", active |-> TRUE],
       [department |-> 1, template |-> NULL, code |-> "night", active |-> TRUE]>>,
   audit |-> << >>, serial |-> 4]
MCDatabases == {MCDatabase}

MCAccountRequests ==
  {[op |-> "user/register", email |-> <<"eve", "lower">>, card |-> 2, assignment |-> 2],
   [op |-> "user/register", email |-> <<"eve", "mixed">>, username |-> <<"eve", "lower">>, card |-> 2],
   [op |-> "user/activate", id |-> 1, activate |-> FALSE, by |-> 2],
   [op |-> "user/activate", id |-> 2, by |-> 1],
   [op |-> "user/delete", id |-> 2], [op |-> "user/delete", id |-> 3],
   [op |-> "user/changeRole", id |-> 2, role |-> 2, action |-> "remove", by |-> 1],
   [op |-> "user/changeRole", id |-> 3, role |-> 2, by |-> 1],
   [op |-> "user/changeRole", id |-> 4, role |-> 3, action |-> "remove", by |-> 1],
   [op |-> "user/changeRole", id |-> 4, role |-> 3, by |-> 1],
   [op |-> "user/changeRole", id |-> 3, role |-> 4, by |-> 1],
   [op |-> "user/activateImported", id |-> 4, email |-> <<"dan", "mixed">>, role |-> 3, by |-> 1],
   [op |-> "user/activateImported", id |-> 4, email |-> <<"eve", "lower">>,
    username |-> <<"eve", "lower">>, role |-> 4, assignment |-> 2, by |-> 2],
   [op |-> "user/update", id |-> 4, email |-> <<"eve", "lower">>, card |-> 2],
   [op |-> "user/update", id |-> 3, username |-> <<"eve", "lower">>, code |-> "night"],
   [op |-> "user/update", id |-> 2, code |-> "lead", department |-> 1, card |-> 2],
   [op |-> "user/assignDepartmentRoleAssignment", id |-> 3, assignment |-> 2],
   [op |-> "user/assignDepartmentRoleAssignment", id |-> 3]}

MCAccessRequests ==
  {[op |-> "role/create", name |-> "guard"],
   [op |-> "role/update", id |-> 4, name |-> "guard"],
   [op |-> "role/update", id |-> 4, active |-> FALSE],
   [op |-> "role/delete", id |-> 4],
   [op |-> "role/assignPermission", role |-> 4, permission |-> 2],
   [op |-> "role/removePermission", role |-> 4, permission |-> 2],
   [op |-> "role/removePermission", role |-> 3, permission |-> 1],
   [op |-> "permission/create", resource |-> "user", action |-> "edit"],
   [op |-> "permission/update", id |-> 2, action |-> "edit"],
   [op |-> "permission/delete", id |-> 2],
   [op |-> "user/grantPermission", user |-> 3, permission |-> 2],
   [op |-> "user/grantPermission", user |-> 3, permission |-> 2, granted |-> FALSE],
   [op |-> "user/grantPermission", user |-> 3, permission |-> 1, granted |-> FALSE],
   [op |-> "user/revokePermission", user |-> 3, permission |-> 2]}

MCOrgRequests ==
  {[op |-> "department/create", code |-> "hotel"],
   [op |-> "department/create", code |-> "hotel", templates |-> FALSE],
   [op |-> "department/update", id |-> 1, code |-> "hotel"],
   [op |-> "department/delete", id |-> 1],
   [op |-> "assignment/create", department |-> 1, code |-> "clerk", template |-> 2],
   [op |-> "assignment/update", id |-> 2, active |-> FALSE],
   [op |-> "assignment/delete", id |-> 1], [op |-> "assignment/delete", id |-> 2],
   [op |-> "template/create", code |-> "guard"],
   [op |-> "template/update", id |-> 2, code |-> "guard"],
   [op |-> "template/delete", id |-> 2]}

MCRequests == MCAccountRequests \cup MCAccessRequests \cup MCOrgRequests
MCSymmetry == Permutations(Handlers)
MCMenus == {{r, s} : r \in MCRequests, s \in MCRequests}
=============================================================================
