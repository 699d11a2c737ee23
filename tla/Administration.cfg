SPECIFICATION Spec
CONSTANTS
  Handlers = {h1, h2}
  Words <- MCWords
  Cards = {1, 2}
  RoleNames = {"super_admin", "admin", "app_user", "clerk", "guard"}
  Codes = {"ops", "hotel", "lead", "clerk", "night", "guard"}
  Resources = {"user"}
  Actions = {"read", "list", "edit"}
  MaxRequests = 3
  Databases <- MCDatabases
  Menus <- MCMenus
SYMMETRY MCSymmetry
INVARIANTS
  TypeOK
  ActivationAudited
PROPERTIES
  AdminKept
  
  ReferencesKept
  ActivatedOnce
  DecisionsHold
