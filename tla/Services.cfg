SPECIFICATION Spec
CONSTANTS
  TaskNames = {"heartbeat"}
  Heartbeat = "heartbeat"
  MaxRecords = 2
  MaxCalls = 1
  MaxPasses = 2
  Users = {"ann", "bob"}
  Places = {"gate"}
  Endpoints = {"e1", "e2", "e3", "e4"}
  Categories = {"fleet"}
  Handlers = {h1, h2}
  FirstRows <- MCFirstRows
  Menus <- MCMenus
  MaxRequests = 3
  Listeners = {f, g}
  Entities = {"trip"}
  Actions = {"arrived"}
  MaxListeners = 1
  MaxAdded = 3
  MaxEmits = 2
INVARIANTS
  TypeOK
  TasksScheduled
  

  
  
