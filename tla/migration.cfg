SPECIFICATION Spec
CONSTANTS
  Devices = {"A", "B"}
  Objects = {"a", "b", "sub"}
  Parent <- MCParent
  Lists <- MCLists
  Preset = {"a"}
  MaxCommands = 3
  MaxTasks = 16
CHECK_DEADLOCK FALSE
 
INVARIANT ActiveCopyIsLatest
INVARIANT ReadyOnce
 
