SPECIFICATION FairSpec
CONSTANTS
  NumTasks = 3
  q1 = q1
  q2 = q2
  d1 = d1
  d2 = d2
  Queue = {q1}
  Device = {d1}
  DeviceOf <- OneDevice
  OutOfOrder = {q1}
  NoQueue = NoQueue
  NoDevice = NoDevice
  MaxWaitList = 1
  MaxWaiting = 3
  UserStatus <- NoUserEvents
  RecordMayFail = TRUE
  StaleWaits = TRUE
INVARIANT TasksInTheirPlace
PROPERTY WaitsReturn
CHECK_DEADLOCK FALSE
