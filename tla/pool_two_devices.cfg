SPECIFICATION Spec
CONSTANTS
  NumTasks = 3
  q1 = q1
  q2 = q2
  d1 = d1
  d2 = d2
  Queue = {q1, q2}
  Device = {d1, d2}
  DeviceOf <- TwoDevices
  OutOfOrder = {q1, q2}
  NoQueue = NoQueue
  NoDevice = NoDevice
  MaxWaitList = 1
  MaxWaiting = 1
  UserStatus <- OnlySuccess
  RecordMayFail = FALSE
  StaleWaits = TRUE
SYMMETRY PairSymmetry
INVARIANT NoDependencyLaterInQueue
PROPERTY ImplementsExecutionModel
CHECK_DEADLOCK FALSE
