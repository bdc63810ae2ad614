SPECIFICATION Spec
CONSTANTS
  NumTasks = 3
  q1 = q1
  q2 = q2
  d1 = d1
  d2 = d2
  Queue = {q1, q2}
  Device = {d1}
  DeviceOf <- OneDevice
  OutOfOrder = {}
  NoQueue = NoQueue
  NoDevice = NoDevice
  MaxWaitList = 2
  MaxWaiting = 1
  UserStatus <- SuccessOrError
  RecordMayFail = FALSE
  StaleWaits = FALSE
SYMMETRY QueueSymmetry
INVARIANT StartsInOrder
INVARIANT SuccessNeedsSuccess
 
INVARIANT ReadyWorkFlushed
INVARIANT LastPointersLive
CHECK_DEADLOCK FALSE
