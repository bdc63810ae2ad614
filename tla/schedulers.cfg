SPECIFICATION FairSpec
CONSTANTS
  x1 = x1
  x2 = x2
  x3 = x3
  Work = {x1, x2, x3}
  Nothing = Nothing
  Owners = {"device", "platform"}
  NumThreads = 2
  MaxSwitches = 3
  MaxWorkers = 4
PROPERTY DeviceSchedulerIsSerial
PROPERTY AcceptedWorkSettles
PROPERTY DeviceShutdownReturns
INVARIANT EachWorkOnce
CHECK_DEADLOCK FALSE
