SPECIFICATION Spec
CONSTANTS
  c1 = c1
  c2 = c2
  a1 = a1
  a2 = a2
  e1 = e1
  e2 = e2
  k1 = k1
  Contexts = {c1, c2}
  Wanted <- TwoContexts
  Home <- InTheFirst
  UserEvents = {e1}
  Commands = {e2}
  Callbacks = {k1}
  NumApps = 1
  MaxD3D = 3
  Nothing = Nothing
INVARIANT DevicesOutliveTheirUsers
 
PROPERTY UserEventsEnd
CHECK_DEADLOCK FALSE
