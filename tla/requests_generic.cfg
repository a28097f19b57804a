SPECIFICATION Spec
CONSTANTS
  s1 = s1
  s2 = s2
  r1 = r1
  r2 = r2
  n1 = n1
  g1 = g1
  Send = {s2}
  Stop = {x1, x2}
  Id = {r2}
  Session = {g1}
  Generic = {g1}
  idOf <- OwnIds
  sessionOf <- GenericOnly
  MaxConns = 2
  MaxPopups = 1
  None = None
CHECK_DEADLOCK FALSE
INVARIANTS GenericAnsweredOnce GenericStopIsReal TurnIsOwned
PROPERTIES StoppedNeverSubmits
