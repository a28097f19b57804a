SPECIFICATION FairSpec
CONSTANTS
  s1 = s1
  s2 = s2
  r1 = r1
  r2 = r2
  n1 = n1
  g1 = g1
  Send = {s1, s2}
  Stop = {x1}
  Id = {r1, r2}
  Session = {n1}
  Generic = {}
  idOf <- OwnIds
  sessionOf <- NativeOnly
  MaxConns = 1
  MaxPopups = 0
  None = None
CHECK_DEADLOCK FALSE
INVARIANTS NothingAfterStop RegistriesAgree
PROPERTIES TurnEnds StopSettles
