SPECIFICATION Spec
CONSTANTS
  i1 = i1
  i2 = i2
  i3 = i3
  p1 = p1
  p2 = p2
  Identity = {i1, i3}
  Provider = {p1, p2}
  providerOf <- TwoProviders
  MaxIdentities = 1
  MaxProviders = 1
  Lifetime = 1
  MaxTime = 0
  None = None
INVARIANTS VerdictStands ClearIsFinal WithinLimits
