SPECIFICATION Spec
CONSTANTS
    a = a
    b = b
    g = g
    start = start
    c1 = c1
    home = home
    other = other
    away = away
    ProviderTab = {a, b}
    GenericTab = {g}
    Chat = {start, c1}
    Start = start
    Site = {home, other}
    HomeSite = home
    Away = away
    Opened = {a, g}
    Budgets <- Mixes
    None = None
INVARIANTS StatusSettles NothingNamesAGonePage StaysTracked
PROPERTY InOrder
CHECK_DEADLOCK FALSE
