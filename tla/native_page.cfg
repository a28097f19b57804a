SPECIFICATION Spec
CONSTANTS
  s = s
  a = a
  b = b
  Prompts = 2
  Stops = 2
  Attached = {1}
  Chat = {s, a, b}
  Start = s
  Fresh = {b}
  Person = Person
  Mixed = Mixed
  None = None
  MaxEvents = 2
CHECK_DEADLOCK FALSE
INVARIANTS StopIsReal PageIsFreed
PROPERTIES NoSecondPrompt DraftIsKept
