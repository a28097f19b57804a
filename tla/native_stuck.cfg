SPECIFICATION Spec
CONSTANTS
  s = s
  a = a
  b = b
  Prompts = 1
  Stops = 2
  Attached = {1}
  Chat = {s, a, b}
  Start = s
  Fresh = {b}
  Person = Person
  Mixed = Mixed
  None = None
  MaxEvents = 0
CHECK_DEADLOCK FALSE
INVARIANT PageAlwaysFreed
