SPECIFICATION Spec
CONSTANTS
    s = s
    c = c
    Chat <- MCChat
    Start = s
    Person = person
    None = none
    Prompts = 2
    MaxEvents = 2
PROPERTY AnswersAreOwn NoSecondPrompt StopIsReal
CHECK_DEADLOCK FALSE
