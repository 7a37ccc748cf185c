SPECIFICATION Spec
CONSTANTS
  Callers = {1, 2}
  PipeCap = 1
  Large = {1}
  MaxSpawns = 2
  MaxPrompts = 2
  MaxFaults = 1
INVARIANTS AnswersItsPrompt
CHECK_DEADLOCK FALSE
