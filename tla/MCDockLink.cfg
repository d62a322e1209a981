CONSTANTS
  Docks = {d1, d2}
  Answers <- MCAnswers
  MaxCommands = 2
  MaxAttempts = 2
SPECIFICATION Spec
CHECK_DEADLOCK FALSE
INVARIANTS Identified 
PROPERTIES CommandsProcessed QueueCommandReturns
