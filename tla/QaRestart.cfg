SPECIFICATION Spec
CONSTANTS
  s1 = s1
  s2 = s2
  q1 = q1
  Nobody = Nobody
  Requests <- MCTwo
  Streams <- MCOneStream
  Scoped <- MCScoped
  MaxRunning = 2
  MaxRestarts = 2
  MaxLost = 2
INVARIANT GroundedTurns
INVARIANT AnswersOwnQuestion
CHECK_DEADLOCK FALSE
