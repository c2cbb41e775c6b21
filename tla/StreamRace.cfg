SPECIFICATION Spec
CONSTANTS
  s1 = s1
  s2 = s2
  q1 = q1
  Nobody = Nobody
  Requests <- MCTwo
  Streams <- MCOneStream
  Scoped <- MCScoped
  MaxRunning = 2
  MaxRestarts = 0
  MaxLost = 0
INVARIANT StreamAnswersOwnQuestion
CHECK_DEADLOCK FALSE
