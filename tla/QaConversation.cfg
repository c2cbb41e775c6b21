SPECIFICATION Spec
CONSTANTS
  s1 = s1
  s2 = s2
  q1 = q1
  Nobody = Nobody
  Requests <- MCThree
  Streams <- MCTwoStreams
  Scoped <- MCScoped
  MaxRunning = 2
  MaxRestarts = 0
  MaxLost = 0
SYMMETRY MCSymmetry
INVARIANT TypeOK
INVARIANT GroundedTurns
INVARIANT AnswersOwnQuestion
INVARIANT TurnsAreOrdered
INVARIANT AnswersAreRemembered
CHECK_DEADLOCK FALSE
