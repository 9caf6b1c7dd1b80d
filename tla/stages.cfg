SPECIFICATION Spec
CONSTANTS
  Levels <- MCLevels
  Strides <- MCStrides
  MaxReports = 4
  Excitation = 2
  Fallback = 1
  StopBelow = 2
  HoldReadings = 2
  HoldSpan = 2
  DivergenceRise = 2
  DecayMargin = 1
  MaxItems = 2
INVARIANTS AbortIsEarned NoClimbIsPublished UsableMeansSettled DoneIsWhole StoppedIsNotDone
PROPERTY StopTakesEffect
CHECK_DEADLOCK FALSE
