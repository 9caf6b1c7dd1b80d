SPECIFICATION PluginSpec
CONSTANTS
  Presses = {a1, a2, a3}
  StaleS = 3
  AskS = 2
  MaxHangs = 1
  None = None
  Bytes = {A, B}
  Ports = {p1, p2}
  MaxPresses = 3
  MaxTroubles = 1
  Nothing = Nothing
SYMMETRY Symmetric
INVARIANTS OneWindow PressIsAnswered OneProjectPerBoard
CHECK_DEADLOCK FALSE
