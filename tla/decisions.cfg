SPECIFICATION Spec
CONSTANTS
  Topics <- MCTopics
  Questions <- MCQuestions
  Connectors <- J
  Strength <- MCStrength
  FarGrid <- MCFarGrid
  DenseGrid <- MCDenseGrid
  Segments <- MCSegments
  ScanRules <- MCScanRules
  MaxLines = 5
  CopperLayers <- Stack
  Places = {0, 1, 2}
  Volts <- MCVolts
  SignalNets <- MCSignalNets
  SwitchNames <- MCSwitchNames
  MAX_DEPTH = 2
  RATIO = 14
  PML_LINES = 8
  MAX_ROUNDS = 32
  MAX_PASSES = 12
  Rows = 7
  Cols = 18
  BoardLayers <- Stackup2
  TOLERANCE = 1
  REF_TOLERANCE = 8
  Metric <- MCMetric
  Library <- MCLibrary
  MIN_GAP = 2
  OFF_AXIS = 1
  SOURCE_SIGMA_DB <- MCSigma
  MAX_SAMPLES = 5
  JOIN_HARMONICS = 4
  CYCLE = 6
  piecewise_linear_series <- MCSeries
  RULE_CATALOGUE <- MCCatalogue
  PER_NET_PARAMS <- MCPerNet
  BOARD_DEFAULTS <- MCBoard
  POSITIVE = {"fmax"}
  Dielectrics = {"epsilon"}
  One = 10
  NetClass <- MCClass
  CableSolvers = {"nec2c", "builtin"}
  Words = Words
  WrongShape = WrongShape
  Unset = Unset
  NetSays <- MCNetSays
  PlanePercent = 30
  DEFAULT_EPSILON = 44
  MASK_EPSILON_BUMP = 2
  WAVELENGTH = 20
  VIA_WAVELENGTH = 200
  MIN_STUB = 2
  REPORT_PART = 10
  CRITICAL_PART = 4
  RADIATOR_MAX_REPORTED = 1
  EDGE_CRITICAL = 1
  GAP_CRITICAL = 3
  MIN_REGION = 2
  MAX_REGIONS = 2
  VIA_REACH = 1
  PAD_REACH = 1
  END_REACH = 0
  NetOrder <- NetsByName
  RefOrder <- PartsByName
  Designator <- MCDesignator
  per_rule_limit = 2
  RULES <- RulesInTurn
  ByName <- RulesByName
  PairEnds <- MCEnds
  Role <- MCRole
  NetRank <- MCNetRank
  SlowBase = {"VCC"}
  LaneClass = {"Lane0"}
  LANE = 2
  FastNets = {"CK_P"}
  DefaultStub = 2
  PS <- MCDelay
  VIA_PS = 2
INVARIANTS MarginIsWhole PathsAreRouted RegulatorsAreKnown GridIsFit NetsAreKnown PartsAreKnown DriversAreRead RulesAreObeyed
CHECK_DEADLOCK FALSE
