CONSTANTS
  r1 = r1
  r2 = r2
  a1 = a1
  a2 = a2
  clear = clear
  level = level
  NoRun = NoRun
  None = None
  Runs = {r1, r2}
  Accounts = {a1}
  Options = {clear, level}
  Ballots <- ClearOrLevel
  CheckDays = 0
  RoundDays <- OneDayEach
  MaxBallots = 1
  MaxToggles = 0
  MaxTime = 2
  Verdict <- SmallVerdict
  PageSize = 2
  Heeds = {"roundOne", "tie"}
  MaxFaults = 0
  MaxStalls = 1
CHECK_DEADLOCK FALSE
SYMMETRY Symmetry
SPECIFICATION Spec
PROPERTIES
  DecidesOnce
