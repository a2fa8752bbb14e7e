CONSTANTS
  r1 = r1
  r2 = r2
  a1 = a1
  a2 = a2
  clear = clear
  level = level
  NoRun = NoRun
  None = None
  Runs = {r1}
  Accounts = {a1}
  Options = {clear, level}
  Ballots <- ClearOrLevel
  CheckDays = 1
  RoundDays <- OneDayEach
  MaxBallots = 1
  MaxToggles = 0
  MaxTime = 3
  Verdict <- SmallVerdict
  PageSize = 2
  Heeds = {}
  MaxFaults = 0
  MaxStalls = 0
CHECK_DEADLOCK FALSE
SPECIFICATION Spec
INVARIANTS
  GateHolds
