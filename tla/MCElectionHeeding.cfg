CONSTANTS
  r1 = r1
  r2 = r2
  a1 = a1
  a2 = a2
  clear = clear
  level = level
  NoRun = NoRun
  None = None
  Runs = {r1}
  Accounts = {a1, a2}
  Options = {clear, level}
  Ballots <- ClearOrLevel
  CheckDays = 1
  RoundDays <- OneDayEach
  MaxBallots = 2
  MaxToggles = 1
  MaxTime = 3
  Verdict <- SmallVerdict
  PageSize = 2
  Heeds = {"roundOne", "rerun", "tie"}
  MaxFaults = 1
  MaxStalls = 0
CHECK_DEADLOCK FALSE
SPECIFICATION FairSpec
INVARIANTS
  GateHolds
  StatusShowsResult
  BallotInv
PROPERTIES
  StatusAdvances
  RoundsClose
