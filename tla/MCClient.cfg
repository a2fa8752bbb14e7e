CONSTANTS
  Accounts = {1, 2}
  Options = {1, 2}
  Ballots <- OptionSets
  Earlier <- EarlierGrades
  Candidates = {1, 2}
  Grades = {0, 1}
  NoBallot = NoBallot
  None = None
  MaxBatches = 1
  MaxSwitches = 1
  MaxSelections = 2
  MaxAttempts = 1
  Operators = {o1, o2}
  Weighted <- PassesThenFails
  TieGroup <- TwoTied
  MaxMoves = 1
  Admins = {1, 2}
  Sets = {s1, s2}
  DefaultSet = s1
  Values = {1, 2}
  BlankValue = 1
  Badges <- BothKinds
  MaxVersions = 2
  MaxHandovers = 1
  MaxRequests = 2
  MaxEdits = 1
  Profiles <- TwoProfiles
  DefaultProfile = 1
  MaxOptions = 4
  MaxPick = 3
  MaxCandidates = 3
  MaxChanges = 4
  ItemsPerPage = 2
  MaxChecks = 4
  MaxReads = 2
CHECK_DEADLOCK FALSE
SPECIFICATION Spec
INVARIANTS
  OnlyWhatWasSigned
  SectionIsCurrent
  UnpickedAreRecorded
  FormsAreHonoured
  ListsAreFaithful
PROPERTIES
  DraftIsTheUsers
  DraftSurvivesRefresh
  RoundsFollowVerdicts
  EditsAreRespected
