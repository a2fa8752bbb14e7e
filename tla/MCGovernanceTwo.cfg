CONSTANTS
  a1 = a1
  a2 = a2
  election = election
  None = None
  Default = Default
  SetIds = {Default, election}
  Rules <- AllRules
  SoundRules <- Sound
  Inputs <- EitherInputs
  MaxVersion = 2
  Accounts = {a1}
  MaxVotes = 0
  Drafts <- EitherDraft
  Orders <- OneOrder
  Selections <- NoLists
  GradeLists <- NoGradings
  Grades <- GradeSet
  MaxVoteOptions = 2
  MaxSelections = 2
  MaxCandidates = 2
  MaxEntities = 2
  MaxTime = 3
  MaxToggles = 0
CHECK_DEADLOCK FALSE
SPECIFICATION Spec
INVARIANTS
  ContinuationsPair
  RegistryStaysUsable
