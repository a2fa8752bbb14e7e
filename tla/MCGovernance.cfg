CONSTANTS
  a1 = a1
  a2 = a2
  election = election
  None = None
  Default = Default
  SetIds = {Default, election}
  Rules <- AllRules
  SoundRules <- Sound
  Inputs <- StageInputs
  MaxVersion = 2
  Accounts = {a1, a2}
  MaxVotes = 2
  Drafts <- AllDrafts
  Orders <- CandidateOrders
  Selections <- OptionLists
  GradeLists <- Gradings
  Grades <- GradeSet
  MaxVoteOptions = 2
  MaxSelections = 2
  MaxCandidates = 2
  MaxEntities = 1
  MaxTime = 3
  MaxToggles = 1
SYMMETRY Symmetry
CHECK_DEADLOCK FALSE
SPECIFICATION Spec
INVARIANTS
  RecordsInv
  PhasesInOrder
  HeldUnderItsCheck
PROPERTIES
  DecidedIsFrozen
  ConsultationsTakeTheirCourse
