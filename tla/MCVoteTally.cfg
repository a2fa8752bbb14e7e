CONSTANTS
  r1 = r1
  r2 = r2
  a1 = a1
  a2 = a2
  o1 = o1
  o2 = o2
  NoRun = NoRun
  Absent = Absent
  Runs = {r1, r2}
  Accounts = {a1, a2}
  Options = {o1, o2}
  Ballots <- SingleChoice
  Override = Absent
  PageSize = 2
  ChunkSize = 3
  MaxRetries = 1
  MaxVotes = 2
  MaxFaults = 1
SYMMETRY Symmetry
SPECIFICATION Spec
INVARIANTS
  TallyInv
  OwnerNeverUnderflows
  NoVoteSkipped
  DrainedMeansCounted
PROPERTIES
  PublishesPrefixes
