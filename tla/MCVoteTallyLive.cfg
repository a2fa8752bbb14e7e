CONSTANTS
  r1 = r1
  r2 = r2
  a1 = a1
  a2 = a2
  o1 = o1
  o2 = o2
  NoRun = NoRun
  Absent = Absent
  Runs = {r1, r2}
  Accounts = {a1}
  Options = {o1}
  Ballots = {{o1}}
  Override = 1
  PageSize = 1
  ChunkSize = 3
  MaxRetries = 0
  MaxVotes = 2
  MaxFaults = 1
SPECIFICATION FairSpec
PROPERTIES
  CursorNeverRewinds
  VotesEventuallyCounted
