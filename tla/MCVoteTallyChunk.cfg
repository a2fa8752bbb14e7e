CONSTANTS
  r1 = r1
  r2 = r2
  a1 = a1
  a2 = a2
  o1 = o1
  o2 = o2
  NoRun = NoRun
  Absent = Absent
  Runs = {r1}
  Accounts = {a1}
  Options = {o1}
  Ballots = {{o1}}
  Override = Absent
  PageSize = 1
  ChunkSize = 1
  MaxRetries = 0
  MaxVotes = 2
  MaxFaults = 0
SPECIFICATION Spec
INVARIANTS
  TallyIsPrefix
