SPECIFICATION FairSpec
CONSTANTS
  Candidates = 2
  HistoryLimit = 1
  MaxJobs = 2
  MaxWork = 1
  MaxPolls = 1
  MaxTips = 2
  MaxRounds = 2
INVARIANTS TypeOK CandidatesAreOfThisTree WaitsForSomething ProgressIsAccepted
PROPERTIES ArrivalsFitTheScreen ProgressGrows ContractKept JobsEnd NothingMadeIsLost
CHECK_DEADLOCK FALSE
