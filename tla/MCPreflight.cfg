SPECIFICATION FairSpec
CONSTANTS
  ServerMajors <- MCServerMajors
  ClientMajors <- MCClientMajors
  MaxProblems = 2
  MaxOutages = 1
INVARIANTS PassMeansReady NoMissingDatabase
PROPERTIES CreatedAfterChecks NamedMajorFits AdviceLeadsToPass
CHECK_DEADLOCK FALSE
