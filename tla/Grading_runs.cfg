SPECIFICATION FairSpec
CONSTANTS
  first = first
  second = second
  attempt = attempt
  Evals <- MCEvals
  Calls <- MCCalls
  Licensed <- MCLicensed
  Hardened <- MCHardened
  Seeds = {first, second}
  Graded = {attempt}
  Campaigns <- MCCampaigns
  MaxFaults = 2
  MaxKills = 1
INVARIANT NothingLeft
INVARIANT CandidateGoneFirst
INVARIANT SeedRunsOnce
PROPERTY MemoSpec
PROPERTY EvaluationsEnd
