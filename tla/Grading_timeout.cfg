SPECIFICATION FairSpec
CONSTANTS
  first = first
  second = second
  attempt = attempt
  Evals <- MCEvals
  Calls <- MCCalls
  Licensed <- MCLicensed
  Hardened <- MCHardened
  Seeds = {first, second}
  Graded = {attempt}
  Campaigns <- MCCampaigns
  MaxFaults = 0
  MaxKills = 0
INVARIANT GradingLeavesNoCandidate
