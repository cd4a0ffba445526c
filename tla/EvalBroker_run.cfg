CONSTANTS
  a1 = a1  a2 = a2
  seed = seed  c1 = c1
  n1 = n1  n2 = n2
  Agents <- MCAgents
  Commits <- MCCommits
  Seed = seed
  Nonces <- MCNonces
  MaybeInvalid <- MCMaybeInvalid
  Terminal = {"scored"}
  MaxAttempts = 2
  MaxDrain = 2
  MaxResumes = 1
  NoAgent = NoAgent  NoNonce = NoNonce
  NoCommit = NoCommit  NoDecision = NoDecision
SPECIFICATION FairSpec
INVARIANT NoRequestLost
INVARIANT WaitsForOwn
INVARIANT RejectedConsumesNothing
PROPERTY LedgerSpec
PROPERTY RequestsAreAnswered
PROPERTY ShimsReturn
