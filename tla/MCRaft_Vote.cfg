SPECIFICATION SpecVote
CONSTANTS
  None = None
  Voter = {n1, n2, n3}
  Learner = {}
  Value = {}
  ReadCtx = {}
  Campaigner = {n1, n2, n3}
  ElectionTick = 2
  HeartbeatTick = 1
  MaxSize = 1
  MaxInflight = 1
  PreVote = TRUE
  CheckQuorum = TRUE
  ReadOnlyOption = "Safe"
  DisableProposalForwarding = FALSE
  Batching = FALSE
  MaxLog = 0
  Budget <- VoteBudget
SYMMETRY Symmetry
INVARIANTS
  NoPanic
  VoteAfterPreVote
  ActiveWasHeard
CHECK_DEADLOCK FALSE
