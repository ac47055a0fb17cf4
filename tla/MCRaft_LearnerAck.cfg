SPECIFICATION SpecRead
CONSTANTS
  None = None
  Voter = {n1, n2, n3}
  Learner = {n4}
  Value = {}
  ReadCtx = {c1}
  Campaigner = {}
  ElectionTick = 1
  HeartbeatTick = 1
  MaxSize = 1
  MaxInflight = 1
  PreVote = FALSE
  CheckQuorum = FALSE
  ReadOnlyOption = "Safe"
  DisableProposalForwarding = FALSE
  Batching = FALSE
  MaxLog = 0
  Budget <- ReadBudget
SYMMETRY Symmetry
INVARIANTS
  ReadIsFresh
CHECK_DEADLOCK FALSE
