SPECIFICATION SpecFlow
CONSTANTS
  None = None
  Voter = {n1, n2}
  Learner = {}
  Value = {v1}
  ReadCtx = {}
  Campaigner = {}
  ElectionTick = 1
  HeartbeatTick = 1
  MaxSize = 2
  MaxInflight = 2
  PreVote = FALSE
  CheckQuorum = FALSE
  ReadOnlyOption = "Safe"
  DisableProposalForwarding = FALSE
  Batching = FALSE
  MaxLog = 3
  Budget <- FlowBudget
SYMMETRY Symmetry
INVARIANTS
  NoPanic
  MatchIsDurable
  ProgressConsistent
PROPERTIES
  TransfereeIsUpToDate
CHECK_DEADLOCK FALSE
