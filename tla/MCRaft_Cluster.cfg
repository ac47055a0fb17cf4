SPECIFICATION SpecCluster
CONSTANTS
  None = None
  Voter = {n1, n2, n3}
  Learner = {}
  Value = {}
  ReadCtx = {c1, c2}
  Campaigner = {}
  ElectionTick = 1
  HeartbeatTick = 1
  MaxSize = 1
  MaxInflight = 1
  PreVote = FALSE
  CheckQuorum = FALSE
  ReadOnlyOption = "Safe"
  DisableProposalForwarding = FALSE
  Batching = FALSE
  MaxLog = 0
  Budget <- ClusterBudget
SYMMETRY Symmetry
INVARIANTS
  TypeOK
  NoPanic
  ElectionSafety
  LogMatching
  StateMachineSafety
  LeaderCompleteness
  CommitIsDurable
  ReadIsFresh
PROPERTIES
  DurableStateAdvances
CHECK_DEADLOCK FALSE
