SPECIFICATION Spec
CONSTANTS
  LeaderTerms <- Elected
  FollowerTerms <- Diverged
  LeaderTerm = 3
  Committed = 1
  MaxInflight = 2
  MaxSize = 1
  ProposalSize = 2
  MaxLog = 5
  CompactFrom = 5
  Capacity = 1
INVARIANTS
  NoPanic
  RingIsQueue
  MatchIsHeld
PROPERTIES
  FollowerCatchesUp
