SPECIFICATION Spec
CONSTANTS
  LeaderLog <- TwoLeaders
  LeaderCommit <- TwoCommits
  SnapshotAt = {2}
  PeerEntries = 1
  MaxEntries = 2
  PageSize = 3
  Guide = "ready.h"
  MaxRestart = 1
INVARIANTS
  NoPanic
