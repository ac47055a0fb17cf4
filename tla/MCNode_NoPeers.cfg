SPECIFICATION Spec
CONSTANTS
  LeaderLog <- TwoLeaders
  LeaderCommit <- TwoCommits
  SnapshotAt = {3}
  PeerEntries = 0
  MaxEntries = 2
  PageSize = 3
  Guide = "ready.h"
  MaxRestart = 1
INVARIANTS
  TermIsKept
