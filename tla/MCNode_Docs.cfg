SPECIFICATION Spec
CONSTANTS
  LeaderLog <- TwoLeaders
  LeaderCommit <- TwoCommits
  SnapshotAt = {3}
  PeerEntries = 1
  MaxEntries = 2
  PageSize = 3
  Guide = "index.md"
  MaxRestart = 1
INVARIANTS
  StorageIsLoadable
