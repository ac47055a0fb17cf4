CONSTANTS
  n1 = n1
  n2 = n2
  n3 = n3
  n4 = n4
  Server = {n1, n2, n3, n4}
  None = None
  NoChange = NoChange
  FirstLeader = n1
  Voters = {n1, n2, n3}
  Learners = {}
  Proposals <- Shrink
  MaxTerm = 2
  MaxLog = 4
  Restarting = {n2}
SPECIFICATION Spec
INVARIANTS TypeOK StateMachineSafety OneLeaderPerTerm OneChangePending ConfigAgrees
CHECK_DEADLOCK FALSE
