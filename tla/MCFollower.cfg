SPECIFICATION Spec
CONSTANTS
  Leader = {l1, l2}
  Follower = {f}
  Cluster = {c}
  MaxEdits = 2
  MaxFaults = 1
INVARIANT
  QuietIsFollowed
PROPERTY
  Settles
CHECK_DEADLOCK FALSE
