SPECIFICATION Spec
CONSTANTS
  Instances = {0, 1}
  MAX_NODE_ID = 1
  MAX_SEQUENCE = 1
  BeforeEpoch = 0
  MaxTime = 1
  MaxBoots = 2
  MaxIds = 3
INVARIANTS
  NeverIssuesFromAnEarlierMillisecond
