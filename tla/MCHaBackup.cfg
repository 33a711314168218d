CONSTANTS
  Brokers <- MCBrokers
  MaxRestarts <- MCMaxRestarts
SPECIFICATION Spec
INVARIANT PrimaryNotReplicating
PROPERTY ClusterSpec
CHECK_DEADLOCK FALSE
