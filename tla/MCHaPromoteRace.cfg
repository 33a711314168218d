CONSTANTS
  Brokers <- MCBrokers
  MaxRestarts <- MCMaxRestarts
SPECIFICATION Spec
PROPERTY NoJoiningPromotionOverReady
CHECK_DEADLOCK FALSE
