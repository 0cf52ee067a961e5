SPECIFICATION FairSpec
CONSTANTS
    Workers = {w1, w2}
    MaxTokens = 1
    MaxSecrets = 2
    MaxMishaps = 1
INVARIANTS
    TypeOK
  PROPERTY
    DriftHeals
CHECK_DEADLOCK FALSE
