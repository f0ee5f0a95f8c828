SPECIFICATION LoginFairSpec
CONSTANTS
    Expiries <- MCExpiries
    Fallback = 15
    MaxLifetime = 15
    Lifetime = 5
    MaxDelay = 2
INVARIANTS PartsAgree NoSecondLoginForNothing OnlyReachableUsers BarredClientTriesEveryGrant AssertionLastsWithTheCode
PROPERTY EveryLoginEnds
