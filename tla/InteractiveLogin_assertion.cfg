SPECIFICATION LoginSpec
CONSTANTS
    Expiries <- MCExpiries
    Fallback = 15
    MaxLifetime = 15
    Lifetime = 5
    MaxDelay = 2
INVARIANT AssertionOutlivesPollLoop
