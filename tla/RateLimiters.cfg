\* A window of three seconds and a bucket of two tokens and a half, over
\* more than two windows.
CONSTANTS
    Limit = 2
    WindowSeconds = 3
    Capacity = 5
    TokenCost = 2
    JitterMin = 1
    JitterMax = 2
    MaxTime = 8
SPECIFICATION LimiterSpec
INVARIANTS
    SpanBound
    BurstBound
    RetryAfterSuffices
