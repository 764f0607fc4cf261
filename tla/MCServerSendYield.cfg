CONSTANTS
    Cos = {c1, c2, c3}
    MaxSends = 3
    Cap <- MCCap
    EnableCoroutine = TRUE
    SendYieldOpt = {}
    DispatchMode = 2
    SupportsUnsafeEvents = TRUE
    UserOnClose = FALSE
    HasSendTimeout = TRUE
SPECIFICATION Spec
\* All coroutines have returned and the worker idles.
CHECK_DEADLOCK FALSE
INVARIANT TypeOK WaitersTracked
PROPERTY ParkedEventuallyReturns
