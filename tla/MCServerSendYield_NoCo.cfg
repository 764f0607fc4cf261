CONSTANTS
    Cos = {c1, c2, c3}
    MaxSends = 2
    Cap <- MCCap
    EnableCoroutine = FALSE
    SendYieldOpt = {TRUE}
    DispatchMode = 2
    SupportsUnsafeEvents = TRUE
    UserOnClose = FALSE
    HasSendTimeout = FALSE
SPECIFICATION Spec
\* All coroutines have returned, or wait forever, and the worker idles.
CHECK_DEADLOCK FALSE
PROPERTY ParkedEventuallyReturns
