\* Two workers on one connection slot that two sessions occupy in turn.
CONSTANTS
    Workers = {w1, w2}
    Fds = {1}
    MaxSession <- MCMaxSession
    UidArgs <- MCUidArgs
    UidWidth <- MCUidWidth
    HeartbeatEnabled = TRUE
    UidModDispatch = FALSE
    NoOne = NoOne
SPECIFICATION Spec
INVARIANT TypeOK BindWinnerHolds
PROPERTY ImplementsUidCas
