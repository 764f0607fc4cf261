\* Every serv->task() call succeeds: the task pipes never fill up.
CONSTANTS
    Coroutines = {c1, c2}
    MaxTaskId <- MCMaxTaskId
    MaxBatch <- MCMaxBatch
    DispatchCanFail = FALSE
    NoCo = NoCo
    Unset = Unset
    Fail = Fail
SYMMETRY Symmetry
SPECIFICATION Spec
CHECK_DEADLOCK FALSE
INVARIANT MapEntriesLive
INVARIANT ResultMatchesTask
INVARIANT CoDeliveredOnce
INVARIANT CallbackRunsOnce
