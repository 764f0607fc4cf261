\* serv->task() may fail (a task pipe is full) for any task of a batch.
CONSTANTS
    Coroutines = {c1}
    MaxTaskId <- MCMaxTaskId
    MaxBatch <- MCMaxBatch
    DispatchCanFail = TRUE
    NoCo = NoCo
    Unset = Unset
    Fail = Fail
SPECIFICATION Spec
CHECK_DEADLOCK FALSE
INVARIANT ResultMatchesTask
