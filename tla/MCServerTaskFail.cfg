\* serv->task() may fail (a task pipe is full) in every task API; batches of up to two tasks on one coroutine.
CONSTANTS
    Coroutines = {c1}
    MaxTaskId <- MCMaxTaskId
    MaxBatch <- MCMaxBatch
    DispatchCanFail = TRUE
    NoCo = NoCo
    Unset = Unset
    Fail = Fail
SPECIFICATION Spec
CHECK_DEADLOCK FALSE
INVARIANT BatchResultsOwn
