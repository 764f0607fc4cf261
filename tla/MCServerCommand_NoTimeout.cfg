\* Two coroutines of one worker calling command(); the target process may
\* restart while a request is outstanding.
CONSTANTS
    Cos = {c1, c2}
    Names = {n1}
    ProcTypes <- MCProcTypes
    JsonEncodeCanFail = TRUE
SPECIFICATION Spec
PROPERTY CommandReturns
\* After every coroutine has called command() the worker waits for events.
CHECK_DEADLOCK FALSE
