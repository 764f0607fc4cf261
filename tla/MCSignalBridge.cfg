CONSTANTS
    NSig <- MCNSig
    Handlers = {h1}
    Null = Null
    Ign = Ign
    EnableSignalfd = TRUE
    SignalfdCanFail = TRUE
    ReactorAtStart <- MCNoReactorAtStart
    KqueueBuild <- MCAnyBuild
    SigChld <- MCSigChld
SPECIFICATION Spec
INVARIANT DispatchedOnce 
