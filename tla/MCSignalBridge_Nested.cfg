CONSTANTS
    NSig <- MCNSig
    Handlers = {h1}
    Null = Null
    Ign = Ign
    EnableSignalfd = FALSE
    SignalfdCanFail = FALSE
    ReactorAtStart <- MCNoReactorAtStart
    KqueueBuild <- MCLinuxBuild
    SigChld <- MCSigChld
SPECIFICATION Spec
INVARIANT NestedDiscardOnlySame
