CONSTANTS
    NSig <- MCNSig
    Handlers = {h1}
    Null = Null
    Ign = Ign
    EnableSignalfd = FALSE
    SignalfdCanFail = FALSE
    ReactorAtStart <- MCReactorAtStart
    KqueueBuild <- MCLinuxBuild
    SigChld <- MCSigChld
SPECIFICATION Spec
PROPERTY RaiseDispatched
