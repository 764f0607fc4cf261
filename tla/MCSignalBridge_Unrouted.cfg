CONSTANTS
    NSig <- MCNSig
    Handlers = {h1}
    Null = Null
    Ign = Ign
    EnableSignalfd = TRUE
    SignalfdCanFail = FALSE
    ReactorAtStart <- MCReactorAtStart
    KqueueBuild <- MCLinuxBuild
    SigChld <- MCSigChld
SPECIFICATION Spec
INVARIANT IssetImpliesRouted
