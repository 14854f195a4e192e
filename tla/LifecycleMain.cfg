SPECIFICATION FairSpec
CONSTANTS
    SIGINT = SIGINT
    SIGTERM = SIGTERM
    Signals <- MCSignals
    SigPipeIgnored = FALSE
    AudioMayFail = TRUE
INVARIANTS
    TypeOK
    ThreadHasItsRover
    JoinsOnlyAfterStop
    CallsWhatWasMade
    OptionsAreReal
    SuccessMeansAllDown
PROPERTIES
    ShutdownOnlyGoesOn
    SignalEndsProcess
    GracefulShutdown
