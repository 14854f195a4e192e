SPECIFICATION Spec
CONSTANTS
    SIGINT = SIGINT
    SIGTERM = SIGTERM
    Signals <- MCSignals
    SigPipeIgnored = FALSE
    AudioMayFail = TRUE
INVARIANT ShutDownIsTrue
