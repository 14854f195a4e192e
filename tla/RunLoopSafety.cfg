SPECIFICATION RunSpec
CONSTANTS
    stereo_flag = TRUE
    main_camera_valid = TRUE
    Fds <- MCFds
    MaxInbox = 2
    SigPipeIgnored = FALSE
    BindMayFail = TRUE
    SIGINT = SIGINT
    SIGTERM = SIGTERM
    Signals <- MCSignals
    RoverPresent = TRUE
    AudioMayFail = TRUE
    hw <- MCHardware
INVARIANTS
    RunTypeOK
    AnnouncedStateHolds
    FreshPipelines
    ReleasedAtExit
    RegularEndIsRoverFailure
PROPERTIES
    SessionSocketReleased
    ImplementsSession
    StopCountsDown
    GoneHeadsetCountsDown
    FitsLifecycle
