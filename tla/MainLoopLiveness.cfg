SPECIFICATION FairSpec
CONSTANTS
    stereo_flag = TRUE
    main_camera_valid = FALSE
    Fds <- MCFds
    MaxInbox = 2
    SigPipeIgnored = TRUE
    BindMayFail = FALSE
    SIGINT = SIGINT
    SIGTERM = SIGTERM
    Signals <- MCOneSignal
    RoverPresent = TRUE
    AudioMayFail = FALSE
PROPERTIES
    SignalEndsRun
    GoneHeadsetStopsStreaming
    ShutdownNoticed
