SPECIFICATION FairSpec
CONSTANTS
    stereo_flag = TRUE
    main_camera_valid = TRUE
    Fds <- MCFds
    MaxInbox = 2
    SigPipeIgnored = FALSE
    BindMayFail = TRUE
INVARIANTS
    TypeOK
    FreshPipelines
PROPERTIES
    SignalEndsRun
    GoneHeadsetStopsStreaming
    KeepsSessionUntilFailure
    GoneHeadsetCountsDown
