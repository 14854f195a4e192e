SPECIFICATION FairSpec
CONSTANTS
    stereo_flag = TRUE
    main_camera_valid = FALSE
    Fds <- MCFewFds
    MaxInbox = 1
    SigPipeIgnored = TRUE
    BindMayFail = FALSE
    SIGINT = SIGINT
    SIGTERM = SIGTERM
    Signals = {}
    RoverPresent = FALSE
    AudioMayFail = FALSE
PROPERTY RefusedConnectIsRetried
