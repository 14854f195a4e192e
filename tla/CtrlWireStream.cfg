SPECIFICATION FairSpec
CONSTANTS
    MsgLen = 11
    CmdEnd = 8
    MaxPending = 3
INVARIANTS
    TypeOK
PROPERTIES
    ImplementsChannel
    HeadsetIsHeard
