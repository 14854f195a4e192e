SPECIFICATION FairSpec
CONSTANTS
    Names <- MCNames
    Cards <- MCCards
    OwnCard = "own"
    Addresses <- MCAddresses
    CardAddress <- MCCardAddress
    Net <- MCNet
    DemoNet = "home"
    DashedNets = {"away"}
    Headset = "headset"
    Others = {"laptop"}
    ShellMayFail = TRUE
    GuideMayFail = TRUE
INVARIANTS
    TypeOK
    InterfaceIsOwn
    FoundWasHeadset
PROPERTY HeadsetIsFound
