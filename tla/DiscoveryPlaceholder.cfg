SPECIFICATION Spec
CONSTANTS
    Names <- MCNames
    Cards <- MCCards
    OwnCard = "own"
    Addresses <- MCAddresses
    CardAddress <- MCCardAddress
    Net <- MCNet
    DemoNet = "home"
    DashedNets = {"away"}
    Headset = "headset"
    Others = {"laptop"}
    ShellMayFail = TRUE
    GuideMayFail = TRUE
INVARIANT FoundIsAnAddress
