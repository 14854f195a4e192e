SPECIFICATION Spec
CONSTANTS
    Nodes <- MCNodes
    LinkTo <- MCLinkTo
    Cards <- MCCards
    LeftNames <- MCLeftNames
    RightNames <- MCRightNames
    MainNames <- MCMainNames
    stereo_flag = TRUE
    MaxChanges = 2
INVARIANTS
    TypeOK
    EyesAreDistinct
    MainIsNoEye
    ReadyMeansSources
    EyesInOrder
