--------------------------- MODULE MCVideoDevices ---------------------------
(* VideoDevices with the constants of the .cfg files: two cameras below     *)
(* /dev/video10 and one at it, and two links to the second camera, which    *)
(* both stay in the list while it is out.                                   *)
EXTENDS VideoDevices, TLC

MCNodes == {1, 2, 3, 4, 10}
MCLinkTo == 1 :> 1 @@ 2 :> 2 @@ 3 :> 2 @@ 4 :> 2 @@ 10 :> 10

\* As in the shipped configurations, one name serves for either eye.
MCCards == {"Stereo Vision 1", "Video Capture 5", "USB Video"}
MCLeftNames == {"Stereo Vision 1", "Video Capture 5"}
MCRightNames == {"Video Capture 5"}
MCMainNames == {"USB Video"}
=============================================================================
