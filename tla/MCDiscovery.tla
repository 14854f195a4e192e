---------------------------- MODULE MCDiscovery ----------------------------
(* Discovery with the constants of the .cfg files: two interfaces; a network
   with two addresses, which the robot and the demonstration programs scan,
   and one behind an interface with a dash in its name. *)
EXTENDS Discovery

MCNames == {"wlan0", "br-0"}
MCCards == {"own", "other"}
MCAddresses == {"home1", "home2", "away1"}
MCCardAddress == [c \in MCCards |-> IF c = "own" THEN "home1" ELSE "away1"]
MCNet == [a \in MCAddresses |-> IF a = "away1" THEN "away" ELSE "home"]
============================================================================
