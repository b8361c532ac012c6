----------------------------- MODULE MCUbxDriver -----------------------------
(***************************************************************************)
(* Instances of UbxDriver: one operation of each kind.                     *)
(***************************************************************************)
EXTENDS UbxDriver

SampleOps == {"getLatitude", "checkUblox", "setDynamicModel", "setPortOutput",
              "setNavigationFrequency", "factoryDefault",
              "enableAutoPVT", "assumeAutoPVT", "hardReset"}

=============================================================================
