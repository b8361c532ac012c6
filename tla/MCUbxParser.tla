---------------------------- MODULE MCUbxParser ----------------------------
(***************************************************************************)
(* Instances of UbxParser: short frames of each kind, one that is longer   *)
(* than the buffer and one that brings the counter of its packet next to   *)
(* the limit, and commands with and without a payload.                     *)
(***************************************************************************)
EXTENDS UbxParser

SampleFrames == {
  [cls |-> UBX_CLASS_ACK, id |-> UBX_ACK_ACK, payload |-> <<UBX_CLASS_CFG, 8>>],
  [cls |-> UBX_CLASS_CFG, id |-> 8, payload |-> <<17, 250, 3, 181, 98, 5>>],
  [cls |-> UBX_CLASS_NAV, id |-> UBX_NAV_PVT, payload |-> <<201, 202, 203, 204>>],
  [cls |-> UBX_CLASS_NAV, id |-> UBX_NAV_HPPOSLLH, payload |-> <<91, 92>>],
  [cls |-> 10, id |-> 4, payload |-> [i \in 1..10 |-> 70 + i]]}

SampleSentences == {<<Dollar, 71, 10>>, <<RtcmPreamble, 0, 1, 5, 6, 7, 8>>}

SampleCommands == {
  [cls |-> UBX_CLASS_CFG, id |-> 8, payload |-> <<>>, startingSpot |-> 0],
  [cls |-> UBX_CLASS_CFG, id |-> 8, payload |-> <<1, 2, 3, 4, 5, 6>>, startingSpot |-> 0],
  [cls |-> 10, id |-> 4, payload |-> <<>>, startingSpot |-> 1],
  [cls |-> UBX_CLASS_NAV, id |-> UBX_NAV_HPPOSLLH, payload |-> <<>>,
   startingSpot |-> Keep]}

=============================================================================
