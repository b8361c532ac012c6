--------------------------- MODULE MCFlightControl ---------------------------
(***************************************************************************)
(* Constants for model checking FlightControl.  A tick stands for 15 s or  *)
(* more; the proportions that matter are kept: a check every tick, periods *)
(* longer than that, a pod timeout of one tick, a send timeout within the  *)
(* period.  Altitudes are counted in steps: the pad at 1, the trigger      *)
(* between 1 and 2, the ceiling between 2 and 3.                           *)
(***************************************************************************)
EXTENDS FlightRefinement

NoCommands      == {}
ModeCommands    == {"FLIGHT_MODE_ON", "FLIGHT_MODE_OFF", "TRANSPERIOD", "MISSIONID"}
LiveCommands    == {"FLIGHT_MODE_ON", "FLIGHT_MODE_OFF", "GPS_ON", "GPS_OFF"}
EveryCommand    == AllCommands
Reliable        == {TRUE}
Lossy           == BOOLEAN
=============================================================================
