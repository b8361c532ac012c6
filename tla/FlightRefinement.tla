-------------------------- MODULE FlightRefinement --------------------------
(***************************************************************************)
(* The mission program implements the promise of BalloonMission: the phase *)
(* is the mode, and the state of the report is read off the flags of class *)
(* SBDmessage.                                                             *)
(***************************************************************************)
EXTENDS FlightControl

Phase == IF pc = "off" THEN "off"
         ELSE IF mode = 0 THEN "lab"
         ELSE IF mode = 1 THEN "pad"
         ELSE IF mode = 2 THEN "flight"
         ELSE "landed"

Report == IF ~attemptingSend THEN "none"
          ELSE IF messageLoaded THEN "loaded"
          ELSE "open"

Mission == INSTANCE BalloonMission
             WITH phase <- Phase, report <- Report,
                  loadedAloft <- (messageLoaded /\ mode = 2)

\* Every behaviour of the mission program is one BalloonMission allows: the
\* mode and the report's flags never change in a step the promise forbids.
ImplementsMission == Mission!MissionSpec

=============================================================================
