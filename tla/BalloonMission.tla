---------------------------- MODULE BalloonMission ----------------------------
(***************************************************************************)
(* What the mission program promises, without clocks, radios or stages: a  *)
(* flight has phases that follow each other, and at most one report at a   *)
(* time is opened, loaded into the modem and closed.  The phase in which a *)
(* report is loaded is the phase it is sent in, and the program goes to    *)
(* sleep with no report open.  The phases are the modes documented in      *)
(* src/FlightParameters.h, with "off" for the sleep on an empty battery.   *)
(***************************************************************************)
EXTENDS Naturals

VARIABLES phase, report, loadedAloft,
          resets      \* how often the power was lost: only that ends a flight

mission == <<phase, report, loadedAloft, resets>>

Phases == {"lab", "pad", "flight", "landed", "off"}

MissionInit ==
  phase = "lab" /\ report = "none" /\ loadedAloft = FALSE /\ resets = 0

\* Launch control primes the launch and calls it off; an open report waits.
OnGround(to) ==
  /\ phase \in {"lab", "pad"} /\ phase' = to
  /\ UNCHANGED <<report, loadedAloft, resets>>

Prime   == OnGround("pad")
CallOff == OnGround("lab")

\* The flight goes forward between two reports.
Forward(from, to) ==
  /\ phase = from /\ report = "none"
  /\ phase' = to
  /\ UNCHANGED <<report, loadedAloft, resets>>

Open  == /\ phase \in {"pad", "flight", "landed"} /\ report = "none"
         /\ report' = "open"
         /\ UNCHANGED <<phase, loadedAloft, resets>>

Load  == /\ phase \in {"pad", "flight", "landed"} /\ report = "open"
         /\ report' = "loaded" /\ loadedAloft' = (phase = "flight")
         /\ UNCHANGED <<phase, resets>>

\* A report ends sent or given up; only one that is loaded can be sent.
Close == /\ phase \in {"pad", "flight", "landed"} /\ report # "none"
         /\ report' = "none" /\ loadedAloft' = FALSE
         /\ UNCHANGED <<phase, resets>>

Reset == /\ resets' = resets + 1
         /\ phase' = "lab" /\ report' = "none" /\ loadedAloft' = FALSE

MissionNext ==
  \/ Prime \/ CallOff \/ Open \/ Load \/ Close \/ Reset
  \/ Forward("pad", "flight") \/ Forward("flight", "landed")
  \/ Forward("landed", "off")

MissionSpec == MissionInit /\ [][MissionNext]_mission

=============================================================================
