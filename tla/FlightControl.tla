---------------------------- MODULE FlightControl ----------------------------
(***************************************************************************)
(* The mission program of the Command Module (prev_version/old_main.cpp)   *)
(* with the sequences it calls: the SBD report (commandSequences.cpp), the *)
(* mode changes and the launch-control commands (launchControlComm.cpp)    *)
(* and what it sees of the NAL 9602 modem (NAL9602.cpp).                   *)
(*                                                                         *)
(* One main thread runs everything, so a step of the model is one numbered *)
(* stage of a loop iteration and pc names the stage that runs next.  Time, *)
(* the balloon and the supply voltage change between any two stages.       *)
(* Time is counted in ticks; every timer stops at MaxClock, a value above  *)
(* all the limits it is compared with.                                     *)
(***************************************************************************)
EXTENDS Integers

CONSTANTS
  PrePeriod,        (* PRE_TRANS_PERIOD, launch pad reporting period         *)
  PostPeriod,       (* POST_TRANS_PERIOD, landed reporting period            *)
  TransPeriods,     (* the in-flight periods TRANSPERIOD accepts             *)
  DefaultPeriod,    (* transPeriod after a reset                             *)
  CheckPeriod,      (* the 15 s between altitude, landing, battery checks    *)
  MaxClock,         (* bound: the value at which every timer stops counting  *)
  TriggerHeights,   (* the heights TRIGGERHEIGHT accepts                     *)
  DefaultTrigger,   (* triggerHeight after a reset                           *)
  Ceiling,          (* 5000 m: no landing is believed at or above it         *)
  PadAltitudes, AloftAltitudes, DownAltitudes,
                    (* the altitudes a fix can give in each part of a flight *)
  MissionIds,       (* the identifiers MISSIONID accepts                     *)
  Commands,         (* the commands launch control may send                  *)
  ModemReplies,     (* may an "OK" get lost?  {TRUE} or BOOLEAN              *)
  MaxResets         (* bound on the number of power cycles                   *)

NoAltitude == -999          \* GPSCoordinates::getAltitude without valid data

Altitudes == PadAltitudes \cup AloftAltitudes \cup DownAltitudes

AllCommands == {"GPS_ON", "GPS_OFF", "SATLINK_ON", "SATLINK_OFF",
                "TRIGGERHEIGHT", "GPSDATA", "MISSIONID", "FLIGHT_MODE_ON",
                "FLIGHT_MODE_OFF", "TRANSPERIOD"}

ASSUME PeriodAssumption ==
  /\ PrePeriod \in Nat \ {0} /\ PostPeriod \in Nat \ {0}
  /\ CheckPeriod \in Nat \ {0}
  /\ TransPeriods \subseteq Nat \ {0} /\ DefaultPeriod \in TransPeriods
  /\ MaxClock \in Nat
  /\ \A p \in TransPeriods \cup {PrePeriod, PostPeriod, CheckPeriod} : MaxClock > p

ASSUME SettingAssumption ==
  /\ TriggerHeights \subseteq Int /\ DefaultTrigger \in TriggerHeights
  /\ Ceiling \in Int /\ Altitudes \subseteq Int
  /\ MissionIds \subseteq 1..32767
  /\ Commands \subseteq AllCommands
  /\ ModemReplies \subseteq BOOLEAN
  /\ MaxResets \in Nat

VARIABLES
  pc,                   \* the stage of main() that runs next
  \* main() and struct FlightParameters
  bt_connected, mode, transPeriod, triggerHeight, groundAltitude,
  landedIndicator, gps_success, timeSinceTrans, checkTime,
  \* class SBDmessage
  missionID, attemptingSend, requestedPodData, updatedGPS, doneLoading,
  messageLoaded, timeSinceSbdRequest, timeSincePodRequest,
  sbdPeriod,            \* sbdTransTimeout / 0.9 and sbdPodTimeout / 0.2
  transmit_success,     \* of the current call of send_SBD_message
  \* class NAL9602 and the modem behind it
  coord,                \* the last position: fix, altitude(), |v| < 1 m/s
  gpsStatus, iridiumStatus,
  gpsPower,             \* is the receiver really on?
  message,              \* in the modem: signed mission ID, and whether it
                        \* was written during the open report (an observer)
  modemReply,           \* its answer to the AT+SBDI of this call
  \* the world
  balloon, resets

mainVars == <<bt_connected, mode, transPeriod, triggerHeight, groundAltitude,
              landedIndicator, gps_success>>
clocks   == <<timeSinceTrans, checkTime, timeSinceSbdRequest, timeSincePodRequest>>
sbdFlags == <<attemptingSend, requestedPodData, updatedGPS, doneLoading, messageLoaded>>
sbdVars  == <<missionID, sbdPeriod, transmit_success, message, modemReply>>
modemPower == <<gpsStatus, iridiumStatus, gpsPower>>
world    == <<balloon, resets>>
vars == <<pc, mainVars, clocks, sbdFlags, sbdVars, modemPower, coord, world>>

NoMessage == [id |-> 0, own |-> FALSE]
NoFix == [fix |-> FALSE, alt |-> NoAltitude, slow |-> TRUE]

(***************************************************************************)
(* What a reset leaves in RAM.  gps_success is an uninitialised local.     *)
(***************************************************************************)
Init ==
  /\ pc = "bluetooth" /\ bt_connected = FALSE
  /\ mode = 0 /\ transPeriod = DefaultPeriod /\ triggerHeight = DefaultTrigger
  /\ groundAltitude = 0 /\ landedIndicator = 0 /\ gps_success \in BOOLEAN
  /\ timeSinceTrans = 0 /\ checkTime = 0
  /\ timeSinceSbdRequest = 0 /\ timeSincePodRequest = 0
  /\ missionID = 0 /\ sbdPeriod = 0
  /\ attemptingSend = FALSE /\ requestedPodData = FALSE /\ updatedGPS = FALSE
  /\ doneLoading = FALSE /\ messageLoaded = FALSE /\ transmit_success = FALSE
  /\ coord = NoFix
  /\ gpsStatus = FALSE /\ iridiumStatus = FALSE /\ gpsPower \in BOOLEAN
  /\ message = NoMessage /\ modemReply = "none"
  /\ balloon = "pad" /\ resets = 0

----------------------------------------------------------------------------
(***************************************************************************)
(* The modem: NAL9602::gpsUpdate, gpsOn, gpsOff, satLinkOn, satLinkOff.    *)
(* gpsUpdate asks for the position and then for the velocity; a velocity   *)
(* that does not come leaves the old one beside a new position.  A fix may *)
(* come with an angle or a height out of range: altitude() is then -999.   *)
(***************************************************************************)
AltitudesNow == CASE balloon = "pad"   -> PadAltitudes
                  [] balloon = "aloft" -> AloftAltitudes
                  [] balloon = "down"  -> DownAltitudes

SlowNow == IF balloon = "aloft" THEN BOOLEAN ELSE {TRUE}

Samples == [fix : BOOLEAN, alt : Altitudes \cup {NoAltitude}, slow : BOOLEAN]

GpsOutcomes ==
  {s \in Samples :
     /\ s.slow \in SlowNow \cup {coord.slow}
     /\ s.alt # NoAltitude => s.fix /\ s.alt \in AltitudesNow
     /\ s.fix => gpsPower}

GpsUpdate(s) == coord' = s

GpsOn ==
  \E ok \in ModemReplies : /\ gpsStatus' = ok
                           /\ gpsPower' \in {TRUE, ok \/ gpsPower}

GpsOff ==
  /\ \E ok \in ModemReplies : /\ gpsStatus' = ~ok
                              /\ gpsPower' \in {FALSE, ~ok /\ gpsPower}
  /\ coord' = [fix |-> FALSE, alt |-> NoAltitude, slow |-> coord.slow]

SatLinkOn  == iridiumStatus' \in ModemReplies
SatLinkOff == \E ok \in ModemReplies : iridiumStatus' = ~ok

----------------------------------------------------------------------------
(***************************************************************************)
(* Mode changes.  changeModeToPending first powers the radios and then     *)
(* waits, without a limit, for a fix (stage "acquire").                    *)
(***************************************************************************)
ChangeModeToLab == mode' = 0

PrimeRadios ==
  /\ IF gpsStatus THEN UNCHANGED <<gpsStatus, gpsPower>> ELSE GpsOn
  /\ IF iridiumStatus THEN UNCHANGED iridiumStatus ELSE SatLinkOn
  /\ pc' = "acquire"

EnterPending ==
  /\ mode' = 1
  /\ sbdPeriod' = PrePeriod
  /\ timeSinceTrans' = 0 /\ checkTime' = 0

ChangeModeToFlight == mode' = 2 /\ sbdPeriod' = transPeriod

\* Mutant: the landed timeouts are forgotten.
LandKeepingTimeouts == mode' = 3 /\ UNCHANGED sbdPeriod

ChangeModeToLanded == mode' = 3 /\ sbdPeriod' = PostPeriod

----------------------------------------------------------------------------
(***************************************************************************)
(* Start-up: wait for Bluetooth, set the clock, then either wait for       *)
(* commands or, without Bluetooth, prime the launch with defaults.         *)
(* savedFlightParameters is never set, so the wait for Bluetooth starts    *)
(* again every minute: that repetition changes nothing.  Launch control is *)
(* on the ground beside the pad.                                           *)
(***************************************************************************)
BluetoothFound ==
  /\ pc = "bluetooth" /\ balloon = "pad"
  /\ bt_connected' = TRUE
  /\ pc' = "syncTime"
  /\ UNCHANGED <<mode, transPeriod, triggerHeight, groundAltitude,
                 landedIndicator, gps_success, clocks, sbdFlags, sbdVars,
                 modemPower, coord, world>>

ClockSynchronised ==
  /\ pc = "syncTime"
  /\ IF bt_connected
     THEN pc' = "command" /\ UNCHANGED <<missionID, modemPower>>
     ELSE missionID' = 1 /\ PrimeRadios
  /\ UNCHANGED <<mainVars, clocks, sbdFlags, sbdPeriod, transmit_success,
                 message, modemReply, coord, world>>

Acquire ==
  /\ pc = "acquire"
  /\ \E s \in GpsOutcomes :
       /\ GpsUpdate(s)
       /\ IF s.fix
          THEN /\ EnterPending
               /\ groundAltitude' = s.alt
               /\ pc' = IF bt_connected THEN "lineEnd" ELSE "top"
          ELSE UNCHANGED <<pc, mode, groundAltitude, sbdPeriod,
                           timeSinceTrans, checkTime>>
  /\ UNCHANGED <<bt_connected, transPeriod, triggerHeight, landedIndicator, gps_success,
                 timeSinceSbdRequest, timeSincePodRequest, sbdFlags, missionID,
                 transmit_success, message, modemReply, modemPower, world>>

----------------------------------------------------------------------------
(***************************************************************************)
(* The head of an iteration: is a report due, or already under way?  The   *)
(* first call of send_SBD_message starts its clock and asks the pods.      *)
(***************************************************************************)
ReportPeriod == CASE mode = 1 -> PrePeriod
                  [] mode = 2 -> transPeriod
                  [] OTHER    -> PostPeriod

\* Mutant: lab mode reports as well.
ReportDueInLab == timeSinceTrans >= 0 \/ attemptingSend

\* Mutant: "and" for "or": a report must be both due and under way.
ReportDueAndOpen == mode # 0 /\ timeSinceTrans > ReportPeriod /\ attemptingSend

ReportDue == mode # 0 /\ (timeSinceTrans > ReportPeriod \/ attemptingSend)

\* Mutant: the period is not restarted when a report begins.
StartClocksKeepingPeriod ==
  /\ UNCHANGED timeSinceTrans
  /\ timeSinceSbdRequest' = IF attemptingSend THEN timeSinceSbdRequest ELSE 0
  /\ timeSincePodRequest' = IF requestedPodData THEN timeSincePodRequest ELSE 0

StartClocks ==
  /\ timeSinceTrans' = IF attemptingSend THEN timeSinceTrans ELSE 0
  /\ timeSinceSbdRequest' = IF attemptingSend THEN timeSinceSbdRequest ELSE 0
  /\ timeSincePodRequest' = IF requestedPodData THEN timeSincePodRequest ELSE 0

BeginReport ==
  /\ pc = "top" /\ ReportDue
  /\ pc' = "updateGPS"
  /\ StartClocks
  /\ attemptingSend' = TRUE /\ requestedPodData' = TRUE
  /\ UNCHANGED <<mainVars, checkTime, updatedGPS, doneLoading, messageLoaded,
                 sbdVars, modemPower, coord, world>>

NoReport ==
  /\ pc = "top" /\ ~ReportDue
  /\ pc' = IF mode = 0 THEN "command" ELSE "check"
  /\ UNCHANGED <<mainVars, clocks, sbdFlags, sbdVars, modemPower, coord, world>>

\* Step 2 of send_SBD_message.
UpdateGPS ==
  /\ pc = "updateGPS"
  /\ pc' = "loadPods"
  /\ IF updatedGPS
     THEN UNCHANGED <<updatedGPS, coord>>
     ELSE \E s \in GpsOutcomes : GpsUpdate(s) /\ updatedGPS' = s.fix
  /\ UNCHANGED <<mainVars, clocks, attemptingSend, requestedPodData, doneLoading,
                 messageLoaded, sbdVars, modemPower, world>>

\* Step 3: the pods' data are taken when complete or after sbdPodTimeout.
LoadPods ==
  /\ pc = "loadPods"
  /\ pc' = "setMessage"
  /\ \E is_all_data_updated \in BOOLEAN :
       doneLoading' = (doneLoading \/ is_all_data_updated
                         \/ 10 * timeSincePodRequest > 2 * sbdPeriod)
  /\ UNCHANGED <<mainVars, clocks, attemptingSend, requestedPodData, updatedGPS,
                 messageLoaded, sbdVars, modemPower, coord, world>>

SignedMissionID == IF mode = 2 THEN missionID ELSE -missionID

ReadyToLoad == doneLoading /\ updatedGPS /\ ~messageLoaded

\* NAL9602::setMessage: what the assembled message says.
AssembledMessage == [id |-> SignedMissionID, own |-> TRUE]

(***************************************************************************)
(* Step 4: the message is written to the modem.  The modem's answer to     *)
(* AT+SBDWB may not come; err, never initialised, is then 0 or not         *)
(* whatever the modem has stored.  Nothing ever clears what it holds.      *)
(***************************************************************************)
SetMessage ==
  /\ pc = "setMessage"
  /\ pc' = "transmit"
  /\ IF ReadyToLoad
     THEN /\ message' \in {message, AssembledMessage}
          /\ messageLoaded' \in BOOLEAN
     ELSE UNCHANGED <<messageLoaded, message>>
  /\ UNCHANGED <<mainVars, clocks, attemptingSend, requestedPodData, updatedGPS,
                 doneLoading, missionID, sbdPeriod, transmit_success, modemReply,
                 modemPower, coord, world>>

(***************************************************************************)
(* Step 5.  The modem answers 0 (nothing to send), 1 (sent), 2 (error) or, *)
(* within the timeout, not at all; then outgoingStatus, never initialised, *)
(* may hold any value, 1 included.                                         *)
(***************************************************************************)
Transmit ==
  /\ pc = "transmit"
  /\ pc' = "finish"
  /\ IF messageLoaded
     THEN \E reply \in {"none", "sent", "unsent"}, garbage \in BOOLEAN :
            /\ modemReply' = reply
            /\ transmit_success' = (reply = "sent" \/ (reply = "none" /\ garbage))
     ELSE transmit_success' = FALSE /\ UNCHANGED modemReply
  /\ UNCHANGED <<mainVars, clocks, sbdFlags, missionID, sbdPeriod, message,
                 modemPower, coord, world>>

(***************************************************************************)
(* Step 6, and what main() makes of the flags send_SBD_message returns.    *)
(***************************************************************************)
\* Mutant: the flag of the loaded message survives the end of its report.
EndReportKeepingMessage ==
  /\ attemptingSend' = FALSE /\ requestedPodData' = FALSE
  /\ updatedGPS' = FALSE /\ doneLoading' = FALSE
  /\ UNCHANGED messageLoaded
  /\ message' = [message EXCEPT !.own = FALSE]

\* The flags go; the message stays in the modem, now that of an earlier report.
EndReport ==
  /\ attemptingSend' = FALSE /\ requestedPodData' = FALSE
  /\ updatedGPS' = FALSE /\ doneLoading' = FALSE /\ messageLoaded' = FALSE
  /\ message' = [message EXCEPT !.own = FALSE]

AfterSend ==
  /\ pc = "finish"
  /\ pc' = "check"
  /\ gps_success' = updatedGPS
  /\ transmit_success' = FALSE /\ modemReply' = "none"
  /\ UNCHANGED <<bt_connected, mode, transPeriod, triggerHeight, groundAltitude,
                 landedIndicator, clocks, missionID, sbdPeriod,
                 modemPower, coord, world>>

ReportSent == AfterSend /\ transmit_success /\ EndReport

\* Mutant: no report is ever too old.
NeverTimedOut == FALSE

SendTimedOut == 10 * timeSinceSbdRequest > 9 * sbdPeriod

ReportGivenUp == AfterSend /\ ~transmit_success /\ SendTimedOut /\ EndReport

ReportRetried ==
  /\ AfterSend /\ ~transmit_success /\ ~SendTimedOut
  /\ UNCHANGED <<sbdFlags, message>>

----------------------------------------------------------------------------
(***************************************************************************)
(* The periodic check of modes 1, 2 and 3.                                 *)
(***************************************************************************)
AfterCheck == IF mode = 1 THEN "command" ELSE "top"

\* Mutant: the checks do not wait for the report to end.
CheckDueDuringReport == checkTime > CheckPeriod

CheckDue == checkTime > CheckPeriod /\ ~attemptingSend

NoCheck ==
  /\ pc = "check" /\ ~CheckDue
  /\ pc' = AfterCheck
  /\ UNCHANGED <<mainVars, clocks, sbdFlags, sbdVars, modemPower, coord, world>>

\* gps_success tells whether the sample of the report just ended will do.
CheckSample ==
  IF gps_success
  THEN UNCHANGED <<gps_success, coord>>
  ELSE \E s \in GpsOutcomes : GpsUpdate(s) /\ gps_success' = s.fix

LaunchCheck ==
  /\ pc = "check" /\ mode = 1 /\ CheckDue
  /\ pc' = AfterCheck
  /\ checkTime' = 0
  /\ CheckSample
  /\ IF gps_success' /\ coord'.alt > groundAltitude + triggerHeight
     THEN ChangeModeToFlight
     ELSE UNCHANGED <<mode, sbdPeriod>>
  /\ UNCHANGED <<bt_connected, transPeriod, triggerHeight, groundAltitude,
                 landedIndicator, timeSinceTrans, timeSinceSbdRequest,
                 timeSincePodRequest, sbdFlags, missionID, transmit_success,
                 message, modemReply, modemPower, world>>

LandingCheck ==
  /\ pc = "check" /\ mode = 2 /\ CheckDue
  /\ pc' = AfterCheck
  /\ checkTime' = 0
  /\ IF gps_success
     THEN UNCHANGED <<gps_success, coord>>
     ELSE \E s \in GpsOutcomes : GpsUpdate(s) /\ gps_success' = s.fix
  /\ LET plausible == gps_success' /\ coord'.alt < Ceiling /\ coord'.alt > 0
     IN /\ landedIndicator' = IF plausible /\ coord'.slow
                              THEN landedIndicator + 1 ELSE landedIndicator
        /\ IF plausible /\ landedIndicator' > 2 * (transPeriod \div CheckPeriod)
           THEN ChangeModeToLanded
           ELSE UNCHANGED <<mode, sbdPeriod>>
  /\ UNCHANGED <<bt_connected, transPeriod, triggerHeight, groundAltitude,
                 timeSinceTrans, timeSinceSbdRequest, timeSincePodRequest,
                 sbdFlags, missionID, transmit_success, message, modemReply,
                 modemPower, world>>

\* A low battery switches everything off and stops the program for good.
BatteryCheck ==
  /\ pc = "check" /\ mode = 3 /\ CheckDue
  /\ checkTime' = 0
  /\ \/ pc' = AfterCheck /\ UNCHANGED <<modemPower, coord>>
     \/ pc' = "off" /\ SatLinkOff /\ GpsOff
  /\ UNCHANGED <<mainVars, timeSinceTrans, timeSinceSbdRequest,
                 timeSincePodRequest, sbdFlags, sbdVars, world>>

Asleep == pc = "off" /\ UNCHANGED vars

----------------------------------------------------------------------------
(***************************************************************************)
(* parseLaunchControlInput, one line a call.  It is reached in mode 0, in  *)
(* mode 1, and in mode 2 in the very iteration that detected the launch.   *)
(* Once a line has begun the program waits, in scanf and then in getc, for *)
(* its words ("reading") and for its end ("lineEnd"), without a limit: how *)
(* long that takes is up to launch control, not to the program.            *)
(* The iteration of mode 1 ends with gps_success = false.                  *)
(***************************************************************************)
\* Mutant: FLIGHT_MODE is obeyed in flight.
ModeCommandAlways == mode < 3

ModeCommandAllowed == mode < 2

\* Nothing is readable, or a line begins.
Listen(next) ==
  /\ pc = "command" /\ pc' = next
  /\ gps_success' = (mode = 0 /\ gps_success)
  /\ UNCHANGED <<bt_connected, mode, transPeriod, triggerHeight, groundAltitude,
                 landedIndicator, clocks, sbdFlags, sbdVars, modemPower,
                 coord, world>>

NoCommand == Listen("top")
BeginLine == Listen("reading")

Obey == pc = "reading" /\ pc' = "lineEnd"

\* A line that asks for no change: unknown, out of range, or a question.
IgnoredLine ==
  /\ Obey
  /\ UNCHANGED <<mainVars, clocks, sbdFlags, sbdVars, modemPower, coord, world>>

RadioCommand ==
  /\ Obey
  /\ \/ "GPS_ON" \in Commands /\ GpsOn /\ UNCHANGED <<iridiumStatus, coord>>
     \/ "GPS_OFF" \in Commands /\ GpsOff /\ UNCHANGED iridiumStatus
     \/ /\ "SATLINK_ON" \in Commands /\ SatLinkOn
        /\ UNCHANGED <<gpsStatus, gpsPower, coord>>
     \/ /\ "SATLINK_OFF" \in Commands /\ SatLinkOff
        /\ UNCHANGED <<gpsStatus, gpsPower, coord>>
  /\ UNCHANGED <<mainVars, clocks, sbdFlags, sbdVars, world>>

SettingCommand ==
  /\ Obey
  /\ \/ /\ "TRANSPERIOD" \in Commands /\ transPeriod' \in TransPeriods
        /\ UNCHANGED <<triggerHeight, missionID>>
     \/ /\ "TRIGGERHEIGHT" \in Commands /\ triggerHeight' \in TriggerHeights
        /\ UNCHANGED <<transPeriod, missionID>>
     \/ /\ "MISSIONID" \in Commands /\ missionID' \in MissionIds
        /\ UNCHANGED <<transPeriod, triggerHeight>>
  /\ UNCHANGED <<bt_connected, mode, groundAltitude, landedIndicator, gps_success,
                 clocks, sbdFlags, sbdPeriod, transmit_success, message,
                 modemReply, modemPower, coord, world>>

GpsDataCommand ==
  /\ Obey
  /\ "GPSDATA" \in Commands
  /\ \E s \in GpsOutcomes : GpsUpdate(s)
  /\ UNCHANGED <<mainVars, clocks, sbdFlags, sbdVars, modemPower, world>>

FlightModeOff ==
  /\ Obey
  /\ "FLIGHT_MODE_OFF" \in Commands /\ ModeCommandAllowed
  /\ ChangeModeToLab
  /\ UNCHANGED <<bt_connected, transPeriod, triggerHeight, groundAltitude,
                 landedIndicator, gps_success, clocks, sbdFlags, sbdVars,
                 modemPower, coord, world>>

FlightModeOn ==
  /\ pc = "reading"
  /\ "FLIGHT_MODE_ON" \in Commands /\ ModeCommandAllowed
  /\ PrimeRadios
  /\ UNCHANGED <<mainVars, clocks, sbdFlags, sbdVars, coord, world>>

EndLine ==
  /\ pc = "lineEnd" /\ pc' = "top"
  /\ UNCHANGED <<mainVars, clocks, sbdFlags, sbdVars, modemPower, coord, world>>

----------------------------------------------------------------------------
(***************************************************************************)
(* The world.  A timer whose value no stage can read before resetting it   *)
(* is not advanced, nor checkTime once a check is due.                     *)
(***************************************************************************)
Capped(t) == IF t < MaxClock THEN t + 1 ELSE t

Tick ==
  /\ pc # "off"
  /\ timeSinceTrans' = IF mode # 0 THEN Capped(timeSinceTrans) ELSE timeSinceTrans
  /\ checkTime' = IF mode # 0 /\ checkTime <= CheckPeriod THEN checkTime + 1
                                                          ELSE checkTime
  /\ timeSinceSbdRequest' =
       IF attemptingSend THEN Capped(timeSinceSbdRequest) ELSE timeSinceSbdRequest
  /\ timeSincePodRequest' =
       IF requestedPodData /\ ~doneLoading THEN Capped(timeSincePodRequest)
                                           ELSE timeSincePodRequest
  /\ UNCHANGED <<pc, mainVars, sbdFlags, sbdVars, modemPower, coord, world>>

Release ==
  /\ balloon = "pad" /\ balloon' = "aloft"
  /\ UNCHANGED <<pc, mainVars, clocks, sbdFlags, sbdVars, modemPower, coord, resets>>

Touchdown ==
  /\ balloon = "aloft" /\ balloon' = "down"
  /\ UNCHANGED <<pc, mainVars, clocks, sbdFlags, sbdVars, modemPower, coord, resets>>

PowerCycle ==
  /\ resets < MaxResets /\ resets' = resets + 1
  /\ pc' = "bluetooth" /\ bt_connected' = FALSE
  /\ mode' = 0 /\ transPeriod' = DefaultPeriod /\ triggerHeight' = DefaultTrigger
  /\ groundAltitude' = 0 /\ landedIndicator' = 0 /\ gps_success' \in BOOLEAN
  /\ timeSinceTrans' = 0 /\ checkTime' = 0
  /\ timeSinceSbdRequest' = 0 /\ timeSincePodRequest' = 0
  /\ missionID' = 0 /\ sbdPeriod' = 0 /\ transmit_success' = FALSE
  /\ EndReport
  /\ coord' = NoFix
  /\ gpsStatus' = FALSE /\ iridiumStatus' = FALSE /\ gpsPower' \in BOOLEAN
  /\ modemReply' = "none"
  /\ UNCHANGED balloon

Boot    == BluetoothFound \/ ClockSynchronised \/ Acquire
Sending == \/ BeginReport \/ NoReport \/ UpdateGPS \/ LoadPods \/ SetMessage
           \/ Transmit \/ ReportSent \/ ReportGivenUp \/ ReportRetried
Checking == NoCheck \/ LaunchCheck \/ LandingCheck \/ BatteryCheck \/ Asleep
Parsing == \/ IgnoredLine \/ RadioCommand \/ SettingCommand \/ GpsDataCommand
           \/ FlightModeOff \/ FlightModeOn \/ EndLine

Main == Boot \/ Sending \/ Checking \/ NoCommand \/ BeginLine
Environment == Release \/ Touchdown \/ PowerCycle

Next == Main \/ Parsing \/ Tick \/ Environment

Spec == Init /\ [][Next]_vars

(***************************************************************************)
(* The program never stops by itself unless it waits for the rest of a     *)
(* line, time passes, and a receiver that is on gives a fix with a height  *)
(* from time to time to each caller that keeps asking, with a velocity as  *)
(* well when asked for a landing.                                          *)
(***************************************************************************)
GoodSample ==
  coord'.fix /\ coord'.alt # NoAltitude /\ (coord'.slow <=> balloon # "aloft")

Fairness ==
  /\ WF_vars(Main) /\ WF_vars(Tick)
  /\ SF_vars(Acquire /\ GoodSample)
  /\ SF_vars(UpdateGPS /\ GoodSample)
  /\ SF_vars(LaunchCheck /\ GoodSample)
  /\ SF_vars(LandingCheck /\ GoodSample)

FairSpec == Spec /\ Fairness

----------------------------------------------------------------------------
Stages == {"bluetooth", "syncTime", "acquire", "top", "updateGPS", "loadPods",
           "setMessage", "transmit", "finish", "check", "command", "reading",
           "lineEnd", "off"}
SendStages == {"updateGPS", "loadPods", "setMessage", "transmit", "finish"}
Listening == {"command", "reading", "lineEnd"}
Clock == 0..MaxClock
Periods == TransPeriods \cup {0, PrePeriod, PostPeriod}
MissionID == 0..32767
Messages == [id : Int, own : BOOLEAN]

FlagsOK ==
  /\ bt_connected \in BOOLEAN /\ gps_success \in BOOLEAN
  /\ attemptingSend \in BOOLEAN /\ requestedPodData \in BOOLEAN
  /\ updatedGPS \in BOOLEAN /\ doneLoading \in BOOLEAN
  /\ messageLoaded \in BOOLEAN /\ transmit_success \in BOOLEAN
  /\ gpsStatus \in BOOLEAN /\ iridiumStatus \in BOOLEAN /\ gpsPower \in BOOLEAN

ValuesOK ==
  /\ pc \in Stages /\ mode \in 0..3
  /\ transPeriod \in TransPeriods /\ triggerHeight \in TriggerHeights
  /\ groundAltitude \in Int /\ landedIndicator \in Nat
  /\ timeSinceTrans \in Clock /\ checkTime \in Clock
  /\ timeSinceSbdRequest \in Clock /\ timeSincePodRequest \in Clock
  /\ missionID \in MissionID /\ sbdPeriod \in Periods
  /\ coord \in Samples /\ message \in Messages
  /\ modemReply \in {"none", "sent", "unsent"}
  /\ balloon \in {"pad", "aloft", "down"} /\ resets \in 0..MaxResets

\* Every variable keeps its type; the timers stay within their bound.
TypeOK == FlagsOK /\ ValuesOK

(***************************************************************************)
(* A report is built in order, whatever commands, mode changes and aborted *)
(* attempts come between its stages: nothing is loaded before the position *)
(* and the pods' data are there, nothing is left over from an earlier      *)
(* report once it has ended, and a success is that of a loaded message.    *)
(***************************************************************************)
PipelineOrder ==
  /\ requestedPodData <=> attemptingSend
  /\ updatedGPS \/ doneLoading => requestedPodData
  /\ messageLoaded => doneLoading /\ updatedGPS
  /\ transmit_success => messageLoaded /\ pc = "finish"

(***************************************************************************)
(* What the open report has written to the modem carries the sign of the   *)
(* mode it would be sent in, whether its answer was read or not: no mode   *)
(* change overtakes it.  (Mission 0 has no sign.)  Of a message an earlier *)
(* report left in the modem, sent when a lost answer counts as "stored",   *)
(* nothing of the kind is true.                                            *)
(***************************************************************************)
MissionIdSign ==
  message.own =>
    /\ attemptingSend /\ doneLoading /\ updatedGPS
    /\ message.id # 0 => (message.id > 0 <=> mode = 2)

(***************************************************************************)
(* "0: lab mode - do not transmit SBD" (src/FlightParameters.h:6): the     *)
(* stages of send_SBD_message run only outside lab mode, for an open       *)
(* report, although a report may be left open when lab mode is entered.    *)
(***************************************************************************)
LabSilence == pc \in SendStages => mode # 0 /\ attemptingSend

(***************************************************************************)
(* Each stage that can last belongs to a part of the flight: the wait for  *)
(* Bluetooth and the clock to lab mode, the wait for a fix to a launch     *)
(* that may still be called off, the wait for the rest of a command to the *)
(* time before the landing, and in flight to a program with no report      *)
(* open, and the sleep on an empty battery to a landed one with none open. *)
(***************************************************************************)
StageFitsMode ==
  /\ pc \in {"bluetooth", "syncTime"} => mode = 0
  /\ pc = "acquire" => mode <= 1
  /\ pc \in Listening => mode <= 2 /\ (mode = 2 => ~attemptingSend)
  /\ pc = "off" => mode = 3 /\ ~attemptingSend

(***************************************************************************)
(* The timeouts in force are those of the mode, and there are some as soon *)
(* as a report is open.  In flight they are those of the period at launch. *)
(***************************************************************************)
TimeoutsFitMode ==
  /\ mode = 1 => sbdPeriod = PrePeriod
  /\ mode = 2 => sbdPeriod \in TransPeriods
  /\ mode = 3 => sbdPeriod = PostPeriod
  /\ attemptingSend => sbdPeriod # 0

(***************************************************************************)
(* The clocks of a report agree.  The period, the report and the wait for  *)
(* the pods start together, so that 0.2 and 0.9 of a period mean what they *)
(* say; only a return to launch pad mode may restart the period under an   *)
(* open report, which is then older than the period.                       *)
(***************************************************************************)
ClocksAgree ==
  attemptingSend =>
    /\ timeSinceTrans <= timeSinceSbdRequest
    /\ mode >= 2 => timeSinceTrans = timeSinceSbdRequest
    /\ ~doneLoading => timeSincePodRequest = timeSinceSbdRequest

\* The invariant that is inductive: no part of it is without the others.
FlightInvariant ==
  /\ TypeOK /\ StageFitsMode
  /\ PipelineOrder /\ MissionIdSign /\ LabSilence
  /\ TimeoutsFitMode /\ ClocksAgree

(***************************************************************************)
(* Between resets the flight only goes forward once the launch is seen,    *)
(* and a mode that changes the sign of the reports is entered between two  *)
(* reports.                                                                *)
(***************************************************************************)
FlightOnlyForward ==
  [][resets' = resets /\ mode' # mode =>
       /\ mode <= 1 \/ (mode = 2 /\ mode' = 3)
       /\ mode' >= 2 => mode' = mode + 1 /\ ~attemptingSend]_vars

(***************************************************************************)
(* What the liveness properties ask of launch control: a line it has begun *)
(* is finished in the end.  Otherwise the program waits for it for ever,   *)
(* with a report open or the balloon in the air.                           *)
(***************************************************************************)
LinesEnd == []<>(pc \notin {"reading", "lineEnd"})

(***************************************************************************)
(* And of the receiver: in the end a fix always comes with a height.  One  *)
(* without counts as a fix, no other is asked for, and a check after it    *)
(* finds nothing; if that happened before every check it would go on.      *)
(***************************************************************************)
HeightsCome == <>[](coord.fix => coord.alt # NoAltitude)

(***************************************************************************)
(* Every report that is begun ends, sent or given up, unless launch        *)
(* control suspends it by leaving launch pad mode.                         *)
(***************************************************************************)
ReportResolves ==
  LinesEnd => (attemptingSend ~> (~attemptingSend \/ mode = 0 \/ pc = "acquire"))

(***************************************************************************)
(* In flight and after landing there is always a next report, until the    *)
(* battery is empty or the power is cycled.                                *)
(***************************************************************************)
ReportsKeepComing ==
  LinesEnd => (mode >= 2 /\ ~attemptingSend
                 ~> attemptingSend \/ pc \in {"off", "bluetooth"})

(***************************************************************************)
(* A balloon in the air, primed on the pad and with its receiver on, does  *)
(* not stay in launch pad mode for ever, whatever the reports do.          *)
(***************************************************************************)
LaunchNotMissed ==
  LinesEnd /\ HeightsCome =>
    ~<>[](/\ mode = 1 /\ balloon = "aloft" /\ gpsPower
          /\ groundAltitude \in PadAltitudes /\ triggerHeight = DefaultTrigger)

(***************************************************************************)
(* A balloon on the ground, below the ceiling and above sea level, with    *)
(* its receiver on, does not stay in flight mode for ever.                 *)
(***************************************************************************)
LandingNotMissed ==
  LinesEnd /\ HeightsCome => ~<>[](mode = 2 /\ balloon = "down" /\ gpsPower)

----------------------------------------------------------------------------
(***************************************************************************)
(* What comments of the code say and the code does not do; each is shown   *)
(* violated by a run.                                                      *)
(***************************************************************************)

\* old_main.cpp:156, after a power cycle in mid-flight "minimal tracking would
\* still take place": without Bluetooth the program reaches launch pad mode.
TrackingAfterReset == (pc = "bluetooth" /\ balloon # "pad") ~> mode = 1

\* NAL9602.cpp:281, "1 = SBD message successfully sent": a report counts as
\* sent only when the modem said so.
SuccessMeansSent == transmit_success => modemReply = "sent"

=============================================================================
