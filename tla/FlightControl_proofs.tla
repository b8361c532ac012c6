------------------------ MODULE FlightControl_proofs ------------------------
(***************************************************************************)
(* Theorems about FlightControl for every value of its constants: types,   *)
(* the safety invariants of the report, the one-way flight, and the        *)
(* refinement of BalloonMission.                                           *)
(***************************************************************************)
EXTENDS FlightRefinement, TLAPS

(***************************************************************************)
(* Facts about the sets of TypeOK.  The proofs of the type invariant use   *)
(* these and leave the sets themselves folded.                             *)
(***************************************************************************)

\* A timer may be reset, and one that ticks stays in bounds and goes forward.
LEMMA ClockFacts ==
  /\ 0 \in Clock
  /\ \A t \in Clock : Capped(t) \in Clock /\ Capped(t) >= t
  /\ \A t \in Clock : t <= CheckPeriod => t + 1 \in Clock
BY PeriodAssumption DEF Clock, Capped

\* Every period the program chooses, and none before the first choice.
LEMMA PeriodFacts ==
  /\ DefaultPeriod \in TransPeriods
  /\ 0 \in Periods /\ PrePeriod \in Periods /\ PostPeriod \in Periods
  /\ \A p \in TransPeriods : p \in Periods /\ p # 0
  /\ PrePeriod # 0 /\ PostPeriod # 0
  /\ Periods \subseteq Nat
BY PeriodAssumption DEF Periods

\* The identifiers of a flight, and the messages that carry one.
LEMMA MissionFacts ==
  /\ 0 \in MissionID /\ 1 \in MissionID /\ MissionIds \subseteq MissionID
  /\ NoMessage \in Messages
  /\ \A n \in MissionID, b \in BOOLEAN :
       [id |-> n, own |-> b] \in Messages /\ [id |-> -n, own |-> b] \in Messages
BY SettingAssumption DEF MissionID, Messages, NoMessage

\* A message that becomes an earlier report's is still a message.
LEMMA StaleMessage ==
  ASSUME NEW m \in Messages
  PROVE  /\ [m EXCEPT !.own = FALSE] \in Messages
         /\ ~[m EXCEPT !.own = FALSE].own
BY DEF Messages

\* A position the receiver can give, or lose by being switched off.
LEMMA SampleFacts ==
  /\ NoFix \in Samples
  /\ \A s \in Samples : /\ s.fix \in BOOLEAN /\ s.alt \in Int
                        /\ [fix |-> FALSE, alt |-> NoAltitude, slow |-> s.slow] \in Samples
  /\ GpsOutcomes \subseteq Samples
<1>1. NoFix \in Samples
  BY DEF NoFix, Samples
<1>2. ASSUME NEW s \in Samples
      PROVE  /\ s.fix \in BOOLEAN /\ s.alt \in Int
             /\ [fix |-> FALSE, alt |-> NoAltitude, slow |-> s.slow] \in Samples
  <2>1. s.fix \in BOOLEAN /\ s.alt \in Altitudes \cup {NoAltitude} /\ s.slow \in BOOLEAN
    BY DEF Samples
  <2>2. [fix |-> FALSE, alt |-> NoAltitude, slow |-> s.slow] \in Samples
    BY <2>1 DEF Samples
  <2>3. NoAltitude \in Int
    BY DEF NoAltitude
  <2>4. QED
    BY <2>1, <2>2, <2>3, SettingAssumption
<1>3. GpsOutcomes \subseteq Samples
  BY DEF GpsOutcomes
<1>4. QED
  BY <1>1, <1>2, <1>3

\* gpsUpdate yields positions.
LEMMA OutcomeFacts == \A s \in GpsOutcomes : s \in Samples /\ s.fix \in BOOLEAN
BY DEF GpsOutcomes, Samples

\* Whatever the modem answers, the power flags of class NAL9602 stay flags.
LEMMA RadioFlags ==
  ASSUME FlagsOK
  PROVE  /\ GpsOn => gpsStatus' \in BOOLEAN /\ gpsPower' \in BOOLEAN
         /\ GpsOff => gpsStatus' \in BOOLEAN /\ gpsPower' \in BOOLEAN
         /\ SatLinkOn \/ SatLinkOff => iridiumStatus' \in BOOLEAN
         /\ PrimeRadios => /\ gpsStatus' \in BOOLEAN /\ gpsPower' \in BOOLEAN
                           /\ iridiumStatus' \in BOOLEAN
<1>1. ModemReplies \subseteq BOOLEAN
  BY SettingAssumption
<1>2. GpsOn => gpsStatus' \in BOOLEAN /\ gpsPower' \in BOOLEAN
  BY <1>1 DEF GpsOn, FlagsOK
<1>3. GpsOff => gpsStatus' \in BOOLEAN /\ gpsPower' \in BOOLEAN
  BY <1>1 DEF GpsOff, FlagsOK
<1>4. SatLinkOn \/ SatLinkOff => iridiumStatus' \in BOOLEAN
  BY <1>1 DEF SatLinkOn, SatLinkOff, FlagsOK
<1>5. QED
  BY <1>2, <1>3, <1>4 DEF PrimeRadios, FlagsOK

----------------------------------------------------------------------------
\* What a line does to the program apart from its command: it moves on.
LineStage == NoCommand \/ BeginLine \/ IgnoredLine \/ EndLine

LEMMA LineStages ==
  LineStage =>
    /\ UNCHANGED <<bt_connected, mode, transPeriod, triggerHeight, groundAltitude,
                   landedIndicator, clocks, sbdFlags, sbdVars, modemPower,
                   coord, world>>
    /\ pc \in {"command", "reading", "lineEnd"}
    /\ pc' \in {"top", "reading", "lineEnd"}
    /\ gps_success \in BOOLEAN => gps_success' \in BOOLEAN
BY DEF LineStage, NoCommand, BeginLine, Listen, IgnoredLine, EndLine, Obey,
   mainVars

----------------------------------------------------------------------------
(***************************************************************************)
(* Types.  Flags and values are treated apart.                             *)
(***************************************************************************)
\* The state after a reset is typed.
LEMMA InitType == Init => TypeOK
<1> SUFFICES ASSUME Init PROVE TypeOK
  OBVIOUS
<1>1. FlagsOK
  BY DEF Init, FlagsOK
<1>2. ValuesOK
  BY ClockFacts, PeriodFacts, MissionFacts, SampleFacts, SettingAssumption
  DEF Init, ValuesOK, Stages
<1>3. QED
  BY <1>1, <1>2 DEF TypeOK

\* No step takes a flag out of its range.
LEMMA StepFlags == FlagsOK /\ [Next]_vars => FlagsOK'
<1> SUFFICES ASSUME FlagsOK, [Next]_vars PROVE FlagsOK'
  OBVIOUS
<1> USE DEF FlagsOK, mainVars, clocks, sbdFlags, sbdVars, modemPower,
            world
<1>1. CASE ClockSynchronised
  BY <1>1, RadioFlags DEF ClockSynchronised
<1>2. CASE FlightModeOn
  BY <1>2, RadioFlags DEF Obey, FlightModeOn
<1>3. CASE RadioCommand
  BY <1>3, RadioFlags DEF Obey, RadioCommand
<1>4. CASE BatteryCheck
  BY <1>4, RadioFlags DEF BatteryCheck, AfterCheck
<1>5. CASE UpdateGPS
  BY <1>5, OutcomeFacts DEF UpdateGPS, GpsUpdate
<1>6. CASE LaunchCheck
  BY <1>6, OutcomeFacts
  DEF LaunchCheck, CheckSample, GpsUpdate, AfterCheck
<1>7. CASE LandingCheck
  BY <1>7, OutcomeFacts DEF LandingCheck, GpsUpdate, AfterCheck
<1>8. CASE Transmit
  BY <1>8 DEF Transmit
<1>9. CASE \/ ReportSent \/ ReportGivenUp \/ ReportRetried \/ PowerCycle
  BY <1>9
  DEF ReportSent, ReportGivenUp, ReportRetried, PowerCycle, AfterSend,
      EndReport
<1>10. CASE Acquire
  BY <1>10 DEF Acquire, GpsUpdate
<1>11. CASE GpsDataCommand
  BY <1>11 DEF Obey, GpsDataCommand, GpsUpdate
<1>12. CASE \/ LineStage \/ FlightModeOff
  BY <1>12, LineStages DEF Obey, FlightModeOff
<1>13. CASE SettingCommand
  BY <1>13 DEF Obey, SettingCommand
<1>14. CASE BluetoothFound
  BY <1>14 DEF BluetoothFound
<1>15. CASE BeginReport
  BY <1>15 DEF BeginReport
<1>16. CASE NoReport
  BY <1>16 DEF NoReport
<1>17. CASE LoadPods
  BY <1>17 DEF LoadPods
<1>18. CASE SetMessage
  BY <1>18 DEF SetMessage
<1>19. CASE \/ NoCheck \/ Tick \/ Release \/ Touchdown
  BY <1>19 DEF NoCheck, Tick, Release, Touchdown, AfterCheck
<1>20. CASE UNCHANGED vars
  BY <1>20 DEF vars
<1>21. QED
  BY <1>1, <1>2, <1>3, <1>4, <1>5, <1>6, <1>7, <1>8, <1>9, <1>10, <1>11, <1>12,
     <1>13, <1>14, <1>15, <1>16, <1>17, <1>18, <1>19, <1>20
  DEF Next, Main, Boot, Sending, Checking, Parsing, Environment, Asleep, LineStage

\* No step takes a timer, an altitude or a message out of its range.
LEMMA StepValues == ValuesOK /\ [Next]_vars => ValuesOK'
<1> SUFFICES ASSUME ValuesOK, [Next]_vars PROVE ValuesOK'
  OBVIOUS
<1> USE DEF ValuesOK, mainVars, clocks, sbdFlags, sbdVars, modemPower, world
<1>1. CASE Acquire
  <2>1. coord' \in Samples /\ coord'.alt \in Int
    BY <1>1, SampleFacts DEF Acquire, GpsUpdate
  <2>2. mode' \in 0..3 /\ pc' \in Stages /\ sbdPeriod' \in Periods
    BY <1>1, PeriodFacts DEF Stages, Acquire, EnterPending
  <2>3. groundAltitude' \in Int
    BY <1>1, <2>1 DEF Acquire, GpsUpdate
  <2>4. timeSinceTrans' \in Clock /\ checkTime' \in Clock
    BY <1>1, ClockFacts DEF Acquire, EnterPending
  <2>5. QED
    BY <1>1, <2>1, <2>2, <2>3, <2>4 DEF Acquire
<1>2. CASE ClockSynchronised
  BY <1>2, MissionFacts DEF ClockSynchronised, Stages, PrimeRadios
<1>3. CASE BeginReport
  BY <1>3, ClockFacts DEF BeginReport, Stages, StartClocks
<1>4. CASE \/ UpdateGPS \/ GpsDataCommand
  BY <1>4, SampleFacts
  DEF Obey, UpdateGPS, GpsDataCommand, Stages, GpsUpdate
<1>5. CASE SetMessage
  <2>1. AssembledMessage \in Messages
    BY MissionFacts DEF AssembledMessage, SignedMissionID
  <2>2. message' \in Messages
    BY <1>5, <2>1 DEF SetMessage
  <2>3. QED
    BY <1>5, <2>2 DEF Stages, SetMessage
<1>6. CASE \/ ReportSent \/ ReportGivenUp \/ ReportRetried
  BY <1>6, StaleMessage
  DEF ReportSent, ReportGivenUp, ReportRetried, Stages, AfterSend, EndReport
<1>7. CASE LaunchCheck
  BY <1>7, SampleFacts, ClockFacts, PeriodFacts
  DEF LaunchCheck, Stages, CheckSample, GpsUpdate, ChangeModeToFlight,
      AfterCheck
<1>8. CASE LandingCheck
  BY <1>8, SampleFacts, ClockFacts, PeriodFacts
  DEF LandingCheck, GpsUpdate, Stages, ChangeModeToLanded, AfterCheck
<1>9. CASE \/ BatteryCheck \/ RadioCommand
  BY <1>9, SampleFacts, ClockFacts
  DEF Obey, BatteryCheck, RadioCommand, Stages, GpsOff, AfterCheck
<1>10. CASE SettingCommand
  BY <1>10, MissionFacts DEF Obey, SettingCommand, Stages
<1>11. CASE FlightModeOff
  BY <1>11 DEF Obey, FlightModeOff, Stages, ChangeModeToLab
<1>12. CASE Tick
  BY <1>12, ClockFacts DEF Tick
<1>13. CASE PowerCycle
  BY <1>13, ClockFacts, PeriodFacts, MissionFacts, SampleFacts, StaleMessage,
     SettingAssumption
  DEF PowerCycle, Stages, EndReport
<1>14. CASE \/ BluetoothFound \/ NoReport \/ LoadPods \/ Transmit \/ NoCheck
            \/ LineStage \/ FlightModeOn \/ Release \/ Touchdown
  BY <1>14, LineStages
  DEF Obey, BluetoothFound, NoReport, LoadPods, Transmit, NoCheck,
      FlightModeOn, Release, Touchdown, Stages, AfterCheck,
      PrimeRadios
<1>15. CASE UNCHANGED vars
  BY <1>15 DEF vars
<1>16. QED
  BY <1>1, <1>2, <1>3, <1>4, <1>5, <1>6, <1>7, <1>8, <1>9, <1>10, <1>11, <1>12,
     <1>13, <1>14, <1>15
  DEF Next, Main, Boot, Sending, Checking, Parsing, Environment, Asleep, LineStage

\* The two together.
LEMMA StepType == TypeOK /\ [Next]_vars => TypeOK'
BY StepFlags, StepValues DEF TypeOK

(***************************************************************************)
(* Every variable keeps its type whatever the balloon, the modem and       *)
(* launch control do; in particular no timer passes its bound.             *)
(***************************************************************************)
THEOREM TypeCorrect == Spec => []TypeOK
<1>1. QED
  BY InitType, StepType, PTL DEF Spec

----------------------------------------------------------------------------
(***************************************************************************)
(* The inductive invariant, one conjunct at a time.                        *)
(***************************************************************************)
\* A reset opens no report, so all relations hold.
LEMMA InitInvariant == Init => FlightInvariant
<1> SUFFICES ASSUME Init PROVE FlightInvariant
  OBVIOUS
<1>1. TypeOK
  BY InitType
<1>2. StageFitsMode /\ PipelineOrder /\ LabSilence
  BY DEF Init, StageFitsMode, PipelineOrder, LabSilence, SendStages
<1>3. MissionIdSign /\ TimeoutsFitMode /\ ClocksAgree
  BY DEF Init, MissionIdSign, NoMessage, TimeoutsFitMode, ClocksAgree
<1>4. QED
  BY <1>1, <1>2, <1>3 DEF FlightInvariant

\* The stage of the loop goes with the mode it was entered with.
LEMMA StepStage == FlightInvariant /\ [Next]_vars => StageFitsMode'
<1> SUFFICES ASSUME FlightInvariant, [Next]_vars PROVE StageFitsMode'
  OBVIOUS
<1> USE DEF FlightInvariant, StageFitsMode, Listening, mainVars, clocks, sbdFlags,
            sbdVars, modemPower, world
<1>1. CASE Acquire
  BY <1>1 DEF Acquire, EnterPending
<1>2. CASE BeginReport
  BY <1>2 DEF BeginReport, ReportDue
<1>3. CASE \/ ReportSent \/ ReportGivenUp \/ ReportRetried
  BY <1>3 DEF ReportSent, ReportGivenUp, ReportRetried, AfterSend
<1>4. CASE LaunchCheck
  BY <1>4 DEF LaunchCheck, CheckDue, ChangeModeToFlight, AfterCheck
<1>5. CASE LandingCheck
  BY <1>5 DEF LandingCheck, ChangeModeToLanded, AfterCheck
<1>6. CASE BatteryCheck
  BY <1>6 DEF BatteryCheck, CheckDue, AfterCheck
<1>7. CASE FlightModeOff
  BY <1>7 DEF Obey, FlightModeOff, ChangeModeToLab
<1>8. CASE FlightModeOn
  BY <1>8
  DEF Obey, FlightModeOn, ModeCommandAllowed, TypeOK, ValuesOK, PrimeRadios
<1>9. CASE \/ BluetoothFound \/ ClockSynchronised \/ NoReport \/ UpdateGPS
           \/ LoadPods \/ SetMessage \/ Transmit \/ NoCheck \/ LineStage
           \/ RadioCommand \/ SettingCommand \/ GpsDataCommand \/ Tick
           \/ Release \/ Touchdown \/ PowerCycle
  BY <1>9, LineStages
  DEF Obey, BluetoothFound, ClockSynchronised, NoReport, UpdateGPS, LoadPods,
      SetMessage, Transmit, NoCheck, RadioCommand, SettingCommand,
      GpsDataCommand, Tick, Release, Touchdown, PowerCycle, PrimeRadios,
      AfterCheck
<1>10. CASE UNCHANGED vars
  BY <1>10 DEF vars
<1>11. QED
  BY <1>1, <1>2, <1>3, <1>4, <1>5, <1>6, <1>7, <1>8, <1>9, <1>10
  DEF Next, Main, Boot, Sending, Checking, Parsing, Environment, Asleep, LineStage

\* No stage is marked done before the one it builds on.
LEMMA StepPipeline == FlightInvariant /\ [Next]_vars => PipelineOrder'
<1> SUFFICES ASSUME FlightInvariant, [Next]_vars PROVE PipelineOrder'
  OBVIOUS
<1> USE DEF FlightInvariant, PipelineOrder, mainVars, clocks, sbdFlags,
            sbdVars, modemPower, world
<1>1. CASE BeginReport
  BY <1>1 DEF BeginReport, StartClocks
<1>2. CASE UpdateGPS
  BY <1>2 DEF UpdateGPS, LabSilence, SendStages
<1>3. CASE LoadPods
  BY <1>3 DEF LoadPods, LabSilence, SendStages
<1>4. CASE SetMessage
  BY <1>4 DEF SetMessage, ReadyToLoad
<1>5. CASE Transmit
  BY <1>5 DEF Transmit
<1>6. CASE \/ ReportSent \/ ReportGivenUp \/ PowerCycle
  BY <1>6 DEF ReportSent, ReportGivenUp, PowerCycle, AfterSend, EndReport
<1>7. CASE ReportRetried
  BY <1>7 DEF ReportRetried, AfterSend
<1>8. CASE \/ BluetoothFound \/ ClockSynchronised \/ Acquire \/ NoReport
           \/ NoCheck \/ LaunchCheck \/ LandingCheck \/ BatteryCheck
           \/ LineStage \/ RadioCommand \/ SettingCommand \/ GpsDataCommand
           \/ FlightModeOff \/ FlightModeOn \/ Tick \/ Release \/ Touchdown
  BY <1>8, LineStages
  DEF Obey, BluetoothFound, ClockSynchronised, Acquire, NoReport, NoCheck,
      LaunchCheck, LandingCheck, BatteryCheck, RadioCommand,
      SettingCommand, GpsDataCommand, FlightModeOff, FlightModeOn, Tick,
      Release, Touchdown, PrimeRadios, AfterCheck
<1>9. CASE UNCHANGED vars
  BY <1>9 DEF vars
<1>10. QED
  BY <1>1, <1>2, <1>3, <1>4, <1>5, <1>6, <1>7, <1>8, <1>9
  DEF Next, Main, Boot, Sending, Checking, Parsing, Environment, Asleep, LineStage

\* Commands lead to lab mode only from outside the stages of a report.
LEMMA StepLab == FlightInvariant /\ [Next]_vars => LabSilence'
<1> SUFFICES ASSUME FlightInvariant, [Next]_vars PROVE LabSilence'
  OBVIOUS
<1> USE DEF FlightInvariant, LabSilence, SendStages, mainVars, clocks,
            sbdFlags, sbdVars, modemPower, world
<1>1. CASE BeginReport
  BY <1>1 DEF BeginReport, ReportDue
<1>2. CASE \/ ReportSent \/ ReportGivenUp \/ ReportRetried \/ PowerCycle
  BY <1>2
  DEF ReportSent, ReportGivenUp, ReportRetried, PowerCycle, AfterSend,
      EndReport
<1>3. CASE \/ BluetoothFound \/ ClockSynchronised \/ Acquire \/ NoReport
           \/ UpdateGPS \/ LoadPods \/ SetMessage \/ Transmit \/ NoCheck
           \/ LaunchCheck \/ LandingCheck \/ BatteryCheck \/ LineStage
           \/ RadioCommand \/ SettingCommand \/ GpsDataCommand
           \/ FlightModeOff \/ FlightModeOn \/ Tick \/ Release \/ Touchdown
  BY <1>3, LineStages
  DEF Obey, BluetoothFound, ClockSynchronised, Acquire, NoReport, UpdateGPS,
      LoadPods, SetMessage, Transmit, NoCheck, LaunchCheck, LandingCheck,
      BatteryCheck, RadioCommand, SettingCommand, GpsDataCommand,
      FlightModeOff, FlightModeOn, Tick, Release, Touchdown, PrimeRadios,
      AfterCheck
<1>4. CASE UNCHANGED vars
  BY <1>4 DEF vars
<1>5. QED
  BY <1>1, <1>2, <1>3, <1>4
  DEF Next, Main, Boot, Sending, Checking, Parsing, Environment, Asleep, LineStage

\* The time-outs change with the mode.
LEMMA StepTimeouts == FlightInvariant /\ [Next]_vars => TimeoutsFitMode'
<1> SUFFICES ASSUME FlightInvariant, [Next]_vars PROVE TimeoutsFitMode'
  OBVIOUS
<1> USE DEF FlightInvariant, TimeoutsFitMode, mainVars, clocks, sbdFlags,
            sbdVars, modemPower, world
<1>1. CASE Acquire
  BY <1>1, PeriodFacts DEF Acquire, EnterPending
<1>2. CASE BeginReport
  BY <1>2, PeriodFacts DEF BeginReport, ReportDue, TypeOK, ValuesOK
<1>3. CASE \/ ReportSent \/ ReportGivenUp \/ ReportRetried \/ PowerCycle
  BY <1>3
  DEF ReportSent, ReportGivenUp, ReportRetried, PowerCycle, AfterSend,
      EndReport
<1>4. CASE LaunchCheck
  BY <1>4, PeriodFacts
  DEF LaunchCheck, ChangeModeToFlight, TypeOK, ValuesOK, AfterCheck
<1>5. CASE LandingCheck
  BY <1>5, PeriodFacts DEF LandingCheck, ChangeModeToLanded, AfterCheck
<1>6. CASE FlightModeOff
  BY <1>6 DEF Obey, FlightModeOff, ChangeModeToLab
<1>7. CASE \/ BluetoothFound \/ ClockSynchronised \/ NoReport \/ UpdateGPS
           \/ LoadPods \/ SetMessage \/ Transmit \/ NoCheck \/ BatteryCheck
           \/ LineStage \/ RadioCommand \/ SettingCommand \/ GpsDataCommand
           \/ FlightModeOn \/ Tick \/ Release \/ Touchdown
  BY <1>7, LineStages
  DEF Obey, BluetoothFound, ClockSynchronised, NoReport, UpdateGPS, LoadPods,
      SetMessage, Transmit, NoCheck, BatteryCheck, RadioCommand,
      SettingCommand, GpsDataCommand, FlightModeOn, Tick, Release, Touchdown,
      PrimeRadios, AfterCheck
<1>8. CASE UNCHANGED vars
  BY <1>8 DEF vars
<1>9. QED
  BY <1>1, <1>2, <1>3, <1>4, <1>5, <1>6, <1>7, <1>8
  DEF Next, Main, Boot, Sending, Checking, Parsing, Environment, Asleep, LineStage

\* All clocks tick together, and are reset together.
LEMMA StepClocks == FlightInvariant /\ [Next]_vars => ClocksAgree'
<1> SUFFICES ASSUME FlightInvariant, [Next]_vars PROVE ClocksAgree'
  OBVIOUS
<1> USE DEF FlightInvariant, ClocksAgree, mainVars, clocks, sbdFlags, sbdVars,
            modemPower, world
<1>1. CASE Acquire
  BY <1>1 DEF Acquire, EnterPending, Clock, TypeOK, ValuesOK
<1>2. CASE BeginReport
  BY <1>2 DEF BeginReport, StartClocks, PipelineOrder
<1>3. CASE \/ ReportSent \/ ReportGivenUp \/ ReportRetried \/ PowerCycle
  BY <1>3
  DEF ReportSent, ReportGivenUp, ReportRetried, PowerCycle, AfterSend,
      EndReport
<1>4. CASE LaunchCheck
  BY <1>4 DEF LaunchCheck, CheckDue, AfterCheck
<1>5. CASE FlightModeOff
  BY <1>5 DEF Obey, FlightModeOff, ChangeModeToLab
<1>6. CASE Tick
  BY <1>6 DEF Tick, Capped, Clock, PipelineOrder, TypeOK, ValuesOK
<1>7. CASE \/ BluetoothFound \/ ClockSynchronised \/ NoReport \/ UpdateGPS
           \/ LoadPods \/ SetMessage \/ Transmit
  BY <1>7
  DEF BluetoothFound, ClockSynchronised, NoReport, UpdateGPS, LoadPods,
      SetMessage, Transmit, PrimeRadios
<1>8. CASE NoCheck
  BY <1>8 DEF NoCheck, AfterCheck
<1>9. CASE LandingCheck
  BY <1>9 DEF LandingCheck, ChangeModeToLanded, AfterCheck
<1>10. CASE BatteryCheck
  BY <1>10 DEF BatteryCheck, AfterCheck
<1>11. CASE \/ LineStage \/ RadioCommand \/ SettingCommand \/ GpsDataCommand
            \/ FlightModeOn \/ Release \/ Touchdown
  BY <1>11, LineStages
  DEF Obey, RadioCommand, SettingCommand, GpsDataCommand, FlightModeOn,
      Release, Touchdown, PrimeRadios
<1>12. CASE UNCHANGED vars
  BY <1>12 DEF vars
<1>13. QED
  BY <1>1, <1>2, <1>3, <1>4, <1>5, <1>6, <1>7, <1>8, <1>9, <1>10, <1>11, <1>12
  DEF Next, Main, Boot, Sending, Checking, Parsing, Environment, Asleep, LineStage

\* A message is written with the sign of the mode, and the mode waits for it.
LEMMA StepSign == FlightInvariant /\ [Next]_vars => MissionIdSign'
<1> SUFFICES ASSUME FlightInvariant, [Next]_vars PROVE MissionIdSign'
  OBVIOUS
<1> USE DEF FlightInvariant, MissionIdSign, mainVars, clocks, sbdFlags,
            sbdVars, modemPower, world
<1>1. CASE Acquire
  BY <1>1 DEF Acquire, EnterPending, StageFitsMode
<1>2. CASE SetMessage
  <2>1. attemptingSend /\ UNCHANGED <<attemptingSend, doneLoading, updatedGPS, mode>>
    BY <1>2 DEF SetMessage, LabSilence, SendStages
  <2>2. CASE ReadyToLoad /\ message' = AssembledMessage
    <3>1. message'.id = IF mode = 2 THEN missionID ELSE -missionID
      BY <2>2 DEF AssembledMessage, SignedMissionID
    <3>2. missionID \in Nat
      BY DEF TypeOK, ValuesOK, MissionID
    <3>3. message'.id # 0 => (message'.id > 0 <=> mode = 2)
      BY <3>1, <3>2
    <3>4. QED
      BY <2>1, <2>2, <3>3 DEF ReadyToLoad
  <2>3. CASE UNCHANGED message
    BY <1>2, <2>1, <2>3 DEF SetMessage
  <2>4. QED
    BY <1>2, <2>2, <2>3 DEF SetMessage
<1>3. CASE \/ ReportSent \/ ReportGivenUp \/ PowerCycle
  <2>1. ~message'.own
    BY <1>3, StaleMessage
    DEF ReportSent, ReportGivenUp, PowerCycle, EndReport, TypeOK, ValuesOK
  <2>2. QED
    BY <2>1
<1>4. CASE UpdateGPS \/ LoadPods
  BY <1>4 DEF UpdateGPS, LoadPods
<1>5. CASE \/ LaunchCheck \/ LandingCheck
  BY <1>5 DEF LaunchCheck, LandingCheck, CheckDue, AfterCheck
<1>6. CASE FlightModeOff
  BY <1>6
  DEF Obey, FlightModeOff, ChangeModeToLab, ModeCommandAllowed, TypeOK, ValuesOK
<1>7. CASE BeginReport \/ ReportRetried
  BY <1>7 DEF BeginReport, ReportRetried, AfterSend
<1>8. CASE \/ BluetoothFound \/ ClockSynchronised \/ NoReport
           \/ Transmit \/ NoCheck \/ BatteryCheck
           \/ LineStage \/ RadioCommand \/ SettingCommand \/ GpsDataCommand
           \/ FlightModeOn \/ Tick \/ Release \/ Touchdown
  BY <1>8, LineStages
  DEF BluetoothFound, ClockSynchronised, NoReport,
      Transmit, NoCheck, BatteryCheck, Obey, RadioCommand,
      SettingCommand, GpsDataCommand, FlightModeOn, Tick, Release, Touchdown,
      PrimeRadios, AfterCheck
<1>9. CASE UNCHANGED vars
  BY <1>9 DEF vars
<1>10. QED
  BY <1>1, <1>2, <1>3, <1>4, <1>5, <1>6, <1>7, <1>8, <1>9
  DEF Next, Main, Boot, Sending, Checking, Parsing, Environment, Asleep, LineStage

\* Each conjunct has been shown to hold after a step.
LEMMA StepInvariant == FlightInvariant /\ [Next]_vars => FlightInvariant'
<1> SUFFICES ASSUME FlightInvariant, [Next]_vars PROVE FlightInvariant'
  OBVIOUS
<1>1. TypeOK'
  BY StepType DEF FlightInvariant
<1>2. QED
  BY <1>1, StepStage, StepPipeline, StepLab, StepTimeouts, StepClocks, StepSign
  DEF FlightInvariant

\* The invariant is inductive, so it holds.
LEMMA InvariantHolds == Spec => []FlightInvariant
<1>1. QED
  BY InitInvariant, StepInvariant, PTL DEF Spec

(***************************************************************************)
(* send_SBD_message builds every report in order, for any interleaving of  *)
(* its stages with commands, mode changes and time.                        *)
(***************************************************************************)
THEOREM ReportsBuiltInOrder == Spec => []PipelineOrder
<1>1. FlightInvariant => PipelineOrder
  BY DEF FlightInvariant
<1>2. QED
  BY <1>1, InvariantHolds, PTL

(***************************************************************************)
(* A message that the open report has written to the modem, stored there   *)
(* with its answer read or lost, has the sign setMissionID gave it, and    *)
(* that is the sign of the mode transmitMessage would send it in.          *)
(***************************************************************************)
THEOREM SignIsThatOfTheMode == Spec => []MissionIdSign
<1>1. FlightInvariant => MissionIdSign
  BY DEF FlightInvariant
<1>2. QED
  BY <1>1, InvariantHolds, PTL

(***************************************************************************)
(* main() runs no stage of a report in lab mode.                           *)
(***************************************************************************)
THEOREM LabIsSilent == Spec => []LabSilence
<1>1. FlightInvariant => LabSilence
  BY DEF FlightInvariant
<1>2. QED
  BY <1>1, InvariantHolds, PTL

(***************************************************************************)
(* The changeModeTo functions leave the timeouts of the mode in force, and *)
(* no report is open before there are any.                                 *)
(***************************************************************************)
THEOREM TimeoutsAreTheModes == Spec => []TimeoutsFitMode
<1>1. FlightInvariant => TimeoutsFitMode
  BY DEF FlightInvariant
<1>2. QED
  BY <1>1, InvariantHolds, PTL

(***************************************************************************)
(* The three clocks of an open report agree, for every set of periods.     *)
(***************************************************************************)
THEOREM ReportClocksAgree == Spec => []ClocksAgree
<1>1. FlightInvariant => ClocksAgree
  BY DEF FlightInvariant
<1>2. QED
  BY <1>1, InvariantHolds, PTL

(***************************************************************************)
(* The program falls asleep only landed and between two reports, and waits *)
(* for a fix only before the flight.                                       *)
(***************************************************************************)
THEOREM SleepsOnlyLanded == Spec => []StageFitsMode
<1>1. FlightInvariant => StageFitsMode
  BY DEF FlightInvariant
<1>2. QED
  BY <1>1, InvariantHolds, PTL

----------------------------------------------------------------------------
(***************************************************************************)
(* Action properties.                                                      *)
(***************************************************************************)
Forward == resets' = resets /\ mode' # mode =>
             /\ mode <= 1 \/ (mode = 2 /\ mode' = 3)
             /\ mode' >= 2 => mode' = mode + 1 /\ ~attemptingSend

\* Only the detections of main() go forward, and only between two reports.
LEMMA StepForward == FlightInvariant /\ [Next]_vars => Forward
<1> SUFFICES ASSUME FlightInvariant, [Next]_vars PROVE Forward
  OBVIOUS
<1> USE DEF Forward, mainVars, clocks, sbdFlags, sbdVars, modemPower,
            world
<1>1. CASE Acquire
  BY <1>1 DEF Acquire, EnterPending, FlightInvariant, StageFitsMode
<1>2. CASE \/ ReportSent \/ ReportGivenUp \/ ReportRetried
  BY <1>2 DEF ReportSent, ReportGivenUp, ReportRetried, AfterSend
<1>3. CASE LaunchCheck
  BY <1>3 DEF LaunchCheck, CheckDue, ChangeModeToFlight, AfterCheck
<1>4. CASE LandingCheck
  BY <1>4 DEF LandingCheck, CheckDue, ChangeModeToLanded, AfterCheck
<1>5. CASE FlightModeOff
  BY <1>5
  DEF Obey, FlightModeOff, ChangeModeToLab, ModeCommandAllowed, FlightInvariant,
      TypeOK, ValuesOK
<1>6. CASE PowerCycle
  BY <1>6 DEF PowerCycle, FlightInvariant, TypeOK, ValuesOK
<1>7. CASE \/ BluetoothFound \/ ClockSynchronised \/ BeginReport \/ NoReport
           \/ UpdateGPS \/ LoadPods \/ SetMessage \/ Transmit \/ NoCheck
           \/ BatteryCheck \/ LineStage \/ RadioCommand \/ SettingCommand
           \/ GpsDataCommand \/ FlightModeOn \/ Tick \/ Release \/ Touchdown
  BY <1>7, LineStages
  DEF Obey, BluetoothFound, ClockSynchronised, BeginReport, NoReport, UpdateGPS,
      LoadPods, SetMessage, Transmit, NoCheck, BatteryCheck, RadioCommand,
      SettingCommand, GpsDataCommand, FlightModeOn, Tick,
      Release, Touchdown, PrimeRadios, AfterCheck
<1>8. CASE UNCHANGED vars
  BY <1>8 DEF vars
<1>9. QED
  BY <1>1, <1>2, <1>3, <1>4, <1>5, <1>6, <1>7, <1>8
  DEF Next, Main, Boot, Sending, Checking, Parsing, Environment, Asleep, LineStage

(***************************************************************************)
(* Once the launch is seen nothing but a reset takes the program back, and *)
(* each mode that changes the sign is entered between two reports.         *)
(***************************************************************************)
THEOREM FlightIsOneWay == Spec => FlightOnlyForward
<1>1. FlightInvariant /\ [Next]_vars => [Forward]_vars
  BY StepForward
<1>2. QED
  BY <1>1, InvariantHolds, PTL DEF Spec, FlightOnlyForward, Forward

----------------------------------------------------------------------------
(***************************************************************************)
(* Refinement of BalloonMission.                                           *)
(***************************************************************************)
\* After a reset the payload is in the lab.
LEMMA InitMission == Init => Mission!MissionInit
BY DEF Init, Mission!MissionInit, Phase, Report

\* Every step of the program is one the promise allows, or changes nothing of it.
LEMMA StepMission ==
  FlightInvariant /\ FlightInvariant' /\ [Next]_vars
    => [Mission!MissionNext]_(Mission!mission)
<1> SUFFICES ASSUME FlightInvariant, FlightInvariant', [Next]_vars
             PROVE  [Mission!MissionNext]_(Mission!mission)
  OBVIOUS
<1> USE DEF Mission!MissionNext, Mission!mission, Phase, Report
<1> USE DEF mainVars, clocks, sbdFlags, sbdVars, modemPower, world
<1> USE DEF FlightInvariant, TypeOK, ValuesOK, StageFitsMode, PipelineOrder
<1>1. CASE Acquire
  BY <1>1 DEF Mission!Prime, Mission!OnGround, Acquire, EnterPending
<1>2. CASE BeginReport
  BY <1>2 DEF Mission!Open, BeginReport, ReportDue
<1>3. CASE UpdateGPS \/ LoadPods
  BY <1>3 DEF UpdateGPS, LoadPods
<1>4. CASE SetMessage
  <2>1. /\ UNCHANGED <<mode, attemptingSend>> /\ pc = "setMessage" /\ pc' = "transmit"
        /\ mode # 0 /\ attemptingSend /\ UNCHANGED resets
    BY <1>4 DEF SetMessage, LabSilence, SendStages
  <2>2. CASE ReadyToLoad /\ messageLoaded'
    <3>1. Report = "open" /\ Report' = "loaded" /\ UNCHANGED Phase
      BY <2>1, <2>2 DEF ReadyToLoad
    <3>2. Phase \in {"pad", "flight", "landed"} /\ (Phase = "flight" <=> mode = 2)
      BY <2>1
    <3>3. QED
      BY <2>1, <2>2, <3>1, <3>2 DEF Mission!Load
  <2>3. CASE UNCHANGED messageLoaded
    BY <1>4, <2>3 DEF SetMessage
  <2>4. (ReadyToLoad /\ messageLoaded') \/ UNCHANGED messageLoaded
    <3>1. CASE ReadyToLoad
      <4>1. messageLoaded' \in BOOLEAN
        BY <1>4, <3>1 DEF SetMessage
      <4>2. messageLoaded \in BOOLEAN /\ ~messageLoaded
        BY <3>1 DEF ReadyToLoad, FlagsOK
      <4>3. QED
        BY <3>1, <4>1, <4>2, Zenon
    <3>2. CASE ~ReadyToLoad
      BY <1>4, <3>2 DEF SetMessage
    <3>3. QED
      BY <3>1, <3>2
  <2>5. QED
    BY <2>2, <2>3, <2>4
<1>5. CASE ReportSent \/ ReportGivenUp
  BY <1>5 DEF Mission!Close, ReportSent, ReportGivenUp, AfterSend, EndReport,
     LabSilence, SendStages
<1>6. CASE LaunchCheck
  BY <1>6 DEF Mission!Forward, LaunchCheck, ChangeModeToFlight, CheckDue
<1>7. CASE LandingCheck
  BY <1>7 DEF Mission!Forward, LandingCheck, ChangeModeToLanded, CheckDue,
     AfterCheck
<1>8. CASE BatteryCheck
  BY <1>8 DEF Mission!Forward, BatteryCheck, CheckDue, AfterCheck
<1>9. CASE FlightModeOff
  BY <1>9 DEF Obey, Mission!CallOff, Mission!OnGround, FlightModeOff,
      ChangeModeToLab,
     ModeCommandAllowed
<1>10. CASE PowerCycle
  BY <1>10 DEF Mission!Reset, PowerCycle, EndReport
<1>11. CASE ReportRetried
  BY <1>11 DEF ReportRetried, AfterSend
<1>12. CASE BluetoothFound \/ ClockSynchronised \/ FlightModeOn
  BY <1>12 DEF Obey, BluetoothFound, ClockSynchronised, FlightModeOn, PrimeRadios,
     ModeCommandAllowed
<1>13. CASE NoReport \/ Transmit \/ NoCheck
  BY <1>13 DEF NoReport, Transmit, NoCheck, AfterCheck
<1>14. CASE LineStage \/ RadioCommand \/ SettingCommand \/ GpsDataCommand
  BY <1>14, LineStages DEF Obey, RadioCommand, SettingCommand, GpsDataCommand
<1>15. CASE Tick \/ Release \/ Touchdown
  BY <1>15 DEF Tick, Release, Touchdown
<1>16. CASE UNCHANGED vars
  BY <1>16 DEF vars
<1>17. QED
  BY <1>1, <1>2, <1>3, <1>4, <1>5, <1>6, <1>7, <1>8, <1>9, <1>10, <1>11, <1>12,
     <1>13, <1>14, <1>15, <1>16
  DEF Next, Main, Boot, Sending, Checking, Parsing, Environment, Asleep, LineStage

(***************************************************************************)
(* The mission program implements the promise: seen through its mode and   *)
(* the flags of class SBDmessage, main() only ever primes, opens, loads,   *)
(* closes, goes forward between two reports, or is reset.                  *)
(***************************************************************************)
THEOREM MissionImplemented == Spec => ImplementsMission
<1>1. QED
  BY InvariantHolds, InitMission, StepMission, PTL
  DEF Spec, ImplementsMission, Mission!MissionSpec

=============================================================================
