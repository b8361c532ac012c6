------------------------- MODULE UbxConfig_proofs -------------------------
(***************************************************************************)
(* Proofs about the operations that configure the u-blox receiver, for any *)
(* receiver, any settings and any faults: the fences that the driver       *)
(* believes the receiver has, the address that it has for it, the lists of *)
(* keys, and the registers that operations read and write back.            *)
(***************************************************************************)
EXTENDS UbxConfig, TLAPS

----------------------------------------------------------------------------
(***************************************************************************)
(* The fences.  The driver's list changes only when a fence command is     *)
(* prepared, and what such a command carries is then that list; it stays   *)
(* so while the command is under way.  A packet left over from one may be  *)
(* sent again by sendCfgValset, and is then not understood.                *)
(***************************************************************************)
CarriesTheList ==
  pc # "idle" /\ packet.id = "GEOFENCE" /\ call.op \in FenceOps => call.arg = fences

\* The records are records.
Shapes == "fences" \in DOMAIN receiver /\ "fences" \in DOMAIN saved /\ "id" \in DOMAIN packet

FenceInvariant == FencesAgree /\ CarriesTheList /\ Shapes

\* Obeying a command that is understood leaves the two lists in agreement.
LEMMA ObeyedFences ==
  ASSUME FenceInvariant, pc = "sending", Understood, Obeys, UNCHANGED fences
  PROVE  FencesAgree' /\ "fences" \in DOMAIN receiver' /\ "fences" \in DOMAIN saved'
<1>1. "fences" \in DOMAIN Factory
  BY DEF Factory
<1>2. "fences" \in DOMAIN receiver' /\ "fences" \in DOMAIN saved'
  BY <1>1 DEF FenceInvariant, Shapes, Obeys
<1>3. CASE packet.id = "GEOFENCE"
  <2>1. packet.id \notin Registers
    BY <1>3 DEF Registers, Size
  <2>2. call.op \in FenceOps /\ call.arg = fences
    BY <1>3, <2>1 DEF Understood, FenceInvariant, CarriesTheList
  <2>3. receiver'.fences = call.arg
    BY <1>3, <2>1 DEF Obeys, FenceInvariant, Shapes
  <2> QED BY <1>2, <2>2, <2>3 DEF FencesAgree
<1>4. CASE packet.id # "GEOFENCE" /\ (packet.id = "RST" \/ call.op = "factoryDefault")
  <2>1. ~fencesTaken'
    BY <1>4 DEF Obeys
  <2> QED BY <1>2, <2>1 DEF FencesAgree
<1>5. CASE packet.id # "GEOFENCE" /\ packet.id # "RST" /\ call.op # "factoryDefault"
  <2>1. fencesTaken' = fencesTaken
    BY <1>5 DEF Obeys
  <2>2. receiver'.fences = receiver.fences
    BY <1>5 DEF Obeys, FenceInvariant, Shapes
  <2> QED BY <1>2, <2>1, <2>2 DEF FenceInvariant, FencesAgree
<1> QED BY <1>2, <1>3, <1>4, <1>5

\* What sendCommand does to the packet never makes a fence command of it.
LEMMA SentPacket ==
  ASSUME FenceInvariant, SendCommand
  PROVE  "id" \in DOMAIN packet' /\ (packet'.id = "GEOFENCE" => packet.id = "GEOFENCE")
<1> USE DEF FenceInvariant, Shapes
<1>1. CASE packet' = packet
  BY <1>1
<1>2. CASE packet' = Nobody
  BY <1>2 DEF Nobody
<1>3. CASE packet' = [id |-> "PVT", len |-> ReportLen]
  BY <1>3
<1>4. ASSUME NEW n, packet' = [packet EXCEPT !.len = n]
      PROVE  "id" \in DOMAIN packet' /\ packet'.id = packet.id
  BY <1>4
<1>5. CASE Refused \/ GoneOut \/ Acknowledged \/ NotAcknowledged \/ AckOnly
  BY <1>1, <1>5 DEF Refused, GoneOut, Acknowledged, NotAcknowledged, AckOnly, BufferAsSent
<1>6. CASE Unanswered
  BY <1>1, <1>2, <1>6 DEF Unanswered
<1>7. CASE Answer
  BY <1>4, <1>7 DEF Answer
<1>8. CASE Reported
  BY <1>3, <1>8 DEF Reported, Overwritten
<1>9. CASE ReportedAlone
  BY <1>1, <1>2, <1>9 DEF ReportedAlone
<1>10. CASE QueryAnswer
  BY <1>4, <1>10 DEF QueryAnswer
<1> QED BY <1>5, <1>6, <1>7, <1>8, <1>9, <1>10 DEF SendCommand

\* The receiver either obeys what it understands or is as it was.
LEMMA SentObeysOrNot ==
  ASSUME SendCommand
  PROVE  /\ pc = "sending" /\ UNCHANGED <<call, fences>>
         /\ (Understood /\ Obeys) \/ NotReceived
<1> USE DEF Returned
<1>1. CASE Refused \/ NotAcknowledged \/ Answer \/ AckOnly
  BY <1>1 DEF Refused, NotAcknowledged, Answer, AckOnly
<1>2. CASE GoneOut \/ Unanswered
  BY <1>2 DEF GoneOut, Unanswered
<1>3. CASE Acknowledged \/ Reported
  BY <1>3 DEF Acknowledged, Reported
<1>4. CASE ReportedAlone \/ QueryAnswer
  BY <1>4 DEF ReportedAlone, QueryAnswer
<1> QED BY <1>1, <1>2, <1>3, <1>4 DEF SendCommand

LEMMA SentFences ==
  ASSUME FenceInvariant, SendCommand
  PROVE  FenceInvariant'
<1>1. pc = "sending" /\ UNCHANGED <<call, fences>>
  BY SentObeysOrNot
<1>2. CarriesTheList'
  BY <1>1, SentPacket DEF CarriesTheList, FenceInvariant
<1>3. CASE Understood /\ Obeys
  BY <1>1, <1>2, <1>3, ObeyedFences, SentPacket DEF FenceInvariant, Shapes
<1>4. CASE NotReceived
  BY <1>1, <1>2, <1>4, SentPacket DEF NotReceived, FenceInvariant, Shapes, FencesAgree
<1> QED BY <1>3, <1>4, SentObeysOrNot

\* An operation that leaves the fences alone, and the receiver.
LEMMA OtherOperations ==
  ASSUME FenceInvariant, UNCHANGED <<receiver, saved, fences, fencesTaken>>,
         call'.op \notin FenceOps, "id" \in DOMAIN packet'
  PROVE  FenceInvariant'
BY DEF FenceInvariant, FencesAgree, CarriesTheList, Shapes

\* An operation of a single command.
LEMMA SingleOperations ==
  ASSUME NEW op, NEW arg, NEW id, NEW len, Single(op, arg, id, len)
  PROVE  /\ UNCHANGED <<receiver, saved>> /\ "id" \in DOMAIN packet'
         /\ call'.op = op /\ call'.arg = arg
BY DEF Single, Begins, Prepared, Elsewhere, receiverVars

LEMMA ListOperations ==
  ASSUME FenceInvariant, NEW k, NEW v,
         NewCfgValset(k, v) \/ AddCfgValset(k, v) \/ SendCfgValset(k, v) \/ SetVal(k, v)
  PROVE  FenceInvariant'
<1>1. UNCHANGED <<receiver, saved, fences, fencesTaken>>
  BY DEF NewCfgValset, AddCfgValset, SendCfgValset, SetVal, Started, Added, Elsewhere,
         receiverVars
<1>2. call'.op \in {"newCfgValset", "addCfgValset", "sendCfgValset", "setVal"}
  BY DEF NewCfgValset, AddCfgValset, SendCfgValset, SetVal, Begins
<1>3. "id" \in DOMAIN packet'
  BY DEF NewCfgValset, AddCfgValset, SendCfgValset, SetVal, Added, Prepared,
         FenceInvariant, Shapes
<1> QED BY <1>1, <1>2, <1>3, OtherOperations DEF FenceOps

\* The commands that only ask, save or restore; none carries fences.
LEMMA OtherSingles ==
  ASSUME FenceInvariant,
         \/ \E r \in {"PRT", "RATE", "TMODE3"} : GetSetting(r)
         \/ \E query \in Queries : GetStatus(query)
         \/ SaveConfiguration \/ FactoryDefault \/ HardReset
         \/ \E on \in BOOLEAN : ConfigureMessage(on)
         \/ \E k \in Keys : GetVal(k)
  PROVE  FenceInvariant'
<1> DEFINE Ops == {"getSetting", "getStatus", "saveConfiguration", "factoryDefault",
                   "hardReset", "configureMessage", "getVal"}
<1>1. UNCHANGED <<fences, fencesTaken>>
  BY DEF GetSetting, GetStatus, SaveConfiguration, FactoryDefault, HardReset,
         ConfigureMessage, GetVal
<1>2. \E op \in Ops : \E arg, id, len : Single(op, arg, id, len)
  BY DEF GetSetting, GetStatus, SaveConfiguration, FactoryDefault, HardReset,
         ConfigureMessage, GetVal
<1>3. UNCHANGED <<receiver, saved>> /\ "id" \in DOMAIN packet' /\ call'.op \in Ops
  BY <1>2, SingleOperations
<1> QED BY <1>1, <1>3, OtherOperations DEF FenceOps

LEMMA ReadSettings ==
  ASSUME FenceInvariant, NEW op \in DOMAIN PollOf, NEW v, ReadSetting(op, v)
  PROVE  FenceInvariant'
<1>1. UNCHANGED <<receiver, saved, fences, fencesTaken>> /\ "id" \in DOMAIN packet'
  BY DEF ReadSetting, Prepared, Elsewhere, receiverVars
<1>2. call'.op = op
  BY DEF ReadSetting, Begins
<1>3. op \notin FenceOps
  BY DEF PollOf, FenceOps
<1> QED BY <1>1, <1>2, <1>3, OtherOperations

\* The second commands, each of an operation that is no fence command.
LEMMA WriteBacks ==
  ASSUME FenceInvariant,
         \/ WriteAddress \/ WritePortOutput \/ WritePortInput \/ WriteFrequency
         \/ WriteModel \/ WriteSurvey \/ WritePowerMode \/ ThenReset
  PROVE  FenceInvariant'
<1> USE DEF WriteAddress, WritePortOutput, WritePortInput, WriteFrequency, WriteModel,
            WriteSurvey, WritePowerMode, ThenReset, WriteBack
<1>1. UNCHANGED <<receiver, saved, fences, fencesTaken, call>>
  BY DEF keptVars, receiverVars, observers
<1>2. call.op \notin FenceOps
  BY DEF FenceOps
<1>3. "id" \in DOMAIN packet'
  BY DEF Whole, FenceInvariant, Shapes
<1> QED BY <1>1, <1>2, <1>3, OtherOperations

LEMMA PowerModes ==
  ASSUME FenceInvariant, ReadPowerMode \/ \E v \in {0, 1} : PowerSaveMode(v)
  PROVE  FenceInvariant'
<1>1. CASE ReadPowerMode
  <2>1. UNCHANGED <<receiver, saved, fences, fencesTaken, call>>
    BY <1>1 DEF ReadPowerMode, keptVars, receiverVars, observers
  <2>2. call.op \notin FenceOps /\ "id" \in DOMAIN packet'
    BY <1>1 DEF ReadPowerMode, FenceOps, Prepared
  <2> QED BY <2>1, <2>2, OtherOperations
<1>2. CASE \E v \in {0, 1} : PowerSaveMode(v)
  <2>1. PICK v : PowerSaveMode(v)
    BY <1>2
  <2>2. UNCHANGED <<receiver, saved, fences, fencesTaken>>
    BY <2>1 DEF PowerSaveMode, Elsewhere, receiverVars
  <2>3. call'.op \notin FenceOps
    BY <2>1 DEF PowerSaveMode, Begins, FenceOps
  <2>4. "id" \in DOMAIN packet'
    BY <2>1 DEF PowerSaveMode, Prepared, FenceInvariant, Shapes
  <2> QED BY <2>2, <2>3, <2>4, OtherOperations
<1> QED BY <1>1, <1>2

\* The fence commands take the new list with them, and are not yet obeyed.
LEMMA FenceCommands ==
  ASSUME FenceInvariant, ClearGeofences \/ \E c \in Circles : AddGeofence(c)
  PROVE  FenceInvariant'
<1>1. ~fencesTaken'
  BY DEF ClearGeofences, AddGeofence
<1>2. call'.arg = fences' /\ UNCHANGED <<receiver, saved>> /\ "id" \in DOMAIN packet'
  <2>1. CASE ClearGeofences
    BY <2>1, SingleOperations DEF ClearGeofences
  <2>2. CASE \E c \in Circles : AddGeofence(c)
    BY <2>2, SingleOperations DEF AddGeofence
  <2> QED BY <2>1, <2>2
<1> QED BY <1>1, <1>2 DEF FenceInvariant, FencesAgree, CarriesTheList, Shapes

\* The steps that are no operation.
LEMMA OtherSteps ==
  ASSUME FenceInvariant, Return \/ CheckUblox \/ Restart
  PROVE  FenceInvariant'
<1>1. CASE Return
  BY <1>1 DEF Return, driverVars, receiverVars, observers, FenceInvariant, FencesAgree,
              CarriesTheList, Shapes
<1>2. CASE CheckUblox
  BY <1>2 DEF CheckUblox, Overwritten, keptVars, receiverVars, FenceInvariant, FencesAgree,
              CarriesTheList, Shapes
<1>3. CASE Restart
  BY <1>3 DEF Restart, receiverVars, Nobody, FenceInvariant, FencesAgree,
              CarriesTheList, Shapes
<1> QED BY <1>1, <1>2, <1>3

----------------------------------------------------------------------------
(***************************************************************************)
(* addGeofence and clearGeofences keep the list before they know whether   *)
(* it arrived (ublox.cpp, from line 1779): whatever became of the commands *)
(* before, once one was obeyed the receiver has that list, until a reset.  *)
(***************************************************************************)
THEOREM FencesAlwaysAgree == Spec => []FencesAgree
<1>1. Init => FenceInvariant
  BY DEF Init, Factory, Nobody, FenceInvariant, FencesAgree, CarriesTheList, Shapes
<1>2. FenceInvariant /\ [Next]_vars => FenceInvariant'
  <2> SUFFICES ASSUME FenceInvariant, [Next]_vars
               PROVE  FenceInvariant'
    OBVIOUS
  <2>1. CASE SendCommand
    BY <2>1, SentFences
  <2>2. CASE Return \/ CheckUblox \/ Restart
    BY <2>2, OtherSteps
  <2>3. CASE \/ \E r \in {"PRT", "RATE", "TMODE3"} : GetSetting(r)
             \/ \E query \in Queries : GetStatus(query)
             \/ SaveConfiguration \/ FactoryDefault \/ HardReset
             \/ \E on \in BOOLEAN : ConfigureMessage(on)
             \/ \E k \in Keys : GetVal(k)
    BY <2>3, OtherSingles
  <2>4. CASE \E op \in DOMAIN PollOf \ {"setI2CAddress"}, v \in Settings : ReadSetting(op, v)
    BY <2>4, ReadSettings
  <2>5. CASE \E a \in Addresses : ReadSetting("setI2CAddress", a)
    <3>1. "setI2CAddress" \in DOMAIN PollOf
      BY DEF PollOf
    <3> QED BY <2>5, <3>1, ReadSettings
  <2>6. CASE \/ WriteAddress \/ WritePortOutput \/ WritePortInput \/ WriteFrequency
             \/ WriteModel \/ WriteSurvey \/ WritePowerMode \/ ThenReset
    BY <2>6, WriteBacks
  <2>7. CASE ReadPowerMode \/ \E v \in {0, 1} : PowerSaveMode(v)
    BY <2>7, PowerModes
  <2>8. CASE FactoryReset
    <3>1. UNCHANGED <<receiver, saved, fences, fencesTaken>> /\ "id" \in DOMAIN packet'
      BY <2>8 DEF FactoryReset, Prepared, Elsewhere, receiverVars
    <3>2. call'.op \notin FenceOps
      BY <2>8 DEF FactoryReset, Begins, FenceOps
    <3> QED BY <3>1, <3>2, OtherOperations
  <2>9. CASE ClearGeofences \/ \E c \in Circles : AddGeofence(c)
    BY <2>9, FenceCommands
  <2>10. CASE \E k \in Keys, v \in Values :
                NewCfgValset(k, v) \/ AddCfgValset(k, v) \/ SendCfgValset(k, v) \/ SetVal(k, v)
    BY <2>10, ListOperations
  <2>11. CASE UNCHANGED vars
    BY <2>11 DEF vars, driverVars, keptVars, receiverVars, observers, FenceInvariant,
                 FencesAgree, CarriesTheList, Shapes
  <2> QED BY <2>1, <2>2, <2>3, <2>4, <2>5, <2>6, <2>7, <2>8, <2>9, <2>10, <2>11 DEF Next
<1>3. FenceInvariant => FencesAgree
  BY DEF FenceInvariant
<1> QED BY <1>1, <1>2, <1>3, PTL DEF Spec

----------------------------------------------------------------------------
(***************************************************************************)
(* The address.  The driver never stores another than the default one: to  *)
(* do so a command of setI2CAddress would have to end with FAIL, which     *)
(* only a poll of one byte does.  So the receiver must keep the default    *)
(* one too, in what it has and in what it has saved.  What puts it at risk *)
(* are the write-backs of the port: they carry whatever payload has at the *)
(* place of the address, which is what was read, if anything was.          *)
(***************************************************************************)
PortOps == {"setPortOutput", "setPortInput"}

HasPort(config) == "regs" \in DOMAIN config /\ "PRT" \in DOMAIN config.regs

AtDefault(config) == config.regs["PRT"][4] = 2 * DefaultAddress

PortIsRead ==
  answered /\ ~strayed /\ call.op # "setI2CAddress"
    /\ (packet.id = "PRT" \/ call.op \in PortOps)
      => payload[4] = 2 * DefaultAddress

PortOpsSendPort ==
  call.op \in PortOps => (pc = "sending" \/ answered => packet.id = "PRT")

NeverStored ==
  /\ stage = 0 /\ pc # "idle" => call.op = "powerSaveMode"
  /\ call.op = "setI2CAddress" /\ stage = 2 =>
       /\ pc = "sending" => packet.len = 20
       /\ pc = "sent" => status # "FAIL"

AddressShapes ==
  /\ HasPort(receiver) /\ HasPort(saved)
  /\ {"id", "len"} \subseteq DOMAIN packet /\ 4 \in DOMAIN payload

AddressInvariant ==
  /\ AddressShapes /\ NeverStored /\ PortOpsSendPort /\ PortIsRead
  /\ address = DefaultAddress
  /\ ~strayed => AtDefault(receiver) /\ AtDefault(saved)

LEMMA FourIsASpot == 4 \in AllSpots /\ "PRT" \in Registers
<1>1. "PRT" \in Registers
  BY DEF Registers, Size
<1>2. 4 \in Spots["PRT"]
  BY DEF Spots
<1> QED BY <1>1, <1>2 DEF AllSpots

LEMMA FactoryAtDefault == HasPort(Factory) /\ AtDefault(Factory)
<1>1. 4 \in Spots["PRT"]
  BY DEF Spots
<1> QED BY <1>1, FourIsASpot DEF Factory, HasPort, AtDefault

\* The receiver's address survives every command it obeys, or it has strayed.
LEMMA ObeyedAddress ==
  ASSUME AddressInvariant, Obeys
  PROVE  /\ HasPort(receiver') /\ HasPort(saved')
         /\ strayed => strayed'
         /\ ~strayed' => AtDefault(receiver') /\ AtDefault(saved')
<1> USE DEF AddressInvariant, AddressShapes, HasPort
<1>1. HasPort(Factory) /\ AtDefault(Factory)
  BY FactoryAtDefault
<1>2. saved' \in {Factory, receiver, saved}
  BY DEF Obeys
<1>3. CASE packet.id \in Registers /\ ~Polls
  <2>1. receiver' = [receiver EXCEPT !.regs[packet.id] = Replaced(packet.id)]
    <3>1. packet.id \notin {"GEOFENCE", "VALSET", "MSG", "RST", "CFG"}
      BY <1>3 DEF Registers, Size
    <3> QED BY <1>3, <3>1 DEF Obeys
  <2>2. HasPort(receiver')
    BY <2>1
  <2>3. CASE packet.id # "PRT"
    <3>1. receiver'.regs["PRT"] = receiver.regs["PRT"]
      BY <2>1, <2>3
    <3> QED BY <1>1, <1>2, <2>2, <3>1 DEF Obeys, AtDefault
  <2>4. CASE packet.id = "PRT"
    <3>1. ASSUME ~strayed'
          PROVE  payload[4] = 2 * DefaultAddress
      BY <1>3, <2>4, <3>1 DEF Obeys, PortIsRead
    <3>2. receiver'.regs["PRT"][4] = payload[4]
      <4>1. 4 \in Spots["PRT"]
        BY DEF Spots
      <4>2. receiver'.regs["PRT"] = Replaced("PRT")
        BY <2>1, <2>4
      <4> QED BY <4>1, <4>2 DEF Replaced
    <3> QED BY <1>1, <1>2, <2>2, <3>1, <3>2 DEF Obeys, AtDefault
  <2> QED BY <2>3, <2>4
<1>4. CASE ~(packet.id \in Registers /\ ~Polls)
  <2>1. \/ receiver' \in {receiver, saved, Factory}
        \/ receiver' = [receiver EXCEPT !.fences = call.arg]
        \/ receiver' = [receiver EXCEPT !.vals = Written(@, entries)]
        \/ receiver' = [receiver EXCEPT !.reports = call.arg]
    BY <1>4 DEF Obeys
  <2>2. \/ receiver' \in {saved, Factory}
        \/ "regs" \in DOMAIN receiver' /\ receiver'.regs = receiver.regs
    BY <2>1
  <2> QED BY <1>1, <1>2, <2>2 DEF Obeys, AtDefault
<1> QED BY <1>3, <1>4

\* What sendCommand leaves in the buffer and the packet.
LEMMA SentPort ==
  ASSUME AddressInvariant, SendCommand
  PROVE  /\ {"id", "len"} \subseteq DOMAIN packet' /\ 4 \in DOMAIN payload'
         /\ packet'.id = "PRT" => packet.id = "PRT"
         /\ call.op \in PortOps /\ answered' => packet'.id = "PRT"
         /\ \/ ~answered' \/ UNCHANGED <<payload, answered>>
            \/ packet.id \notin {"PRT"} /\ call.op \notin PortOps
            \/ payload'[4] = receiver.regs["PRT"][4]
<1> USE DEF AddressInvariant, AddressShapes
<1> 4 \in AllSpots
  BY FourIsASpot
<1>1. CASE Refused \/ GoneOut \/ Acknowledged \/ NotAcknowledged \/ AckOnly
  BY <1>1 DEF Refused, GoneOut, Acknowledged, NotAcknowledged, AckOnly, BufferAsSent,
              PortOpsSendPort
<1>2. call.op \in PortOps => packet.id = "PRT"
  BY DEF PortOpsSendPort, SendCommand, Refused, GoneOut, Unanswered, Acknowledged,
         NotAcknowledged, Answer, AckOnly, Reported, ReportedAlone, QueryAnswer, Returned
<1>3. packet.id = "PRT" => Cfg /\ ~Asks
  BY DEF Cfg, Asks, Queries, QueryLen
<1>4. CASE Unanswered
  <2>1. packet' \in {packet, Nobody} /\ (packet.id = "PRT" => packet' = packet)
    BY <1>3, <1>4 DEF Unanswered
  <2> QED BY <1>2, <1>4, <2>1 DEF Unanswered, Nobody
<1>5. CASE Answer
  <2>1. packet' = [packet EXCEPT !.len = Size[packet.id]]
    BY <1>5 DEF Answer
  <2>2. PICK good \in BOOLEAN :
          /\ payload' = [s \in AllSpots |->
                           IF s \notin Spots[packet.id] THEN payload[s]
                           ELSE IF good THEN receiver.regs[packet.id][s] ELSE Junk]
          /\ answered' = good
    BY <1>5 DEF Answer
  <2>3. 4 \in Spots["PRT"]
    BY DEF Spots
  <2>4. packet.id = "PRT" /\ answered' => payload'[4] = receiver.regs["PRT"][4]
    BY <2>2, <2>3
  <2>5. {"id", "len"} \subseteq DOMAIN packet' /\ packet'.id = packet.id
    BY <2>1
  <2>6. 4 \in DOMAIN payload'
    BY <2>2
  <2> QED BY <1>2, <2>4, <2>5, <2>6
<1>6. CASE Reported
  BY <1>6 DEF Reported, Overwritten, Wiped
<1>7. CASE ReportedAlone
  BY <1>2, <1>3, <1>7 DEF ReportedAlone, Wiped, Nobody
<1>8. CASE QueryAnswer
  <2>1. packet' = [packet EXCEPT !.len = QueryLen[packet.id]] /\ packet.id # "PRT"
    BY <1>3, <1>8 DEF QueryAnswer
  <2>2. 4 \in DOMAIN payload'
    BY <1>8 DEF QueryAnswer, Wiped
  <2>3. {"id", "len"} \subseteq DOMAIN packet' /\ packet'.id = packet.id
    BY <2>1
  <2> QED BY <1>2, <2>1, <2>2, <2>3
<1> QED BY <1>1, <1>4, <1>5, <1>6, <1>7, <1>8 DEF SendCommand

LEMMA SentAddress ==
  ASSUME AddressInvariant, SendCommand
  PROVE  AddressInvariant'
<1>1. pc = "sending" /\ pc' = "sent" /\ UNCHANGED <<call, stage, address>>
  BY DEF SendCommand, Refused, GoneOut, Unanswered, Acknowledged, NotAcknowledged,
         Answer, AckOnly, Reported, ReportedAlone, QueryAnswer, Returned
<1>2. /\ HasPort(receiver') /\ HasPort(saved')
      /\ strayed => strayed'
      /\ ~strayed' => AtDefault(receiver') /\ AtDefault(saved')
  <2>1. CASE NotReceived
    BY <2>1 DEF NotReceived, AddressInvariant, AddressShapes
  <2> QED BY <2>1, SentObeysOrNot, ObeyedAddress
<1>3. AddressShapes'
  BY <1>2, SentPort DEF AddressShapes, HasPort
<1>4. PortOpsSendPort'
  BY <1>1, SentPort DEF PortOpsSendPort
<1>5. PortIsRead'
  <2>1. ~strayed' => receiver.regs["PRT"][4] = 2 * DefaultAddress
    BY <1>2 DEF AddressInvariant, AtDefault
  <2> QED BY <1>1, <1>2, <2>1, SentPort DEF PortIsRead, PortOps, AddressInvariant
<1>6. ASSUME call.op = "setI2CAddress", stage = 2
      PROVE  status' # "FAIL"
  <2>1. packet.len = 20
    BY <1>1, <1>6 DEF AddressInvariant, NeverStored
  <2> QED BY <2>1 DEF SendCommand, Refused, GoneOut, Unanswered, Acknowledged,
            NotAcknowledged, Answer, AckOnly, Reported, ReportedAlone, QueryAnswer, Returned
<1>7. NeverStored'
  BY <1>1, <1>6 DEF NeverStored, AddressInvariant
<1> QED BY <1>1, <1>2, <1>3, <1>4, <1>5, <1>7 DEF AddressInvariant

\* An operation begins: nothing has been read for it.
LEMMA BegunAddress ==
  ASSUME AddressInvariant, ~answered',
         UNCHANGED <<receiver, saved, strayed, address>>,
         {"id", "len"} \subseteq DOMAIN packet', 4 \in DOMAIN payload',
         call'.op \in PortOps /\ pc' = "sending" => packet'.id = "PRT",
         pc' = "idle" \/ stage' # 0 \/ call'.op = "powerSaveMode",
         pc' = "idle" \/ stage' # 2 \/ call'.op # "setI2CAddress"
  PROVE  AddressInvariant'
<1>1. NeverStored'
  BY DEF NeverStored
<1>2. PortOpsSendPort' /\ PortIsRead'
  BY DEF PortOpsSendPort, PortIsRead
<1> QED BY <1>1, <1>2 DEF AddressInvariant, AddressShapes, HasPort, AtDefault

LEMMA SinglesAddress ==
  ASSUME AddressInvariant, NEW op, NEW arg, NEW id, NEW len, Single(op, arg, id, len),
         op \notin PortOps \cup {"setI2CAddress"}
  PROVE  AddressInvariant'
<1>1. UNCHANGED <<receiver, saved, strayed, address>>
  BY DEF Single, Elsewhere, receiverVars
<1>2. 4 \in DOMAIN payload'
  BY FourIsASpot DEF Single, Wiped
<1>3. /\ ~answered' /\ call'.op = op /\ {"id", "len"} \subseteq DOMAIN packet'
      /\ stage' = 2
  BY DEF Single, Begins, Prepared
<1> QED BY <1>1, <1>2, <1>3, BegunAddress

LEMMA OtherSinglesAddress ==
  ASSUME AddressInvariant,
         \/ \E r \in {"PRT", "RATE", "TMODE3"} : GetSetting(r)
         \/ \E query \in Queries : GetStatus(query)
         \/ SaveConfiguration \/ FactoryDefault \/ HardReset
         \/ \E on \in BOOLEAN : ConfigureMessage(on)
         \/ \E k \in Keys : GetVal(k)
         \/ ClearGeofences \/ \E c \in Circles : AddGeofence(c)
  PROVE  AddressInvariant'
<1> DEFINE Ops == {"getSetting", "getStatus", "saveConfiguration", "factoryDefault",
                   "hardReset", "configureMessage", "getVal", "clearGeofences",
                   "addGeofence"}
<1>1. \E op \in Ops : \E arg, id, len : Single(op, arg, id, len)
  BY DEF GetSetting, GetStatus, SaveConfiguration, FactoryDefault, HardReset,
         ConfigureMessage, GetVal, ClearGeofences, AddGeofence
<1>2. \A op \in Ops : op \notin PortOps \cup {"setI2CAddress"}
  BY DEF PortOps
<1> HIDE DEF Ops
<1> QED BY <1>1, <1>2, SinglesAddress

LEMMA ReadsAddress ==
  ASSUME AddressInvariant,
         \/ \E op \in DOMAIN PollOf \ {"setI2CAddress"}, v \in Settings : ReadSetting(op, v)
         \/ \E a \in Addresses : ReadSetting("setI2CAddress", a)
         \/ FactoryReset
  PROVE  AddressInvariant'
<1>1. ASSUME NEW op, NEW v, ReadSetting(op, v)
      PROVE  AddressInvariant'
  <2>1. UNCHANGED <<receiver, saved, strayed, address>>
    BY <1>1 DEF ReadSetting, Elsewhere, receiverVars
  <2>2. 4 \in DOMAIN payload'
    BY <1>1, FourIsASpot DEF ReadSetting, Wiped
  <2>3. /\ ~answered' /\ call'.op = op /\ stage' = 1
        /\ packet' = [id |-> PollOf[op], len |-> PollLen(PollOf[op])]
    BY <1>1 DEF ReadSetting, Begins, Prepared
  <2>4. op \in PortOps => PollOf[op] = "PRT"
    BY DEF PortOps, PollOf
  <2> QED BY <2>1, <2>2, <2>3, <2>4, BegunAddress
<1>2. CASE FactoryReset
  <2>1. UNCHANGED <<receiver, saved, strayed, address>>
    BY <1>2 DEF FactoryReset, Elsewhere, receiverVars
  <2>2. 4 \in DOMAIN payload'
    BY <1>2, FourIsASpot DEF FactoryReset, Wiped
  <2>3. /\ ~answered' /\ call'.op = "factoryReset" /\ stage' = 1
        /\ {"id", "len"} \subseteq DOMAIN packet'
    BY <1>2 DEF FactoryReset, Begins, Prepared
  <2>4. "factoryReset" \notin PortOps
    BY DEF PortOps
  <2> QED BY <2>1, <2>2, <2>3, <2>4, BegunAddress
<1> QED BY <1>1, <1>2

LEMMA ListsAddress ==
  ASSUME AddressInvariant, NEW k, NEW v,
         NewCfgValset(k, v) \/ AddCfgValset(k, v) \/ SendCfgValset(k, v) \/ SetVal(k, v)
  PROVE  AddressInvariant'
<1>1. UNCHANGED <<receiver, saved, strayed, address>>
  BY DEF NewCfgValset, AddCfgValset, SendCfgValset, SetVal, Elsewhere, receiverVars
<1>2. 4 \in DOMAIN payload'
  BY FourIsASpot DEF NewCfgValset, AddCfgValset, SendCfgValset, SetVal, Added, Wiped
<1>3. {"id", "len"} \subseteq DOMAIN packet'
  BY DEF NewCfgValset, AddCfgValset, SendCfgValset, SetVal, Added, Prepared,
         AddressInvariant, AddressShapes
<1>4. /\ ~answered' /\ call'.op \in {"newCfgValset", "addCfgValset", "sendCfgValset", "setVal"}
      /\ pc' = "idle" \/ stage' = 2
  BY DEF NewCfgValset, AddCfgValset, SendCfgValset, SetVal, Begins, Prepared
<1>5. call'.op \notin PortOps \cup {"setI2CAddress"}
  BY <1>4 DEF PortOps
<1> QED BY <1>1, <1>2, <1>3, <1>4, <1>5, BegunAddress

LEMMA PowerAddress ==
  ASSUME AddressInvariant, ReadPowerMode \/ \E v \in {0, 1} : PowerSaveMode(v)
  PROVE  AddressInvariant'
<1>1. CASE ReadPowerMode
  <2>1. /\ UNCHANGED <<receiver, saved, strayed, address, payload, answered, call>>
        /\ call.op = "powerSaveMode" /\ stage' = 1
        /\ packet' = [id |-> "RXM", len |-> 0]
    BY <1>1 DEF ReadPowerMode, Prepared, keptVars, receiverVars, observers
  <2>2. call.op \notin PortOps
    BY <2>1 DEF PortOps
  <2> QED BY <2>1, <2>2 DEF AddressInvariant, AddressShapes, HasPort, AtDefault,
            NeverStored, PortOpsSendPort, PortIsRead
<1>2. CASE \E v \in {0, 1} : PowerSaveMode(v)
  <2>1. PICK v : PowerSaveMode(v)
    BY <1>2
  <2>2. UNCHANGED <<receiver, saved, strayed, address, payload>>
    BY <2>1 DEF PowerSaveMode, Elsewhere, receiverVars
  <2>3. ~answered' /\ call'.op = "powerSaveMode"
    BY <2>1 DEF PowerSaveMode, Begins
  <2>4. {"id", "len"} \subseteq DOMAIN packet'
    BY <2>1 DEF PowerSaveMode, Prepared, AddressInvariant, AddressShapes
  <2>5. "powerSaveMode" \notin PortOps
    BY DEF PortOps
  <2> QED BY <2>2, <2>3, <2>4, <2>5, BegunAddress DEF AddressInvariant, AddressShapes
<1> QED BY <1>1, <1>2

\* A write-back changes one place of the port, and not that of the address
\* (but for setI2CAddress).
LEMMA WriteBacksAddress ==
  ASSUME AddressInvariant,
         \/ WriteAddress \/ WritePortOutput \/ WritePortInput \/ WriteFrequency
         \/ WriteModel \/ WriteSurvey \/ WritePowerMode \/ ThenReset
  PROVE  AddressInvariant'
<1> USE DEF AddressInvariant, AddressShapes, WriteBack
<1>1. /\ UNCHANGED <<receiver, saved, strayed, address, answered, call>>
      /\ pc' = "sending" /\ stage' = 2
  BY DEF WriteAddress, WritePortOutput, WritePortInput, WriteFrequency, WriteModel,
         WriteSurvey, WritePowerMode, ThenReset, keptVars, receiverVars, observers
<1>2. {"id", "len"} \subseteq DOMAIN packet' /\ 4 \in DOMAIN payload'
  BY FourIsASpot
  DEF WriteAddress, WritePortOutput, WritePortInput, WriteFrequency, WriteModel,
      WriteSurvey, WritePowerMode, ThenReset, Whole, Wiped
<1>3. CASE WriteAddress
  BY <1>1, <1>2, <1>3 DEF WriteAddress, Whole, Size, PortOps, NeverStored,
                          PortOpsSendPort, PortIsRead, HasPort
<1>4. CASE WritePortOutput \/ WritePortInput
  <2>1. packet' = Whole("PRT") /\ call.op \in PortOps /\ payload'[4] = payload[4]
    BY <1>4 DEF WritePortOutput, WritePortInput, PortOps
  <2>2. call.op # "setI2CAddress"
    BY <2>1 DEF PortOps
  <2> QED BY <1>1, <1>2, <2>1, <2>2 DEF Whole, NeverStored, PortOpsSendPort, PortIsRead,
                                        HasPort
<1>5. CASE WriteFrequency \/ WriteModel \/ WritePowerMode
  <2>1. call.op \notin PortOps \cup {"setI2CAddress"} /\ packet'.id = packet.id
    BY <1>5 DEF WriteFrequency, WriteModel, WritePowerMode, PortOps
  <2>2. payload'[4] = payload[4]
    BY <1>5 DEF WriteFrequency, WriteModel, WritePowerMode
  <2> QED BY <1>1, <1>2, <2>1, <2>2 DEF NeverStored, PortOpsSendPort, PortIsRead, HasPort
<1>6. CASE WriteSurvey \/ ThenReset
  <2>1. call.op \notin PortOps \cup {"setI2CAddress"} /\ packet'.id # "PRT"
    BY <1>6 DEF WriteSurvey, ThenReset, PortOps, Whole
  <2> QED BY <1>1, <1>2, <2>1 DEF NeverStored, PortOpsSendPort, PortIsRead, HasPort
<1> QED BY <1>3, <1>4, <1>5, <1>6

LEMMA OtherStepsAddress ==
  ASSUME AddressInvariant, Return \/ CheckUblox \/ Restart
  PROVE  AddressInvariant'
<1> USE DEF AddressInvariant, AddressShapes, HasPort, NeverStored, PortOpsSendPort, PortIsRead
<1>1. CASE Return
  <2>1. /\ pc = "sent" /\ pc' = "idle"
        /\ UNCHANGED <<receiver, saved, strayed, answered, call, stage, packet, payload>>
    BY <1>1 DEF Return, driverVars, receiverVars, observers
  <2>2. address' = address
    <3>1. call.op = "setI2CAddress" => stage = 2
      BY <1>1, <2>1 DEF Return
    <3> QED BY <1>1, <2>1, <3>1 DEF Return, StoredAddress
  <2> QED BY <2>1, <2>2
<1>2. CASE CheckUblox
  BY <1>2, FourIsASpot DEF CheckUblox, Overwritten, Wiped, keptVars, receiverVars
<1>3. CASE Restart
  BY <1>3, FourIsASpot DEF Restart, receiverVars, Nobody, Blank
<1> QED BY <1>1, <1>2, <1>3

(***************************************************************************)
(* setPortOutput and setPortInput write the port back with the address in  *)
(* it, setI2CAddress never learns that it was obeyed (ublox.cpp:171,       *)
(* 1567-1664): through any of them, and resets, saves and restarts, driver *)
(* and receiver have the same address as long as the receiver was told no  *)
(* other and no write-back followed a poll without an answer.              *)
(***************************************************************************)
THEOREM AddressIsKept == Spec => []AddressIsWhereAsked
<1>1. Init => AddressInvariant
  BY FactoryAtDefault, FourIsASpot
  DEF Init, AddressInvariant, AddressShapes, HasPort, AtDefault, NeverStored,
      PortOpsSendPort, PortIsRead, Nobody, Blank
<1>2. AddressInvariant /\ [Next]_vars => AddressInvariant'
  <2> SUFFICES ASSUME AddressInvariant, [Next]_vars
               PROVE  AddressInvariant'
    OBVIOUS
  <2>1. CASE SendCommand
    BY <2>1, SentAddress
  <2>2. CASE Return \/ CheckUblox \/ Restart
    BY <2>2, OtherStepsAddress
  <2>3. CASE \/ \E r \in {"PRT", "RATE", "TMODE3"} : GetSetting(r)
             \/ \E query \in Queries : GetStatus(query)
             \/ SaveConfiguration \/ FactoryDefault \/ HardReset
             \/ \E on \in BOOLEAN : ConfigureMessage(on)
             \/ \E k \in Keys : GetVal(k)
             \/ ClearGeofences \/ \E c \in Circles : AddGeofence(c)
    BY <2>3, OtherSinglesAddress
  <2>4. CASE \/ \E op \in DOMAIN PollOf \ {"setI2CAddress"}, v \in Settings : ReadSetting(op, v)
             \/ \E a \in Addresses : ReadSetting("setI2CAddress", a)
             \/ FactoryReset
    BY <2>4, ReadsAddress
  <2>5. CASE \/ WriteAddress \/ WritePortOutput \/ WritePortInput \/ WriteFrequency
             \/ WriteModel \/ WriteSurvey \/ WritePowerMode \/ ThenReset
    BY <2>5, WriteBacksAddress
  <2>6. CASE ReadPowerMode \/ \E v \in {0, 1} : PowerSaveMode(v)
    BY <2>6, PowerAddress
  <2>7. CASE \E k \in Keys, v \in Values :
               NewCfgValset(k, v) \/ AddCfgValset(k, v) \/ SendCfgValset(k, v) \/ SetVal(k, v)
    BY <2>7, ListsAddress
  <2>8. CASE UNCHANGED vars
    BY <2>8 DEF vars, driverVars, keptVars, receiverVars, observers, AddressInvariant,
                AddressShapes, HasPort, AtDefault, NeverStored, PortOpsSendPort, PortIsRead
  <2> QED BY <2>1, <2>2, <2>3, <2>4, <2>5, <2>6, <2>7, <2>8 DEF Next
<1>3. AddressInvariant => AddressIsWhereAsked
  <2> SUFFICES ASSUME AddressInvariant, ~strayed
               PROVE  address = AddressOf(receiver)
    BY DEF AddressIsWhereAsked
  <2>1. address = DefaultAddress /\ receiver.regs.PRT[4] = 2 * DefaultAddress
    BY DEF AddressInvariant, AtDefault
  <2>2. DefaultAddress \in Nat
    BY ConfigAssumption
  <2>3. (2 * DefaultAddress) \div 2 = DefaultAddress
    BY <2>2
  <2> QED BY <2>1, <2>3 DEF AddressOf
<1> QED BY <1>1, <1>2, <1>3, PTL DEF Spec

----------------------------------------------------------------------------
(***************************************************************************)
(* The list of keys.  While nothing came between, the packet is the list's *)
(* and has what was listed.                                                *)
(***************************************************************************)
ListInvariant ==
  undisturbed => /\ entries = listed /\ packet.id = "VALSET"
                 /\ pc = "idle" \/ call.op \in {"setVal", "sendCfgValset"}

\* The records are records, with a place for the keys.
ListShapes ==
  "vals" \in DOMAIN receiver /\ "vals" \in DOMAIN saved /\ "id" \in DOMAIN packet

\* What the receiver obeys keeps its shape, and sets the keys of the packet.
LEMMA ObeyedList ==
  ASSUME ListShapes, Obeys
  PROVE  /\ "vals" \in DOMAIN receiver' /\ "vals" \in DOMAIN saved'
         /\ packet.id = "VALSET" => receiver'.vals = Written(receiver.vals, entries)
<1>1. "vals" \in DOMAIN Factory
  BY DEF Factory
<1>2. "vals" \in DOMAIN receiver' /\ "vals" \in DOMAIN saved'
  BY <1>1 DEF ListShapes, Obeys
<1>3. ASSUME packet.id = "VALSET" PROVE receiver'.vals = Written(receiver.vals, entries)
  <2>1. packet.id \notin Registers
    BY <1>3 DEF Registers, Size
  <2>2. receiver' = [receiver EXCEPT !.vals = Written(receiver.vals, entries)]
    BY <1>3, <2>1 DEF Obeys
  <2> QED
    BY <2>2 DEF ListShapes
<1> QED
  BY <1>2, <1>3

LEMMA SentList ==
  ASSUME ListInvariant, ListShapes, SendCommand
  PROVE  ListInvariant' /\ ListShapes'
<1>1. UNCHANGED <<call, entries, listed>>
  BY DEF SendCommand, Refused, GoneOut, Unanswered, Acknowledged, NotAcknowledged,
         Answer, AckOnly, Reported, ReportedAlone, QueryAnswer, Returned
<1>2. pc = "sending"
  BY SentObeysOrNot
<1>3. "vals" \in DOMAIN receiver' /\ "vals" \in DOMAIN saved'
  BY SentObeysOrNot, ObeyedList DEF NotReceived, ListShapes
<1>4. packet.id = "VALSET" => Cfg /\ ~Asks /\ ~Polls
  BY DEF Cfg, Asks, Polls, Queries, QueryLen, Registers, Size
<1>5. /\ undisturbed' => undisturbed
      /\ "id" \in DOMAIN packet'
      /\ undisturbed' /\ packet.id = "VALSET" => packet'.id = "VALSET"
  <2> USE DEF ListShapes
  <2>1. CASE Refused \/ GoneOut \/ Acknowledged \/ NotAcknowledged \/ AckOnly
    BY <2>1 DEF Refused, GoneOut, Acknowledged, NotAcknowledged, AckOnly, BufferAsSent
  <2>2. CASE Unanswered
    <3>1. packet' = (IF Cfg THEN packet ELSE Nobody) /\ undisturbed' = undisturbed
      BY <2>2 DEF Unanswered
    <3> QED
      BY <1>4, <3>1 DEF Nobody
  <2>3. CASE Answer
    <3>1. packet' = [packet EXCEPT !.len = Size[packet.id]] /\ undisturbed' = undisturbed
      BY <2>3 DEF Answer
    <3> QED
      BY <3>1
  <2>4. CASE Reported
    BY <2>4 DEF Reported, Overwritten
  <2>5. CASE ReportedAlone
    <3>1. packet.id # "VALSET" /\ (packet' = packet \/ packet' = Nobody)
          /\ undisturbed' = undisturbed
      BY <1>4, <2>5 DEF ReportedAlone
    <3> QED
      BY <3>1 DEF Nobody
  <2>6. CASE QueryAnswer
    <3>1. packet' = [packet EXCEPT !.len = QueryLen[packet.id]] /\ undisturbed' = undisturbed
      BY <2>6 DEF QueryAnswer
    <3> QED
      BY <3>1
  <2> QED
    BY <2>1, <2>2, <2>3, <2>4, <2>5, <2>6 DEF SendCommand
<1>6. ListInvariant'
  BY <1>1, <1>2, <1>5 DEF ListInvariant
<1> QED
  BY <1>3, <1>5, <1>6 DEF ListShapes

\* The operations on the list.
LEMMA ListOperationsList ==
  ASSUME ListInvariant, ListShapes, NEW k, NEW v,
         NewCfgValset(k, v) \/ AddCfgValset(k, v) \/ SendCfgValset(k, v) \/ SetVal(k, v)
  PROVE  ListInvariant' /\ ListShapes'
<1>1. UNCHANGED <<receiver, saved>>
  BY DEF NewCfgValset, AddCfgValset, SendCfgValset, SetVal, Elsewhere, receiverVars
<1>2. CASE NewCfgValset(k, v) \/ SetVal(k, v)
  <2>1. entries' = listed' /\ packet'.id = "VALSET" /\ "id" \in DOMAIN packet'
    BY <1>2 DEF NewCfgValset, SetVal, Started, Prepared
  <2>2. pc' = "idle" \/ call'.op = "setVal"
    BY <1>2 DEF NewCfgValset, SetVal, Begins
  <2> QED
    BY <1>1, <2>1, <2>2 DEF ListInvariant, ListShapes
<1>3. CASE AddCfgValset(k, v) \/ SendCfgValset(k, v)
  <2>1. /\ packet' = [packet EXCEPT !.len = @ + Entry(k)] /\ undisturbed' = undisturbed
        /\ entries' = (IF packet.id = "VALSET" THEN Append(entries, <<k, v>>) ELSE entries)
        /\ listed' = (IF undisturbed THEN Append(listed, <<k, v>>) ELSE listed)
    BY <1>3 DEF AddCfgValset, SendCfgValset, Added
  <2>2. "id" \in DOMAIN packet' /\ packet'.id = packet.id
    BY <2>1 DEF ListShapes
  <2>3. pc' = "idle" \/ call'.op = "sendCfgValset"
    BY <1>3 DEF AddCfgValset, SendCfgValset, Begins
  <2> QED
    BY <1>1, <2>1, <2>2, <2>3 DEF ListInvariant, ListShapes
<1> QED
  BY <1>2, <1>3

\* The other operations: they begin with another packet, and the list is given up.
LEMMA OtherOperationsList ==
  ASSUME ListInvariant, ListShapes,
         \/ \E r \in {"PRT", "RATE", "TMODE3"} : GetSetting(r)
         \/ \E query \in Queries : GetStatus(query)
         \/ SaveConfiguration \/ FactoryDefault \/ HardReset \/ FactoryReset
         \/ \E on \in BOOLEAN : ConfigureMessage(on)
         \/ \E k \in Keys : GetVal(k)
         \/ ClearGeofences \/ \E c \in Circles : AddGeofence(c)
         \/ \E op \in DOMAIN PollOf \ {"setI2CAddress"}, v \in Settings : ReadSetting(op, v)
         \/ \E a \in Addresses : ReadSetting("setI2CAddress", a)
         \/ \E v \in {0, 1} : PowerSaveMode(v)
  PROVE  ListInvariant' /\ ListShapes'
<1>1. ASSUME NEW op, NEW arg, NEW id, NEW len, Single(op, arg, id, len)
      PROVE  ListInvariant' /\ ListShapes'
  BY <1>1 DEF Single, Prepared, NoTransaction, Elsewhere, receiverVars, ListInvariant,
              ListShapes
<1>2. ASSUME NEW op, NEW v, ReadSetting(op, v) PROVE ListInvariant' /\ ListShapes'
  BY <1>2 DEF ReadSetting, Prepared, NoTransaction, Elsewhere, receiverVars, ListInvariant,
              ListShapes
<1>3. CASE FactoryReset
  BY <1>3 DEF FactoryReset, Prepared, NoTransaction, Elsewhere, receiverVars, ListInvariant,
              ListShapes
<1>4. ASSUME NEW v, PowerSaveMode(v) PROVE ListInvariant' /\ ListShapes'
  <2>1. UNCHANGED <<receiver, saved>> /\ "id" \in DOMAIN packet'
    BY <1>4 DEF PowerSaveMode, Elsewhere, receiverVars, Prepared, ListShapes
  <2>2. CASE version >= TooNew
    <3>1. version # 0 /\ version \notin 1..(TooNew - 1)
      BY <2>2 DEF TooNew
    <3>2. pc = "idle" /\ UNCHANGED <<pc, packet, undisturbed, entries, listed>>
      BY <1>4, <2>2, <3>1 DEF PowerSaveMode, Begins
    <3> QED
      BY <2>1, <3>2 DEF ListInvariant, ListShapes
  <2>3. CASE ~(version >= TooNew)
    BY <1>4, <2>1, <2>3 DEF PowerSaveMode, NoTransaction, ListInvariant, ListShapes
  <2> QED
    BY <2>2, <2>3
<1> QED
  BY <1>1, <1>2, <1>3, <1>4 DEF GetSetting, GetStatus, SaveConfiguration, FactoryDefault,
     HardReset, ConfigureMessage, GetVal, ClearGeofences, AddGeofence

LEMMA OtherStepsList ==
  ASSUME ListInvariant, ListShapes,
         \/ WriteAddress \/ WritePortOutput \/ WritePortInput \/ WriteFrequency
         \/ WriteModel \/ WriteSurvey \/ WritePowerMode \/ ThenReset \/ ReadPowerMode
         \/ Return \/ CheckUblox \/ Restart \/ UNCHANGED vars
  PROVE  ListInvariant' /\ ListShapes' /\ receiver' = receiver
<1>1. CASE \/ WriteAddress \/ WritePortOutput \/ WritePortInput \/ WriteFrequency
           \/ WriteModel \/ WriteSurvey \/ WritePowerMode \/ ThenReset
  <2> USE <1>1 DEF WriteAddress, WritePortOutput, WritePortInput, WriteFrequency, WriteModel,
                   WriteSurvey, WritePowerMode, ThenReset, WriteBack
  <2>1. UNCHANGED <<receiver, saved, undisturbed>> /\ pc = "sent"
    BY DEF receiverVars, observers
  <2>2. call.op \notin {"setVal", "sendCfgValset"}
    OBVIOUS
  <2>3. "id" \in DOMAIN packet'
    BY DEF Whole, ListShapes
  <2> QED
    BY <2>1, <2>2, <2>3 DEF ListInvariant, ListShapes
<1>2. CASE ReadPowerMode
  <2>1. /\ UNCHANGED <<receiver, saved, undisturbed>> /\ pc = "sent"
        /\ call.op = "powerSaveMode" /\ "id" \in DOMAIN packet'
    BY <1>2 DEF ReadPowerMode, Prepared, receiverVars, observers
  <2> QED
    BY <2>1 DEF ListInvariant, ListShapes
<1>3. CASE Return
  BY <1>3 DEF Return, driverVars, receiverVars, observers, ListInvariant, ListShapes
<1>4. CASE CheckUblox
  BY <1>4 DEF CheckUblox, Overwritten, receiverVars, ListInvariant, ListShapes
<1>5. CASE Restart
  BY <1>5 DEF Restart, receiverVars, Nobody, ListInvariant, ListShapes
<1>6. CASE UNCHANGED vars
  BY <1>6 DEF vars, driverVars, receiverVars, observers, ListInvariant, ListShapes
<1> QED
  BY <1>1, <1>2, <1>3, <1>4, <1>5, <1>6

LEMMA ListStep ==
  ListInvariant /\ ListShapes /\ [Next]_vars => ListInvariant' /\ ListShapes'
BY SentList, ListOperationsList, OtherOperationsList, OtherStepsList DEF Next

\* Only what the receiver obeys changes it.
LEMMA OnlyCommandsChange ==
  ASSUME [Next]_vars, receiver' # receiver
  PROVE  SendCommand /\ Understood /\ Obeys
<1>1. CASE SendCommand
  BY <1>1, SentObeysOrNot DEF NotReceived
<1>2. CASE ~SendCommand
  <2>1. ASSUME NEW op, NEW arg, NEW id, NEW len, Single(op, arg, id, len)
        PROVE  receiver' = receiver
    BY <2>1 DEF Single, Elsewhere, receiverVars
  <2>2. CASE \/ \E r \in {"PRT", "RATE", "TMODE3"} : GetSetting(r)
             \/ \E query \in Queries : GetStatus(query)
             \/ SaveConfiguration \/ FactoryDefault \/ HardReset
             \/ \E on \in BOOLEAN : ConfigureMessage(on)
             \/ \E k \in Keys : GetVal(k)
             \/ ClearGeofences \/ \E c \in Circles : AddGeofence(c)
    BY <2>1, <2>2 DEF GetSetting, GetStatus, SaveConfiguration, FactoryDefault,
       HardReset, ConfigureMessage, GetVal, ClearGeofences, AddGeofence
  <2>3. CASE \/ FactoryReset
             \/ \E op \in DOMAIN PollOf \ {"setI2CAddress"}, v \in Settings : ReadSetting(op, v)
             \/ \E a \in Addresses : ReadSetting("setI2CAddress", a)
             \/ \E v \in {0, 1} : PowerSaveMode(v)
             \/ \E k \in Keys, v \in Values :
                  NewCfgValset(k, v) \/ AddCfgValset(k, v) \/ SendCfgValset(k, v) \/ SetVal(k, v)
    BY <2>3 DEF FactoryReset, ReadSetting, PowerSaveMode, NewCfgValset, AddCfgValset,
       SendCfgValset, SetVal, Elsewhere, receiverVars
  <2>4. CASE \/ WriteAddress \/ WritePortOutput \/ WritePortInput \/ WriteFrequency
             \/ WriteModel \/ WriteSurvey \/ WritePowerMode \/ ThenReset \/ ReadPowerMode
    BY <2>4 DEF WriteAddress, WritePortOutput, WritePortInput, WriteFrequency, WriteModel,
       WriteSurvey, WritePowerMode, ThenReset, WriteBack, ReadPowerMode, receiverVars
  <2>5. CASE Return \/ CheckUblox \/ Restart \/ UNCHANGED vars
    BY <2>5 DEF Return, CheckUblox, Restart, vars, receiverVars
  <2> QED
    BY <1>2, <2>2, <2>3, <2>4, <2>5 DEF Next
<1> QED
  BY <1>1, <1>2

(***************************************************************************)
(* newCfgValset starts a list, addCfgValset goes on with it at the end of  *)
(* whatever the packet has, sendCfgValset sends it (ublox.cpp, from line   *)
(* 1254): if nothing came between, and it fits into the buffer (which no   *)
(* call looks at), what the receiver is told is what was listed, for any   *)
(* keys of one, two or four bytes, any values and any faults.              *)
(***************************************************************************)
THEOREM TransactionsAreWhole == Spec => TransactionIntact
<1>1. Init => ListInvariant /\ ListShapes
  BY DEF Init, Factory, Nobody, ListInvariant, ListShapes
<1>2. ListInvariant /\ ListShapes /\ [Next]_vars =>
        [receiver'.vals # receiver.vals /\ packet.id = "VALSET" /\ undisturbed =>
           receiver'.vals = Written(receiver.vals, listed)]_vars
  <2> SUFFICES ASSUME ListInvariant, ListShapes, [Next]_vars,
                      receiver'.vals # receiver.vals, packet.id = "VALSET", undisturbed
               PROVE  receiver'.vals = Written(receiver.vals, listed)
    OBVIOUS
  <2>1. Obeys
    BY OnlyCommandsChange
  <2>2. receiver'.vals = Written(receiver.vals, entries)
    BY <2>1, ObeyedList
  <2> QED
    BY <2>2 DEF ListInvariant
<1> QED
  BY <1>1, <1>2, ListStep, PTL DEF Spec, TransactionIntact

----------------------------------------------------------------------------
(***************************************************************************)
(* The registers.  While a setting is being changed a packet with the ID   *)
(* of a register has the one of that setting, and only such an operation   *)
(* sends a whole register, or a list that went on in its packet.  Nothing  *)
(* counts as read before the poll of this operation was answered; then the *)
(* buffer has the register, but for the place of the setting once that is  *)
(* written.                                                                *)
(***************************************************************************)
SettingOps == DOMAIN PollOf \cup {"powerSaveMode"}

OwnRegister ==
  /\ pc # "idle" /\ call.op \in SettingOps /\ packet.id \in Registers =>
       packet.id = RegisterOf(call.op)
  /\ pc = "sending" /\ packet.id \in Registers /\ packet.len = Size[packet.id] =>
       call.op \in SettingOps \cup {"sendCfgValset"}

PollFirst ==
  /\ pc = "sending" /\ stage # 2 => ~answered
  /\ stage = 0 => ~answered
  /\ pc = "sending" /\ stage = 0 => packet.id = "VER"

ReadIntoBuffer ==
  answered /\ call.op \in DOMAIN SpotOf =>
    /\ pc = "sent" /\ stage = 1 =>
         \A s \in Spots[RegisterOf(call.op)] :
           payload[s] = receiver.regs[RegisterOf(call.op)][s]
    /\ pc = "sending" =>
         \A s \in Spots[RegisterOf(call.op)] \ {SpotOf[call.op]} :
           payload[s] = receiver.regs[RegisterOf(call.op)][s]

HasRegisters(config) == "regs" \in DOMAIN config /\ Registers \subseteq DOMAIN config.regs

RegisterShapes ==
  /\ HasRegisters(receiver) /\ HasRegisters(saved)
  /\ {"id", "len"} \subseteq DOMAIN packet /\ DOMAIN payload = AllSpots

RegisterInvariant == OwnRegister /\ PollFirst /\ ReadIntoBuffer /\ RegisterShapes

\* The tables agree with one another.
LEMMA SettingTables ==
  /\ DOMAIN SpotOf \subseteq SettingOps
  /\ \A op \in SettingOps : RegisterOf(op) \in Registers
  /\ \A r \in Registers : Spots[r] \subseteq AllSpots
<1>1. DOMAIN SpotOf \subseteq SettingOps
  BY DEF SpotOf, SettingOps, PollOf
<1>2. \A op \in SettingOps : RegisterOf(op) \in Registers
  BY DEF SettingOps, RegisterOf, PollOf, Registers, Size
<1> QED
  BY <1>1, <1>2 DEF AllSpots

\* A poll is not a whole register.
LEMMA PollsAreShort == \A r \in Registers : PollLen(r) # Size[r]
BY DEF Registers, Size, PollLen

LEMMA ObeyedShape ==
  ASSUME HasRegisters(receiver), HasRegisters(saved), Obeys
  PROVE  HasRegisters(receiver') /\ HasRegisters(saved')
<1> USE DEF HasRegisters
<1>1. HasRegisters(Factory)
  BY DEF Factory
<1>2. saved' \in {Factory, receiver, saved}
  BY DEF Obeys
<1>3. \/ receiver' \in {receiver, saved, Factory}
      \/ receiver' = [receiver EXCEPT !.regs[packet.id] = Replaced(packet.id)]
      \/ receiver' = [receiver EXCEPT !.fences = call.arg]
      \/ receiver' = [receiver EXCEPT !.vals = Written(@, entries)]
      \/ receiver' = [receiver EXCEPT !.reports = call.arg]
  BY DEF Obeys
<1>4. HasRegisters(receiver')
  BY <1>1, <1>3
<1> QED
  BY <1>1, <1>2, <1>4

\* What the packet and the buffer are when a command has been sent.
LEMMA SentRegister ==
  ASSUME RegisterInvariant, SendCommand
  PROVE  /\ {"id", "len"} \subseteq DOMAIN packet' /\ DOMAIN payload' = AllSpots
         /\ packet'.id \in Registers => packet'.id = packet.id
         /\ \/ answered' => answered
            \/ /\ packet.id \in Registers /\ receiver' = receiver
               /\ \A s \in Spots[packet.id] : payload'[s] = receiver.regs[packet.id][s]
<1> USE DEF RegisterInvariant, RegisterShapes
<1>1. "none" \notin Registers /\ "PVT" \notin Registers
  BY DEF Registers, Size
<1>2. CASE Refused \/ GoneOut \/ Acknowledged \/ NotAcknowledged \/ AckOnly
  BY <1>2 DEF Refused, GoneOut, Acknowledged, NotAcknowledged, AckOnly, BufferAsSent
<1>3. CASE Unanswered
  <2>1. packet' \in {packet, Nobody} /\ UNCHANGED <<payload, answered>>
    BY <1>3 DEF Unanswered
  <2> QED
    BY <1>1, <2>1 DEF Nobody
<1>4. CASE Answer
  <2>1. packet' = [packet EXCEPT !.len = Size[packet.id]] /\ packet.id \in Registers
        /\ receiver' = receiver
    BY <1>4 DEF Answer, Polls, NotReceived
  <2>2. PICK good \in BOOLEAN :
          /\ payload' = [s \in AllSpots |->
                           IF s \notin Spots[packet.id] THEN payload[s]
                           ELSE IF good THEN receiver.regs[packet.id][s] ELSE Junk]
          /\ answered' = good
    BY <1>4 DEF Answer
  <2>3. {"id", "len"} \subseteq DOMAIN packet' /\ packet'.id = packet.id
    BY <2>1
  <2>4. answered' => \A s \in Spots[packet.id] : payload'[s] = receiver.regs[packet.id][s]
    BY <2>1, <2>2, SettingTables
  <2>5. DOMAIN payload' = AllSpots
    BY <2>2
  <2> QED
    BY <2>1, <2>3, <2>4, <2>5
<1>5. CASE Reported
  BY <1>1, <1>5 DEF Reported, Overwritten, Wiped
<1>6. CASE ReportedAlone
  <2>1. packet' \in {packet, Nobody} /\ answered' = answered /\ DOMAIN payload' = AllSpots
    BY <1>6 DEF ReportedAlone, Wiped
  <2> QED
    BY <1>1, <2>1 DEF Nobody
<1>7. CASE QueryAnswer
  <2>1. packet' = [packet EXCEPT !.len = QueryLen[packet.id]] /\ answered' = answered
    BY <1>7 DEF QueryAnswer
  <2>2. DOMAIN payload' = AllSpots
    BY <1>7 DEF QueryAnswer, Wiped
  <2>3. {"id", "len"} \subseteq DOMAIN packet' /\ packet'.id = packet.id
    BY <2>1
  <2> QED
    BY <2>1, <2>2, <2>3
<1> QED
  BY <1>2, <1>3, <1>4, <1>5, <1>6, <1>7 DEF SendCommand

LEMMA SentRegisters ==
  ASSUME RegisterInvariant, SendCommand
  PROVE  RegisterInvariant'
<1>1. pc = "sending" /\ pc' = "sent" /\ UNCHANGED <<call, stage>>
  BY DEF SendCommand, Refused, GoneOut, Unanswered, Acknowledged, NotAcknowledged,
         Answer, AckOnly, Reported, ReportedAlone, QueryAnswer, Returned
<1>2. HasRegisters(receiver') /\ HasRegisters(saved')
  BY SentObeysOrNot, ObeyedShape DEF NotReceived, RegisterInvariant, RegisterShapes
<1>3. OwnRegister'
  <2>1. packet'.id \in Registers => packet'.id = packet.id
    BY SentRegister
  <2> QED
    BY <1>1, <2>1 DEF RegisterInvariant, OwnRegister, RegisterOf
<1>4. PollFirst'
  <2>1. "VER" \notin Registers
    BY DEF Registers, Size
  <2>2. stage = 0 => ~answered'
    BY <1>1, <2>1, SentRegister DEF RegisterInvariant, PollFirst
  <2> QED
    BY <1>1, <2>2 DEF PollFirst
<1>5. ASSUME answered', call.op \in DOMAIN SpotOf, stage = 1, NEW s \in Spots[RegisterOf(call.op)]
      PROVE  payload'[s] = receiver'.regs[RegisterOf(call.op)][s]
  <2>1. ~answered
    BY <1>1, <1>5 DEF RegisterInvariant, PollFirst
  <2>2. /\ packet.id \in Registers /\ receiver' = receiver
        /\ \A t \in Spots[packet.id] : payload'[t] = receiver.regs[packet.id][t]
    BY <1>5, <2>1, SentRegister
  <2>3. packet.id = RegisterOf(call.op)
    BY <1>1, <1>5, <2>2, SettingTables DEF RegisterInvariant, OwnRegister
  <2> QED
    BY <1>5, <2>2, <2>3
<1>6. ReadIntoBuffer'
  BY <1>1, <1>5 DEF ReadIntoBuffer, RegisterOf
<1> QED
  BY <1>2, <1>3, <1>4, <1>6, SentRegister DEF RegisterInvariant, RegisterShapes

\* An operation begins: nothing has been read for it.
LEMMA BegunRegister ==
  ASSUME RegisterInvariant, ~answered', UNCHANGED <<receiver, saved>>,
         {"id", "len"} \subseteq DOMAIN packet', DOMAIN payload' = AllSpots,
         OwnRegister', pc' = "sending" /\ stage' = 0 => packet'.id = "VER"
  PROVE  RegisterInvariant'
BY DEF RegisterInvariant, PollFirst, ReadIntoBuffer, RegisterShapes, HasRegisters

LEMMA SinglesRegister ==
  ASSUME RegisterInvariant, NEW op, NEW arg, NEW id, NEW len, Single(op, arg, id, len),
         op \notin SettingOps, id \notin Registers \/ len # Size[id]
  PROVE  RegisterInvariant'
<1>1. UNCHANGED <<receiver, saved>> /\ ~answered' /\ stage' = 2 /\ call'.op = op
      /\ packet' = [id |-> id, len |-> len] /\ DOMAIN payload' = AllSpots
  BY DEF Single, Begins, Prepared, Elsewhere, receiverVars, Wiped
<1>2. OwnRegister'
  BY <1>1 DEF OwnRegister
<1> QED
  BY <1>1, <1>2, BegunRegister

LEMMA OtherSinglesRegister ==
  ASSUME RegisterInvariant,
         \/ \E r \in {"PRT", "RATE", "TMODE3"} : GetSetting(r)
         \/ \E query \in Queries : GetStatus(query)
         \/ SaveConfiguration \/ FactoryDefault \/ HardReset
         \/ \E on \in BOOLEAN : ConfigureMessage(on)
         \/ \E k \in Keys : GetVal(k)
         \/ ClearGeofences \/ \E c \in Circles : AddGeofence(c)
  PROVE  RegisterInvariant'
<1> DEFINE Ops == {"getSetting", "getStatus", "saveConfiguration", "factoryDefault",
                   "hardReset", "configureMessage", "getVal", "clearGeofences",
                   "addGeofence"}
           Others == {"CFG", "RST", "MSG", "VALGET", "GEOFENCE"} \cup Queries
<1>1. \E op \in Ops, id \in {"PRT", "RATE", "TMODE3"} \cup Others : \E arg, len :
        Single(op, arg, id, len) /\ (id \in Others \/ len = PollLen(id))
  BY DEF GetSetting, GetStatus, SaveConfiguration, FactoryDefault, HardReset,
         ConfigureMessage, GetVal, ClearGeofences, AddGeofence
<1>2. \A op \in Ops : op \notin SettingOps
  BY DEF SettingOps, PollOf
<1>3. \A id \in Others : id \notin Registers
  BY DEF Registers, Size, Queries, QueryLen
<1> HIDE DEF Ops, Others
<1> QED
  BY <1>1, <1>2, <1>3, PollsAreShort, SinglesRegister

LEMMA ReadsRegister ==
  ASSUME RegisterInvariant,
         \/ \E op \in DOMAIN PollOf \ {"setI2CAddress"}, v \in Settings : ReadSetting(op, v)
         \/ \E a \in Addresses : ReadSetting("setI2CAddress", a)
         \/ FactoryReset
  PROVE  RegisterInvariant'
<1>1. ASSUME NEW op \in DOMAIN PollOf, NEW v, ReadSetting(op, v)
      PROVE  RegisterInvariant'
  <2>1. UNCHANGED <<receiver, saved>> /\ ~answered' /\ stage' = 1 /\ call'.op = op
        /\ packet' = [id |-> PollOf[op], len |-> PollLen(PollOf[op])]
        /\ DOMAIN payload' = AllSpots
    BY <1>1 DEF ReadSetting, Begins, Prepared, Elsewhere, receiverVars, Wiped
  <2>2. op # "powerSaveMode"
    BY DEF PollOf
  <2>3. OwnRegister'
    BY <2>1, <2>2, PollsAreShort DEF OwnRegister, RegisterOf
  <2> QED
    BY <2>1, <2>3, BegunRegister
<1>2. CASE FactoryReset
  <2>1. UNCHANGED <<receiver, saved>> /\ ~answered' /\ stage' = 1
        /\ packet' = [id |-> "CFG", len |-> 13] /\ DOMAIN payload' = AllSpots
    BY <1>2 DEF FactoryReset, Begins, Prepared, Elsewhere, receiverVars, Wiped
  <2>2. OwnRegister'
    BY <2>1 DEF OwnRegister, Registers, Size
  <2> QED
    BY <2>1, <2>2, BegunRegister
<1>3. "setI2CAddress" \in DOMAIN PollOf
  BY DEF PollOf
<1> QED
  BY <1>1, <1>2, <1>3

LEMMA ListsRegister ==
  ASSUME RegisterInvariant, NEW k, NEW v,
         NewCfgValset(k, v) \/ AddCfgValset(k, v) \/ SendCfgValset(k, v) \/ SetVal(k, v)
  PROVE  RegisterInvariant'
<1>1. UNCHANGED <<receiver, saved>> /\ ~answered'
  BY DEF NewCfgValset, AddCfgValset, SendCfgValset, SetVal, Begins, Elsewhere, receiverVars
<1>2. DOMAIN payload' = AllSpots
  BY DEF NewCfgValset, AddCfgValset, SendCfgValset, SetVal, Added, Wiped
<1>3. {"id", "len"} \subseteq DOMAIN packet'
  BY DEF NewCfgValset, AddCfgValset, SendCfgValset, SetVal, Added, Prepared,
         RegisterInvariant, RegisterShapes
<1>4. \/ pc' = "idle"
      \/ stage' = 2 /\ call'.op = "sendCfgValset"
      \/ stage' = 2 /\ packet' = [id |-> "VALSET", len |-> OneKey(k)]
  BY DEF NewCfgValset, AddCfgValset, SendCfgValset, SetVal, Begins, Prepared
<1>5. OwnRegister'
  <2>1. "sendCfgValset" \notin SettingOps /\ "VALSET" \notin Registers
    BY DEF SettingOps, PollOf, Registers, Size
  <2> QED
    BY <1>4, <2>1 DEF OwnRegister
<1> QED
  BY <1>1, <1>2, <1>3, <1>4, <1>5, BegunRegister

LEMMA PowerRegister ==
  ASSUME RegisterInvariant, ReadPowerMode \/ \E v \in {0, 1} : PowerSaveMode(v)
  PROVE  RegisterInvariant'
<1>1. Size["RXM"] # 0 /\ "VER" \notin Registers
  BY DEF Registers, Size
<1>2. CASE ReadPowerMode
  <2>1. /\ UNCHANGED <<receiver, saved, payload, answered, call>>
        /\ call.op = "powerSaveMode" /\ stage = 0 /\ stage' = 1
        /\ packet' = [id |-> "RXM", len |-> 0]
    BY <1>2 DEF ReadPowerMode, Prepared, receiverVars, observers
  <2>2. ~answered'
    BY <2>1 DEF RegisterInvariant, PollFirst
  <2>3. OwnRegister'
    BY <1>1, <2>1 DEF OwnRegister, RegisterOf
  <2> QED
    BY <2>1, <2>2, <2>3, BegunRegister DEF RegisterInvariant, RegisterShapes
<1>3. CASE \E v \in {0, 1} : PowerSaveMode(v)
  <2>1. PICK v : PowerSaveMode(v)
    BY <1>3
  <2>2. UNCHANGED <<receiver, saved, payload>> /\ ~answered' /\ call'.op = "powerSaveMode"
    BY <2>1 DEF PowerSaveMode, Begins, Elsewhere, receiverVars
  <2>3. \/ stage' = 0 /\ packet' = [id |-> "VER", len |-> 0]
        \/ stage' = 1 /\ packet' = [id |-> "RXM", len |-> 0]
        \/ pc' = "idle" /\ packet' = packet
    BY <2>1 DEF PowerSaveMode, Begins, Prepared
  <2>4. {"id", "len"} \subseteq DOMAIN packet'
    BY <2>3 DEF RegisterInvariant, RegisterShapes
  <2>5. OwnRegister'
    BY <1>1, <2>2, <2>3 DEF OwnRegister, RegisterOf
  <2> QED
    BY <2>2, <2>3, <2>4, <2>5, BegunRegister DEF RegisterInvariant, RegisterShapes
<1> QED
  BY <1>2, <1>3

\* The write-backs that keep what was read: they change the place of the
\* setting in the buffer, or one that the receiver does not look at.
LEMMA PlaceIsWritten ==
  ASSUME RegisterInvariant, NEW s \in AllSpots,
         \/ WriteAddress \/ WritePortOutput \/ WritePortInput \/ WriteFrequency
         \/ WriteModel \/ WritePowerMode,
         s \in Spots[RegisterOf(call.op)] \ {SpotOf[call.op]}
  PROVE  payload'[s] = payload[s]
<1> USE DEF RegisterInvariant, RegisterShapes, WriteBack, SpotOf
<1>1. CASE WriteAddress \/ WritePortOutput \/ WritePortInput
  BY <1>1 DEF WriteAddress, WritePortOutput, WritePortInput
<1>2. CASE WriteFrequency \/ WritePowerMode
  BY <1>2 DEF WriteFrequency, WritePowerMode
<1>3. CASE WriteModel
  <2>1. RegisterOf(call.op) = "NAV5"
    BY <1>3 DEF WriteModel, RegisterOf, PollOf
  <2>2. s # 0 /\ s # 2
    <3>1. call.op = "setDynamicModel"
      BY <1>3 DEF WriteModel
    <3> QED
      BY <2>1, <3>1 DEF Spots
  <2> QED
    BY <1>3, <2>2 DEF WriteModel
<1> QED
  BY <1>1, <1>2, <1>3

LEMMA WriteBacksRegister ==
  ASSUME RegisterInvariant,
         \/ WriteAddress \/ WritePortOutput \/ WritePortInput \/ WriteFrequency
         \/ WriteModel \/ WriteSurvey \/ WritePowerMode \/ ThenReset
  PROVE  RegisterInvariant'
<1> USE DEF RegisterInvariant, RegisterShapes
<1>1. /\ UNCHANGED <<receiver, saved, answered, call>>
      /\ pc = "sent" /\ pc' = "sending" /\ stage = 1 /\ stage' = 2
  BY DEF WriteAddress, WritePortOutput, WritePortInput, WriteFrequency, WriteModel,
         WriteSurvey, WritePowerMode, ThenReset, WriteBack, receiverVars, observers
<1>2. {"id", "len"} \subseteq DOMAIN packet' /\ DOMAIN payload' = AllSpots
  BY DEF WriteAddress, WritePortOutput, WritePortInput, WriteFrequency, WriteModel,
         WriteSurvey, WritePowerMode, ThenReset, WriteBack, Whole, Wiped
<1>3. OwnRegister'
  <2>1. CASE WriteAddress \/ WritePortOutput \/ WritePortInput
    <3>1. packet' = Whole("PRT") /\ call.op \in {"setI2CAddress", "setPortOutput", "setPortInput"}
      BY <2>1 DEF WriteAddress, WritePortOutput, WritePortInput, WriteBack
    <3> QED
      BY <1>1, <3>1 DEF Whole, OwnRegister, SettingOps, PollOf, RegisterOf
  <2>2. CASE WriteSurvey
    <3>1. packet' = Whole("TMODE3") /\ call.op = "setSurveyMode"
      BY <2>2 DEF WriteSurvey, WriteBack
    <3> QED
      BY <1>1, <3>1 DEF Whole, OwnRegister, SettingOps, PollOf, RegisterOf
  <2>3. CASE WriteFrequency \/ WriteModel \/ WritePowerMode
    <3>1. /\ packet'.id = packet.id
          /\ call.op \in {"setNavigationFrequency", "setDynamicModel", "powerSaveMode"}
      BY <2>3 DEF WriteFrequency, WriteModel, WritePowerMode, WriteBack
    <3>2. call.op \in SettingOps
      BY <3>1 DEF SettingOps, PollOf
    <3> QED
      BY <1>1, <3>1, <3>2 DEF OwnRegister, RegisterOf
  <2>4. CASE ThenReset
    <3>1. packet'.id = "RST"
      BY <2>4 DEF ThenReset, WriteBack
    <3> QED
      BY <3>1 DEF OwnRegister, Registers, Size
  <2> QED
    BY <2>1, <2>2, <2>3, <2>4
<1>4. PollFirst'
  BY <1>1 DEF PollFirst
<1>5. ASSUME answered, call.op \in DOMAIN SpotOf,
             NEW s \in Spots[RegisterOf(call.op)] \ {SpotOf[call.op]}
      PROVE  payload'[s] = receiver.regs[RegisterOf(call.op)][s]
  <2>1. payload[s] = receiver.regs[RegisterOf(call.op)][s]
    BY <1>1, <1>5 DEF ReadIntoBuffer
  <2>2. s \in AllSpots
    BY <1>5, SettingTables
  <2>3. \/ WriteAddress \/ WritePortOutput \/ WritePortInput \/ WriteFrequency
        \/ WriteModel \/ WritePowerMode
    BY <1>5 DEF WriteSurvey, ThenReset, WriteBack, SpotOf
  <2> QED
    BY <1>5, <2>1, <2>2, <2>3, PlaceIsWritten
<1>6. ReadIntoBuffer'
  BY <1>1, <1>5 DEF ReadIntoBuffer, RegisterOf
<1> QED
  BY <1>1, <1>2, <1>3, <1>4, <1>6 DEF HasRegisters

LEMMA OtherStepsRegister ==
  ASSUME RegisterInvariant, Return \/ CheckUblox \/ Restart \/ UNCHANGED vars
  PROVE  RegisterInvariant'
<1> USE DEF RegisterInvariant, RegisterShapes, HasRegisters
<1>1. CASE Return
  <2>1. pc' = "idle"
        /\ UNCHANGED <<receiver, saved, answered, call, stage, packet, payload>>
    BY <1>1 DEF Return, driverVars, receiverVars, observers
  <2> QED
    BY <2>1 DEF OwnRegister, PollFirst, ReadIntoBuffer, RegisterOf
<1>2. CASE CheckUblox
  <2>1. pc' = "idle" /\ UNCHANGED <<receiver, saved>> /\ ~answered'
        /\ packet' = [id |-> "PVT", len |-> ReportLen] /\ DOMAIN payload' = AllSpots
    BY <1>2 DEF CheckUblox, Overwritten, Wiped, receiverVars
  <2> QED
    BY <2>1, BegunRegister DEF OwnRegister
<1>3. CASE Restart
  <2>1. pc' = "idle" /\ UNCHANGED <<receiver, saved>> /\ ~answered'
        /\ packet' = Nobody /\ DOMAIN payload' = AllSpots
    BY <1>3 DEF Restart, Blank, receiverVars
  <2> QED
    BY <2>1, BegunRegister DEF OwnRegister, Nobody
<1>4. CASE UNCHANGED vars
  <2>1. UNCHANGED <<pc, receiver, saved, answered, call, stage, packet, payload>>
    BY <1>4 DEF vars, driverVars, receiverVars, observers
  <2> QED
    BY <2>1 DEF OwnRegister, PollFirst, ReadIntoBuffer, RegisterOf
<1> QED
  BY <1>1, <1>2, <1>3, <1>4

LEMMA RegisterStep ==
  RegisterInvariant /\ [Next]_vars => RegisterInvariant'
BY SentRegisters, OtherSinglesRegister, ReadsRegister, ListsRegister, PowerRegister,
   WriteBacksRegister, OtherStepsRegister DEF Next

\* A command other than a reset changes a register only if it is the register.
LEMMA ObeyedRegister ==
  ASSUME RegisterShapes, Understood, Obeys, NEW r \in Registers,
         receiver'.regs[r] # receiver.regs[r], packet.id \notin {"CFG", "RST"}
  PROVE  r = packet.id /\ packet.len = Size[r] /\ receiver'.regs[r] = Replaced(r)
<1> USE DEF RegisterShapes, HasRegisters
<1>1. CASE ~(packet.id \in Registers /\ ~Polls)
  <2>1. \/ receiver' = receiver
        \/ receiver' = [receiver EXCEPT !.fences = call.arg]
        \/ receiver' = [receiver EXCEPT !.vals = Written(@, entries)]
        \/ receiver' = [receiver EXCEPT !.reports = call.arg]
    BY <1>1 DEF Obeys
  <2> QED
    BY <2>1
<1>2. CASE packet.id \in Registers /\ ~Polls
  <2>1. packet.id \notin {"GEOFENCE", "VALSET", "VALGET", "MSG", "RST", "CFG"}
    BY <1>2 DEF Registers, Size
  <2>2. receiver' = [receiver EXCEPT !.regs[packet.id] = Replaced(packet.id)]
    BY <1>2, <2>1 DEF Obeys
  <2>3. r = packet.id
    BY <2>2
  <2>4. receiver'.regs[r] = Replaced(r)
    BY <2>2, <2>3
  <2>5. packet.len = Size[packet.id]
    BY <1>2, <2>1 DEF Understood
  <2> QED
    BY <2>3, <2>4, <2>5
<1> QED
  BY <1>1, <1>2

(***************************************************************************)
(* The operations that change a setting read its register into payloadCfg, *)
(* change it there and send it back, whatever sendCommand returned         *)
(* (ublox.cpp, from line 1543).  No register is changed but the one of the *)
(* setting, and no other part of it if the poll was answered, for any      *)
(* settings, any order of calls and any faults.                            *)
(***************************************************************************)
THEOREM SettingsKeepToThemselves == Spec => OnlyTheSettingAsked
<1>1. Init => ListInvariant /\ ListShapes /\ RegisterInvariant
  <2>1. Init => ListInvariant /\ ListShapes
    BY DEF Init, Factory, Nobody, ListInvariant, ListShapes
  <2>2. Init => RegisterInvariant
    BY DEF Init, Factory, Nobody, Blank, RegisterInvariant, OwnRegister, PollFirst,
           ReadIntoBuffer, RegisterShapes, HasRegisters
  <2> QED
    BY <2>1, <2>2
<1> DEFINE Changed(r) == receiver'.regs[r] # receiver.regs[r] /\ packet.id \notin {"CFG", "RST"}
                         /\ (call.op = "sendCfgValset" => undisturbed)
<1>2. ASSUME ListInvariant, RegisterInvariant, [Next]_vars, NEW r \in Registers, Changed(r)
      PROVE  /\ call.op \in SettingOps /\ r = RegisterOf(call.op)
             /\ answered /\ call.op \in DOMAIN SpotOf =>
                  \A s \in Spots[r] \ {SpotOf[call.op]} :
                    receiver'.regs[r][s] = receiver.regs[r][s]
  <2>1. pc = "sending" /\ Understood /\ Obeys
    BY <1>2, OnlyCommandsChange, SentObeysOrNot
  <2>2. r = packet.id /\ packet.len = Size[r] /\ receiver'.regs[r] = Replaced(r)
    BY <1>2, <2>1, ObeyedRegister DEF RegisterInvariant
  <2>3. call.op # "sendCfgValset"
    BY <1>2, <2>2 DEF ListInvariant, Registers, Size
  <2>4. call.op \in SettingOps
    BY <1>2, <2>1, <2>2, <2>3 DEF RegisterInvariant, OwnRegister
  <2>5. r = RegisterOf(call.op)
    BY <1>2, <2>1, <2>2, <2>4 DEF RegisterInvariant, OwnRegister
  <2>6. ASSUME answered, call.op \in DOMAIN SpotOf, NEW s \in Spots[r] \ {SpotOf[call.op]}
        PROVE  receiver'.regs[r][s] = receiver.regs[r][s]
    <3>1. payload[s] = receiver.regs[r][s]
      BY <1>2, <2>1, <2>5, <2>6 DEF RegisterInvariant, ReadIntoBuffer
    <3>2. receiver'.regs[r][s] = (IF r = "NAV5" /\ s # 2 THEN receiver.regs[r][s] ELSE payload[s])
      BY <2>2, <2>6 DEF Replaced
    <3> QED
      BY <3>1, <3>2
  <2> QED
    BY <2>4, <2>5, <2>6
<1>3. ListInvariant /\ RegisterInvariant /\ [Next]_vars =>
        [\A r \in Registers :
           /\ receiver'.regs[r] # receiver.regs[r] /\ packet.id \notin {"CFG", "RST"}
           /\ call.op = "sendCfgValset" => undisturbed
           => /\ call.op \in DOMAIN PollOf \cup {"powerSaveMode"} /\ r = RegisterOf(call.op)
              /\ answered /\ call.op \in DOMAIN SpotOf =>
                   \A s \in Spots[r] \ {SpotOf[call.op]} :
                     receiver'.regs[r][s] = receiver.regs[r][s]]_vars
  BY <1>2 DEF SettingOps
<1> QED
  BY <1>1, <1>3, ListStep, RegisterStep, PTL DEF Spec, OnlyTheSettingAsked

=============================================================================
