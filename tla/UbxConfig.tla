----------------------------- MODULE UbxConfig -----------------------------
(***************************************************************************)
(* The operations of the u-blox driver that configure the receiver         *)
(* (lib/ublox/ublox.cpp).  A setting is changed by reading its register    *)
(* into the one buffer payloadCfg, changing some bytes there and sending   *)
(* the buffer back; a list of keys is put together in that same buffer     *)
(* over several calls; fences are kept by the driver and sent all at once. *)
(* Nothing looks at what sendCommand returned, except in the two places    *)
(* where it is compared with true and false, which hardly a status equals. *)
(*                                                                         *)
(* A command and what becomes of it is one step here: how frames, polls    *)
(* and time-outs get there is the subject of UbxDriver.  Answers later     *)
(* than maxWait are left to it too.  Of each register the bytes that some  *)
(* operation changes are kept, and one that none does.  Bytes that another *)
(* command left in the buffer are Junk.                                    *)
(***************************************************************************)
EXTENDS Integers, Sequences, FiniteSets

CONSTANTS
  Settings,        (* values that settings are set to                        *)
  Addresses,       (* I2C addresses                                          *)
  DefaultAddress,  (* the one begin() is called with                         *)
  Protocols,       (* protocol versions of receivers                         *)
  Circles,         (* geofences                                              *)
  MaxFences,       (* how many the driver keeps: 4                           *)
  Keys,            (* configuration keys                                     *)
  Values,          (* and values for them                                    *)
  Width,           (* the bytes of each key's value: addCfgValset8, 16 or 32 *)
  MaxEntries,      (* bound: keys in one VALSET                              *)
  MaxFaults,       (* bound on transfers and answers that go wrong           *)
  MaxCalls         (* bound on the operations called                         *)

Junk == 255

ASSUME ConfigAssumption ==
  /\ Settings \subseteq 1..254 /\ Values \subseteq Nat /\ Addresses \subseteq 1..127
  /\ DefaultAddress \in Addresses
  /\ Protocols \subseteq Nat /\ MaxFences \in Nat \ {0}
  /\ Width \in [Keys -> {1, 2, 4}] /\ MaxEntries \in Nat \ {0} /\ MaxFaults \in Nat /\ MaxCalls \in Nat

VARIABLES
  pc,           \* "idle", "sending" a command, or "sent": it has its status
  call,         \* the operation and its argument
  stage,        \* 0 asking for the version, 1 first command, 2 second
  packet,       \* packetCfg: id and len
  payload,      \* payloadCfg, where registers have something
  entries,      \* payloadCfg as a list of keys and values: of a VALSET
  commandAck, status,
  address,      \* _gpsI2Caddress
  fences,       \* currentGeofenceParams
  version,      \* versionHigh, 0 until it is known
  \* the receiver
  receiver,     \* its configuration
  saved,        \* the one in its permanent memory
  protocol,
  \* observers
  answered,     \* is the answer to this call's poll in payload?
  listed,       \* what was asked for since newCfgValset
  undisturbed,  \* ... and nothing else was done since
  fencesTaken,  \* the last fence command was obeyed, and nothing reset since
  strayed,      \* the receiver was told another address
  calls, faults

driverVars   == <<packet, payload, entries, commandAck, status>>
keptVars     == <<address, fences, version>>
receiverVars == <<receiver, saved, protocol>>
observers    == <<answered, listed, undisturbed, fencesTaken, strayed>>
vars == <<pc, call, stage, driverVars, keptVars, receiverVars, observers, calls, faults>>

----------------------------------------------------------------------------
\* The receiver.
Spots == [PRT |-> {4, 12, 14}, RATE |-> {0, 2}, NAV5 |-> {2, 4},
          TMODE3 |-> {2, 24, 28}, RXM |-> {1}]
Size  == [PRT |-> 20, RATE |-> 6, NAV5 |-> 36, TMODE3 |-> 40, RXM |-> 2]
Registers == DOMAIN Size
AllSpots  == UNION {Spots[r] : r \in Registers}

Unset == 0
Factory ==
  [regs |-> [r \in Registers |->
               [s \in Spots[r] |-> IF r = "PRT" /\ s = 4 THEN 2 * DefaultAddress ELSE 0]],
   fences |-> <<>>, vals |-> [k \in Keys |-> Unset], reports |-> FALSE]

AddressOf(config) == config.regs.PRT[4] \div 2

PollLen(r) == IF r = "PRT" THEN 1 ELSE 0
Polls == packet.id \in Registers /\ packet.len = PollLen(packet.id)

\* A list of keys and values on the wire: four bytes of header, and four for each
\* key.
Entry(k) == 4 + Width[k]
Bytes(list) ==
  LET upTo[i \in 0..Len(list)] == IF i = 0 THEN 4 ELSE upTo[i - 1] + Entry(list[i][1])
  IN  upTo[Len(list)]

\* The last of two entries for a key counts.
Written(vals, list) ==
  [k \in Keys |->
     LET at == {i \in DOMAIN list : list[i][1] = k}
     IN  IF at = {} THEN vals[k]
         ELSE list[CHOOSE i \in at : \A j \in at : j <= i][2]]

\* The register that a command with the whole of it leaves behind; the mask
\* at the front of NAV5 lets only the platform model through.
Replaced(r) ==
  [s \in Spots[r] |-> IF r = "NAV5" /\ s # 2 THEN receiver.regs[r][s] ELSE payload[s]]

FenceOps == {"addGeofence", "clearGeofences"}

Understood ==
  CASE packet.id \in Registers -> Polls \/ packet.len = Size[packet.id]
    [] packet.id = "GEOFENCE"  -> call.op \in FenceOps /\ packet.len = 8 + 12 * Len(call.arg)
    [] packet.id = "VALSET"    -> packet.len = Bytes(entries)
    [] packet.id = "VALGET"    -> packet.len % 4 = 0
    [] packet.id = "MSG"       -> packet.len \in {3, 8}
    [] packet.id = "CFG"       -> packet.len \in {12, 13}
    [] packet.id = "RST"       -> packet.len = 4
    [] OTHER                   -> FALSE

Obeys ==
  /\ receiver' =
       CASE packet.id \in Registers /\ ~Polls ->
              [receiver EXCEPT !.regs[packet.id] = Replaced(packet.id)]
         [] packet.id = "GEOFENCE" -> [receiver EXCEPT !.fences = call.arg]
         [] packet.id = "VALSET" -> [receiver EXCEPT !.vals = Written(@, entries)]
         [] packet.id = "MSG" -> [receiver EXCEPT !.reports = call.arg]
         [] packet.id = "RST" -> saved
         [] packet.id = "CFG" /\ call.op = "factoryDefault" -> Factory
         [] OTHER -> receiver
  /\ saved' =
       CASE packet.id = "CFG" /\ call.op = "saveConfiguration" -> receiver
         [] packet.id = "CFG" /\ call.op # "saveConfiguration" -> Factory
         [] OTHER -> saved
  /\ strayed' = \/ strayed
                 \/ /\ packet.id = "PRT" /\ ~Polls
                    /\ call.op = "setI2CAddress" \/ ~answered
  /\ fencesTaken' =
       CASE packet.id = "GEOFENCE" -> TRUE
         [] packet.id = "RST" \/ call.op = "factoryDefault" -> FALSE
         [] OTHER -> fencesTaken

----------------------------------------------------------------------------
(***************************************************************************)
(* sendCommand and the wait that follows.                                  *)
(***************************************************************************)
\* What is asked for outside the class CFG has an answer and no ACK.
QueryLen == [VER |-> 220, SVIN |-> 40, FENCES |-> 16, RELPOSNED |-> 64]
Queries  == DOMAIN QueryLen
Asks == packet.id \in Queries /\ packet.len = 0
Cfg  == packet.id \notin Queries \cup {"PVT", "none"}
Fault == faults < MaxFaults /\ faults' = faults + 1

Returned(result, ack) ==
  /\ pc = "sending" /\ pc' = "sent"
  /\ status' = result /\ commandAck' = ack
  /\ UNCHANGED <<call, stage, entries, address, fences, protocol, listed, calls>>

Nobody == [id |-> "none", len |-> 0]

Reached == address = AddressOf(receiver)
Waits   == call.op \notin {"hardReset", "factoryReset"}
NotReceived  == UNCHANGED <<receiver, saved, strayed, fencesTaken>>
BufferAsSent == UNCHANGED <<packet, payload, answered, undisturbed, version>>

\* The receiver does not take the bytes: nothing has been reset.
Refused ==
  /\ IF Reached THEN Fault ELSE UNCHANGED faults
  /\ Returned("I2C_COMM_FAILURE", commandAck)
  /\ NotReceived /\ BufferAsSent

\* A reset is not waited for.
GoneOut ==
  /\ Reached /\ ~Waits /\ Returned("SUCCESS", commandAck)
  /\ \/ Understood /\ Obeys /\ UNCHANGED faults
     \/ NotReceived /\ Fault
  /\ BufferAsSent

\* waitForNoACKResponse forgets whom it has asked; waitForACKResponse does not.
Unanswered ==
  /\ Reached /\ Waits
  /\ IF Cfg \/ Asks THEN Fault ELSE UNCHANGED faults
  /\ Returned("TIMEOUT", IF Cfg THEN "none" ELSE commandAck)
  /\ \/ Understood /\ Obeys
     \/ NotReceived
  /\ packet' = IF Cfg THEN packet ELSE Nobody
  /\ UNCHANGED <<payload, answered, undisturbed, version>>

Acknowledged ==
  /\ Reached /\ Waits /\ Cfg /\ Understood /\ ~Polls
  /\ Returned("DATA_SENT", "ack")
  /\ Obeys /\ BufferAsSent /\ UNCHANGED faults

NotAcknowledged ==
  /\ Reached /\ Waits /\ ~Understood /\ Cfg
  /\ Returned("COMMAND_UNKNOWN", "nack")
  /\ NotReceived /\ BufferAsSent /\ UNCHANGED faults

\* The answer to a poll: whole, with bytes that fail the checksum, or not at
\* all; and its ACK, or not.
Answer ==
  /\ Reached /\ Polls /\ NotReceived
  /\ \E good, ack \in BOOLEAN :
       /\ IF good /\ ack THEN UNCHANGED faults ELSE Fault
       /\ Returned(IF ack THEN "DATA_SENT" ELSE "TIMEOUT", IF ack THEN "ack" ELSE "none")
       /\ payload' = [s \in AllSpots |->
                        IF s \notin Spots[packet.id] THEN payload[s]
                        ELSE IF good THEN receiver.regs[packet.id][s] ELSE Junk]
       /\ answered' = good
  /\ packet' = [packet EXCEPT !.len = Size[packet.id]]
  /\ UNCHANGED <<undisturbed, version>>

AckOnly ==
  /\ Reached /\ Polls /\ Fault
  /\ Returned(IF packet.len = 1 THEN "FAIL" ELSE "DATA_SENT", "ack")
  /\ NotReceived /\ BufferAsSent

\* A solution that the receiver reports by itself comes before the ACK, which
\* then matches nothing, or after it: it takes over packetCfg.
Wiped(n)  == [s \in AllSpots |-> IF s < n THEN Junk ELSE payload[s]]
ReportLen == 92
Overwritten == /\ packet' = [id |-> "PVT", len |-> ReportLen]
               /\ payload' = Wiped(ReportLen)
               /\ answered' = FALSE /\ undisturbed' = FALSE

Reported ==
  /\ Reached /\ Waits /\ Cfg /\ Understood /\ receiver.reports
  /\ \E after \in BOOLEAN : Returned(IF after THEN "DATA_SENT" ELSE "TIMEOUT",
                                     IF after THEN "ack" ELSE "none")
  /\ Obeys /\ Overwritten /\ UNCHANGED <<version, faults>>

ReportedAlone ==
  /\ Reached /\ Waits /\ ~Cfg /\ receiver.reports
  /\ IF packet.id = "PVT"
       THEN Returned("DATA_RECEIVED", commandAck) /\ packet' = packet /\ UNCHANGED faults
       ELSE Returned("TIMEOUT", commandAck) /\ packet' = Nobody /\ Fault
  /\ payload' = Wiped(ReportLen)
  /\ NotReceived /\ UNCHANGED <<answered, undisturbed, version>>

\* getProtocolVersion looks for the version from byte 40 of the answer on.
QueryAnswer ==
  /\ Reached /\ Asks /\ NotReceived
  /\ Returned("DATA_RECEIVED", commandAck)
  /\ version' = IF packet.id = "VER" THEN protocol ELSE version
  /\ packet' = [packet EXCEPT !.len = QueryLen[packet.id]]
  /\ payload' = Wiped(QueryLen[packet.id] - IF packet.id = "VER" THEN 40 ELSE 0)
  /\ UNCHANGED <<answered, undisturbed, faults>>

SendCommand ==
  \/ Refused \/ GoneOut \/ Unanswered \/ Acknowledged \/ NotAcknowledged
  \/ Answer \/ AckOnly \/ Reported \/ ReportedAlone \/ QueryAnswer

----------------------------------------------------------------------------
(***************************************************************************)
(* The operations.                                                         *)
(***************************************************************************)
Begins(op, arg) ==
  /\ pc = "idle" /\ calls < MaxCalls /\ calls' = calls + 1
  /\ call' = [op |-> op, arg |-> arg]
  /\ answered' = FALSE

Prepared(id, len) == packet' = [id |-> id, len |-> len] /\ pc' = "sending"
Elsewhere == UNCHANGED <<commandAck, status, address, version, receiverVars, strayed, faults>>
NoTransaction == undisturbed' = FALSE /\ entries' = <<>> /\ listed' = <<>>

\* A command that is all of an operation, and fills the buffer up to len.
Single(op, arg, id, len) ==
  /\ Begins(op, arg) /\ stage' = 2 /\ Prepared(id, len)
  /\ payload' = Wiped(len)
  /\ NoTransaction /\ Elsewhere

\* getPortSettings, getNavigationFrequency, getSurveyMode
GetSetting(r) ==
  /\ Single("getSetting", r, r, PollLen(r))
  /\ UNCHANGED <<fences, fencesTaken>>

PollOf == [setI2CAddress |-> "PRT", setPortOutput |-> "PRT", setPortInput |-> "PRT",
           setNavigationFrequency |-> "RATE", setDynamicModel |-> "NAV5",
           setSurveyMode |-> "TMODE3"]

\* The first command of an operation that changes a setting.
ReadSetting(op, value) ==
  LET r == PollOf[op] IN
  /\ Begins(op, value) /\ stage' = 1 /\ Prepared(r, PollLen(r))
  /\ payload' = Wiped(PollLen(r))
  /\ NoTransaction /\ Elsewhere /\ UNCHANGED <<fences, fencesTaken>>

\* The second: what is put into the packet and the buffer.
WriteBack(op, newPacket, newPayload) ==
  /\ pc = "sent" /\ pc' = "sending" /\ call.op = op /\ stage = 1 /\ stage' = 2
  /\ packet' = newPacket /\ payload' = newPayload
  /\ UNCHANGED <<call, entries, commandAck, status, keptVars, receiverVars,
                 observers, calls, faults>>

Whole(r) == [id |-> r, len |-> Size[r]]

WriteAddress ==
  WriteBack("setI2CAddress", Whole("PRT"), [payload EXCEPT ![4] = 2 * call.arg])

WritePortOutput ==
  /\ commandAck = "ack"
  /\ WriteBack("setPortOutput", Whole("PRT"), [payload EXCEPT ![14] = call.arg])

WritePortInputCleared ==
  WriteBack("setPortInput", Whole("PRT"),
            [s \in AllSpots |-> IF s = 12 THEN call.arg ELSE 0])

WritePortInput ==
  WriteBack("setPortInput", Whole("PRT"), [payload EXCEPT ![12] = call.arg])

\* The length is that of the answer.
WriteFrequency ==
  WriteBack("setNavigationFrequency", packet, [payload EXCEPT ![0] = call.arg])

WriteModel ==
  WriteBack("setDynamicModel", [packet EXCEPT !.len = Size.NAV5],
            [payload EXCEPT ![0] = 1, ![2] = call.arg])

\* The buffer is cleared first, whatever was read into it.
WriteSurvey ==
  WriteBack("setSurveyMode", Whole("TMODE3"),
            [s \in AllSpots |-> CASE s = 2 -> 1
                                 [] s \in {24, 28} -> call.arg
                                 [] s < Size.TMODE3 -> 0
                                 [] OTHER -> payload[s]])

WritePowerMode ==
  WriteBack("powerSaveMode", [packet EXCEPT !.len = Size.RXM],
            [payload EXCEPT ![1] = call.arg])

\* powerSaveMode asks for the version once; from 27 on it does nothing.
TooNew == 27

PowerSaveMode(value) ==
  /\ Begins("powerSaveMode", value)
  /\ CASE version = 0 -> stage' = 0 /\ Prepared("VER", 0)
       [] version \in 1..(TooNew - 1) -> stage' = 1 /\ Prepared("RXM", 0)
       [] OTHER -> UNCHANGED <<pc, stage, packet>>
  /\ IF version >= TooNew THEN UNCHANGED <<undisturbed, entries, listed>> ELSE NoTransaction
  /\ Elsewhere /\ UNCHANGED <<payload, fences, fencesTaken>>

\* A version that did not come was never set: it can look like any.
ReadPowerMode ==
  /\ pc = "sent" /\ stage = 0 /\ call.op = "powerSaveMode"
  /\ version < TooNew
  /\ stage' = 1 /\ Prepared("RXM", 0)
  /\ UNCHANGED <<call, payload, entries, commandAck, status, keptVars, receiverVars,
                 observers, calls, faults>>

\* getProtocolVersion, getSurveyStatus, getGeofenceState, getRELPOSNED
GetStatus(query) ==
  /\ Single("getStatus", query, query, 0)
  /\ UNCHANGED <<fences, fencesTaken>>

SaveConfiguration == Single("saveConfiguration", 0, "CFG", 12) /\ UNCHANGED <<fences, fencesTaken>>
FactoryDefault    == Single("factoryDefault", 0, "CFG", 12) /\ UNCHANGED <<fences, fencesTaken>>
HardReset         == Single("hardReset", 0, "RST", 4) /\ UNCHANGED <<fences, fencesTaken>>

FactoryReset ==
  /\ Begins("factoryReset", 0) /\ stage' = 1 /\ Prepared("CFG", 13)
  /\ payload' = Wiped(13)
  /\ NoTransaction /\ Elsewhere /\ UNCHANGED <<fences, fencesTaken>>

ThenReset == WriteBack("factoryReset", [id |-> "RST", len |-> 4], Wiped(4))

\* configureMessage, setAutoPVT: the solutions.
ConfigureMessage(on) ==
  /\ Single("configureMessage", on, "MSG", 8)
  /\ UNCHANGED <<fences, fencesTaken>>

AddGeofence(circle) ==
  /\ Len(fences) < MaxFences
  /\ fences' = Append(fences, circle)
  /\ Single("addGeofence", fences', "GEOFENCE", 8 + 12 * Len(fences'))
  /\ fencesTaken' = FALSE

ClearGeofencesKept ==
  /\ Single("clearGeofences", <<>>, "GEOFENCE", 8)
  /\ UNCHANGED fences /\ fencesTaken' = FALSE

ClearGeofences ==
  /\ fences' = <<>>
  /\ Single("clearGeofences", <<>>, "GEOFENCE", 8)
  /\ fencesTaken' = FALSE

\* The list of keys: newCfgValset starts it, addCfgValset goes on at the end
\* of whatever is in the buffer, sendCfgValset adds the last and sends.
Started(k, v) ==
  /\ entries' = << <<k, v>> >> /\ listed' = << <<k, v>> >> /\ undisturbed' = TRUE
  /\ UNCHANGED <<fences, fencesTaken>>

\* The code does not look for the end of payloadCfg: what it writes beyond, into
\* whatever comes next in memory, is left out by the guard.
BufferSize == 256

Added(k, v) ==
  /\ Len(entries) < MaxEntries /\ packet.len + Entry(k) <= BufferSize
  /\ packet' = [packet EXCEPT !.len = @ + Entry(k)]
  /\ payload' = [s \in AllSpots |->
                   IF packet.len <= s /\ s < packet.len + Entry(k) THEN Junk ELSE payload[s]]
  /\ entries' = IF packet.id = "VALSET" THEN Append(entries, <<k, v>>) ELSE entries
  /\ listed' = IF undisturbed THEN Append(listed, <<k, v>>) ELSE listed
  /\ UNCHANGED <<undisturbed, fences, fencesTaken>>

OneKey(k) == 4 + Entry(k)

NewCfgValsetKept(k, v) ==
  /\ Begins("newCfgValset", <<k, v>>)
  /\ packet' = [id |-> "VALSET", len |-> IF packet.id = "VALSET" THEN packet.len + Entry(k)
                                         ELSE OneKey(k)]
  /\ payload' = payload
  /\ entries' = Append(entries, <<k, v>>) /\ listed' = << <<k, v>> >> /\ undisturbed' = TRUE
  /\ UNCHANGED <<fences, fencesTaken>>
  /\ Elsewhere /\ UNCHANGED <<pc, stage>>

NewCfgValset(k, v) ==
  /\ Begins("newCfgValset", <<k, v>>) /\ Started(k, v)
  /\ packet' = [id |-> "VALSET", len |-> OneKey(k)]
  /\ payload' = [s \in AllSpots |-> IF s < OneKey(k) THEN Junk ELSE 0]
  /\ Elsewhere /\ UNCHANGED <<pc, stage>>

AddCfgValset(k, v) ==
  /\ Begins("addCfgValset", <<k, v>>) /\ Added(k, v)
  /\ Elsewhere /\ UNCHANGED <<pc, stage>>

SendCfgValset(k, v) ==
  /\ Begins("sendCfgValset", <<k, v>>) /\ Added(k, v)
  /\ pc' = "sending" /\ stage' = 2
  /\ Elsewhere

SetVal(k, v) ==
  /\ Begins("setVal", <<k, v>>) /\ Started(k, v)
  /\ Prepared("VALSET", OneKey(k)) /\ stage' = 2 /\ payload' = Wiped(OneKey(k))
  /\ Elsewhere

GetVal(k) == Single("getVal", k, "VALGET", 8) /\ UNCHANGED <<fences, fencesTaken>>

\* checkUblox, when the receiver has reported a solution.
CheckUblox ==
  /\ pc = "idle" /\ receiver.reports /\ Reached
  /\ Overwritten
  /\ UNCHANGED <<pc, call, stage, entries, commandAck, status, keptVars, receiverVars,
                 listed, fencesTaken, strayed, calls, faults>>

\* An operation ends after its last command, after a poll that setPortOutput
\* finds not acknowledged, or with a version that is, or looks, too new.
\* setI2CAddress compares the status with true, which is UBLOX_STATUS_FAIL.
StoredAddressAnyway == IF call.op = "setI2CAddress" THEN call.arg ELSE address

StoredAddress ==
  IF call.op = "setI2CAddress" /\ status = "FAIL" THEN call.arg ELSE address

Return ==
  /\ pc = "sent" /\ pc' = "idle"
  /\ \/ stage = 2
     \/ stage = 1 /\ call.op = "setPortOutput" /\ commandAck # "ack"
     \/ stage = 0 /\ version \notin 1..(TooNew - 1)
  /\ address' = StoredAddress
  /\ UNCHANGED <<call, stage, driverVars, fences, version, receiverVars, observers,
                 calls, faults>>

----------------------------------------------------------------------------
Idle == [op |-> "none", arg |-> 0]

Blank  == [s \in AllSpots |-> Junk]

Init ==
  /\ pc = "idle" /\ call = Idle /\ stage = 2
  /\ packet = Nobody /\ payload = Blank
  /\ entries = <<>> /\ commandAck = "none" /\ status = "SUCCESS"
  /\ address = DefaultAddress /\ fences = <<>> /\ version = 0
  /\ receiver = Factory /\ saved = Factory /\ protocol \in Protocols
  /\ answered = FALSE /\ listed = <<>> /\ undisturbed = FALSE /\ fencesTaken = FALSE
  /\ strayed = FALSE /\ calls = 0 /\ faults = 0

\* The program restarts, the receiver does not.
Restart ==
  /\ calls < MaxCalls /\ calls' = calls + 1
  /\ pc' = "idle" /\ call' = Idle /\ stage' = 2
  /\ packet' = Nobody /\ payload' = Blank
  /\ entries' = <<>> /\ commandAck' = "none" /\ status' = "SUCCESS"
  /\ address' = DefaultAddress /\ fences' = <<>> /\ version' = 0
  /\ answered' = FALSE /\ listed' = <<>> /\ undisturbed' = FALSE /\ fencesTaken' = FALSE
  /\ UNCHANGED <<receiverVars, strayed, faults>>

Next ==
  \/ SendCommand \/ Return \/ CheckUblox \/ Restart
  \/ \E r \in {"PRT", "RATE", "TMODE3"} : GetSetting(r)
  \/ \E op \in DOMAIN PollOf \ {"setI2CAddress"}, v \in Settings : ReadSetting(op, v)
  \/ \E a \in Addresses : ReadSetting("setI2CAddress", a)
  \/ WriteAddress \/ WritePortOutput \/ WritePortInput \/ WriteFrequency
  \/ WriteModel \/ WriteSurvey \/ WritePowerMode
  \/ \E v \in {0, 1} : PowerSaveMode(v)
  \/ ReadPowerMode
  \/ \E query \in Queries : GetStatus(query)
  \/ SaveConfiguration \/ FactoryDefault \/ HardReset \/ FactoryReset \/ ThenReset
  \/ \E on \in BOOLEAN : ConfigureMessage(on)
  \/ \E c \in Circles : AddGeofence(c)
  \/ ClearGeofences
  \/ \E k \in Keys, v \in Values :
       NewCfgValset(k, v) \/ AddCfgValset(k, v) \/ SendCfgValset(k, v) \/ SetVal(k, v)
  \/ \E k \in Keys : GetVal(k)

Spec == Init /\ [][Next]_vars

----------------------------------------------------------------------------
(***************************************************************************)
(* Once a fence command was obeyed, and until a reset, the receiver has    *)
(* the fences the driver believes it has, whatever became of the commands  *)
(* before: the list is kept although they may not have arrived.            *)
(***************************************************************************)
FencesAgree == fencesTaken => receiver.fences = fences

(***************************************************************************)
(* The driver finds the receiver at the address it has for it, through     *)
(* resets, saves and write-backs of the port, unless it was told another   *)
(* or a write-back followed a poll that was not answered.                  *)
(***************************************************************************)
AddressIsWhereAsked == ~strayed => address = AddressOf(receiver)

(***************************************************************************)
(* An operation that changes a setting changes no register but its own,    *)
(* although the buffer and the ID are left over from what was received;    *)
(* and if its poll was answered, only the byte that was asked for.  (The   *)
(* survey mode clears the rest.)  A list of keys is no setting; one that   *)
(* went on in a packet of another command is sent as that command.         *)
(***************************************************************************)
RegisterOf(op) == IF op = "powerSaveMode" THEN "RXM" ELSE PollOf[op]
SpotOf == [setI2CAddress |-> 4, setPortOutput |-> 14, setPortInput |-> 12,
           setNavigationFrequency |-> 0, setDynamicModel |-> 2, powerSaveMode |-> 1]

OnlyTheSettingAsked ==
  [][\A r \in Registers :
       /\ receiver'.regs[r] # receiver.regs[r] /\ packet.id \notin {"CFG", "RST"}
       /\ call.op = "sendCfgValset" => undisturbed
       => /\ call.op \in DOMAIN PollOf \cup {"powerSaveMode"} /\ r = RegisterOf(call.op)
          /\ answered /\ call.op \in DOMAIN SpotOf =>
               \A s \in Spots[r] \ {SpotOf[call.op]} :
                 receiver'.regs[r][s] = receiver.regs[r][s]]_vars

(***************************************************************************)
(* A list of keys that fits into the buffer, and that nothing came         *)
(* between, sets exactly the keys that were listed since newCfgValset.     *)
(***************************************************************************)
TransactionIntact ==
  [][receiver'.vals # receiver.vals /\ packet.id = "VALSET" /\ undisturbed =>
       receiver'.vals = Written(receiver.vals, listed)]_vars

=============================================================================
