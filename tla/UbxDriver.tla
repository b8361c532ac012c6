------------------------------ MODULE UbxDriver ------------------------------
(***************************************************************************)
(* The u-blox GPS driver (lib/ublox/ublox.cpp): commands are built in the  *)
(* one buffer packetCfg, sent over I2C, and answered in that same buffer;  *)
(* the wait loops poll the receiver and read what it has queued, one half  *)
(* of a frame at a time (header and payload, then checksum), for a poll    *)
(* may end in the middle of a frame.                                       *)
(*                                                                         *)
(* A class/ID pair is one name.  A payload is the name of the register it  *)
(* is the image of; "on" and "off" are a rate for the solutions, "save"    *)
(* and "default" what is to be done with the configuration, "args" any     *)
(* other bytes a caller put together, "old" bytes left over from an        *)
(* earlier operation, "bad" the image of nothing.  Time counts in ticks.   *)
(***************************************************************************)
EXTENDS Integers, Sequences

CONSTANTS
  Ops,              (* the operations the program calls                      *)
  LastOps,          (* bound: which of them may be the last of MaxCalls      *)
  PollWaits,        (* i2cPollingWait for the rates setNavigationFrequency
                       is called with                                        *)
  DefaultPollWait,  (* i2cPollingWait before that: 100 ms                    *)
  MaxWait,          (* maxWait of every call: 250 ms                         *)
  MaxTimer,         (* bound: the value at which _pollingTimer stops         *)
  MaxWire,          (* bound: the frames the receiver's buffer holds         *)
  MaxFaults,        (* bound on refused transfers, bad checksums and commands
                       not answered                                          *)
  MaxCalls,         (* bound on the operations called                        *)
  MaxInbox          (* bound: commands the receiver has not looked at        *)

Getters  == {"getPVT", "getLatitude", "getPositionAccuracy", "checkUblox",
             "getNavigationFrequency"}
Modifiers == {"setNavigationFrequency", "setDynamicModel", "setPortOutput",
              "setPortInput"}
Setters  == {"saveConfiguration", "factoryDefault", "enableMessage", "disableMessage",
             "configureMessage", "enableAutoPVT", "disableAutoPVT", "assumeAutoPVT",
             "hardReset"}

NavIDs == {"PVT", "HPPOSECEF"}
CfgIDs == {"RATE", "NAV5", "PRT", "MSG", "CFG", "RST"}
IDs    == NavIDs \cup CfgIDs
DataIDs == {"PVT", "HPPOSECEF", "RATE", "NAV5", "PRT"}   \* those read in this model
Images == IDs \cup {"old", "on", "off", "save", "default", "args", "bad"}

ASSUME UbxAssumption ==
  /\ Ops \subseteq Getters \cup Modifiers \cup Setters /\ LastOps \subseteq Ops
  /\ PollWaits \subseteq Nat /\ DefaultPollWait \in Nat /\ MaxWait \in Nat \ {0}
  /\ MaxTimer \in Nat
  /\ \A w \in PollWaits \cup {DefaultPollWait, MaxWait} : MaxTimer >= w
  /\ MaxWire \in Nat /\ MaxInbox \in Nat \ {0}
  /\ MaxFaults \in Nat /\ MaxCalls \in Nat

VARIABLES
  pc,             \* where the calling thread is
  call,           \* the operation it executes, and how far that has got:
  stage,          \*   1 first command, 2 the write-back of a setting
  waiting,        \* "ack", "noack", or "none" for a bare checkUblox
  requested,      \* the class/ID that is waited for
  status,         \* what sendCommand returned
  packetCfg,      \* id, len, valid, payload
  commandAck,     \* "none", "ack", "nack"
  timer,          \* _pollingTimer
  i2cPollingWait,
  parser,         \* "sync" between frames, "frame" within one;
                  \*   "lost" and "derailed": the same, but what comes is
                  \*   taken for the payload of a frame that has no end;
                  \*   "skips" and "skipping": it is not taken for anything
  toRead,         \* half frames left of the bytes available
  pvt,            \* what the position globals were filled from
  moduleQueried,  \* all, latitude: not read since it came
  autoPVT,
  implicitUpdate, \* autoPVTImplicitUpdate
  \* the receiver
  inbox,          \* commands it has not looked at
  outbox,         \* what it still has to say about the last one
  wire,           \* frames in its I2C buffer
  sendsPVT,       \* does it report solutions by itself?
  savedPVT,       \* and in the configuration it starts with?
  \* observers
  seen,           \* what has been read whole and good in this wait
  calls,          \* operations called so far
  faults,         \* transfers refused, checksums wrong, commands not answered
  undisturbed     \* has every command had the bus and its answer to itself?

callVars   == <<pc, call, stage, waiting, requested, status>>
packetVars == <<packetCfg, commandAck>>
pollVars   == <<timer, i2cPollingWait, parser, toRead>>
navVars    == <<pvt, moduleQueried, autoPVT, implicitUpdate>>
receiver   == <<inbox, outbox, wire, sendsPVT, savedPVT>>
observers  == <<calls, seen, faults, undisturbed>>
vars == <<callVars, packetVars, pollVars, navVars, receiver, observers>>

\* The length of each register or solution, as the receiver sends it.
FrameLen == [PVT |-> 92, HPPOSECEF |-> 28, RATE |-> 6, NAV5 |-> 36, PRT |-> 20]

NothingFresh == [all |-> FALSE, latitude |-> FALSE]

\* What is changed in packetCfg.
Judged(packet, valid)   == [packet EXCEPT !.valid = valid]
Filled(packet, payload) == [packet EXCEPT !.payload = payload]
Forgotten(packet)       == [packet EXCEPT !.id = "none",
                                          !.valid = @ /\ packet.id = "none"]

Init ==
  /\ pc = "idle" /\ call = "none" /\ stage = 1
  /\ waiting = "none" /\ requested = "none" /\ status = "SUCCESS"
  /\ packetCfg = [id |-> "none", len |-> 0, valid |-> FALSE, payload |-> "old"]
  /\ commandAck = "none"
  /\ timer = 0 /\ i2cPollingWait = DefaultPollWait
  /\ parser = "sync" /\ toRead = 0
  /\ pvt = "none" /\ moduleQueried = NothingFresh
  /\ autoPVT = FALSE /\ implicitUpdate = TRUE
  /\ inbox = <<>> /\ outbox = <<>> /\ wire = <<>>
  /\ sendsPVT = FALSE /\ savedPVT = FALSE
  /\ seen = {} /\ calls = 0 /\ faults = 0 /\ undisturbed = TRUE

----------------------------------------------------------------------------
\* Does a step of the bus or of the receiver go well?
Goes(well) ==
  /\ well \/ faults < MaxFaults
  /\ faults' = IF well THEN faults ELSE faults + 1

(***************************************************************************)
(* sendCommand: the packet goes out in several writes, each of which the   *)
(* receiver may refuse.  A command of class CFG waits for its ACK, any     *)
(* other for its answer; maxWait = 0 waits for nothing.  A caller that     *)
(* fills packetCfg in the middle of an incoming frame changes the length   *)
(* that frame is measured with: the rest of it, and maybe more, is lost.   *)
(* A solution that is polled while the receiver reports solutions anyway   *)
(* does not have its answer to itself.                                     *)
(***************************************************************************)
\* Mutant: every command waits for an ACK.
ClassOfAll(id) == "CFG"

Class(id) == IF id \in CfgIDs THEN "CFG" ELSE "NAV"

Derails(len) == parser = "frame" /\ Head(wire).kind = "data" /\ len # packetCfg.len

Command(id, len, payload) == [id |-> id, len |-> len, payload |-> payload]

SendI2cCommand(id, len, payload, written) ==
  /\ Goes(written)
  /\ IF written THEN inbox' = Append(inbox, Command(id, len, payload))
                ELSE UNCHANGED inbox
  /\ parser' = IF Derails(len) THEN "derailed" ELSE parser
  /\ undisturbed' = /\ undisturbed /\ written /\ ~Derails(len)
                    /\ id = "PVT" => ~sendsPVT

\* Mutant: the acknowledgement of the last command is kept.
StartWaitKeepingAck(id, payload, len) ==
  /\ waiting' = (IF Class(id) = "CFG" THEN "ack" ELSE "noack")
  /\ requested' = id /\ timer' = 0 /\ seen' = {}
  /\ packetCfg' = [id |-> IF Class(id) = "CFG" THEN id ELSE "none",
                   len |-> len, valid |-> FALSE, payload |-> payload]
  /\ UNCHANGED commandAck

StartWait(id, payload, len) ==
  /\ waiting' = (IF Class(id) = "CFG" THEN "ack" ELSE "noack")
  /\ requested' = id /\ timer' = 0 /\ seen' = {}
  /\ packetCfg' = [id |-> IF Class(id) = "CFG" THEN id ELSE "none",
                   len |-> len, valid |-> FALSE, payload |-> payload]
  /\ commandAck' = IF Class(id) = "CFG" THEN "none" ELSE commandAck

NoWait(id, payload, len) ==
  /\ waiting' = (IF Class(id) = "CFG" THEN "ack" ELSE "noack")
  /\ packetCfg' = [id |-> id, len |-> len, valid |-> packetCfg.valid,
                   payload |-> payload]
  /\ UNCHANGED <<requested, timer, commandAck, seen>>

SendCommand(id, len, payload, maxWait) ==
  /\ Len(inbox) < MaxInbox + stage' - 1
  /\ \E written \in BOOLEAN :
      /\ SendI2cCommand(id, len, payload, written)
      /\ IF written /\ maxWait > 0
         THEN pc' = "poll" /\ StartWait(id, payload, len) /\ UNCHANGED status
         ELSE /\ pc' = "returned" /\ NoWait(id, payload, len)
              /\ status' = IF written THEN "SUCCESS" ELSE "I2C_COMM_FAILURE"

----------------------------------------------------------------------------
(***************************************************************************)
(* The operations, as far as their first command.                          *)
(***************************************************************************)
QueryID == [getPositionAccuracy |-> "HPPOSECEF", getNavigationFrequency |-> "RATE",
            setDynamicModel |-> "NAV5"]

Called(op) ==
  /\ pc = "idle" /\ op \in Ops /\ calls < MaxCalls /\ calls' = calls + 1
  /\ calls' = MaxCalls => op \in LastOps

Begins(op) ==
  /\ Called(op) /\ call' = op /\ stage' = 1
  /\ UNCHANGED <<toRead, outbox, wire, sendsPVT, savedPVT>>

\* The payload of a poll is whatever the buffer held, one of length 1 names
\* its port; sendCommand is given length 0.
Query ==
  \E op \in DOMAIN QueryID :
    /\ Begins(op)
    /\ SendCommand(QueryID[op], 0, packetCfg.payload, MaxWait)
    /\ UNCHANGED <<i2cPollingWait, navVars>>

QueryPort ==
  \E op \in {"setPortOutput", "setPortInput"} :
    /\ Begins(op)
    /\ SendCommand("PRT", 1, "args", MaxWait)
    /\ UNCHANGED <<i2cPollingWait, navVars>>

SetNavigationFrequency ==
  /\ Begins("setNavigationFrequency")
  /\ i2cPollingWait' \in PollWaits
  /\ SendCommand("RATE", 0, packetCfg.payload, MaxWait)
  /\ UNCHANGED navVars

\* getPVT, and the getters of its values: fresh values need no getPVT, and
\* reading one of the position makes the whole solution stale.  With autoPVT it
\* reads once what has come, or leaves even that to its caller.
GetPVT ==
  \E op \in {"getPVT", "getLatitude"} :
    /\ op = "getLatitude" => ~moduleQueried.latitude
    /\ Begins(op)
    /\ IF autoPVT
       THEN /\ pc' = IF implicitUpdate THEN "poll" ELSE "returned"
            /\ waiting' = "none" /\ seen' = {}
            /\ UNCHANGED <<requested, status, packetVars, timer, parser, inbox,
                           faults, undisturbed>>
       ELSE SendCommand("PVT", 0, packetCfg.payload, MaxWait)
    /\ UNCHANGED <<i2cPollingWait, navVars>>

GetFreshLatitude ==
  /\ pc = "idle" /\ "getLatitude" \in Ops
  /\ moduleQueried.latitude /\ moduleQueried' = NothingFresh
  /\ UNCHANGED <<callVars, packetVars, pollVars, pvt, autoPVT, implicitUpdate, receiver,
                 observers>>

CheckUblox ==
  /\ Begins("checkUblox")
  /\ pc' = "poll" /\ waiting' = "none" /\ seen' = {}
  /\ UNCHANGED <<requested, status, packetVars, timer, i2cPollingWait, parser,
                 navVars, inbox, faults, undisturbed>>

\* The setters that send one command and no more: saveConfiguration,
\* factoryDefault, and configureMessage for the solutions (enableMessage and
\* disableMessage) or for another message, like which setSurveyMode, setVal and
\* cfgValset are.
Orders == [saveConfiguration |-> Command("CFG", 12, "save"),
           factoryDefault    |-> Command("CFG", 12, "default"),
           enableMessage     |-> Command("MSG", 8, "on"),
           disableMessage    |-> Command("MSG", 8, "off"),
           configureMessage  |-> Command("MSG", 8, "args")]

Order ==
  \E op \in DOMAIN Orders :
    /\ Begins(op)
    /\ SendCommand(Orders[op].id, Orders[op].len, Orders[op].payload, MaxWait)
    /\ UNCHANGED <<i2cPollingWait, navVars>>

SetAutoPVT ==
  \E enable \in BOOLEAN :
    /\ Begins(IF enable THEN "enableAutoPVT" ELSE "disableAutoPVT")
    /\ SendCommand("MSG", 3, IF enable THEN "on" ELSE "off", MaxWait)
    /\ UNCHANGED <<i2cPollingWait, navVars>>

\* assumeAutoPVT sends nothing.
AssumeAutoPVT ==
  /\ Called("assumeAutoPVT")
  /\ autoPVT' \in BOOLEAN /\ implicitUpdate' \in BOOLEAN
  /\ UNCHANGED <<callVars, packetVars, pollVars, pvt, moduleQueried, receiver, seen,
                 faults, undisturbed>>

\* hardReset does not wait: the receiver restarts.
HardReset ==
  /\ Begins("hardReset")
  /\ SendCommand("RST", 4, "args", 0)
  /\ UNCHANGED <<i2cPollingWait, navVars>>

----------------------------------------------------------------------------
(***************************************************************************)
(* The wait loops.  checkUbloxI2C does nothing within i2cPollingWait of    *)
(* the last reset of the timer, which is also the timer of the wait.  A    *)
(* poll that finds no bytes resets it.  One that is refused does not; if   *)
(* only the count of the bytes is refused, or has 0xFF for its low byte,   *)
(* it does, whatever waits to be read.  Then the loop looks at nothing.    *)
(***************************************************************************)
TimedOut == waiting # "none" /\ timer >= MaxWait

Timeout ==
  /\ pc = "poll" /\ TimedOut
  /\ pc' = "returned" /\ status' = "TIMEOUT" /\ undisturbed' = FALSE
  /\ UNCHANGED <<call, stage, waiting, requested, packetVars, pollVars, navVars,
                 receiver, calls, seen, faults>>

NextPoll == pc' = IF waiting = "none" THEN "returned" ELSE "poll"

\* Too early for a poll: the loop looks at what it has.
PollTooEarly ==
  /\ pc = "poll" /\ ~TimedOut /\ timer < i2cPollingWait
  /\ pc' = "look"
  /\ UNCHANGED <<call, stage, waiting, requested, status, packetVars, pollVars,
                 navVars, receiver, observers>>

PollRefused ==
  /\ pc = "poll" /\ ~TimedOut /\ timer >= i2cPollingWait
  /\ Goes(FALSE) /\ NextPoll /\ undisturbed' = FALSE
  /\ timer' \in {timer, 0}
  /\ UNCHANGED <<call, stage, waiting, requested, status, packetVars, i2cPollingWait,
                 parser, toRead, navVars, receiver, calls, seen>>

PollEmpty ==
  /\ pc = "poll" /\ ~TimedOut /\ timer >= i2cPollingWait
  /\ wire = <<>>
  /\ timer' = 0 /\ NextPoll
  /\ UNCHANGED <<call, stage, waiting, requested, status, packetVars,
                 i2cPollingWait, parser, toRead, navVars, receiver, observers>>

\* Has the first half of a frame been read?
HalfRead == IF parser \in {"frame", "derailed", "skipping"} THEN 1 ELSE 0

\* The halves that can be read now: all of them, or none of the last.  They are
\* read in chunks of 256 bytes, which makes no difference to what comes of them.
HalvesOnWire == 2 * Len(wire) - HalfRead

PollFull ==
  /\ pc = "poll" /\ ~TimedOut /\ timer >= i2cPollingWait
  /\ wire # <<>>
  /\ toRead' \in {HalvesOnWire, HalvesOnWire - 1} \ {0}
  /\ pc' = "read"
  /\ UNCHANGED <<call, stage, waiting, requested, status, packetVars, timer,
                 i2cPollingWait, parser, navVars, receiver, observers>>

\* Are the bytes that come next stored in packetCfg?
TakenForData ==
  \/ parser \in {"lost", "derailed"}
  \/ parser = "frame" /\ Head(wire).kind = "data"

\* Where the parser is when bytes have been lost and the half that comes next is
\* the first of a frame, or not.
AfterLoss(first) ==
  CASE parser = "sync" -> IF first THEN "sync" ELSE "skipping"
    [] parser # "sync" /\ TakenForData  -> IF first THEN "lost" ELSE "derailed"
    [] parser # "sync" /\ ~TakenForData -> IF first THEN "skips" ELSE "skipping"

\* The first byte read is 0x7F, "not ready with data": what has been read with it,
\* whole frames and maybe half of the next, is not looked at.
PollNotReady ==
  /\ pc = "poll" /\ ~TimedOut /\ timer >= i2cPollingWait
  /\ wire # <<>>
  /\ Goes(FALSE) /\ NextPoll /\ undisturbed' = FALSE
  /\ \/ UNCHANGED <<wire, parser>>
     \/ \E whole \in 0..Len(wire), first \in BOOLEAN :
          /\ IF first THEN whole > 0 ELSE whole < Len(wire) /\ 2 * whole + 1 > HalfRead
          /\ wire' = SubSeq(wire, whole + 1, Len(wire))
          /\ parser' = AfterLoss(first)
  /\ UNCHANGED <<call, stage, waiting, requested, status, packetVars, timer,
                 i2cPollingWait, toRead, navVars, inbox, outbox, sendsPVT, savedPVT,
                 calls, seen>>

(***************************************************************************)
(* process, processUBX: the header goes into packetCfg as it comes, an ACK *)
(* into a buffer of its own.                                               *)
(***************************************************************************)
Reading ==
  /\ pc = "read" /\ toRead' = toRead - 1
  /\ pc' = IF toRead = 1 THEN "look" ELSE "read"

ReadHeader ==
  /\ Reading /\ parser = "sync" /\ parser' = "frame"
  /\ LET frame == Head(wire) IN
       IF frame.kind = "data"
       THEN /\ packetCfg' = [id |-> frame.id, len |-> FrameLen[frame.id],
                             valid |-> FALSE,
                             payload |-> IF frame.good THEN frame.id ELSE "bad"]
            /\ undisturbed' = /\ undisturbed
                              /\ waiting = "ack" => frame.id = requested
       ELSE UNCHANGED <<packetCfg, undisturbed>>
  /\ UNCHANGED <<call, stage, waiting, requested, status, commandAck, timer,
                 i2cPollingWait, navVars, receiver, calls, seen, faults>>

\* Mutant: a frame counts whatever its checksum.
ChecksumIgnored(frame) == TRUE

ChecksumMatches(frame) == frame.good

\* processUBXpacket for an ACK or NACK, which must name what packetCfg names.
AckNames(frame) == frame.id = packetCfg.id

\* processUBXpacket for a solution fills all the position globals.
FillsGlobals(frame) ==
  ChecksumMatches(frame) /\ frame.kind = "data" /\ packetCfg.id = "PVT"

\* What an observer remembers of a good frame: its kind, and if it is the one
\* that was asked for.
Sight(frame) == {<<frame.kind, frame.id = requested>>}

ReadChecksum ==
  /\ Reading /\ parser = "frame"
  /\ parser' = "sync" /\ wire' = Tail(wire)
  /\ LET frame == Head(wire) IN
       /\ packetCfg' = IF frame.kind = "data"
                       THEN Judged(packetCfg, ChecksumMatches(frame))
                       ELSE packetCfg
       /\ commandAck' = IF /\ frame.kind # "data" /\ ChecksumMatches(frame)
                           /\ AckNames(frame)
                        THEN frame.kind ELSE commandAck
       /\ IF FillsGlobals(frame)
          THEN /\ pvt' = packetCfg.payload
               /\ moduleQueried' = [all |-> TRUE, latitude |-> TRUE]
          ELSE UNCHANGED <<pvt, moduleQueried>>
       /\ seen' = IF frame.good THEN seen \cup Sight(frame) ELSE seen
  /\ UNCHANGED <<call, stage, waiting, requested, status, timer, i2cPollingWait,
                 autoPVT, implicitUpdate, inbox, outbox, sendsPVT, savedPVT, calls,
                 faults, undisturbed>>

\* Bytes measured with the wrong length are stored as if they were payload;
\* the rest of this frame is lost, and the next frame may be.
ReadDerailed ==
  /\ Reading /\ parser \in {"derailed", "lost"}
  /\ IF parser = "lost"
     THEN parser' = "derailed" /\ UNCHANGED wire
     ELSE parser' \in {"sync", "lost"} /\ wire' = Tail(wire)
  /\ packetCfg' = Filled(packetCfg, "bad")
  /\ UNCHANGED <<call, stage, waiting, requested, status, commandAck, timer,
                 i2cPollingWait, navVars, inbox, outbox, sendsPVT, savedPVT, observers>>

\* The end of an ACK that was cut off is waited for: the frame after it is
\* passed over.
ReadSkipping ==
  /\ Reading /\ parser \in {"skips", "skipping"}
  /\ IF parser = "skips"
     THEN parser' = "skipping" /\ UNCHANGED wire
     ELSE parser' = "sync" /\ wire' = Tail(wire)
  /\ UNCHANGED <<call, stage, waiting, requested, status, packetVars, timer,
                 i2cPollingWait, navVars, inbox, outbox, sendsPVT, savedPVT, observers>>

ReadRefused ==
  /\ pc = "read" /\ Goes(FALSE)
  /\ toRead' = 0 /\ NextPoll /\ undisturbed' = FALSE
  /\ UNCHANGED <<call, stage, waiting, requested, status, packetVars, timer,
                 i2cPollingWait, parser, navVars, receiver, calls, seen>>

(***************************************************************************)
(* What the wait loops make of it.  With len = 1 an answer is expected as  *)
(* well as the ACK, but the length looked at is that of the last packet    *)
(* sent or received.                                                       *)
(***************************************************************************)
IsRequested == packetCfg.id = requested

\* Mutant: the comparison the wrong way round.
ExpectsDataSwapped == packetCfg.len > 1

ExpectsData == packetCfg.len = 1

Returns(s) == pc' = "returned" /\ status' = s

LookUnchanged ==
  UNCHANGED <<call, stage, waiting, requested, commandAck, pollVars, navVars,
              receiver, observers>>

LookForAck ==
  /\ pc = "look" /\ waiting = "ack"
  /\ \/ /\ commandAck = "ack" /\ ~ExpectsData
        /\ Returns("DATA_SENT") /\ UNCHANGED packetCfg
     \/ /\ commandAck = "ack" /\ ExpectsData
        /\ IF packetCfg.valid /\ ~IsRequested
           THEN pc' = "poll" /\ UNCHANGED status
           ELSE Returns(IF packetCfg.valid THEN "DATA_RECEIVED" ELSE "FAIL")
        /\ packetCfg' = Judged(packetCfg, packetCfg.valid /\ IsRequested)
     \/ /\ commandAck = "nack"
        /\ Returns("COMMAND_UNKNOWN") /\ UNCHANGED packetCfg
     \/ /\ commandAck = "none"
        /\ pc' = "poll" /\ UNCHANGED <<status, packetCfg>>
  /\ LookUnchanged

\* Without ACK: the answer itself, or another packet to be forgotten.
LookForAnswer ==
  /\ pc = "look" /\ waiting = "noack"
  /\ \/ /\ IsRequested /\ packetCfg.valid
        /\ Returns("DATA_RECEIVED") /\ UNCHANGED packetCfg
     \/ /\ IsRequested /\ ~packetCfg.valid
        /\ Returns("CRC_FAIL") /\ UNCHANGED packetCfg
     \/ /\ ~IsRequested
        /\ pc' = "poll" /\ UNCHANGED status
        /\ packetCfg' = Forgotten(packetCfg)
  /\ LookUnchanged

LookOnce ==
  /\ pc = "look" /\ waiting = "none"
  /\ pc' = "returned"
  /\ UNCHANGED <<status, packetCfg>> /\ LookUnchanged

----------------------------------------------------------------------------
(***************************************************************************)
(* sendCommand has returned.  Its status is a number that the callers take *)
(* for a Boolean: only SUCCESS is false, and a call that waits never       *)
(* returns it.                                                             *)
(***************************************************************************)
Ok == status # "SUCCESS"

GoesOn == Ok /\ (call = "setPortOutput" => commandAck = "ack")

\* The second half of an operation that changes a register: the buffer, now
\* "loaded with current bytes", is sent with a few bytes changed.
ChangesPort == call \in {"setPortOutput", "setPortInput"}

WriteBackID == IF ChangesPort THEN "PRT" ELSE packetCfg.id

WriteBackLen == IF ChangesPort THEN 20
                ELSE IF call = "setDynamicModel" THEN 36
                ELSE packetCfg.len

WriteBack ==
  /\ pc = "returned" /\ call \in Modifiers /\ stage = 1 /\ GoesOn
  /\ stage' = 2
  /\ SendCommand(WriteBackID, WriteBackLen, packetCfg.payload, MaxWait)
  /\ UNCHANGED <<call, i2cPollingWait, toRead, navVars, outbox, wire, sendsPVT,
                 savedPVT, calls>>

\* The locals of the calls are gone; what is in the buffer is old, but for a
\* frame that is still coming in.
Done ==
  /\ pc = "returned" /\ pc' = "idle" /\ call' = "none" /\ stage' = 1
  /\ waiting' = "none" /\ requested' = "none" /\ status' = "SUCCESS" /\ seen' = {}
  /\ packetCfg' = IF parser = "frame" THEN packetCfg ELSE Filled(packetCfg, "old")
  /\ UNCHANGED commandAck

FinishSetAutoPVT ==
  /\ Done /\ call \in {"enableAutoPVT", "disableAutoPVT"}
  /\ IF Ok THEN autoPVT' = (call = "enableAutoPVT") /\ implicitUpdate' \in BOOLEAN
           ELSE UNCHANGED <<autoPVT, implicitUpdate>>
  /\ moduleQueried' = [moduleQueried EXCEPT !.all = FALSE]
  /\ UNCHANGED <<pollVars, pvt, receiver, calls, faults, undisturbed>>

FinishGetPVT ==
  /\ Done /\ call \in {"getPVT", "getLatitude"}
  /\ moduleQueried' = IF call = "getPVT" THEN moduleQueried ELSE NothingFresh
  /\ UNCHANGED <<pollVars, pvt, autoPVT, implicitUpdate, receiver, calls, faults,
                 undisturbed>>

Finish ==
  /\ Done
  /\ call \notin {"getPVT", "getLatitude", "enableAutoPVT", "disableAutoPVT"}
  /\ call \in Modifiers => stage = 2 \/ ~GoesOn
  /\ UNCHANGED <<pollVars, navVars, receiver, calls, faults, undisturbed>>

----------------------------------------------------------------------------
(***************************************************************************)
(* The receiver.  It looks at one command at a time, says in the order of  *)
(* its outbox what it has to say, and reports solutions in between.        *)
(***************************************************************************)
Polled(c) == c.id \in NavIDs \/ c.len = 0 \/ (c.id = "PRT" /\ c.len = 1)

Data(id) == [kind |-> "data", id |-> id]
Ack(id)  == [kind |-> "ack", id |-> id]
Nack(id) == [kind |-> "nack", id |-> id]

Answer(c) == (IF Polled(c) THEN <<Data(c.id)>> ELSE <<>>)
               \o (IF c.id \in CfgIDs THEN <<Ack(c.id)>> ELSE <<>>)

\* Whether it reports solutions is changed by four of the orders.
ReportsAfter(c) == CASE c.id = "MSG" /\ c.payload = "on" -> TRUE
                     [] c.id = "MSG" /\ c.payload = "off" -> FALSE
                     [] c.id = "CFG" /\ c.payload = "default" -> FALSE
                     [] OTHER -> sendsPVT
SavedAfter(c) == CASE c.id = "CFG" /\ c.payload = "save" -> sendsPVT
                   [] c.id = "CFG" /\ c.payload = "default" -> FALSE
                   [] OTHER -> savedPVT

AnswerCommand ==
  /\ inbox # <<>> /\ outbox = <<>>
  /\ Head(inbox).id # "RST"
  /\ inbox' = Tail(inbox) /\ outbox' = Answer(Head(inbox))
  /\ sendsPVT' = ReportsAfter(Head(inbox)) /\ savedPVT' = SavedAfter(Head(inbox))
  /\ UNCHANGED <<callVars, packetVars, pollVars, navVars, wire, observers>>

RefuseCommand ==
  /\ inbox # <<>> /\ outbox = <<>> /\ Goes(FALSE)
  /\ inbox' = Tail(inbox) /\ undisturbed' = FALSE
  /\ outbox' = IF Head(inbox).id \in CfgIDs THEN <<Nack(Head(inbox).id)>>
                                             ELSE <<>>
  /\ UNCHANGED <<callVars, packetVars, pollVars, navVars, wire, sendsPVT, savedPVT,
                 calls, seen>>

IgnoreCommand ==
  /\ inbox # <<>> /\ outbox = <<>> /\ Goes(FALSE)
  /\ inbox' = Tail(inbox) /\ undisturbed' = FALSE
  /\ UNCHANGED <<callVars, packetVars, pollVars, navVars, outbox, wire, sendsPVT,
                 savedPVT, calls, seen>>

Restart ==
  /\ inbox # <<>> /\ Head(inbox).id = "RST" /\ pc # "read"
  /\ inbox' = <<>> /\ outbox' = <<>> /\ wire' = <<>> /\ sendsPVT' = savedPVT
  /\ parser' = AfterLoss(TRUE)
  /\ undisturbed' = FALSE
  /\ UNCHANGED <<callVars, packetVars, timer, i2cPollingWait, toRead, navVars,
                 savedPVT, calls, seen, faults>>

Frame(reply, good) == [kind |-> reply.kind, id |-> reply.id, good |-> good]

Emit ==
  /\ outbox # <<>> /\ outbox' = Tail(outbox)
  /\ IF Len(wire) < MaxWire
     THEN \E good \in BOOLEAN : /\ Goes(good)
                               /\ wire' = Append(wire, Frame(Head(outbox), good))
                               /\ undisturbed' = (undisturbed /\ good)
     ELSE undisturbed' = FALSE /\ UNCHANGED <<wire, faults>>
  /\ UNCHANGED <<callVars, packetVars, pollVars, navVars, inbox, sendsPVT, savedPVT,
                 calls, seen>>

SendSolution ==
  /\ sendsPVT /\ Len(wire) < MaxWire
  /\ wire' = Append(wire, Frame(Data("PVT"), TRUE))
  /\ UNCHANGED <<callVars, packetVars, pollVars, navVars, inbox, outbox, sendsPVT,
                 savedPVT, observers>>

Capped(t) == IF t < MaxTimer THEN t + 1 ELSE t

Tick ==
  /\ timer' = Capped(timer)
  /\ UNCHANGED <<callVars, packetVars, i2cPollingWait, parser, toRead, navVars,
                 receiver, observers>>

----------------------------------------------------------------------------
Begin == \/ Query \/ QueryPort \/ SetNavigationFrequency \/ GetPVT
         \/ GetFreshLatitude \/ CheckUblox \/ Order \/ SetAutoPVT
         \/ AssumeAutoPVT \/ HardReset
Poll == Timeout \/ PollTooEarly \/ PollEmpty \/ PollFull
Read == ReadHeader \/ ReadChecksum \/ ReadDerailed \/ ReadSkipping
Look == LookForAck \/ LookForAnswer \/ LookOnce
End  == WriteBack \/ FinishSetAutoPVT \/ FinishGetPVT \/ Finish
Receive == AnswerCommand \/ RefuseCommand \/ IgnoreCommand \/ Restart

Next == \/ Begin \/ Poll \/ PollRefused \/ PollNotReady \/ Read \/ ReadRefused
        \/ Look \/ End \/ Receive \/ Emit \/ SendSolution \/ Tick

Spec == Init /\ [][Next]_vars

\* The calling thread runs and time passes; the bus is not busy for ever and
\* the receiver gets round to its commands.
FairSpec == /\ Spec
            /\ WF_vars(Poll) /\ WF_vars(Read) /\ WF_vars(Look) /\ WF_vars(End)
            /\ WF_vars(Tick) /\ WF_vars(Receive) /\ WF_vars(Emit)

----------------------------------------------------------------------------
Statuses == {"SUCCESS", "FAIL", "CRC_FAIL", "TIMEOUT", "COMMAND_UNKNOWN",
             "DATA_SENT", "DATA_RECEIVED", "I2C_COMM_FAILURE"}
Kinds == {"data", "ack", "nack"}
Parsers == {"sync", "frame", "lost", "derailed", "skips", "skipping"}

CommandSet ==
  {c \in [id : IDs, len : Nat, payload : Images] : Polled(c) => c.id \in DataIDs}
ReplySet == {x \in [kind : Kinds, id : IDs] : x.kind = "data" => x.id \in DataIDs}
FrameSet == {f \in [kind : Kinds, id : IDs, good : BOOLEAN] :
               f.kind = "data" => f.id \in DataIDs}

Packets == [id : IDs \cup {"none"}, len : Nat, valid : BOOLEAN, payload : Images]

CallOK ==
  /\ pc \in {"idle", "poll", "read", "look", "returned"}
  /\ call \in Ops \cup {"none"} /\ stage \in 1..2
  /\ waiting \in {"ack", "noack", "none"} /\ requested \in IDs \cup {"none"}
  /\ status \in Statuses

PacketOK ==
  /\ packetCfg \in Packets
  /\ commandAck \in {"none", "ack", "nack"}
  /\ timer \in 0..MaxTimer /\ i2cPollingWait \in PollWaits \cup {DefaultPollWait}
  /\ parser \in Parsers /\ toRead \in Nat
  /\ pvt \in Images \cup {"none"} /\ autoPVT \in BOOLEAN
  /\ implicitUpdate \in BOOLEAN
  /\ moduleQueried \in [all : BOOLEAN, latitude : BOOLEAN]

ReceiverOK ==
  /\ inbox \in Seq(CommandSet) /\ outbox \in Seq(ReplySet) /\ wire \in Seq(FrameSet)
  /\ sendsPVT \in BOOLEAN /\ savedPVT \in BOOLEAN
  /\ seen \subseteq Kinds \X BOOLEAN
  /\ calls \in 0..MaxCalls /\ faults \in 0..MaxFaults
  /\ undisturbed \in BOOLEAN

\* Every variable keeps its type.
TypeOK == CallOK /\ PacketOK /\ ReceiverOK

(***************************************************************************)
(* A status says what has been read whole, and with a good checksum, since *)
(* the command was sent; nothing left over from before counts.             *)
(***************************************************************************)
StatusIsEarned ==
  pc = "returned" /\ waiting # "none" =>
    /\ status = "DATA_SENT" => \E its \in BOOLEAN : <<"ack", its>> \in seen
    /\ status = "COMMAND_UNKNOWN" => \E its \in BOOLEAN : <<"nack", its>> \in seen
    /\ status = "DATA_RECEIVED" =>
         /\ <<"data", TRUE>> \in seen
         /\ packetCfg.valid /\ packetCfg.payload = requested

\* A position offered as fresh was filled from a whole solution.
SolutionIsMeasured ==
  moduleQueried.all \/ moduleQueried.latitude => pvt = "PVT"

(***************************************************************************)
(* As long as no transfer and no answer has failed, and no other frame was *)
(* read while an ACK was waited for, a command has the answer that belongs *)
(* to it, and the bytes about to be changed are those of its register.  An *)
(* answer that is read in two parts is reported as corrupt.                *)
(***************************************************************************)
CommandsWork ==
  undisturbed /\ pc = "returned" /\ waiting # "none" =>
    \/ status = "DATA_SENT" /\ <<"ack", TRUE>> \in seen
       /\ (call \in Modifiers /\ stage = 1 => packetCfg.payload = requested)
    \/ status = "DATA_RECEIVED"
    \/ status = "CRC_FAIL" /\ parser = "frame"
    \/ status = "SUCCESS" /\ call = "hardReset"

\* And every command ends.
CommandsEnd == pc # "idle" ~> pc = "idle" \/ ~undisturbed

----------------------------------------------------------------------------
(***************************************************************************)
(* What comments say and the code does not do.                             *)
(***************************************************************************)
\* ublox.cpp:972, "Returns false if we timed out": every wait ends.
EveryWaitEnds == pc # "idle" ~> pc = "idle"

=============================================================================
