-------------------------- MODULE UbxDriver_proofs --------------------------
(***************************************************************************)
(* Theorems about UbxDriver for every value of its constants: types, what  *)
(* a status says, where the position globals come from, and what a command *)
(* has that nothing disturbed.                                             *)
(***************************************************************************)
EXTENDS UbxDriver, SequenceTheorems, TLAPS

(***************************************************************************)
(* The inductive invariant.  The first part is what the types need: there  *)
(* is a frame to be read wherever one is read, and the buffer names a      *)
(* command when one is sent back from it.                                  *)
(***************************************************************************)
BytesAreThere ==
  /\ toRead + HalfRead <= 2 * Len(wire)
  /\ toRead > 0 <=> pc = "read"

BufferNamed ==
  /\ waiting = "ack" /\ pc # "idle" => packetCfg.id # "none"
  /\ call \in Modifiers /\ stage = 1 /\ pc # "idle" =>
       waiting = "ack" /\ packetCfg.id \in DataIDs

TypeInvariant == TypeOK /\ BytesAreThere /\ BufferNamed

ReadsData == parser = "frame" /\ Head(wire).kind = "data"

\* While a frame comes in the buffer keeps its length, and an image of a
\* solution is in it only if the frame is one.
FrameInProgress ==
  ReadsData =>
    /\ packetCfg.len = FrameLen[Head(wire).id]
    /\ packetCfg.id = "PVT" =>
         /\ Head(wire).id = "PVT"
         /\ Head(wire).good => packetCfg.payload = "PVT"

Waits == pc \in {"poll", "read", "look"} /\ waiting # "none"

\* What the wait loops would return now has been earned.
WaitIsHonest ==
  Waits =>
    /\ TakenForData => ~packetCfg.valid
    /\ packetCfg.valid => packetCfg.len # 1
    /\ requested \in IDs
    /\ waiting = "ack" /\ commandAck # "none" =>
         \E its \in BOOLEAN : <<commandAck, its>> \in seen
    /\ waiting = "noack" /\ packetCfg.id = requested =>
         /\ packetCfg.valid => /\ <<"data", TRUE>> \in seen
                               /\ packetCfg.payload = requested
         /\ ReadsData => /\ Head(wire).id = requested
                         /\ Head(wire).good => packetCfg.payload = requested

\* The second part says what the buffer holds while a frame comes in and while an
\* answer is waited for, and with it what is to be shown.
HonestInvariant == /\ FrameInProgress /\ WaitIsHonest
                   /\ StatusIsEarned /\ SolutionIsMeasured

UbxInvariant == TypeInvariant /\ HonestInvariant

----------------------------------------------------------------------------
(***************************************************************************)
(* Facts about packets, commands and frames.                               *)
(***************************************************************************)

\* What the receiver sends has one of the lengths of FrameLen.
LEMMA LengthFacts ==
  \A id \in DataIDs : FrameLen[id] \in Nat /\ FrameLen[id] \notin {0, 1, 3, 4, 8, 12}
BY DEF DataIDs, FrameLen

\* The identifiers of the model.
LEMMA IdFacts ==
  /\ DataIDs \subseteq IDs /\ CfgIDs \subseteq IDs /\ NavIDs \subseteq DataIDs
  /\ IDs \subseteq Images /\ {"old", "on", "off", "save", "default", "args", "bad"} \subseteq Images
  /\ "none" \notin IDs
BY DEF DataIDs, CfgIDs, NavIDs, IDs, Images

\* The fields of a packet.
LEMMA PacketFacts ==
  /\ \A p \in Packets : /\ p.id \in IDs \cup {"none"} /\ p.len \in Nat
                        /\ p.valid \in BOOLEAN /\ p.payload \in Images
  /\ \A id \in IDs \cup {"none"}, len \in Nat, valid \in BOOLEAN, payload \in Images :
       [id |-> id, len |-> len, valid |-> valid, payload |-> payload] \in Packets
BY DEF Packets

\* A packet whose checksum is known.
LEMMA JudgedFacts ==
  ASSUME NEW p \in Packets, NEW valid \in BOOLEAN
  PROVE  /\ Judged(p, valid) \in Packets
         /\ Judged(p, valid).id = p.id /\ Judged(p, valid).len = p.len
         /\ Judged(p, valid).payload = p.payload /\ Judged(p, valid).valid = valid
BY DEF Judged, Packets

\* A packet with another payload.
LEMMA FilledFacts ==
  ASSUME NEW p \in Packets, NEW payload \in Images
  PROVE  /\ Filled(p, payload) \in Packets
         /\ Filled(p, payload).id = p.id /\ Filled(p, payload).len = p.len
         /\ Filled(p, payload).payload = payload /\ Filled(p, payload).valid = p.valid
BY DEF Filled, Packets

\* A packet that is to be forgotten.
LEMMA ForgottenFacts ==
  ASSUME NEW p \in Packets
  PROVE  /\ Forgotten(p) \in Packets
         /\ Forgotten(p).id = "none" /\ Forgotten(p).len = p.len
         /\ Forgotten(p).payload = p.payload
         /\ Forgotten(p).valid => p.valid /\ p.id = "none"
BY DEF Forgotten, Packets

\* A command that asks for something asks for what the model reads.
LEMMA CommandFacts ==
  ASSUME NEW id \in IDs, NEW len \in Nat, NEW payload \in Images,
         id \in NavIDs \/ len = 0 \/ (id = "PRT" /\ len = 1) => id \in DataIDs
  PROVE  Command(id, len, payload) \in CommandSet
BY DEF Command, CommandSet, Polled

\* The receiver answers with replies.
LEMMA AnswerFacts ==
  ASSUME NEW c \in CommandSet
  PROVE  /\ c.id \in IDs
         /\ Answer(c) \in Seq(ReplySet)
         /\ <<Nack(c.id)>> \in Seq(ReplySet)
<1>1. c.id \in IDs /\ (Polled(c) => c.id \in DataIDs)
  BY DEF CommandSet
<1>2. Ack(c.id) \in ReplySet /\ Nack(c.id) \in ReplySet
  BY <1>1 DEF Ack, Nack, ReplySet, Kinds
<1>3. Polled(c) => Data(c.id) \in ReplySet
  BY <1>1 DEF Data, ReplySet, Kinds
<1>4. Answer(c) \in Seq(ReplySet)
  BY <1>2, <1>3 DEF Answer
<1>5. QED
  BY <1>1, <1>2, <1>4

\* The orders are commands that ask for nothing.
LEMMA OrderFacts ==
  ASSUME NEW op \in DOMAIN Orders
  PROVE  /\ Orders[op].id \in {"CFG", "MSG"} /\ Orders[op].len \in {8, 12}
         /\ Orders[op].payload \in {"save", "default", "on", "off", "args"}
         /\ op \in Setters /\ op # "hardReset" /\ op \notin Modifiers
BY DEF Orders, Command, Setters, Modifiers

\* Frames carry replies, and solutions.
LEMMA FrameFacts ==
  /\ \A x \in ReplySet, good \in BOOLEAN : Frame(x, good) \in FrameSet
  /\ Frame(Data("PVT"), TRUE) \in FrameSet
  /\ \A f \in FrameSet : /\ f.kind \in Kinds /\ f.id \in IDs /\ f.good \in BOOLEAN
                         /\ f.kind = "data" => f.id \in DataIDs
BY DEF ReplySet, FrameSet, Frame, Data, Kinds, DataIDs, IDs, NavIDs, CfgIDs

----------------------------------------------------------------------------
(***************************************************************************)
(* Types.                                                                  *)
(***************************************************************************)

\* A step of the bus or the receiver keeps the count of faults.
LEMMA GoesFacts ==
  ASSUME faults \in 0..MaxFaults, NEW well \in BOOLEAN, Goes(well)
  PROVE  faults' \in 0..MaxFaults
BY UbxAssumption DEF Goes

\* What sendCommand does to the state, whatever is sent.
LEMMA SendCommandTypes ==
  ASSUME TypeInvariant, pc # "read", toRead' = toRead, wire' = wire,
         NEW id \in IDs, NEW len \in Nat, NEW payload \in Images, NEW maxWait \in Nat,
         id \in NavIDs \/ len = 0 \/ (id = "PRT" /\ len = 1) => id \in DataIDs,
         SendCommand(id, len, payload, maxWait)
  PROVE  /\ pc' \in {"poll", "returned"} /\ status' \in Statuses
         /\ waiting' \in {"ack", "noack"} /\ requested' \in IDs \cup {"none"}
         /\ packetCfg' \in Packets /\ commandAck' \in {"none", "ack", "nack"}
         /\ timer' \in 0..MaxTimer /\ parser' \in Parsers
         /\ inbox' \in Seq(CommandSet)
         /\ seen' \subseteq Kinds \X BOOLEAN
         /\ faults' \in 0..MaxFaults /\ undisturbed' \in BOOLEAN
         /\ BytesAreThere'
         /\ waiting' = "ack" => packetCfg'.id = id
         /\ id \in CfgIDs => waiting' = "ack"
<1>1. PICK written \in BOOLEAN :
        /\ SendI2cCommand(id, len, payload, written)
        /\ IF written /\ maxWait > 0
           THEN pc' = "poll" /\ StartWait(id, payload, len) /\ UNCHANGED status
           ELSE /\ pc' = "returned" /\ NoWait(id, payload, len)
                /\ status' = IF written THEN "SUCCESS" ELSE "I2C_COMM_FAILURE"
  BY DEF SendCommand
<1>2. /\ faults' \in 0..MaxFaults
      /\ inbox' \in Seq(CommandSet)
      /\ parser' = IF Derails(len) THEN "derailed" ELSE parser
      /\ undisturbed' \in BOOLEAN
  <2>1. faults' \in 0..MaxFaults
    BY <1>1, GoesFacts DEF SendI2cCommand, TypeInvariant, TypeOK, ReceiverOK
  <2>2. inbox' \in Seq(CommandSet)
    <3>1. inbox \in Seq(CommandSet) /\ Command(id, len, payload) \in CommandSet
      BY CommandFacts DEF TypeInvariant, TypeOK, ReceiverOK
    <3>2. \/ inbox' = Append(inbox, Command(id, len, payload))
          \/ inbox' = inbox
      BY <1>1 DEF SendI2cCommand
    <3>3. QED
      BY <3>1, <3>2
  <2>3. undisturbed' \in BOOLEAN
    BY <1>1 DEF SendI2cCommand
  <2>4. QED
    BY <1>1, <2>1, <2>2, <2>3 DEF SendI2cCommand
<1>3. /\ packetCfg' \in Packets
      /\ waiting' = (IF Class(id) = "CFG" THEN "ack" ELSE "noack")
      /\ waiting' = "ack" => packetCfg'.id = id
  <2>1. packetCfg \in Packets
    BY DEF TypeInvariant, TypeOK, PacketOK
  <2>2. CASE StartWait(id, payload, len)
    <3>1. packetCfg' = [id |-> IF Class(id) = "CFG" THEN id ELSE "none", len |-> len,
                        valid |-> FALSE, payload |-> payload]
      BY <2>2 DEF StartWait
    <3>2. packetCfg' \in Packets
      BY <3>1, PacketFacts
    <3>3. waiting' = (IF Class(id) = "CFG" THEN "ack" ELSE "noack")
      BY <2>2 DEF StartWait
    <3>4. QED
      BY <3>1, <3>2, <3>3
  <2>3. CASE NoWait(id, payload, len)
    <3>1. packetCfg' = [id |-> id, len |-> len, valid |-> packetCfg.valid,
                        payload |-> payload]
      BY <2>3 DEF NoWait
    <3>2. packetCfg' \in Packets
      BY <2>1, <3>1, PacketFacts
    <3>3. waiting' = (IF Class(id) = "CFG" THEN "ack" ELSE "noack")
      BY <2>3 DEF NoWait
    <3>4. QED
      BY <3>1, <3>2, <3>3
  <2>4. QED
    BY <1>1, <2>2, <2>3
<1>4. id \in CfgIDs => waiting' = "ack"
  BY <1>3 DEF Class
<1>5. /\ pc' \in {"poll", "returned"} /\ status' \in Statuses
      /\ requested' \in IDs \cup {"none"}
      /\ commandAck' \in {"none", "ack", "nack"}
      /\ timer' \in 0..MaxTimer
      /\ seen' \subseteq Kinds \X BOOLEAN
  BY <1>1, UbxAssumption
     DEF StartWait, NoWait, TypeInvariant, TypeOK, CallOK, PacketOK, ReceiverOK, Statuses
<1>6. parser' \in Parsers /\ HalfRead' = HalfRead
  BY <1>2 DEF Derails, HalfRead, Parsers, TypeInvariant, TypeOK, PacketOK
<1>7. BytesAreThere'
  BY <1>5, <1>6 DEF BytesAreThere, TypeInvariant, TypeOK, PacketOK
<1>8. QED
  BY <1>2, <1>3, <1>4, <1>5, <1>6, <1>7

\* An operation that begins with a command, and leaves the solutions alone.
LEMMA BeginTypes ==
  ASSUME TypeInvariant, NEW op, Begins(op),
         NEW id \in IDs, NEW len \in Nat, NEW payload \in Images, NEW maxWait \in Nat,
         id \in NavIDs \/ len = 0 \/ (id = "PRT" /\ len = 1) => id \in DataIDs,
         op \in Modifiers => id \in CfgIDs \cap DataIDs,
         SendCommand(id, len, payload, maxWait),
         i2cPollingWait' \in PollWaits \cup {DefaultPollWait},
         UNCHANGED navVars
  PROVE  TypeInvariant'
<1>1. /\ pc = "idle" /\ op \in Ops /\ call' = op /\ stage' = 1
      /\ calls' \in 0..MaxCalls
      /\ toRead' = toRead /\ outbox' = outbox
      /\ wire' = wire /\ sendsPVT' = sendsPVT /\ savedPVT' = savedPVT
  BY UbxAssumption DEF Begins, Called, TypeInvariant, TypeOK, ReceiverOK
<1>2. /\ pc' \in {"poll", "returned"} /\ status' \in Statuses
      /\ waiting' \in {"ack", "noack"} /\ requested' \in IDs \cup {"none"}
      /\ packetCfg' \in Packets /\ commandAck' \in {"none", "ack", "nack"}
      /\ timer' \in 0..MaxTimer /\ parser' \in Parsers
      /\ inbox' \in Seq(CommandSet)
      /\ seen' \subseteq Kinds \X BOOLEAN
      /\ faults' \in 0..MaxFaults /\ undisturbed' \in BOOLEAN
      /\ BytesAreThere'
      /\ waiting' = "ack" => packetCfg'.id = id
      /\ id \in CfgIDs => waiting' = "ack"
  BY <1>1, SendCommandTypes
<1>3. CallOK'
  BY <1>1, <1>2 DEF CallOK
<1>4. PacketOK'
  BY <1>1, <1>2 DEF PacketOK, navVars, TypeInvariant, TypeOK
<1>5. ReceiverOK'
  BY <1>1, <1>2 DEF ReceiverOK, TypeInvariant, TypeOK
<1>6. BufferNamed'
  BY <1>1, <1>2, IdFacts DEF BufferNamed
<1>7. QED
  BY <1>2, <1>3, <1>4, <1>5, <1>6 DEF TypeInvariant, TypeOK

\* The operations, one by one.
LEMMA BeginKeepsTypes ==
  ASSUME TypeInvariant, Begin
  PROVE  TypeInvariant'
<1> USE DEF TypeInvariant, TypeOK, PacketOK
<1>1. /\ packetCfg.payload \in Images
      /\ MaxWait \in Nat /\ {"args", "on", "off"} \subseteq Images
      /\ PollWaits \subseteq PollWaits \cup {DefaultPollWait}
  BY PacketFacts, IdFacts, UbxAssumption
<1>2. CASE Query
  <2>1. PICK op \in DOMAIN QueryID :
          /\ Begins(op)
          /\ SendCommand(QueryID[op], 0, packetCfg.payload, MaxWait)
          /\ UNCHANGED <<i2cPollingWait, navVars>>
    BY <1>2 DEF Query
  <2>2. QueryID[op] \in IDs \cap DataIDs /\ (op \in Modifiers => QueryID[op] \in CfgIDs)
    BY DEF QueryID, IDs, NavIDs, CfgIDs, DataIDs, Modifiers
  <2>3. QED
    BY <1>1, <2>1, <2>2, BeginTypes
<1>3. CASE QueryPort
  <2>1. PICK op \in {"setPortOutput", "setPortInput"} :
          /\ Begins(op)
          /\ SendCommand("PRT", 1, "args", MaxWait)
          /\ UNCHANGED <<i2cPollingWait, navVars>>
    BY <1>3 DEF QueryPort
  <2>2. "PRT" \in IDs \cap DataIDs \cap CfgIDs
    BY DEF IDs, CfgIDs, DataIDs
  <2>3. QED
    BY <1>1, <2>1, <2>2, BeginTypes
<1>4. CASE SetNavigationFrequency
  <2>1. /\ Begins("setNavigationFrequency")
        /\ i2cPollingWait' \in PollWaits
        /\ SendCommand("RATE", 0, packetCfg.payload, MaxWait)
        /\ UNCHANGED navVars
    BY <1>4 DEF SetNavigationFrequency
  <2>2. "RATE" \in IDs \cap DataIDs \cap CfgIDs
    BY DEF IDs, CfgIDs, DataIDs
  <2>3. QED
    BY <1>1, <2>1, <2>2, BeginTypes
<1>5. CASE Order
  <2>1. PICK op \in DOMAIN Orders :
          /\ Begins(op)
          /\ SendCommand(Orders[op].id, Orders[op].len, Orders[op].payload, MaxWait)
          /\ UNCHANGED <<i2cPollingWait, navVars>>
    BY <1>5 DEF Order
  <2>2. /\ Orders[op].id \in IDs /\ Orders[op].id \notin NavIDs
        /\ Orders[op].id # "PRT" /\ Orders[op].len \in Nat /\ Orders[op].len # 0
        /\ Orders[op].payload \in Images /\ op \notin Modifiers
    BY OrderFacts, IdFacts DEF IDs, CfgIDs, NavIDs
  <2>3. QED
    BY <1>1, <2>1, <2>2, BeginTypes
<1>6. CASE SetAutoPVT
  <2>1. PICK enable \in BOOLEAN :
          /\ Begins(IF enable THEN "enableAutoPVT" ELSE "disableAutoPVT")
          /\ SendCommand("MSG", 3, IF enable THEN "on" ELSE "off", MaxWait)
          /\ UNCHANGED <<i2cPollingWait, navVars>>
    BY <1>6 DEF SetAutoPVT
  <2>2. /\ "MSG" \in IDs /\ "MSG" \notin NavIDs
        /\ (IF enable THEN "enableAutoPVT" ELSE "disableAutoPVT") \notin Modifiers
        /\ (IF enable THEN "on" ELSE "off") \in Images
    BY <1>1 DEF IDs, CfgIDs, NavIDs, Modifiers
  <2>3. QED
    BY <1>1, <2>1, <2>2, BeginTypes
<1>7. CASE HardReset
  <2>1. /\ Begins("hardReset")
        /\ SendCommand("RST", 4, "args", 0)
        /\ UNCHANGED <<i2cPollingWait, navVars>>
    BY <1>7 DEF HardReset
  <2>2. "RST" \in IDs /\ "RST" \notin NavIDs /\ "hardReset" \notin Modifiers
    BY DEF IDs, CfgIDs, NavIDs, Modifiers
  <2>3. QED
    BY <1>1, <2>1, <2>2, BeginTypes
<1>8. ASSUME NEW op \in {"getPVT", "getLatitude", "checkUblox"}, Begins(op),
             pc' \in {"poll", "returned"} /\ waiting' = "none" /\ seen' = {},
             UNCHANGED <<requested, status, packetVars, timer, parser, inbox,
                         faults, undisturbed, i2cPollingWait, navVars>>
      PROVE  TypeInvariant'
  <2>1. /\ pc = "idle" /\ op \in Ops /\ call' = op /\ stage' = 1
        /\ calls' \in 0..MaxCalls
        /\ UNCHANGED <<toRead, outbox, wire, sendsPVT, savedPVT>>
    BY <1>8, UbxAssumption DEF Begins, Called, ReceiverOK
  <2>2. CallOK'
    BY <1>8, <2>1 DEF CallOK
  <2>3. PacketOK' /\ BytesAreThere'
    BY <1>8, <2>1 DEF packetVars, navVars, BytesAreThere, HalfRead
  <2>4. ReceiverOK' /\ BufferNamed'
    BY <1>8, <2>1 DEF ReceiverOK, BufferNamed, Modifiers
  <2>5. QED
    BY <2>2, <2>3, <2>4
<1>9. CASE GetPVT
  <2>1. PICK op \in {"getPVT", "getLatitude"} :
          /\ Begins(op)
          /\ IF autoPVT
             THEN /\ pc' = IF implicitUpdate THEN "poll" ELSE "returned"
                  /\ waiting' = "none" /\ seen' = {}
                  /\ UNCHANGED <<requested, status, packetVars, timer, parser, inbox,
                                 faults, undisturbed>>
             ELSE SendCommand("PVT", 0, packetCfg.payload, MaxWait)
          /\ UNCHANGED <<i2cPollingWait, navVars>>
    BY <1>9 DEF GetPVT
  <2>2. "PVT" \in IDs \cap DataIDs /\ op \notin Modifiers
    BY DEF IDs, NavIDs, DataIDs, Modifiers
  <2>3. QED
    BY <1>1, <1>8, <2>1, <2>2, BeginTypes
<1>10. CASE CheckUblox
  BY <1>8, <1>10 DEF CheckUblox
<1>11. CASE GetFreshLatitude
  BY <1>11 DEF GetFreshLatitude, NothingFresh, callVars, packetVars, pollVars, receiver,
     observers, CallOK, ReceiverOK, BytesAreThere, HalfRead, BufferNamed
<1>12. CASE AssumeAutoPVT
  <2>1. calls' \in 0..MaxCalls
    BY <1>12, UbxAssumption DEF AssumeAutoPVT, Called, ReceiverOK
  <2>2. CallOK' /\ BufferNamed'
    BY <1>12 DEF AssumeAutoPVT, callVars, packetVars, CallOK, BufferNamed
  <2>3. PacketOK' /\ BytesAreThere'
    BY <1>12 DEF AssumeAutoPVT, callVars, packetVars, pollVars, receiver, BytesAreThere,
       HalfRead
  <2>4. ReceiverOK'
    BY <1>12, <2>1 DEF AssumeAutoPVT, receiver, ReceiverOK
  <2>5. QED
    BY <2>2, <2>3, <2>4
<1>13. QED
  BY <1>2, <1>3, <1>4, <1>5, <1>6, <1>7, <1>9, <1>10, <1>11, <1>12 DEF Begin

\* The wait loops up to the bytes.
LEMMA PollKeepsTypes ==
  ASSUME TypeInvariant, Poll \/ PollRefused \/ PollNotReady \/ ReadRefused
  PROVE  TypeInvariant'
<1> USE DEF TypeInvariant, TypeOK, packetVars, pollVars, navVars, receiver, observers
<1>1. CASE Timeout
  <2>1. CallOK' /\ BufferNamed'
    BY <1>1 DEF Timeout, CallOK, Statuses, BufferNamed
  <2>2. PacketOK' /\ BytesAreThere'
    BY <1>1 DEF Timeout, PacketOK, BytesAreThere, HalfRead
  <2>3. ReceiverOK'
    BY <1>1 DEF Timeout, ReceiverOK
  <2>4. QED
    BY <2>1, <2>2, <2>3
<1>2. CASE PollTooEarly
  <2>1. CallOK' /\ BufferNamed'
    BY <1>2 DEF PollTooEarly, CallOK, BufferNamed
  <2>2. PacketOK' /\ BytesAreThere'
    BY <1>2 DEF PollTooEarly, PacketOK, BytesAreThere, HalfRead
  <2>3. ReceiverOK'
    BY <1>2 DEF PollTooEarly, ReceiverOK
  <2>4. QED
    BY <2>1, <2>2, <2>3
<1>3. CASE PollEmpty
  <2>1. CallOK' /\ BufferNamed'
    BY <1>3 DEF PollEmpty, NextPoll, CallOK, BufferNamed
  <2>2. PacketOK' /\ BytesAreThere'
    BY <1>3, UbxAssumption DEF PollEmpty, NextPoll, PacketOK, BytesAreThere, HalfRead
  <2>3. ReceiverOK'
    BY <1>3 DEF PollEmpty, ReceiverOK
  <2>4. QED
    BY <2>1, <2>2, <2>3
<1>4. CASE PollRefused
  <2>1. CallOK' /\ BufferNamed'
    BY <1>4 DEF PollRefused, NextPoll, CallOK, BufferNamed
  <2>2. PacketOK' /\ BytesAreThere'
    BY <1>4, UbxAssumption DEF PollRefused, NextPoll, PacketOK, BytesAreThere, HalfRead
  <2>3. faults' \in 0..MaxFaults
    BY <1>4, GoesFacts DEF PollRefused, ReceiverOK
  <2>4. ReceiverOK'
    BY <1>4, <2>3 DEF PollRefused, ReceiverOK
  <2>5. QED
    BY <2>1, <2>2, <2>4
<1>5. CASE ReadRefused
  <2>1. CallOK' /\ BufferNamed'
    BY <1>5 DEF ReadRefused, NextPoll, CallOK, BufferNamed
  <2>2. HalfRead' = HalfRead /\ HalfRead \in {0, 1}
    BY <1>5 DEF ReadRefused, HalfRead
  <2>3. PacketOK' /\ BytesAreThere'
    BY <1>5, <2>2 DEF ReadRefused, NextPoll, BytesAreThere, PacketOK, ReceiverOK
  <2>4. faults' \in 0..MaxFaults
    BY <1>5, GoesFacts DEF ReadRefused, ReceiverOK
  <2>5. ReceiverOK'
    BY <1>5, <2>4 DEF ReadRefused, ReceiverOK
  <2>6. QED
    BY <2>1, <2>3, <2>5
<1>6. CASE PollFull
  <2>1. Len(wire) \in Nat /\ Len(wire) > 0 /\ HalfRead \in {0, 1}
    BY <1>6 DEF PollFull, ReceiverOK, HalfRead
  <2>2. toRead' \in Nat /\ toRead' > 0 /\ toRead' + HalfRead <= 2 * Len(wire)
    BY <1>6, <2>1 DEF PollFull, HalvesOnWire
  <2>3. CallOK' /\ BufferNamed'
    BY <1>6 DEF PollFull, CallOK, BufferNamed
  <2>4. PacketOK' /\ BytesAreThere'
    BY <1>6, <2>2 DEF PollFull, PacketOK, BytesAreThere, HalfRead
  <2>5. ReceiverOK'
    BY <1>6 DEF PollFull, ReceiverOK
  <2>6. QED
    BY <2>3, <2>4, <2>5
<1>7. CASE PollNotReady
  <2>1. CallOK' /\ BufferNamed'
    BY <1>7 DEF PollNotReady, NextPoll, CallOK, BufferNamed
  <2>2. /\ pc = "poll" /\ toRead' = toRead /\ toRead = 0 /\ pc' # "read"
        /\ wire \in Seq(FrameSet) /\ Len(wire) \in Nat
    BY <1>7 DEF PollNotReady, NextPoll, PacketOK, ReceiverOK, BytesAreThere
  <2>3. wire' \in Seq(FrameSet) /\ parser' \in Parsers /\ HalfRead' <= 2 * Len(wire')
    <3>1. CASE UNCHANGED <<wire, parser>>
      BY <2>2, <3>1 DEF HalfRead, PacketOK, BytesAreThere
    <3>2. CASE \E whole \in 0..Len(wire), first \in BOOLEAN :
                 /\ IF first THEN whole > 0
                             ELSE whole < Len(wire) /\ 2 * whole + 1 > HalfRead
                 /\ wire' = SubSeq(wire, whole + 1, Len(wire))
                 /\ parser' = AfterLoss(first)
      <4>1. PICK whole \in 0..Len(wire), first \in BOOLEAN :
              /\ IF first THEN whole > 0
                          ELSE whole < Len(wire) /\ 2 * whole + 1 > HalfRead
              /\ wire' = SubSeq(wire, whole + 1, Len(wire))
              /\ parser' = AfterLoss(first)
        BY <3>2
      <4>2. wire' \in Seq(FrameSet) /\ Len(wire') = Len(wire) - whole
        BY <2>2, <4>1
      <4>3. /\ parser' \in Parsers
            /\ first => parser' \in {"sync", "lost", "skips"}
        BY <4>1 DEF AfterLoss, Parsers, TakenForData
      <4>4. HalfRead' \in {0, 1} /\ (first => HalfRead' = 0)
        BY <4>3 DEF HalfRead
      <4>5. QED
        BY <2>2, <4>1, <4>2, <4>3, <4>4
    <3>3. QED
      BY <1>7, <3>1, <3>2 DEF PollNotReady
  <2>4. PacketOK' /\ BytesAreThere'
    <3>1. PacketOK'
      BY <1>7, <2>3 DEF PollNotReady, PacketOK
    <3>2. Len(wire') \in Nat /\ HalfRead' \in {0, 1}
      BY <2>3 DEF HalfRead
    <3>3. BytesAreThere'
      BY <2>2, <2>3, <3>2 DEF BytesAreThere
    <3>4. QED
      BY <3>1, <3>3
  <2>5. faults' \in 0..MaxFaults
    BY <1>7, GoesFacts DEF PollNotReady, ReceiverOK
  <2>6. ReceiverOK'
    BY <1>7, <2>3, <2>5 DEF PollNotReady, ReceiverOK
  <2>7. QED
    BY <2>1, <2>4, <2>6
<1>8. QED
  BY <1>1, <1>2, <1>3, <1>4, <1>5, <1>6, <1>7 DEF Poll

\* A half frame that can be read is there, and leaves the queue with its end.
LEMMA ReadingFacts ==
  ASSUME TypeInvariant, Reading
  PROVE  /\ pc' \in {"look", "read"} /\ toRead' \in Nat
         /\ toRead' > 0 <=> pc' = "read"
         /\ wire # <<>> /\ Len(wire) \in Nat /\ wire \in Seq(FrameSet)
         /\ Head(wire) \in FrameSet /\ Tail(wire) \in Seq(FrameSet)
         /\ Len(Tail(wire)) = Len(wire) - 1
         /\ toRead' + HalfRead + 1 <= 2 * Len(wire)
<1>1. /\ toRead \in Nat /\ toRead > 0 /\ wire \in Seq(FrameSet)
      /\ toRead + HalfRead <= 2 * Len(wire)
  BY DEF Reading, TypeInvariant, TypeOK, PacketOK, ReceiverOK, BytesAreThere
<1>2. HalfRead \in {0, 1}
  BY DEF HalfRead
<1>3. toRead' \in Nat /\ (toRead' > 0 <=> pc' = "read") /\ pc' \in {"look", "read"}
  BY <1>1 DEF Reading
<1>4. wire # <<>> /\ Len(wire) \in Nat
  BY <1>1, <1>2
<1>5. toRead' + HalfRead + 1 <= 2 * Len(wire)
  BY <1>1, <1>2 DEF Reading
<1>6. QED
  BY <1>1, <1>3, <1>4, <1>5

\* What is remembered of a frame.
LEMMA SightFacts ==
  ASSUME NEW f \in FrameSet
  PROVE  /\ Sight(f) \subseteq Kinds \X BOOLEAN
         /\ \E its \in BOOLEAN : <<f.kind, its>> \in Sight(f)
         /\ f.id = requested => <<f.kind, TRUE>> \in Sight(f)
<1>1. f.kind \in Kinds
  BY FrameFacts
<1>2. (f.id = requested) \in BOOLEAN
  OBVIOUS
<1>3. <<f.kind, f.id = requested>> \in Kinds \X BOOLEAN
  BY <1>1, <1>2
<1>4. <<f.kind, f.id = requested>> \in Sight(f)
  BY DEF Sight
<1>5. Sight(f) \subseteq Kinds \X BOOLEAN
  BY <1>3 DEF Sight
<1>6. \E its \in BOOLEAN : <<f.kind, its>> \in Sight(f)
  BY <1>2, <1>4
<1>7. ASSUME f.id = requested PROVE <<f.kind, TRUE>> \in Sight(f)
  <2>1. (f.id = requested) = TRUE
    BY <1>7
  <2>2. QED
    BY <1>4, <2>1
<1>8. QED
  BY <1>5, <1>6, <1>7

\* Reading half a frame.
LEMMA ReadKeepsTypes ==
  ASSUME TypeInvariant, Read
  PROVE  TypeInvariant'
<1> USE DEF TypeInvariant, TypeOK
<1>0. Reading
  BY DEF Read, ReadHeader, ReadChecksum, ReadDerailed, ReadSkipping
<1>1. /\ pc' \in {"look", "read"} /\ toRead' \in Nat
      /\ toRead' > 0 <=> pc' = "read"
      /\ wire # <<>> /\ Len(wire) \in Nat /\ wire \in Seq(FrameSet)
      /\ Head(wire) \in FrameSet /\ Tail(wire) \in Seq(FrameSet)
      /\ Len(Tail(wire)) = Len(wire) - 1
      /\ toRead' + HalfRead + 1 <= 2 * Len(wire)
  BY <1>0, ReadingFacts
<1>2. packetCfg \in Packets /\ pc = "read"
  BY <1>0 DEF PacketOK, Reading
<1>3. CASE ReadHeader
  <2>1. packetCfg' \in Packets /\ (packetCfg' = packetCfg \/ packetCfg'.id \in DataIDs)
    <3>1. CASE Head(wire).kind = "data"
      <4>1. /\ Head(wire).id \in DataIDs /\ Head(wire).good \in BOOLEAN
            /\ FrameLen[Head(wire).id] \in Nat
        BY <1>1, <3>1, FrameFacts, LengthFacts
      <4>2. packetCfg' = [id |-> Head(wire).id, len |-> FrameLen[Head(wire).id],
                          valid |-> FALSE,
                          payload |-> IF Head(wire).good THEN Head(wire).id ELSE "bad"]
        BY <1>3, <3>1 DEF ReadHeader
      <4>3. packetCfg' \in Packets
        BY <4>1, <4>2, PacketFacts, IdFacts
      <4>4. QED
        BY <4>1, <4>2, <4>3
    <3>2. CASE Head(wire).kind # "data"
      BY <1>2, <1>3, <3>2 DEF ReadHeader
    <3>3. QED
      BY <3>1, <3>2
  <2>2. undisturbed' \in BOOLEAN
    BY <1>3 DEF ReadHeader, ReceiverOK
  <2>3. BytesAreThere'
    BY <1>1, <1>3 DEF ReadHeader, BytesAreThere, HalfRead, receiver
  <2>4. CallOK'
    BY <1>1, <1>3 DEF ReadHeader, CallOK
  <2>5. PacketOK'
    BY <1>1, <1>3, <2>1 DEF ReadHeader, PacketOK, navVars, Parsers
  <2>6. ReceiverOK'
    BY <1>3, <2>2 DEF ReadHeader, ReceiverOK, receiver
  <2>7. BufferNamed'
    BY <1>2, <1>3, <2>1, IdFacts DEF ReadHeader, BufferNamed
  <2>8. QED
    BY <2>3, <2>4, <2>5, <2>6, <2>7
<1>4. CASE ReadChecksum
  <2>1. packetCfg' \in Packets /\ packetCfg'.id = packetCfg.id
    <3>1. ChecksumMatches(Head(wire)) \in BOOLEAN
      BY <1>1, FrameFacts DEF ChecksumMatches
    <3>2. packetCfg' = packetCfg
            \/ packetCfg' = Judged(packetCfg, ChecksumMatches(Head(wire)))
      BY <1>4 DEF ReadChecksum
    <3>3. QED
      BY <1>2, <3>1, <3>2, JudgedFacts
  <2>2. commandAck' \in {"none", "ack", "nack"}
    BY <1>1, <1>4, FrameFacts DEF ReadChecksum, Kinds, PacketOK
  <2>3. /\ pvt' \in Images \cup {"none"}
        /\ moduleQueried' \in [all : BOOLEAN, latitude : BOOLEAN]
    <3>1. CASE FillsGlobals(Head(wire))
      <4>1. packetCfg.payload \in Images
        BY <1>2, PacketFacts
      <4>2. /\ pvt' = packetCfg.payload
            /\ moduleQueried' = [all |-> TRUE, latitude |-> TRUE]
        BY <1>4, <3>1 DEF ReadChecksum
      <4>3. QED
        BY <4>1, <4>2
    <3>2. CASE ~FillsGlobals(Head(wire))
      BY <1>4, <3>2 DEF ReadChecksum, PacketOK, ReceiverOK
    <3>3. QED
      BY <3>1, <3>2
  <2>4. seen' \subseteq Kinds \X BOOLEAN
    <3>1. Sight(Head(wire)) \subseteq Kinds \X BOOLEAN
      BY <1>1, SightFacts
    <3>2. QED
      BY <1>4, <3>1 DEF ReadChecksum, ReceiverOK
  <2>5. BytesAreThere'
    BY <1>1, <1>4 DEF ReadChecksum, BytesAreThere, HalfRead
  <2>6. CallOK'
    BY <1>1, <1>4 DEF ReadChecksum, CallOK
  <2>7. PacketOK'
    BY <1>1, <1>4, <2>1, <2>2, <2>3 DEF ReadChecksum, PacketOK, Parsers
  <2>8. ReceiverOK'
    BY <1>1, <1>4, <2>3, <2>4 DEF ReadChecksum, ReceiverOK
  <2>9. BufferNamed'
    BY <1>2, <1>4, <2>1 DEF ReadChecksum, BufferNamed
  <2>10. QED
    BY <2>5, <2>6, <2>7, <2>8, <2>9
<1>5. CASE ReadDerailed
  <2>1. packetCfg' \in Packets /\ packetCfg'.id = packetCfg.id
    BY <1>2, <1>5, FilledFacts, IdFacts DEF ReadDerailed
  <2>2. BytesAreThere'
    BY <1>1, <1>5 DEF ReadDerailed, BytesAreThere, HalfRead
  <2>3. CallOK'
    BY <1>1, <1>5 DEF ReadDerailed, CallOK
  <2>4. PacketOK'
    BY <1>1, <1>5, <2>1 DEF ReadDerailed, PacketOK, Parsers, navVars
  <2>5. ReceiverOK'
    BY <1>1, <1>5 DEF ReadDerailed, ReceiverOK, observers
  <2>6. BufferNamed'
    BY <1>2, <1>5, <2>1 DEF ReadDerailed, BufferNamed
  <2>7. QED
    BY <2>2, <2>3, <2>4, <2>5, <2>6
<1>6. CASE ReadSkipping
  <2>1. BytesAreThere'
    BY <1>1, <1>6 DEF ReadSkipping, BytesAreThere, HalfRead
  <2>2. CallOK'
    BY <1>1, <1>6 DEF ReadSkipping, CallOK
  <2>3. PacketOK'
    BY <1>1, <1>6 DEF ReadSkipping, PacketOK, Parsers, navVars, packetVars
  <2>4. ReceiverOK'
    BY <1>1, <1>6 DEF ReadSkipping, ReceiverOK, observers
  <2>5. BufferNamed'
    BY <1>2, <1>6 DEF ReadSkipping, BufferNamed, packetVars
  <2>6. QED
    BY <2>1, <2>2, <2>3, <2>4, <2>5
<1>7. QED
  BY <1>3, <1>4, <1>5, <1>6 DEF Read

\* What the wait loops make of what they have read.
LEMMA LookKeepsTypes ==
  ASSUME TypeInvariant, Look
  PROVE  TypeInvariant'
<1> USE DEF TypeInvariant, TypeOK, LookUnchanged, pollVars, navVars, receiver, observers
<1>1. packetCfg \in Packets /\ IsRequested \in BOOLEAN
  BY DEF PacketOK, IsRequested
<1>2. CASE LookForAck
  <2>1. packetCfg' \in Packets /\ packetCfg'.id = packetCfg.id
    <3>1. packetCfg' = packetCfg
            \/ packetCfg' = Judged(packetCfg, packetCfg.valid /\ IsRequested)
      BY <1>2 DEF LookForAck
    <3>2. (packetCfg.valid /\ IsRequested) \in BOOLEAN
      OBVIOUS
    <3>3. QED
      BY <1>1, <3>1, <3>2, JudgedFacts
  <2>2. CallOK'
    BY <1>2 DEF LookForAck, Returns, CallOK, Statuses
  <2>3. PacketOK' /\ BytesAreThere'
    BY <1>2, <2>1 DEF LookForAck, Returns, PacketOK, BytesAreThere, HalfRead
  <2>4. ReceiverOK'
    BY <1>2 DEF LookForAck, ReceiverOK
  <2>5. BufferNamed'
    BY <1>2, <2>1 DEF LookForAck, Returns, BufferNamed
  <2>6. QED
    BY <2>2, <2>3, <2>4, <2>5
<1>3. CASE LookForAnswer
  <2>1. packetCfg' \in Packets
    BY <1>1, <1>3, ForgottenFacts DEF LookForAnswer
  <2>2. CallOK'
    BY <1>3 DEF LookForAnswer, Returns, CallOK, Statuses
  <2>3. PacketOK' /\ BytesAreThere'
    BY <1>3, <2>1 DEF LookForAnswer, Returns, PacketOK, BytesAreThere, HalfRead
  <2>4. ReceiverOK'
    BY <1>3 DEF LookForAnswer, ReceiverOK
  <2>5. BufferNamed'
    BY <1>3 DEF LookForAnswer, Returns, BufferNamed
  <2>6. QED
    BY <2>2, <2>3, <2>4, <2>5
<1>4. CASE LookOnce
  <2>1. CallOK' /\ BufferNamed'
    BY <1>4 DEF LookOnce, CallOK, BufferNamed
  <2>2. PacketOK' /\ BytesAreThere'
    BY <1>4 DEF LookOnce, PacketOK, BytesAreThere, HalfRead
  <2>3. ReceiverOK'
    BY <1>4 DEF LookOnce, ReceiverOK
  <2>4. QED
    BY <2>1, <2>2, <2>3
<1>5. QED
  BY <1>2, <1>3, <1>4 DEF Look

\* Where every operation leaves the buffer.
LEMMA DoneFacts ==
  ASSUME TypeInvariant, Done
  PROVE  /\ CallOK' /\ BufferNamed'
         /\ pc = "returned" /\ pc' = "idle"
         /\ packetCfg' \in Packets /\ commandAck' \in {"none", "ack", "nack"}
         /\ seen' \subseteq Kinds \X BOOLEAN
<1>1. packetCfg' \in Packets
  BY FilledFacts, IdFacts DEF Done, TypeInvariant, TypeOK, PacketOK
<1>2. CallOK' /\ BufferNamed'
  BY DEF Done, CallOK, BufferNamed, Statuses
<1>3. commandAck' \in {"none", "ack", "nack"}
  BY DEF Done, TypeInvariant, TypeOK, PacketOK
<1>4. QED
  BY <1>1, <1>2, <1>3 DEF Done

\* The end of an operation, or its second command.
LEMMA EndKeepsTypes ==
  ASSUME TypeInvariant, End
  PROVE  TypeInvariant'
<1> USE DEF TypeInvariant, TypeOK
<1>1. CASE WriteBack
  <2>1. /\ pc = "returned" /\ call \in Modifiers /\ stage = 1 /\ stage' = 2
        /\ SendCommand(WriteBackID, WriteBackLen, packetCfg.payload, MaxWait)
        /\ UNCHANGED <<call, i2cPollingWait, toRead, navVars, outbox, wire, sendsPVT,
                       savedPVT, calls>>
    BY <1>1 DEF WriteBack
  <2>2. WriteBackID \in IDs /\ WriteBackID \in DataIDs
    BY <2>1, IdFacts DEF WriteBackID, BufferNamed, DataIDs
  <2>3. WriteBackLen \in Nat /\ packetCfg.payload \in Images /\ MaxWait \in Nat
    BY PacketFacts, UbxAssumption DEF WriteBackLen, PacketOK
  <2>4. /\ pc' \in {"poll", "returned"} /\ status' \in Statuses
        /\ waiting' \in {"ack", "noack"} /\ requested' \in IDs \cup {"none"}
        /\ packetCfg' \in Packets /\ commandAck' \in {"none", "ack", "nack"}
        /\ timer' \in 0..MaxTimer /\ parser' \in Parsers
        /\ inbox' \in Seq(CommandSet)
        /\ seen' \subseteq Kinds \X BOOLEAN
        /\ faults' \in 0..MaxFaults /\ undisturbed' \in BOOLEAN
        /\ BytesAreThere'
        /\ waiting' = "ack" => packetCfg'.id = WriteBackID
    BY <2>1, <2>2, <2>3, SendCommandTypes
  <2>5. CallOK'
    BY <2>1, <2>4 DEF CallOK
  <2>6. PacketOK'
    BY <2>1, <2>4 DEF PacketOK, navVars
  <2>7. ReceiverOK'
    BY <2>1, <2>4 DEF ReceiverOK
  <2>8. BufferNamed'
    BY <2>1, <2>2, <2>4, IdFacts DEF BufferNamed
  <2>9. QED
    BY <2>4, <2>5, <2>6, <2>7, <2>8
<1>2. ASSUME Done,
             UNCHANGED <<pollVars, pvt, receiver, calls, faults, undisturbed>>,
             autoPVT' \in BOOLEAN, implicitUpdate' \in BOOLEAN,
             moduleQueried' \in [all : BOOLEAN, latitude : BOOLEAN]
      PROVE  TypeInvariant'
  <2>1. PacketOK'
    BY <1>2, DoneFacts DEF PacketOK, pollVars
  <2>2. ReceiverOK'
    BY <1>2, DoneFacts DEF ReceiverOK, receiver
  <2>3. BytesAreThere'
    BY <1>2, DoneFacts DEF BytesAreThere, HalfRead, pollVars, receiver
  <2>4. QED
    BY <1>2, <2>1, <2>2, <2>3, DoneFacts
<1>3. CASE FinishSetAutoPVT
  <2>1. moduleQueried' \in [all : BOOLEAN, latitude : BOOLEAN]
    BY <1>3 DEF FinishSetAutoPVT, PacketOK
  <2>2. autoPVT' \in BOOLEAN /\ implicitUpdate' \in BOOLEAN
    BY <1>3 DEF FinishSetAutoPVT, PacketOK
  <2>3. QED
    BY <1>2, <1>3, <2>1, <2>2 DEF FinishSetAutoPVT, ReceiverOK
<1>4. CASE FinishGetPVT
  <2>1. moduleQueried' \in [all : BOOLEAN, latitude : BOOLEAN]
    BY <1>4 DEF FinishGetPVT, PacketOK, NothingFresh
  <2>2. QED
    BY <1>2, <1>4, <2>1 DEF FinishGetPVT, PacketOK
<1>5. CASE Finish
  BY <1>2, <1>5 DEF Finish, PacketOK, ReceiverOK, navVars
<1>6. QED
  BY <1>1, <1>3, <1>4, <1>5 DEF End

\* Empty queues.
LEMMA EmptyFacts ==
  <<>> \in Seq(CommandSet) /\ <<>> \in Seq(ReplySet) /\ <<>> \in Seq(FrameSet)
OBVIOUS

\* The receiver, the bus and the clock.
LEMMA EnvironmentKeepsTypes ==
  ASSUME TypeInvariant, Receive \/ Emit \/ SendSolution \/ Tick
  PROVE  TypeInvariant'
<1> USE DEF TypeInvariant, TypeOK, callVars, packetVars, pollVars, navVars, observers
<1>1. /\ inbox \in Seq(CommandSet) /\ outbox \in Seq(ReplySet)
      /\ wire \in Seq(FrameSet)
  BY DEF ReceiverOK
<1>2. ASSUME inbox # <<>>
      PROVE  /\ Head(inbox) \in CommandSet /\ Tail(inbox) \in Seq(CommandSet)
             /\ Answer(Head(inbox)) \in Seq(ReplySet)
             /\ <<Nack(Head(inbox).id)>> \in Seq(ReplySet)
  <2>1. Head(inbox) \in CommandSet /\ Tail(inbox) \in Seq(CommandSet)
    BY <1>1, <1>2
  <2>2. QED
    BY <2>1, AnswerFacts
<1>3. ASSUME UNCHANGED <<callVars, packetVars, i2cPollingWait, navVars>>,
             UNCHANGED <<parser, toRead>>, timer' \in 0..MaxTimer,
             ReceiverOK', Len(wire') >= Len(wire), Len(wire') \in Nat
      PROVE  TypeInvariant'
  <2>1. CallOK' /\ BufferNamed'
    BY <1>3 DEF CallOK, BufferNamed
  <2>2. PacketOK'
    BY <1>3 DEF PacketOK
  <2>3. HalfRead' = HalfRead /\ HalfRead \in {0, 1} /\ Len(wire) \in Nat
    BY <1>1, <1>3 DEF HalfRead
  <2>4. BytesAreThere'
    BY <1>3, <2>3 DEF BytesAreThere, PacketOK
  <2>5. QED
    BY <1>3, <2>1, <2>2, <2>4
<1>4. CASE AnswerCommand
  <2>1. sendsPVT' \in BOOLEAN /\ savedPVT' \in BOOLEAN
    BY <1>4 DEF AnswerCommand, ReportsAfter, SavedAfter, ReceiverOK
  <2>2. ReceiverOK'
    BY <1>1, <1>2, <1>4, <2>1 DEF AnswerCommand, ReceiverOK
  <2>3. QED
    BY <1>1, <1>3, <1>4, <2>2 DEF AnswerCommand, PacketOK
<1>5. CASE RefuseCommand
  <2>1. faults' \in 0..MaxFaults
    BY <1>5, GoesFacts DEF RefuseCommand, ReceiverOK
  <2>2. ReceiverOK'
    BY <1>1, <1>2, <1>5, <2>1 DEF RefuseCommand, ReceiverOK
  <2>3. QED
    BY <1>1, <1>3, <1>5, <2>2 DEF RefuseCommand, PacketOK
<1>6. CASE IgnoreCommand
  <2>1. faults' \in 0..MaxFaults
    BY <1>6, GoesFacts DEF IgnoreCommand, ReceiverOK
  <2>2. ReceiverOK'
    BY <1>1, <1>2, <1>6, <2>1 DEF IgnoreCommand, ReceiverOK
  <2>3. QED
    BY <1>1, <1>3, <1>6, <2>2 DEF IgnoreCommand, PacketOK
<1>7. CASE Restart
  <2>1. parser' \in {"sync", "lost", "skips"} /\ pc # "read"
    BY <1>7 DEF Restart, AfterLoss, TakenForData
  <2>2. CallOK' /\ BufferNamed'
    BY <1>7 DEF Restart, CallOK, BufferNamed
  <2>3. PacketOK'
    BY <1>7, <2>1 DEF Restart, PacketOK, Parsers
  <2>4. ReceiverOK'
    BY <1>7, EmptyFacts DEF Restart, ReceiverOK
  <2>5. BytesAreThere'
    <3>1. toRead = 0 /\ toRead' = toRead /\ pc' = pc /\ wire' = <<>>
      BY <1>7, <2>1 DEF Restart, BytesAreThere, PacketOK
    <3>2. HalfRead' = 0
      BY <2>1 DEF HalfRead
    <3>3. QED
      BY <2>1, <3>1, <3>2 DEF BytesAreThere
  <2>6. QED
    BY <2>2, <2>3, <2>4, <2>5
<1>8. CASE Emit
  <2>1. Head(outbox) \in ReplySet /\ Tail(outbox) \in Seq(ReplySet)
    BY <1>1, <1>8 DEF Emit
  <2>2. CASE Len(wire) < MaxWire
    <3>1. PICK good \in BOOLEAN :
            /\ Goes(good)
            /\ wire' = Append(wire, Frame(Head(outbox), good))
            /\ undisturbed' = (undisturbed /\ good)
      BY <1>8, <2>2 DEF Emit
    <3>2. faults' \in 0..MaxFaults
      BY <3>1, GoesFacts DEF ReceiverOK
    <3>3. Frame(Head(outbox), good) \in FrameSet
      BY <2>1, FrameFacts
    <3>4. wire' \in Seq(FrameSet) /\ Len(wire') = Len(wire) + 1 /\ Len(wire) \in Nat
      BY <1>1, <3>1, <3>3
    <3>5. ReceiverOK'
      BY <1>8, <2>1, <3>1, <3>2, <3>4 DEF Emit, ReceiverOK
    <3>6. QED
      BY <1>3, <1>8, <3>4, <3>5 DEF Emit, PacketOK
  <2>3. CASE ~(Len(wire) < MaxWire)
    <3>1. ReceiverOK'
      BY <1>8, <2>1, <2>3 DEF Emit, ReceiverOK
    <3>2. QED
      BY <1>1, <1>3, <1>8, <2>3, <3>1 DEF Emit, PacketOK
  <2>4. QED
    BY <2>2, <2>3
<1>9. CASE SendSolution
  <2>1. wire' \in Seq(FrameSet) /\ Len(wire') = Len(wire) + 1 /\ Len(wire) \in Nat
    <3>1. PICK solution \in FrameSet : wire' = Append(wire, solution)
      BY <1>9, FrameFacts DEF SendSolution
    <3>2. QED
      BY <1>1, <3>1
  <2>2. ReceiverOK'
    BY <1>9, <2>1 DEF SendSolution, ReceiverOK
  <2>3. QED
    BY <1>3, <1>9, <2>1, <2>2 DEF SendSolution, PacketOK
<1>10. CASE Tick
  <2>1. timer' \in 0..MaxTimer
    BY <1>10, UbxAssumption DEF Tick, Capped, PacketOK
  <2>2. ReceiverOK'
    BY <1>10 DEF Tick, ReceiverOK, receiver
  <2>3. QED
    BY <1>1, <1>3, <1>10, <2>1, <2>2 DEF Tick, receiver
<1>11. QED
  BY <1>4, <1>5, <1>6, <1>7, <1>8, <1>9, <1>10 DEF Receive

\* A step that changes nothing.
LEMMA StutterKeepsTypes ==
  ASSUME TypeInvariant, UNCHANGED vars
  PROVE  TypeInvariant'
<1> USE DEF vars, callVars, packetVars, pollVars, navVars, receiver, observers
<1>1. CallOK' /\ BufferNamed'
  BY DEF TypeInvariant, TypeOK, CallOK, BufferNamed
<1>2. PacketOK' /\ BytesAreThere'
  BY DEF TypeInvariant, TypeOK, PacketOK, BytesAreThere, HalfRead
<1>3. ReceiverOK'
  BY DEF TypeInvariant, TypeOK, ReceiverOK
<1>4. QED
  BY <1>1, <1>2, <1>3 DEF TypeInvariant, TypeOK

\* It holds when the driver is constructed.
LEMMA InitTypes == Init => TypeInvariant
<1> SUFFICES ASSUME Init PROVE TypeInvariant
  OBVIOUS
<1>1. CallOK /\ BufferNamed
  BY DEF Init, CallOK, BufferNamed, Statuses
<1>2. packetCfg \in Packets
  BY PacketFacts, IdFacts DEF Init
<1>3. NothingFresh \in [all : BOOLEAN, latitude : BOOLEAN]
  BY DEF NothingFresh
<1>4. PacketOK
  <2>1. 0 \in 0..MaxTimer /\ 0 \in Nat
    BY UbxAssumption
  <2>2. QED
    BY <1>2, <1>3, <2>1 DEF Init, PacketOK, Parsers
<1>5. BytesAreThere
  BY DEF Init, BytesAreThere, HalfRead
<1>6. ReceiverOK
  <2>1. 0 \in 0..MaxCalls /\ 0 \in 0..MaxFaults
    BY UbxAssumption
  <2>2. QED
    BY <2>1, EmptyFacts DEF Init, ReceiverOK
<1>7. QED
  BY <1>1, <1>4, <1>5, <1>6 DEF TypeInvariant, TypeOK

\* Every step keeps it.
LEMMA NextKeepsTypes == TypeInvariant /\ [Next]_vars => TypeInvariant'
BY BeginKeepsTypes, PollKeepsTypes, ReadKeepsTypes, LookKeepsTypes, EndKeepsTypes,
   EnvironmentKeepsTypes, StutterKeepsTypes DEF Next

\* The types, and the part of the inductive invariant they rest on.
LEMMA TypesHold == Spec => []TypeInvariant
BY InitTypes, NextKeepsTypes, PTL DEF Spec

\* Every variable of the driver and of the receiver keeps its type, however long
\* the two talk and whatever fails.
THEOREM UbxTypesHold == Spec => []TypeOK
<1>1. TypeInvariant => TypeOK
  BY DEF TypeInvariant
<1>2. QED
  BY <1>1, TypesHold, PTL

----------------------------------------------------------------------------
(***************************************************************************)
(* What a status says, and where the position comes from.                  *)
(***************************************************************************)
Earned == {"DATA_SENT", "COMMAND_UNKNOWN", "DATA_RECEIVED"}

\* A step that leaves the buffer and what has been read of the queue alone.
LEMMA QuietStepIsHonest ==
  ASSUME HonestInvariant,
         UNCHANGED <<waiting, requested, packetCfg, commandAck, seen, parser, pvt>>,
         moduleQueried' = moduleQueried \/ moduleQueried' = NothingFresh,
         parser = "frame" => Head(wire') = Head(wire),
         Waits' => Waits,
         pc' = "returned" => \/ waiting = "none" \/ status' \notin Earned
                             \/ pc = "returned" /\ status' = status
  PROVE  HonestInvariant'
<1> USE DEF HonestInvariant
<1>1. (ReadsData' <=> ReadsData) /\ (TakenForData' <=> TakenForData)
  BY DEF ReadsData, TakenForData
<1>2. FrameInProgress'
  BY <1>1 DEF FrameInProgress, ReadsData
<1>3. WaitIsHonest'
  BY <1>1 DEF WaitIsHonest, ReadsData
<1>4. StatusIsEarned'
  BY DEF StatusIsEarned, Earned
<1>5. SolutionIsMeasured'
  BY DEF SolutionIsMeasured, NothingFresh
<1>6. QED
  BY <1>2, <1>3, <1>4, <1>5

\* sendCommand keeps the length of a frame that is coming in, or loses it: a
\* short command has the length of none, and one that is sent back keeps the
\* payload.
LEMMA SendCommandIsHonest ==
  ASSUME UbxInvariant, pc # "read", wire' = wire, UNCHANGED <<pvt, moduleQueried>>,
         NEW id \in IDs, NEW len \in Nat, NEW payload \in Images, NEW maxWait \in Nat,
         \/ len \in {0, 1, 3, 4, 8, 12}
         \/ payload = packetCfg.payload /\ id \in {packetCfg.id, "PRT"},
         SendCommand(id, len, payload, maxWait)
  PROVE  HonestInvariant'
<1> USE DEF UbxInvariant, HonestInvariant
<1>1. PICK written \in BOOLEAN :
        /\ SendI2cCommand(id, len, payload, written)
        /\ IF written /\ maxWait > 0
           THEN pc' = "poll" /\ StartWait(id, payload, len) /\ UNCHANGED status
           ELSE /\ pc' = "returned" /\ NoWait(id, payload, len)
                /\ status' = IF written THEN "SUCCESS" ELSE "I2C_COMM_FAILURE"
  BY DEF SendCommand
<1>2. /\ packetCfg'.id \in {id, "none"} /\ packetCfg'.len = len
      /\ packetCfg'.payload = payload
  BY <1>1 DEF StartWait, NoWait
<1>3. FrameInProgress'
  <2>1. SUFFICES ASSUME ReadsData'
                 PROVE  /\ packetCfg'.len = FrameLen[Head(wire').id]
                        /\ packetCfg'.id = "PVT" =>
                             /\ Head(wire').id = "PVT"
                             /\ Head(wire').good => packetCfg'.payload = "PVT"
    BY DEF FrameInProgress
  <2>2. ReadsData /\ len = packetCfg.len
    BY <1>1, <2>1 DEF ReadsData, SendI2cCommand, Derails
  <2>3. Head(wire) \in FrameSet
    BY <2>2 DEF ReadsData, TypeInvariant, TypeOK, ReceiverOK, BytesAreThere, HalfRead,
       PacketOK
  <2>4. len \notin {0, 1, 3, 4, 8, 12}
    BY <2>2, <2>3, FrameFacts, LengthFacts DEF FrameInProgress, ReadsData
  <2>5. payload = packetCfg.payload /\ id \in {packetCfg.id, "PRT"}
    BY <2>4
  <2>6. QED
    BY <1>2, <2>2, <2>5 DEF FrameInProgress
<1>4. WaitIsHonest'
  <2>1. CASE pc' = "poll"
    <3>1. StartWait(id, payload, len)
      BY <1>1, <2>1
    <3>2. ~packetCfg'.valid /\ requested' = id
      BY <3>1 DEF StartWait
    <3>3. waiting' = "ack" => commandAck' = "none"
      BY <3>1 DEF StartWait, Class
    <3>4. waiting' = "noack" => packetCfg'.id = "none"
      BY <3>1 DEF StartWait, Class
    <3>5. QED
      BY <3>2, <3>3, <3>4, IdFacts DEF WaitIsHonest
  <2>2. CASE pc' = "returned"
    BY <2>2 DEF WaitIsHonest, Waits
  <2>3. QED
    BY <1>1, <2>1, <2>2
<1>5. StatusIsEarned'
  BY <1>1 DEF StatusIsEarned
<1>6. SolutionIsMeasured'
  BY DEF SolutionIsMeasured
<1>7. QED
  BY <1>3, <1>4, <1>5, <1>6

\* Beginning an operation.
LEMMA BeginIsHonest ==
  ASSUME UbxInvariant, Begin
  PROVE  HonestInvariant'
<1> USE DEF navVars
<1>1. /\ packetCfg.payload \in Images /\ 0 \in Nat
      /\ MaxWait \in Nat /\ {"args", "on", "off"} \subseteq Images
  BY PacketFacts, IdFacts, UbxAssumption DEF UbxInvariant, TypeInvariant, TypeOK, PacketOK
<1>2. ASSUME NEW op, Begins(op), NEW id \in IDs, NEW len \in {0, 1, 3, 4, 8, 12},
             NEW payload \in Images, NEW maxWait \in Nat,
             SendCommand(id, len, payload, maxWait), UNCHANGED navVars
      PROVE  HonestInvariant'
  BY <1>2, SendCommandIsHonest DEF Begins, Called
<1>3. {"PVT", "PRT", "RATE", "CFG", "MSG", "RST"} \subseteq IDs
  BY DEF IDs, NavIDs, CfgIDs
<1>4. CASE Query
  <2>1. \A op \in DOMAIN QueryID : QueryID[op] \in IDs
    BY DEF QueryID, IDs, NavIDs, CfgIDs
  <2>2. QED
    BY <1>1, <1>2, <1>4, <2>1 DEF Query
<1>5. CASE QueryPort
  BY <1>1, <1>2, <1>3, <1>5 DEF QueryPort
<1>6. CASE SetNavigationFrequency
  BY <1>1, <1>2, <1>3, <1>6 DEF SetNavigationFrequency
<1>7. CASE Order
  <2>1. \A op \in DOMAIN Orders : /\ Orders[op].id \in IDs /\ Orders[op].len \in {8, 12}
                                 /\ Orders[op].payload \in Images
    BY <1>3, OrderFacts, IdFacts
  <2>2. QED
    BY <1>1, <1>2, <1>7, <2>1 DEF Order
<1>8. CASE SetAutoPVT
  <2>1. PICK enable \in BOOLEAN :
          /\ Begins(IF enable THEN "enableAutoPVT" ELSE "disableAutoPVT")
          /\ SendCommand("MSG", 3, IF enable THEN "on" ELSE "off", MaxWait)
          /\ UNCHANGED <<i2cPollingWait, navVars>>
    BY <1>8 DEF SetAutoPVT
  <2>2. QED
    BY <1>1, <1>2, <1>3, <2>1
<1>9. CASE HardReset
  BY <1>1, <1>2, <1>3, <1>9 DEF HardReset
<1>10. ASSUME NEW op, Begins(op), waiting' = "none",
              UNCHANGED <<packetVars, parser, navVars>>
       PROVE  HonestInvariant'
  <2>1. wire' = wire /\ packetCfg' = packetCfg
    BY <1>10 DEF Begins, packetVars
  <2>2. FrameInProgress'
    BY <1>10, <2>1 DEF UbxInvariant, HonestInvariant, FrameInProgress, ReadsData
  <2>3. WaitIsHonest' /\ StatusIsEarned'
    BY <1>10 DEF WaitIsHonest, Waits, StatusIsEarned
  <2>4. SolutionIsMeasured'
    BY <1>10 DEF UbxInvariant, HonestInvariant, SolutionIsMeasured
  <2>5. QED
    BY <2>2, <2>3, <2>4 DEF HonestInvariant
<1>11. CASE GetPVT
  <2>1. PICK op \in {"getPVT", "getLatitude"} :
          /\ Begins(op)
          /\ IF autoPVT
             THEN /\ pc' = IF implicitUpdate THEN "poll" ELSE "returned"
                  /\ waiting' = "none" /\ seen' = {}
                  /\ UNCHANGED <<requested, status, packetVars, timer, parser, inbox,
                                 faults, undisturbed>>
             ELSE SendCommand("PVT", 0, packetCfg.payload, MaxWait)
          /\ UNCHANGED <<i2cPollingWait, navVars>>
    BY <1>11 DEF GetPVT
  <2>2. QED
    BY <1>1, <1>2, <1>3, <1>10, <2>1
<1>12. CASE CheckUblox
  BY <1>10, <1>12 DEF CheckUblox
<1>13. CASE GetFreshLatitude
  <2>1. /\ UNCHANGED <<waiting, requested, packetCfg, commandAck, seen, parser, pvt, wire,
                       pc, status>>
        /\ moduleQueried' = NothingFresh
    BY <1>13 DEF GetFreshLatitude, callVars, packetVars, pollVars, receiver, observers
  <2>2. QED
    BY <2>1, QuietStepIsHonest DEF UbxInvariant, Waits
<1>14. CASE AssumeAutoPVT
  <2>1. UNCHANGED <<waiting, requested, packetCfg, commandAck, seen, parser, pvt, wire,
                    pc, status, moduleQueried>>
    BY <1>14 DEF AssumeAutoPVT, callVars, packetVars, pollVars, receiver
  <2>2. QED
    BY <2>1, QuietStepIsHonest DEF UbxInvariant, Waits
<1>15. QED
  BY <1>4, <1>5, <1>6, <1>7, <1>8, <1>9, <1>11, <1>12, <1>13, <1>14 DEF Begin

\* What has been lost is not in the buffer, and what follows it is taken for its
\* payload only if what was lost would have been.
LEMMA LossIsHonest ==
  ASSUME UbxInvariant, NEW first \in BOOLEAN, parser' = AfterLoss(first),
         UNCHANGED <<waiting, requested, status, packetCfg, commandAck, seen, pvt,
                     moduleQueried>>,
         Waits' => Waits, pc' = "returned" => waiting = "none" \/ pc = "returned"
  PROVE  HonestInvariant'
<1> USE DEF UbxInvariant, HonestInvariant
<1>1. parser' # "frame" /\ (TakenForData' => TakenForData)
  BY DEF AfterLoss, TakenForData
<1>2. ~ReadsData'
  BY <1>1 DEF ReadsData
<1>3. FrameInProgress'
  BY <1>2 DEF FrameInProgress
<1>4. WaitIsHonest'
  BY <1>1, <1>2 DEF WaitIsHonest
<1>5. StatusIsEarned' /\ SolutionIsMeasured'
  BY DEF StatusIsEarned, SolutionIsMeasured
<1>6. QED
  BY <1>3, <1>4, <1>5

\* Polling reads nothing.
LEMMA PollIsHonest ==
  ASSUME UbxInvariant, Poll \/ PollRefused \/ PollNotReady \/ ReadRefused
  PROVE  HonestInvariant'
<1> USE DEF UbxInvariant, Waits, Earned, packetVars, pollVars, navVars, receiver,
            observers
<1>1. CASE Timeout
  BY <1>1, QuietStepIsHonest DEF Timeout
<1>2. CASE PollTooEarly
  BY <1>2, QuietStepIsHonest DEF PollTooEarly
<1>3. CASE PollEmpty
  BY <1>3, QuietStepIsHonest DEF PollEmpty, NextPoll
<1>4. CASE PollFull
  BY <1>4, QuietStepIsHonest DEF PollFull
<1>5. CASE PollRefused
  BY <1>5, QuietStepIsHonest DEF PollRefused, NextPoll
<1>6. CASE ReadRefused
  BY <1>6, QuietStepIsHonest DEF ReadRefused, NextPoll
<1>7. CASE PollNotReady
  <2>1. CASE UNCHANGED <<wire, parser>>
    BY <1>7, <2>1, QuietStepIsHonest DEF PollNotReady, NextPoll
  <2>2. CASE \E first \in BOOLEAN : parser' = AfterLoss(first)
    BY <1>7, <2>2, LossIsHonest DEF PollNotReady, NextPoll
  <2>3. QED
    BY <1>7, <2>1, <2>2 DEF PollNotReady
<1>8. QED
  BY <1>1, <1>2, <1>3, <1>4, <1>5, <1>6, <1>7 DEF Poll

\* Reading: what makes the buffer valid, or an acknowledgement count, has been
\* read whole and good.
LEMMA ReadIsHonest ==
  ASSUME UbxInvariant, Read
  PROVE  HonestInvariant'
<1> USE DEF UbxInvariant, HonestInvariant
<1>0. Reading
  BY DEF Read, ReadHeader, ReadChecksum, ReadDerailed, ReadSkipping
<1>1. /\ Head(wire) \in FrameSet
      /\ pc = "read" /\ pc' \in {"look", "read"} /\ packetCfg \in Packets
  BY <1>0, ReadingFacts DEF Reading, TypeInvariant, TypeOK, PacketOK
<1>2. StatusIsEarned'
  BY <1>1 DEF StatusIsEarned
<1>3. CASE ReadHeader
  <2>1. /\ wire' = wire /\ parser' = "frame"
        /\ UNCHANGED <<waiting, requested, commandAck, seen, pvt, moduleQueried>>
    BY <1>3 DEF ReadHeader, receiver, navVars
  <2>2. CASE Head(wire).kind = "data"
    <3>1. /\ packetCfg'.id = Head(wire).id /\ packetCfg'.len = FrameLen[Head(wire).id]
          /\ ~packetCfg'.valid
          /\ Head(wire).good => packetCfg'.payload = Head(wire).id
      BY <1>3, <2>2 DEF ReadHeader
    <3>2. FrameInProgress'
      BY <2>1, <3>1 DEF FrameInProgress
    <3>3. WaitIsHonest'
      BY <1>1, <2>1, <3>1 DEF WaitIsHonest, Waits
    <3>4. QED
      BY <1>2, <2>1, <3>2, <3>3 DEF SolutionIsMeasured
  <2>3. CASE Head(wire).kind # "data"
    <3>1. packetCfg' = packetCfg /\ ~ReadsData' /\ ~TakenForData'
      BY <1>3, <2>1, <2>3 DEF ReadHeader, ReadsData, TakenForData
    <3>2. QED
      BY <1>1, <1>2, <2>1, <3>1
         DEF FrameInProgress, WaitIsHonest, Waits, SolutionIsMeasured
  <2>4. QED
    BY <2>2, <2>3
<1>4. CASE ReadChecksum
  <2>1. /\ parser = "frame" /\ parser' = "sync" /\ ~ReadsData' /\ ~TakenForData'
        /\ UNCHANGED <<waiting, requested>> /\ seen \subseteq seen'
    BY <1>4 DEF ReadChecksum, ReadsData, TakenForData
  <2>2. FrameInProgress'
    BY <2>1 DEF FrameInProgress
  <2>3. Head(wire).good => Sight(Head(wire)) \subseteq seen'
    BY <1>4 DEF ReadChecksum
  <2>4. WaitIsHonest'
    <3>1. SUFFICES ASSUME Waits'
                   PROVE  WaitIsHonest'
      BY DEF WaitIsHonest
    <3>2. Waits
      BY <1>1, <2>1, <3>1 DEF Waits
    <3>3. ASSUME waiting = "ack", commandAck' # "none"
          PROVE  \E its \in BOOLEAN : <<commandAck', its>> \in seen'
      <4>1. CASE commandAck' = commandAck
        BY <2>1, <3>2, <3>3, <4>1 DEF WaitIsHonest
      <4>2. CASE commandAck' # commandAck
        <5>1. Head(wire).good /\ commandAck' = Head(wire).kind
          BY <1>4, <4>2 DEF ReadChecksum, ChecksumMatches
        <5>2. QED
          BY <1>1, <2>3, <5>1, SightFacts
      <4>3. QED
        BY <4>1, <4>2
    <3>4. CASE Head(wire).kind = "data"
      <4>1. Head(wire).good \in BOOLEAN /\ Head(wire).id \in DataIDs
        BY <1>1, <3>4, FrameFacts
      <4>2. /\ packetCfg'.id = packetCfg.id /\ packetCfg'.len = packetCfg.len
            /\ packetCfg'.payload = packetCfg.payload
            /\ packetCfg'.valid = Head(wire).good
        BY <1>1, <1>4, <3>4, <4>1, JudgedFacts DEF ReadChecksum, ChecksumMatches
      <4>3. packetCfg.len # 1
        BY <2>1, <3>4, <4>1, LengthFacts DEF FrameInProgress, ReadsData
      <4>4. ASSUME waiting = "noack", packetCfg.id = requested, Head(wire).good
            PROVE  <<"data", TRUE>> \in seen' /\ packetCfg.payload = requested
        <5>1. Head(wire).id = requested /\ packetCfg.payload = requested
          BY <2>1, <3>2, <3>4, <4>4 DEF WaitIsHonest, ReadsData
        <5>2. QED
          BY <1>1, <2>3, <3>4, <4>4, <5>1, SightFacts
      <4>5. QED
        BY <2>1, <3>2, <3>3, <4>2, <4>3, <4>4 DEF WaitIsHonest
    <3>5. CASE Head(wire).kind # "data"
      <4>1. packetCfg' = packetCfg
        BY <1>4, <3>5 DEF ReadChecksum
      <4>2. QED
        BY <2>1, <3>2, <3>3, <4>1 DEF WaitIsHonest
    <3>6. QED
      BY <3>4, <3>5
  <2>5. SolutionIsMeasured'
    <3>1. CASE FillsGlobals(Head(wire))
      <4>1. packetCfg.payload = "PVT"
        BY <2>1, <3>1 DEF FillsGlobals, ChecksumMatches, FrameInProgress, ReadsData
      <4>2. pvt' = packetCfg.payload
        BY <1>4, <3>1 DEF ReadChecksum
      <4>3. QED
        BY <4>1, <4>2 DEF SolutionIsMeasured
    <3>2. CASE ~FillsGlobals(Head(wire))
      BY <1>4, <3>2 DEF ReadChecksum, SolutionIsMeasured
    <3>3. QED
      BY <3>1, <3>2
  <2>6. QED
    BY <1>2, <2>2, <2>4, <2>5
<1>5. CASE ReadDerailed
  <2>1. /\ TakenForData /\ parser' \in {"sync", "lost", "derailed"}
        /\ UNCHANGED <<waiting, requested, commandAck, seen, pvt, moduleQueried>>
    BY <1>5 DEF ReadDerailed, TakenForData, navVars, observers
  <2>2. ~ReadsData'
    BY <2>1 DEF ReadsData
  <2>3. packetCfg'.valid = packetCfg.valid /\ packetCfg'.len = packetCfg.len
    BY <1>1, <1>5, FilledFacts, IdFacts DEF ReadDerailed
  <2>4. FrameInProgress'
    BY <2>2 DEF FrameInProgress
  <2>5. WaitIsHonest'
    BY <1>1, <2>1, <2>2, <2>3 DEF WaitIsHonest, Waits
  <2>6. QED
    BY <1>2, <2>1, <2>4, <2>5 DEF SolutionIsMeasured
<1>6. CASE ReadSkipping
  <2>1. /\ parser' \in {"sync", "skipping"}
        /\ UNCHANGED <<waiting, requested, packetCfg, commandAck, seen, pvt,
                       moduleQueried>>
    BY <1>6 DEF ReadSkipping, packetVars, navVars, observers
  <2>2. ~ReadsData' /\ ~TakenForData'
    BY <2>1 DEF ReadsData, TakenForData
  <2>3. QED
    BY <1>1, <1>2, <2>1, <2>2 DEF FrameInProgress, WaitIsHonest, Waits, SolutionIsMeasured
<1>7. QED
  BY <1>3, <1>4, <1>5, <1>6 DEF Read

\* The wait loops return what has been earned.
LEMMA LookIsHonest ==
  ASSUME UbxInvariant, Look
  PROVE  HonestInvariant'
<1> USE DEF UbxInvariant, HonestInvariant, LookUnchanged, pollVars, navVars, receiver,
            observers
<1>1. packetCfg \in Packets /\ requested \in IDs \cup {"none"}
  BY DEF TypeInvariant, TypeOK, CallOK, PacketOK
<1>2. CASE LookForAck
  <2>1. /\ pc = "look" /\ waiting = "ack" /\ Waits
        /\ UNCHANGED <<waiting, requested, commandAck, seen, parser, wire, pvt,
                       moduleQueried>>
    BY <1>2 DEF LookForAck, Waits
  <2>2. /\ packetCfg'.id = packetCfg.id /\ packetCfg'.len = packetCfg.len
        /\ packetCfg'.payload = packetCfg.payload
        /\ packetCfg'.valid => packetCfg.valid
    <3>1. packetCfg' = packetCfg
            \/ packetCfg' = Judged(packetCfg, packetCfg.valid /\ IsRequested)
      BY <1>2 DEF LookForAck
    <3>2. (packetCfg.valid /\ IsRequested) \in BOOLEAN
      OBVIOUS
    <3>3. QED
      BY <1>1, <3>1, <3>2, JudgedFacts
  <2>3. FrameInProgress'
    BY <2>1, <2>2 DEF FrameInProgress, ReadsData
  <2>4. WaitIsHonest'
    BY <2>1, <2>2 DEF WaitIsHonest, TakenForData
  <2>5. ~(packetCfg.valid /\ ExpectsData)
    BY <2>1 DEF WaitIsHonest, ExpectsData
  <2>6. pc' = "returned" =>
          \/ status' = "DATA_SENT" /\ commandAck = "ack"
          \/ status' = "COMMAND_UNKNOWN" /\ commandAck = "nack"
          \/ status' = "FAIL"
    BY <1>2, <2>5 DEF LookForAck, Returns
  <2>7. StatusIsEarned'
    BY <2>1, <2>6 DEF StatusIsEarned, WaitIsHonest
  <2>8. QED
    BY <2>1, <2>3, <2>4, <2>7 DEF SolutionIsMeasured
<1>3. CASE LookForAnswer
  <2>1. /\ pc = "look" /\ waiting = "noack" /\ Waits
        /\ UNCHANGED <<waiting, requested, commandAck, seen, parser, wire, pvt,
                       moduleQueried>>
    BY <1>3 DEF LookForAnswer, Waits
  <2>2. requested \in IDs /\ requested # "none"
    BY <2>1, IdFacts DEF WaitIsHonest
  <2>3. CASE packetCfg' = packetCfg /\ pc' = "returned"
    <3>1. FrameInProgress' /\ WaitIsHonest'
      BY <2>1, <2>3 DEF FrameInProgress, ReadsData, WaitIsHonest, Waits
    <3>2. \/ status' = "CRC_FAIL"
          \/ status' = "DATA_RECEIVED" /\ packetCfg.valid /\ packetCfg.id = requested
      BY <1>3, <2>3, <2>1 DEF LookForAnswer, Returns, IsRequested
    <3>3. StatusIsEarned'
      BY <2>1, <2>3, <3>2 DEF StatusIsEarned, WaitIsHonest
    <3>4. QED
      BY <2>1, <3>1, <3>3 DEF SolutionIsMeasured
  <2>4. CASE packetCfg' = Forgotten(packetCfg) /\ pc' = "poll"
    <3>1. /\ packetCfg'.id = "none" /\ packetCfg'.len = packetCfg.len
          /\ packetCfg'.valid => packetCfg.valid
      BY <1>1, <2>4, ForgottenFacts
    <3>2. FrameInProgress'
      BY <2>1, <3>1 DEF FrameInProgress, ReadsData
    <3>3. WaitIsHonest'
      BY <2>1, <2>2, <3>1 DEF WaitIsHonest, TakenForData
    <3>4. StatusIsEarned'
      BY <2>4 DEF StatusIsEarned
    <3>5. QED
      BY <2>1, <3>2, <3>3, <3>4 DEF SolutionIsMeasured
  <2>5. QED
    BY <1>3, <2>3, <2>4 DEF LookForAnswer, Returns
<1>4. CASE LookOnce
  BY <1>4, QuietStepIsHonest DEF LookOnce, Waits
<1>5. QED
  BY <1>2, <1>3, <1>4 DEF Look

\* The end of an operation, or its second command.
LEMMA EndIsHonest ==
  ASSUME UbxInvariant, End
  PROVE  HonestInvariant'
<1> USE DEF UbxInvariant, HonestInvariant
<1>1. CASE WriteBack
  <2>1. /\ pc = "returned" /\ call \in Modifiers /\ stage = 1
        /\ SendCommand(WriteBackID, WriteBackLen, packetCfg.payload, MaxWait)
        /\ wire' = wire /\ UNCHANGED <<pvt, moduleQueried>>
    BY <1>1 DEF WriteBack, navVars
  <2>2. WriteBackID \in IDs /\ WriteBackID \in {packetCfg.id, "PRT"}
    BY <2>1, IdFacts DEF WriteBackID, TypeInvariant, BufferNamed, DataIDs
  <2>3. WriteBackLen \in Nat /\ packetCfg.payload \in Images /\ MaxWait \in Nat
    BY PacketFacts, UbxAssumption DEF WriteBackLen, TypeInvariant, TypeOK, PacketOK
  <2>4. QED
    BY <2>1, <2>2, <2>3, SendCommandIsHonest
<1>2. ASSUME Done, UNCHANGED <<parser, wire, pvt>>,
             moduleQueried'.all => moduleQueried.all,
             moduleQueried'.latitude => moduleQueried.latitude
      PROVE  HonestInvariant'
  <2>1. parser = "frame" => packetCfg' = packetCfg
    BY <1>2 DEF Done
  <2>2. FrameInProgress'
    BY <1>2, <2>1 DEF FrameInProgress, ReadsData
  <2>3. WaitIsHonest' /\ StatusIsEarned'
    BY <1>2 DEF Done, WaitIsHonest, Waits, StatusIsEarned
  <2>4. SolutionIsMeasured'
    BY <1>2 DEF SolutionIsMeasured
  <2>5. QED
    BY <2>2, <2>3, <2>4
<1>3. CASE FinishSetAutoPVT
  <2>1. /\ ~moduleQueried'.all
        /\ moduleQueried'.latitude = moduleQueried.latitude
    BY <1>3 DEF FinishSetAutoPVT, TypeInvariant, TypeOK, PacketOK
  <2>2. QED
    BY <1>2, <1>3, <2>1 DEF FinishSetAutoPVT, pollVars, receiver
<1>4. CASE FinishGetPVT
  BY <1>2, <1>4 DEF FinishGetPVT, NothingFresh, pollVars, receiver
<1>5. CASE Finish
  BY <1>2, <1>5 DEF Finish, navVars, pollVars, receiver
<1>6. QED
  BY <1>1, <1>3, <1>4, <1>5 DEF End

\* The receiver, the bus and the clock: a frame that is being read stays at the
\* head of the queue, unless the receiver restarts.
LEMMA EnvironmentIsHonest ==
  ASSUME UbxInvariant, Receive \/ Emit \/ SendSolution \/ Tick
  PROVE  HonestInvariant'
<1> USE DEF UbxInvariant, callVars, packetVars, pollVars, navVars, observers
<1>1. wire \in Seq(FrameSet) /\ (parser = "frame" => wire # <<>>)
  BY DEF TypeInvariant, TypeOK, PacketOK, ReceiverOK, BytesAreThere, HalfRead
<1>2. ASSUME UNCHANGED <<callVars, packetVars, parser, navVars, seen>>,
             parser = "frame" => Head(wire') = Head(wire)
      PROVE  HonestInvariant'
  BY <1>2, QuietStepIsHonest DEF Waits
<1>3. CASE AnswerCommand
  BY <1>2, <1>3 DEF AnswerCommand
<1>4. CASE RefuseCommand
  BY <1>2, <1>4 DEF RefuseCommand
<1>5. CASE IgnoreCommand
  BY <1>2, <1>5 DEF IgnoreCommand
<1>6. CASE Restart
  <2>1. UNCHANGED <<callVars, packetVars, navVars, seen>> /\ parser' = AfterLoss(TRUE)
    BY <1>6 DEF Restart
  <2>2. QED
    BY <2>1, LossIsHonest DEF Waits
<1>7. ASSUME NEW f \in FrameSet, wire' = Append(wire, f)
      PROVE  parser = "frame" => Head(wire') = Head(wire)
  BY <1>1, <1>7
<1>8. CASE Emit
  <2>1. CASE Len(wire) < MaxWire
    <3>1. PICK good \in BOOLEAN : wire' = Append(wire, Frame(Head(outbox), good))
      BY <1>8, <2>1 DEF Emit
    <3>2. Head(outbox) \in ReplySet
      BY <1>8 DEF Emit, TypeInvariant, TypeOK, ReceiverOK
    <3>3. Frame(Head(outbox), good) \in FrameSet
      BY <3>2, FrameFacts
    <3>4. QED
      BY <1>2, <1>7, <1>8, <3>1, <3>3 DEF Emit
  <2>2. CASE ~(Len(wire) < MaxWire)
    BY <1>2, <1>8, <2>2 DEF Emit
  <2>3. QED
    BY <2>1, <2>2
<1>9. CASE SendSolution
  <2>1. PICK solution \in FrameSet : wire' = Append(wire, solution)
    BY <1>9, FrameFacts DEF SendSolution
  <2>2. QED
    BY <1>2, <1>7, <1>9, <2>1 DEF SendSolution
<1>10. CASE Tick
  BY <1>2, <1>10 DEF Tick, receiver
<1>11. QED
  BY <1>3, <1>4, <1>5, <1>6, <1>8, <1>9, <1>10 DEF Receive

\* The invariant holds when the driver is constructed.
LEMMA InitIsSound == Init => UbxInvariant
<1> SUFFICES ASSUME Init PROVE UbxInvariant
  OBVIOUS
<1>1. HonestInvariant
  BY DEF Init, HonestInvariant, FrameInProgress, ReadsData, WaitIsHonest, Waits,
     StatusIsEarned, SolutionIsMeasured, NothingFresh
<1>2. QED
  BY <1>1, InitTypes DEF UbxInvariant

\* Every step keeps it.
LEMMA NextIsSound == UbxInvariant /\ [Next]_vars => UbxInvariant'
<1> SUFFICES ASSUME UbxInvariant, [Next]_vars PROVE UbxInvariant'
  OBVIOUS
<1>1. TypeInvariant'
  BY NextKeepsTypes DEF UbxInvariant
<1>2. ASSUME UNCHANGED vars PROVE HonestInvariant'
  BY <1>2, QuietStepIsHonest DEF vars, callVars, packetVars, pollVars, navVars, receiver,
     observers, UbxInvariant, Waits
<1>3. ASSUME Next PROVE HonestInvariant'
  BY <1>3, BeginIsHonest, PollIsHonest, ReadIsHonest, LookIsHonest, EndIsHonest,
     EnvironmentIsHonest DEF Next
<1>4. QED
  BY <1>1, <1>2, <1>3 DEF UbxInvariant

\* The inductive invariant of the driver.
LEMMA UbxIsSound == Spec => []UbxInvariant
BY InitIsSound, NextIsSound, PTL DEF Spec

\* A status of sendCommand reports nothing that has not been read whole, with a
\* good checksum, since the command was sent; and data received are the image of
\* what was asked for.
THEOREM StatusIsAlwaysEarned == Spec => []StatusIsEarned
<1>1. UbxInvariant => StatusIsEarned
  BY DEF UbxInvariant, HonestInvariant
<1>2. QED
  BY <1>1, UbxIsSound, PTL

\* A position that the getters offer as fresh was filled from a whole NAV-PVT,
\* whatever was sent or cut off in the middle of a frame.
THEOREM SolutionIsAlwaysMeasured == Spec => []SolutionIsMeasured
<1>1. UbxInvariant => SolutionIsMeasured
  BY DEF UbxInvariant, HonestInvariant
<1>2. QED
  BY <1>1, UbxIsSound, PTL

----------------------------------------------------------------------------
(***************************************************************************)
(* What belongs to a command.  As long as nothing went wrong the receiver  *)
(* has either not looked at the command that is waited for, or has part of *)
(* the answer to give, or that is on its way, or read: of a command with   *)
(* an acknowledgement the data before it, of any other a single frame.     *)
(* Solutions that the receiver reports by itself may come in between; in   *)
(* front of an acknowledgement they disturb.                               *)
(***************************************************************************)
SettingIDs == {"RATE", "NAV5", "PRT"}

OnWire      == 1..Len(wire)
Own(i)      == wire[i].id = requested
Solution(i) == wire[i].kind = "data" /\ wire[i].id = "PVT"
HalfDone(i) == i = 1 /\ parser = "frame"

Plain ==
  /\ parser \in {"sync", "frame"}
  /\ \A i \in OnWire : wire[i].good /\ wire[i].kind \in {"data", "ack"}
  /\ pc = "idle" => call = "none" /\ waiting = "none"

\* While nothing is waited for, no answer is under way: there are solutions, and
\* one answer may have been read in part.  A reset is not waited for.
Calm ==
  /\ inbox # <<>> => Head(inbox).id = "RST"
  /\ outbox = <<>>
  /\ \A i \in OnWire :
       wire[i].kind = "data" /\ (HalfDone(i) \/ (wire[i].id = "PVT" /\ sendsPVT))

NeedsData == call \in Modifiers /\ stage = 1
DataRead  == packetCfg.len # 1 /\ (NeedsData => packetCfg.payload = requested)

IsAsked ==
  inbox # <<>> =>
    /\ outbox = <<>>
    /\ \/ Head(inbox).id = "RST"
       \/ Len(inbox) = 1 /\ Head(inbox).id = requested

AckIsOwed ==
  /\ requested \in CfgIDs /\ packetCfg.id = requested /\ IsAsked
  /\ commandAck = "none" \/ (commandAck = "ack" /\ <<"ack", TRUE>> \in seen)
  /\ parser = "frame" => Own(1)
  /\ \A i \in OnWire :
       \/ Own(i)
       \/ Solution(i) /\ \/ sendsPVT \/ outbox # <<>>
                         \/ \E j \in OnWire : i < j /\ wire[j].kind = "ack"
  /\ inbox # <<>> \/ commandAck = "ack" => \A i \in OnWire : ~Own(i)
  /\ commandAck = "ack" => inbox = <<>> /\ outbox = <<>>
  /\ outbox # <<>> =>
       /\ outbox = <<Ack(requested)>> \/ outbox = <<Data(requested), Ack(requested)>>
       /\ \A i \in OnWire : wire[i].kind # "ack"
  /\ \A i \in OnWire : wire[i].kind = "ack" =>
       inbox = <<>> /\ outbox = <<>> /\ \A j \in OnWire : i < j => ~Own(j)

\* The register that was asked for is in the buffer before the acknowledgement is.
DataComesFirst ==
  /\ parser = "frame" /\ wire[1].kind = "data" => DataRead
  /\ ~DataRead =>
       /\ NeedsData /\ commandAck = "none"
       /\ inbox # <<>> => Head(inbox).id = "RST" \/ Polled(Head(inbox))
       /\ outbox = <<Ack(requested)>> =>
            \E i \in OnWire : wire[i].kind = "data" /\ Own(i)
       /\ \A i \in OnWire : wire[i].kind = "ack" =>
            \E j \in OnWire : j < i /\ wire[j].kind = "data" /\ Own(j)

AnswerIsOwed ==
  /\ requested \in NavIDs /\ IsAsked
  /\ requested = "PVT" => ~sendsPVT
  /\ \A i \in OnWire : wire[i].kind = "data" /\ (Own(i) \/ (Solution(i) /\ sendsPVT))
  /\ inbox # <<>> \/ outbox # <<>> =>
       packetCfg.id # requested /\ \A i \in OnWire : ~Own(i)
  /\ outbox # <<>> => outbox = <<Data(requested)>>
  /\ \A i, j \in OnWire : Own(i) /\ Own(j) => i = j
  /\ packetCfg.id = requested =>
       /\ \A i \in OnWire : Own(i) => HalfDone(i)
       /\ packetCfg.valid \/ parser = "frame"

HasReturned ==
  pc = "returned" /\ waiting # "none" =>
    /\ call = "hardReset" => status = "SUCCESS"
    /\ waiting = "ack" /\ call # "hardReset" =>
         /\ status = "DATA_SENT" /\ <<"ack", TRUE>> \in seen
         /\ DataRead /\ packetCfg.id = requested /\ inbox = <<>> /\ parser = "sync"
    /\ waiting = "noack" =>
         status = "DATA_RECEIVED" \/ (status = "CRC_FAIL" /\ parser = "frame")

\* Which command an operation waits for.
Agreed ==
  /\ Waits => call # "hardReset"
  /\ call \in Modifiers /\ pc # "idle" => waiting = "ack" /\ requested \in SettingIDs

Owed ==
  /\ ~Waits => Calm
  /\ Waits /\ waiting = "ack" => AckIsOwed /\ DataComesFirst
  /\ Waits /\ waiting = "noack" => AnswerIsOwed

InGoodOrder == Plain /\ Owed /\ HasReturned /\ Agreed

OrderInvariant == undisturbed => InGoodOrder

\* A frame that is half read is there.
LEMMA HalfReadIsThere ==
  ASSUME TypeInvariant
  PROVE  /\ wire \in Seq(FrameSet) /\ Len(wire) \in Nat
         /\ parser = "frame" => 1 \in OnWire /\ Head(wire) = wire[1]
<1>1. wire \in Seq(FrameSet) /\ toRead \in Nat
  BY DEF TypeInvariant, TypeOK, ReceiverOK, PacketOK
<1>2. parser = "frame" => Len(wire) >= 1
  BY <1>1 DEF TypeInvariant, BytesAreThere, HalfRead
<1>3. QED
  BY <1>1, <1>2 DEF OnWire

\* A step of the calling thread that changes nothing of what belongs to a command.
LEMMA QuietStepIsOrdered ==
  ASSUME InGoodOrder, Waits' <=> Waits, pc' = "idle" => pc = "idle",
         UNCHANGED <<call, stage, waiting, requested, packetCfg, commandAck, parser,
                     inbox, outbox, wire, sendsPVT, seen>>,
         pc' = "returned" => \/ waiting = "none"
                             \/ pc = "returned" /\ status' = status
  PROVE  InGoodOrder'
<1> USE DEF InGoodOrder
<1>1. Plain'
  BY DEF Plain, OnWire
<1>2. Owed'
  <2>1. Calm => Calm'
    BY DEF Calm, OnWire, HalfDone
  <2>2. AckIsOwed => AckIsOwed'
    BY DEF AckIsOwed, IsAsked, OnWire, Own, Solution
  <2>3. DataComesFirst => DataComesFirst'
    BY DEF DataComesFirst, DataRead, NeedsData, OnWire, Own
  <2>4. AnswerIsOwed => AnswerIsOwed'
    BY DEF AnswerIsOwed, IsAsked, OnWire, Own, Solution, HalfDone
  <2>5. QED
    BY <2>1, <2>2, <2>3, <2>4 DEF Owed
<1>3. HasReturned'
  BY DEF HasReturned, DataRead, NeedsData
<1>4. Agreed'
  BY DEF Agreed, Plain, Modifiers
<1>5. QED
  BY <1>1, <1>2, <1>3, <1>4

\* A command is sent when nothing is under way; that in the middle of a frame it
\* would derail the parser.
LEMMA SendCommandIsOrdered ==
  ASSUME UbxInvariant, InGoodOrder, ~Waits, undisturbed',
         UNCHANGED <<outbox, wire, sendsPVT>>,
         pc = "idle" \/ call \in Modifiers,
         NEW id \in IDs, NEW len \in Nat, NEW payload \in Images, NEW maxWait \in Nat,
         parser = "sync" \/ len \in {0, 1, 3, 4, 8, 12},
         call' \in Modifiers => id \in SettingIDs,
         NeedsData' => len = 0 \/ (id = "PRT" /\ len = 1),
         len = 1 => NeedsData',
         maxWait = 0 <=> call' = "hardReset", call' = "hardReset" => id = "RST",
         SendCommand(id, len, payload, maxWait)
  PROVE  InGoodOrder'
<1>1. PICK written \in BOOLEAN :
        /\ SendI2cCommand(id, len, payload, written)
        /\ IF written /\ maxWait > 0
           THEN pc' = "poll" /\ StartWait(id, payload, len) /\ UNCHANGED status
           ELSE /\ pc' = "returned" /\ NoWait(id, payload, len)
                /\ status' = IF written THEN "SUCCESS" ELSE "I2C_COMM_FAILURE"
  BY DEF SendCommand
<1>2. /\ written /\ ~Derails(len) /\ parser' = parser
      /\ inbox' = Append(inbox, Command(id, len, payload))
      /\ id = "PVT" => ~sendsPVT
  BY <1>1 DEF SendI2cCommand
<1>3. Calm /\ Plain
  BY DEF InGoodOrder, Owed
<1>4. parser = "sync"
  <2>1. SUFFICES ASSUME parser = "frame" PROVE FALSE
    BY <1>3 DEF Plain
  <2>2. 1 \in OnWire /\ Head(wire) = wire[1] /\ wire \in Seq(FrameSet)
    BY <2>1, HalfReadIsThere DEF UbxInvariant
  <2>3. Head(wire).kind = "data" /\ Head(wire) \in FrameSet
    BY <1>3, <2>2 DEF Calm, OnWire
  <2>4. packetCfg.len = FrameLen[Head(wire).id]
    BY <2>1, <2>3 DEF UbxInvariant, HonestInvariant, FrameInProgress, ReadsData
  <2>5. packetCfg.len \notin {0, 1, 3, 4, 8, 12}
    BY <2>3, <2>4, FrameFacts, LengthFacts
  <2>6. QED
    BY <1>2, <2>1, <2>3, <2>5 DEF Derails
<1>5. \A i \in OnWire : wire[i].kind = "data" /\ wire[i].id = "PVT" /\ sendsPVT
  BY <1>3, <1>4 DEF Calm, HalfDone
<1>6. /\ inbox' # <<>>
      /\ \/ inbox # <<>> /\ Head(inbox').id = "RST"
         \/ Len(inbox') = 1 /\ Head(inbox') = Command(id, len, payload)
  <2>1. inbox \in Seq(CommandSet)
    BY DEF UbxInvariant, TypeInvariant, TypeOK, ReceiverOK
  <2>2. inbox' # <<>> /\ Head(inbox') = (IF inbox = <<>> THEN Command(id, len, payload)
                                                        ELSE Head(inbox))
    BY <1>2, <2>1
  <2>3. inbox = <<>> => Len(inbox') = 1
    BY <1>2, <2>1
  <2>4. QED
    BY <1>3, <2>2, <2>3 DEF Calm
<1>8. Plain'
  <2>1. pc' # "idle"
    BY <1>1
  <2>2. QED
    BY <1>2, <1>3, <2>1 DEF Plain, OnWire
<1>9. CASE maxWait = 0
  <2>1. /\ pc' = "returned" /\ call' = "hardReset" /\ id = "RST" /\ status' = "SUCCESS"
        /\ waiting' = "ack"
    BY <1>1, <1>2, <1>9 DEF NoWait, Class, CfgIDs
  <2>2. Calm'
    <3>1. inbox' # <<>> => Head(inbox').id = "RST"
      BY <1>6, <2>1 DEF Command
    <3>2. QED
      BY <1>3, <1>5, <3>1 DEF Calm, OnWire, HalfDone
  <2>3. ~Waits'
    BY <2>1 DEF Waits
  <2>4. HasReturned'
    BY <2>1 DEF HasReturned
  <2>5. Agreed'
    BY <2>1, <2>3 DEF Agreed, Modifiers
  <2>6. QED
    BY <1>8, <2>2, <2>3, <2>4, <2>5 DEF InGoodOrder, Owed
<1>10. CASE maxWait # 0
  <2>1. /\ pc' = "poll" /\ StartWait(id, payload, len)
        /\ requested' = id /\ Waits'
    BY <1>1, <1>2, <1>10 DEF StartWait, Class, Waits
  <2>2. IsAsked'
    BY <1>3, <1>6, <2>1 DEF IsAsked, Command, Calm
  <2>3. HasReturned'
    BY <2>1 DEF HasReturned
  <2>4. id \in CfgIDs <=> waiting' = "ack"
    BY <2>1 DEF StartWait, Class
  <2>5. Agreed'
    <3>1. call' \in Modifiers => id \in CfgIDs
      BY DEF CfgIDs, SettingIDs
    <3>2. QED
      BY <1>10, <2>1, <2>4, <3>1 DEF Agreed
  <2>6. CASE id \in CfgIDs
    <3>1. /\ waiting' = "ack" /\ commandAck' = "none"
          /\ packetCfg'.id = id /\ packetCfg'.len = len /\ packetCfg'.payload = payload
      BY <2>1, <2>6 DEF StartWait, Class
    <3>2. "PVT" # id
      BY <2>6 DEF CfgIDs
    <3>3. \A i \in OnWire' : ~Own(i)' /\ Solution(i)' /\ sendsPVT' /\ wire'[i].kind # "ack"
      BY <1>5, <2>1, <3>2 DEF OnWire, Own, Solution
    <3>4. outbox' = <<>> /\ parser' = "sync"
      BY <1>2, <1>3, <1>4 DEF Calm
    <3>5. AckIsOwed'
      BY <2>1, <2>2, <2>6, <3>1, <3>3, <3>4 DEF AckIsOwed
    <3>6. DataComesFirst'
      <4>1. ~DataRead' => NeedsData'
        BY <3>1 DEF DataRead
      <4>2. NeedsData' => Head(inbox').id = "RST" \/ Polled(Head(inbox'))
        BY <1>6 DEF Command, Polled
      <4>3. outbox' # <<Ack(requested)>>'
        BY <3>4
      <4>4. QED
        BY <3>1, <3>3, <3>4, <4>1, <4>2, <4>3 DEF DataComesFirst
    <3>7. QED
      BY <1>8, <2>1, <2>3, <2>5, <3>1, <3>5, <3>6 DEF InGoodOrder, Owed
  <2>7. CASE id \notin CfgIDs
    <3>1. id \in NavIDs
      BY <2>7 DEF IDs
    <3>2. waiting' = "noack" /\ packetCfg'.id = "none"
      BY <2>1, <2>7 DEF StartWait, Class
    <3>3. id = "PVT" => ~sendsPVT
      BY <1>2
    <3>4. \A i \in OnWire' : ~Own(i)' /\ Solution(i)' /\ sendsPVT' /\ wire'[i].kind = "data"
      BY <1>5, <2>1, <3>3 DEF OnWire, Own, Solution
    <3>5. packetCfg'.id # requested'
      BY <2>1, <3>2, IdFacts
    <3>6. outbox' = <<>>
      BY <1>3 DEF Calm
    <3>7. AnswerIsOwed'
      BY <2>1, <2>2, <3>1, <3>3, <3>4, <3>5, <3>6 DEF AnswerIsOwed
    <3>8. QED
      BY <1>8, <2>1, <2>3, <2>5, <3>2, <3>7 DEF InGoodOrder, Owed
  <2>8. QED
    BY <2>6, <2>7
<1>11. QED
  BY <1>9, <1>10

\* Every operation begins with a command that fits it, or with none.
LEMMA BeginIsOrdered ==
  ASSUME UbxInvariant, InGoodOrder, Begin, undisturbed'
  PROVE  InGoodOrder'
<1> USE DEF navVars
<1>1. packetCfg.payload \in Images /\ MaxWait \in Nat /\ MaxWait # 0
  BY PacketFacts, UbxAssumption DEF UbxInvariant, TypeInvariant, TypeOK, PacketOK
<1>2. /\ {"args", "on", "off"} \subseteq Images
      /\ {"PVT", "PRT", "RATE", "CFG", "MSG", "RST"} \subseteq IDs
  BY IdFacts DEF IDs, NavIDs, CfgIDs
<1>3. ASSUME NEW op, Begins(op)
      PROVE  /\ pc = "idle" /\ ~Waits /\ call' = op /\ stage' = 1
             /\ UNCHANGED <<outbox, wire, sendsPVT>>
  BY <1>3 DEF Begins, Called, Waits
<1>4. ASSUME NEW op \in {"getPositionAccuracy", "getNavigationFrequency", "setDynamicModel",
                         "setNavigationFrequency", "getPVT", "getLatitude"}
                          \cup Setters,
             op # "hardReset",
             Begins(op), NEW id \in IDs, NEW len \in {0, 3, 8, 12}, NEW payload \in Images,
             SendCommand(id, len, payload, MaxWait),
             op \in Modifiers => len = 0 /\ id \in SettingIDs
      PROVE  InGoodOrder'
  <2>1. NeedsData' => op \in Modifiers
    BY <1>3, <1>4 DEF NeedsData
  <2>2. QED
    BY <1>1, <1>3, <1>4, <2>1, SendCommandIsOrdered
<1>5. CASE Query
  <2>1. PICK op \in DOMAIN QueryID :
          /\ Begins(op)
          /\ SendCommand(QueryID[op], 0, packetCfg.payload, MaxWait)
          /\ UNCHANGED <<i2cPollingWait, navVars>>
    BY <1>5 DEF Query
  <2>2. /\ op \in {"getPositionAccuracy", "getNavigationFrequency", "setDynamicModel"}
        /\ QueryID[op] \in IDs /\ op # "hardReset"
        /\ op \in Modifiers => QueryID[op] \in SettingIDs
    BY DEF QueryID, IDs, NavIDs, CfgIDs, Modifiers, SettingIDs
  <2>3. QED
    BY <1>1, <1>4, <2>1, <2>2
<1>6. CASE QueryPort
  <2>1. PICK op \in {"setPortOutput", "setPortInput"} :
          /\ Begins(op)
          /\ SendCommand("PRT", 1, "args", MaxWait)
          /\ UNCHANGED <<i2cPollingWait, navVars>>
    BY <1>6 DEF QueryPort
  <2>2. op \in Modifiers /\ op # "hardReset" /\ "PRT" \in SettingIDs
    BY DEF Modifiers, SettingIDs
  <2>3. NeedsData'
    BY <1>3, <2>1, <2>2 DEF NeedsData
  <2>4. QED
    BY <1>1, <1>2, <1>3, <2>1, <2>2, <2>3, SendCommandIsOrdered
<1>7. CASE SetNavigationFrequency
  BY <1>1, <1>2, <1>4, <1>7 DEF SetNavigationFrequency, SettingIDs
<1>8. CASE Order
  <2>1. PICK op \in DOMAIN Orders :
          /\ Begins(op)
          /\ SendCommand(Orders[op].id, Orders[op].len, Orders[op].payload, MaxWait)
    BY <1>8 DEF Order
  <2>2. /\ op \in Setters /\ op # "hardReset" /\ op \notin Modifiers
        /\ Orders[op].id \in IDs /\ Orders[op].len \in {8, 12}
        /\ Orders[op].payload \in Images
    BY <1>2, OrderFacts, IdFacts
  <2>3. QED
    BY <1>4, <2>1, <2>2
<1>9. CASE SetAutoPVT
  <2>1. PICK enable \in BOOLEAN :
          /\ Begins(IF enable THEN "enableAutoPVT" ELSE "disableAutoPVT")
          /\ SendCommand("MSG", 3, IF enable THEN "on" ELSE "off", MaxWait)
          /\ UNCHANGED <<i2cPollingWait, navVars>>
    BY <1>9 DEF SetAutoPVT
  <2>2. PICK op \in {"enableAutoPVT", "disableAutoPVT"}, payload \in {"on", "off"} :
          Begins(op) /\ SendCommand("MSG", 3, payload, MaxWait)
    BY <2>1
  <2>3. op \in Setters /\ op \notin Modifiers /\ op # "hardReset"
    BY DEF Setters, Modifiers
  <2>4. QED
    BY <1>2, <1>4, <2>2, <2>3
<1>10. CASE HardReset
  <2>1. Begins("hardReset") /\ SendCommand("RST", 4, "args", 0)
    BY <1>10 DEF HardReset
  <2>2. "hardReset" \notin Modifiers
    BY DEF Modifiers
  <2>3. ~NeedsData'
    BY <1>3, <2>1, <2>2 DEF NeedsData
  <2>4. QED
    BY <1>2, <1>3, <2>1, <2>2, <2>3, SendCommandIsOrdered
<1>11. ASSUME NEW op \in {"getPVT", "getLatitude", "checkUblox"}, Begins(op),
              pc' \in {"poll", "returned"}, waiting' = "none",
              UNCHANGED <<parser, inbox>>
       PROVE  InGoodOrder'
  <2>1. op \notin Modifiers /\ op # "hardReset"
    BY DEF Modifiers
  <2>2. /\ call = "none" /\ ~Waits /\ ~Waits'
    BY <1>3, <1>11 DEF InGoodOrder, Plain, Waits
  <2>3. Plain' /\ HasReturned'
    BY <1>3, <1>11 DEF InGoodOrder, Plain, OnWire, HasReturned
  <2>4. Calm'
    BY <1>3, <1>11 DEF InGoodOrder, Owed, Calm, OnWire, HalfDone
  <2>5. Agreed'
    BY <1>3, <1>11, <2>1, <2>2 DEF Agreed
  <2>6. QED
    BY <2>2, <2>3, <2>4, <2>5 DEF InGoodOrder, Owed
<1>12. CASE GetPVT
  <2>1. PICK op \in {"getPVT", "getLatitude"} :
          /\ Begins(op)
          /\ IF autoPVT
             THEN /\ pc' = IF implicitUpdate THEN "poll" ELSE "returned"
                  /\ waiting' = "none" /\ seen' = {}
                  /\ UNCHANGED <<requested, status, packetVars, timer, parser, inbox,
                                 faults, undisturbed>>
             ELSE SendCommand("PVT", 0, packetCfg.payload, MaxWait)
          /\ UNCHANGED <<i2cPollingWait, navVars>>
    BY <1>12 DEF GetPVT
  <2>2. op \notin Modifiers
    BY DEF Modifiers
  <2>3. CASE autoPVT
    BY <1>11, <2>1, <2>3
  <2>4. CASE ~autoPVT
    BY <1>1, <1>2, <1>4, <2>1, <2>2, <2>4
  <2>5. QED
    BY <2>3, <2>4
<1>13. CASE CheckUblox
  BY <1>11, <1>13 DEF CheckUblox
<1>14. CASE GetFreshLatitude
  <2>1. /\ UNCHANGED <<call, stage, waiting, requested, packetCfg, commandAck, parser,
                       inbox, outbox, wire, sendsPVT, seen, pc, status>>
    BY <1>14 DEF GetFreshLatitude, callVars, packetVars, pollVars, receiver, observers
  <2>2. QED
    BY <2>1, QuietStepIsOrdered DEF Waits
<1>15. CASE AssumeAutoPVT
  <2>1. UNCHANGED <<call, stage, waiting, requested, packetCfg, commandAck, parser,
                    inbox, outbox, wire, sendsPVT, seen, pc, status>>
    BY <1>15 DEF AssumeAutoPVT, callVars, packetVars, pollVars, receiver
  <2>2. QED
    BY <2>1, QuietStepIsOrdered DEF Waits
<1>16. QED
  BY <1>5, <1>6, <1>7, <1>8, <1>9, <1>10, <1>12, <1>13, <1>14, <1>15 DEF Begin

\* Polls that find their way only move the thread on.
LEMMA PollIsOrdered ==
  ASSUME InGoodOrder, Poll \/ PollRefused \/ PollNotReady \/ ReadRefused, undisturbed'
  PROVE  InGoodOrder'
<1> USE DEF packetVars, pollVars, navVars, receiver, observers, Waits
<1>1. CASE Timeout \/ PollRefused \/ PollNotReady \/ ReadRefused
  BY <1>1 DEF Timeout, PollRefused, PollNotReady, ReadRefused
<1>2. CASE PollTooEarly
  BY <1>2, QuietStepIsOrdered DEF PollTooEarly
<1>3. CASE PollEmpty
  BY <1>3, QuietStepIsOrdered DEF PollEmpty, NextPoll
<1>4. CASE PollFull
  BY <1>4, QuietStepIsOrdered DEF PollFull
<1>5. QED
  BY <1>1, <1>2, <1>3, <1>4 DEF Poll

\* The first half of a frame: a solution if nothing is waited for, and else part
\* of the answer, or of a solution.
LEMMA HeaderIsOrdered ==
  ASSUME UbxInvariant, InGoodOrder, ReadHeader, undisturbed'
  PROVE  InGoodOrder'
<1>1. /\ pc = "read" /\ pc' \in {"look", "read"} /\ parser = "sync" /\ parser' = "frame"
      /\ UNCHANGED <<call, stage, waiting, requested, commandAck, inbox, outbox,
                     wire, sendsPVT, seen>>
  BY DEF ReadHeader, Reading, navVars, receiver
<1>2. Waits' <=> Waits
  BY <1>1 DEF Waits
<1>3. 1 \in OnWire /\ Head(wire) = wire[1] /\ wire[1] \in FrameSet
  <2>1. Len(wire) \in Nat /\ wire # <<>> /\ wire \in Seq(FrameSet)
    BY ReadingFacts DEF ReadHeader, UbxInvariant
  <2>2. Len(wire) >= 1
    BY <2>1
  <2>3. QED
    BY <2>1, <2>2 DEF OnWire
<1>4. wire[1].kind = "data" =>
        /\ packetCfg' = [id |-> wire[1].id, len |-> FrameLen[wire[1].id], valid |-> FALSE,
                         payload |-> IF wire[1].good THEN wire[1].id ELSE "bad"]
        /\ waiting = "ack" => wire[1].id = requested
  BY <1>3 DEF ReadHeader
<1>5. wire[1].kind # "data" => packetCfg' = packetCfg
  BY <1>3 DEF ReadHeader
<1>6. wire[1].good
  BY <1>3 DEF InGoodOrder, Plain
<1>7. Plain' /\ HasReturned' /\ Agreed'
  BY <1>1, <1>2 DEF InGoodOrder, Plain, OnWire, HasReturned, Agreed
<1>8. CASE ~Waits
  <2>1. Calm'
    BY <1>1, <1>8 DEF InGoodOrder, Owed, Calm, OnWire, HalfDone
  <2>2. QED
    BY <1>2, <1>7, <1>8, <2>1 DEF InGoodOrder, Owed
<1>9. CASE Waits /\ waiting = "ack"
  <2>1. AckIsOwed /\ DataComesFirst
    BY <1>9 DEF InGoodOrder, Owed
  <2>2. packetCfg'.id = requested
    BY <1>4, <1>5, <1>9, <2>1 DEF AckIsOwed
  <2>3. wire[1].id = requested
    BY <1>3, <1>4, <1>9, <2>1 DEF AckIsOwed, Own, Solution
  <2>4. AckIsOwed'
    BY <1>1, <2>1, <2>2, <2>3 DEF AckIsOwed, IsAsked, OnWire, Own, Solution
  <2>5. wire[1].kind = "data" => DataRead'
    <3>1. SUFFICES ASSUME wire[1].kind = "data" PROVE DataRead'
      OBVIOUS
    <3>2. FrameLen[wire[1].id] # 1
      BY <1>3, <3>1, FrameFacts, LengthFacts
    <3>3. QED
      BY <1>1, <1>4, <1>6, <2>3, <3>1, <3>2 DEF DataRead
  <2>6. wire[1].kind # "data" => (DataRead' <=> DataRead)
    BY <1>1, <1>5 DEF DataRead, NeedsData
  <2>7. DataComesFirst'
    <3>1. CASE wire[1].kind = "data"
      BY <1>1, <2>5, <3>1 DEF DataComesFirst
    <3>2. CASE wire[1].kind # "data"
      BY <1>1, <2>1, <2>6, <3>2 DEF DataComesFirst, NeedsData, OnWire, Own
    <3>3. QED
      BY <3>1, <3>2
  <2>8. QED
    BY <1>1, <1>2, <1>7, <1>9, <2>4, <2>7 DEF InGoodOrder, Owed
<1>10. CASE Waits /\ waiting = "noack"
  <2>1. AnswerIsOwed
    BY <1>10 DEF InGoodOrder, Owed
  <2>2. packetCfg'.id = wire[1].id
    BY <1>3, <1>4, <2>1 DEF AnswerIsOwed
  <2>3. AnswerIsOwed'
    BY <1>1, <1>3, <2>1, <2>2 DEF AnswerIsOwed, IsAsked, OnWire, Own, Solution, HalfDone
  <2>4. QED
    BY <1>1, <1>2, <1>7, <1>10, <2>3 DEF InGoodOrder, Owed
<1>11. QED
  <2>1. waiting \in {"ack", "noack", "none"}
    BY DEF UbxInvariant, TypeInvariant, TypeOK, CallOK
  <2>2. QED
    BY <1>8, <1>9, <1>10, <2>1 DEF Waits

\* The second half: the frame is gone, and the packet is as good as it came.
LEMMA ChecksumIsOrdered ==
  ASSUME UbxInvariant, InGoodOrder, ReadChecksum, undisturbed'
  PROVE  InGoodOrder'
<1>1. /\ pc = "read" /\ pc' \in {"look", "read"} /\ parser = "frame" /\ parser' = "sync"
      /\ UNCHANGED <<call, stage, waiting, requested, status, inbox, outbox,
                     sendsPVT>>
      /\ seen \subseteq seen'
  BY DEF ReadChecksum, Reading
<1>2. Waits' <=> Waits
  BY <1>1 DEF Waits
<1>3. 1 \in OnWire /\ Head(wire) = wire[1] /\ wire[1] \in FrameSet /\ packetCfg \in Packets
  <2>1. 1 \in OnWire /\ Head(wire) = wire[1] /\ wire \in Seq(FrameSet)
    BY <1>1, HalfReadIsThere DEF UbxInvariant
  <2>2. QED
    BY <2>1 DEF OnWire, UbxInvariant, TypeInvariant, TypeOK, PacketOK
<1>4. \A i \in OnWire' : i + 1 \in OnWire /\ wire'[i] = wire[i + 1] /\ i + 1 # 1
  <2>1. wire \in Seq(FrameSet) /\ wire # <<>> /\ wire' = Tail(wire)
    BY ReadingFacts DEF ReadChecksum, UbxInvariant
  <2>2. Len(wire') = Len(wire) - 1 /\ Len(wire) \in Nat
        /\ \A i \in 1..Len(wire') : wire'[i] = wire[i + 1]
    BY <2>1
  <2>3. QED
    BY <2>2 DEF OnWire
<1>5. \A i \in OnWire : i # 1 => i - 1 \in OnWire' /\ wire'[i - 1] = wire[i]
  <2>1. wire \in Seq(FrameSet) /\ wire # <<>> /\ wire' = Tail(wire)
    BY ReadingFacts DEF ReadChecksum, UbxInvariant
  <2>2. Len(wire') = Len(wire) - 1 /\ Len(wire) \in Nat
        /\ \A i \in 1..Len(wire') : wire'[i] = wire[i + 1]
    BY <2>1
  <2>3. QED
    BY <2>2 DEF OnWire
<1>6. wire[1].good /\ wire[1].good \in BOOLEAN /\ wire[1].kind \in {"data", "ack"}
  BY <1>3, FrameFacts DEF InGoodOrder, Plain
<1>7. /\ packetCfg'.id = packetCfg.id /\ packetCfg'.len = packetCfg.len
      /\ packetCfg'.payload = packetCfg.payload
  <2>1. \/ packetCfg' = Judged(packetCfg, wire[1].good)
        \/ packetCfg' = packetCfg
    BY <1>3 DEF ReadChecksum, ChecksumMatches
  <2>2. QED
    BY <1>3, <1>6, <2>1, JudgedFacts
<1>8. wire[1].kind = "data" => packetCfg'.valid /\ commandAck' = commandAck
  <2>1. SUFFICES ASSUME wire[1].kind = "data"
                 PROVE  packetCfg'.valid /\ commandAck' = commandAck
    OBVIOUS
  <2>2. packetCfg' = Judged(packetCfg, wire[1].good)
    BY <1>3, <2>1 DEF ReadChecksum, ChecksumMatches
  <2>3. commandAck' = commandAck
    BY <1>3, <2>1 DEF ReadChecksum
  <2>4. packetCfg'.valid = wire[1].good
    BY <1>3, <1>6, <2>2, JudgedFacts
  <2>5. QED
    BY <1>6, <2>3, <2>4
<1>9. Plain'
  BY <1>1, <1>4 DEF InGoodOrder, Plain
<1>10. HasReturned' /\ Agreed'
  BY <1>1, <1>2 DEF InGoodOrder, HasReturned, Agreed
<1>11. CASE ~Waits
  <2>1. Calm'
    BY <1>1, <1>4, <1>11 DEF InGoodOrder, Owed, Calm, HalfDone
  <2>2. QED
    BY <1>2, <1>9, <1>10, <1>11, <2>1 DEF InGoodOrder, Owed
<1>12. CASE Waits /\ waiting = "ack"
  <2>1. AckIsOwed /\ DataComesFirst
    BY <1>12 DEF InGoodOrder, Owed
  <2>2. wire[1].id = requested /\ packetCfg.id = requested
    BY <1>1, <2>1 DEF AckIsOwed, Own
  <2>3. inbox = <<>> /\ commandAck = "none"
    BY <1>3, <2>1, <2>2 DEF AckIsOwed, Own
  <2>4. DataRead
    <3>1. CASE wire[1].kind = "data"
      BY <1>1, <2>1, <3>1 DEF DataComesFirst
    <3>2. CASE wire[1].kind = "ack"
      <4>1. \A j \in OnWire : ~(j < 1)
        BY DEF OnWire
      <4>2. QED
        BY <1>3, <2>1, <3>2, <4>1 DEF DataComesFirst
    <3>3. QED
      BY <1>6, <3>1, <3>2
  <2>5. DataComesFirst'
    BY <1>1, <1>7, <2>4 DEF DataComesFirst, DataRead, NeedsData
  <2>6. IsAsked'
    BY <1>1, <2>3 DEF IsAsked
  <2>7. CASE wire[1].kind = "data"
    <3>1. commandAck' = "none"
      BY <1>8, <2>3, <2>7
    <3>2. ASSUME NEW i \in OnWire'
          PROVE  \/ Own(i)'
                 \/ Solution(i)' /\ \/ sendsPVT' \/ outbox' # <<>>
                                    \/ \E j \in OnWire' : i < j /\ wire'[j].kind = "ack"
      <4>1. i + 1 \in OnWire /\ wire'[i] = wire[i + 1] /\ i \in Nat
        BY <1>4, <3>2 DEF OnWire
      <4>2. CASE Own(i + 1)
        BY <1>1, <4>1, <4>2 DEF Own
      <4>3. CASE Solution(i + 1) /\ (sendsPVT \/ outbox # <<>>)
        BY <1>1, <4>1, <4>3 DEF Solution
      <4>4. CASE Solution(i + 1) /\ \E j \in OnWire : i + 1 < j /\ wire[j].kind = "ack"
        <5>1. PICK j \in OnWire : i + 1 < j /\ wire[j].kind = "ack"
          BY <4>4
        <5>2. j # 1 /\ i < j - 1
          BY <4>1, <5>1 DEF OnWire
        <5>3. j - 1 \in OnWire' /\ wire'[j - 1].kind = "ack"
          BY <1>5, <5>1, <5>2
        <5>4. Solution(i)'
          BY <4>1, <4>4 DEF Solution
        <5>5. QED
          BY <5>2, <5>3, <5>4
      <4>5. QED
        BY <2>1, <4>1, <4>2, <4>3, <4>4 DEF AckIsOwed
    <3>3. outbox # <<>> => \A i \in OnWire' : wire'[i].kind # "ack"
      BY <1>4, <2>1 DEF AckIsOwed
    <3>4. ASSUME NEW i \in OnWire', wire'[i].kind = "ack"
          PROVE  outbox = <<>> /\ \A j \in OnWire' : i < j => ~Own(j)'
      <4>1. i + 1 \in OnWire /\ wire[i + 1].kind = "ack"
        BY <1>4, <3>4
      <4>2. outbox = <<>> /\ \A j \in OnWire : i + 1 < j => ~Own(j)
        BY <2>1, <4>1 DEF AckIsOwed
      <4>3. ASSUME NEW j \in OnWire', i < j PROVE ~Own(j)'
        <5>1. j + 1 \in OnWire /\ wire'[j] = wire[j + 1] /\ i + 1 < j + 1
          BY <1>4, <3>4, <4>3 DEF OnWire
        <5>2. QED
          BY <1>1, <4>2, <5>1 DEF Own
      <4>4. QED
        BY <4>2, <4>3
    <3>5. AckIsOwed'
      BY <1>1, <1>7, <2>1, <2>2, <2>3, <2>6, <3>1, <3>2, <3>3, <3>4 DEF AckIsOwed
    <3>6. QED
      BY <1>1, <1>2, <1>9, <1>10, <1>12, <2>5, <3>5 DEF InGoodOrder, Owed
  <2>8. CASE wire[1].kind = "ack"
    <3>1. commandAck' = "ack"
      BY <1>3, <1>6, <2>2, <2>8 DEF ReadChecksum, ChecksumMatches, AckNames
    <3>2. <<"ack", TRUE>> \in seen'
      <4>1. seen' = seen \cup Sight(wire[1])
        BY <1>3, <1>6 DEF ReadChecksum
      <4>2. QED
        BY <1>3, <2>2, <2>8, <4>1, SightFacts
    <3>3. inbox = <<>> /\ outbox = <<>> /\ \A j \in OnWire : 1 < j => ~Own(j)
      BY <1>3, <2>1, <2>8 DEF AckIsOwed
    <3>4. \A i \in OnWire' : i + 1 \in OnWire /\ 1 < i + 1 /\ wire'[i] = wire[i + 1]
      BY <1>4 DEF OnWire
    <3>5. ASSUME NEW i \in OnWire'
          PROVE  ~Own(i)' /\ Solution(i)' /\ sendsPVT
      <4>1. ~Own(i + 1)
        BY <3>3, <3>4
      <4>2. ~\E j \in OnWire : i + 1 < j /\ wire[j].kind = "ack"
        <5>1. SUFFICES ASSUME NEW j \in OnWire, i + 1 < j, wire[j].kind = "ack"
                       PROVE  FALSE
          OBVIOUS
        <5>2. 1 < j
          BY <3>4, <5>1 DEF OnWire
        <5>3. Own(j)
          BY <2>1, <5>1 DEF AckIsOwed, Solution
        <5>4. QED
          BY <3>3, <5>2, <5>3
      <4>3. Solution(i + 1) /\ sendsPVT
        BY <2>1, <3>3, <3>4, <4>1, <4>2 DEF AckIsOwed
      <4>4. QED
        BY <1>1, <3>4, <4>1, <4>3 DEF Own, Solution
    <3>6. AckIsOwed'
      BY <1>1, <1>7, <2>1, <2>2, <2>6, <3>1, <3>2, <3>3, <3>5 DEF AckIsOwed, Solution
    <3>7. QED
      BY <1>1, <1>2, <1>9, <1>10, <1>12, <2>5, <3>6 DEF InGoodOrder, Owed
  <2>9. QED
    BY <1>6, <2>7, <2>8
<1>0. CASE Waits /\ waiting = "noack"
  <2>1. AnswerIsOwed
    BY <1>0 DEF InGoodOrder, Owed
  <2>2. packetCfg'.valid
    BY <1>3, <1>8, <2>1 DEF AnswerIsOwed
  <2>3. \A i \in OnWire' : (Own(i)' <=> Own(i + 1)) /\ (Solution(i)' <=> Solution(i + 1))
    BY <1>1, <1>4 DEF Own, Solution
  <2>4. IsAsked'
    BY <1>1, <2>1 DEF AnswerIsOwed, IsAsked
  <2>5. packetCfg.id = requested => \A i \in OnWire' : ~Own(i)'
    BY <1>4, <2>1, <2>3 DEF AnswerIsOwed, HalfDone
  <2>6. \A i, j \in OnWire' : Own(i)' /\ Own(j)' => i = j
    <3>1. SUFFICES ASSUME NEW i \in OnWire', NEW j \in OnWire', Own(i)', Own(j)'
                   PROVE  i = j
      OBVIOUS
    <3>2. i + 1 = j + 1
      BY <1>4, <2>1, <2>3, <3>1 DEF AnswerIsOwed
    <3>3. QED
      BY <3>2 DEF OnWire
  <2>7. \A i \in OnWire' : wire'[i].kind = "data" /\ (Own(i)' \/ (Solution(i)' /\ sendsPVT))
    BY <1>4, <2>1, <2>3 DEF AnswerIsOwed
  <2>8. inbox # <<>> \/ outbox # <<>> =>
          packetCfg.id # requested /\ \A i \in OnWire' : ~Own(i)'
    BY <1>4, <2>1, <2>3 DEF AnswerIsOwed
  <2>9. AnswerIsOwed'
    BY <1>1, <1>7, <2>1, <2>2, <2>4, <2>5, <2>6, <2>7, <2>8 DEF AnswerIsOwed
  <2>10. QED
    BY <1>1, <1>2, <1>9, <1>10, <1>0, <2>9 DEF InGoodOrder, Owed
<1>14. QED
  <2>1. waiting \in {"ack", "noack", "none"}
    BY DEF UbxInvariant, TypeInvariant, TypeOK, CallOK
  <2>2. QED
    BY <1>11, <1>12, <1>0, <2>1 DEF Waits

\* Nothing else is read as long as nothing went wrong.
LEMMA ReadIsOrdered ==
  ASSUME UbxInvariant, InGoodOrder, Read, undisturbed'
  PROVE  InGoodOrder'
BY HeaderIsOrdered, ChecksumIsOrdered
DEF Read, ReadDerailed, ReadSkipping, InGoodOrder, Plain

\* The wait loops return with the answer that belongs to the command, and leave
\* nothing of it behind but a frame that is half read.
LEMMA LookIsOrdered ==
  ASSUME UbxInvariant, InGoodOrder, Look, undisturbed'
  PROVE  InGoodOrder'
<1>1. /\ pc = "look"
      /\ UNCHANGED <<call, stage, waiting, requested, commandAck, parser, inbox,
                     outbox, wire, sendsPVT, seen>>
  BY DEF Look, LookForAck, LookForAnswer, LookOnce, LookUnchanged, pollVars, navVars,
     receiver, observers
<1>2. Plain' /\ pc' # "idle"
  BY <1>1 DEF Look, LookForAck, LookForAnswer, LookOnce, Returns, InGoodOrder, Plain, OnWire
<1>3. CASE LookForAck
  <2>1. AckIsOwed /\ DataComesFirst /\ Waits
    BY <1>1, <1>3 DEF LookForAck, Waits, InGoodOrder, Owed
  <2>2. CASE commandAck = "ack"
    <3>1. DataRead /\ <<"ack", TRUE>> \in seen
      BY <2>1, <2>2 DEF AckIsOwed, DataComesFirst
    <3>2. pc' = "returned" /\ status' = "DATA_SENT" /\ packetCfg' = packetCfg
      BY <1>3, <2>2, <3>1 DEF LookForAck, Returns, ExpectsData, DataRead
    <3>3. inbox = <<>> /\ outbox = <<>> /\ \A i \in OnWire : ~Own(i)
      BY <2>1, <2>2 DEF AckIsOwed
    <3>4. \A i \in OnWire : Solution(i) /\ sendsPVT
      BY <2>1, <3>3 DEF AckIsOwed, Solution
    <3>5. Calm'
      BY <1>1, <3>3, <3>4 DEF Calm, OnWire, Solution
    <3>6. parser = "sync"
      BY <2>1, <3>3, HalfReadIsThere DEF AckIsOwed, UbxInvariant, InGoodOrder, Plain
    <3>7. call # "hardReset"
      BY <2>1 DEF InGoodOrder, Agreed
    <3>8. ~Waits'
      BY <3>2 DEF Waits
    <3>9. HasReturned'
      BY <1>1, <1>3, <2>1, <3>1, <3>2, <3>3, <3>6, <3>7
         DEF HasReturned, DataRead, NeedsData, AckIsOwed, LookForAck
    <3>10. Agreed'
      BY <1>1, <1>2, <3>8 DEF InGoodOrder, Agreed
    <3>11. QED
      BY <1>2, <3>5, <3>8, <3>9, <3>10 DEF InGoodOrder, Owed
  <2>3. CASE commandAck = "none"
    <3>1. pc' = "poll" /\ UNCHANGED <<status, packetCfg>>
      BY <1>3, <2>3 DEF LookForAck
    <3>2. QED
      BY <1>1, <3>1, QuietStepIsOrdered DEF Waits
  <2>4. QED
    BY <2>1, <2>2, <2>3 DEF AckIsOwed
<1>4. CASE LookForAnswer
  <2>1. AnswerIsOwed /\ Waits /\ waiting = "noack"
    BY <1>1, <1>4 DEF LookForAnswer, Waits, InGoodOrder, Owed
  <2>2. CASE IsRequested
    <3>1. /\ pc' = "returned" /\ packetCfg' = packetCfg
          /\ status' = "DATA_RECEIVED" \/ (status' = "CRC_FAIL" /\ parser = "frame")
      BY <1>4, <2>1, <2>2 DEF LookForAnswer, Returns, IsRequested, AnswerIsOwed
    <3>2. inbox = <<>> /\ outbox = <<>> /\ \A i \in OnWire : Own(i) => HalfDone(i)
      BY <2>1, <2>2 DEF AnswerIsOwed, IsRequested
    <3>3. Calm'
      BY <1>1, <2>1, <3>2 DEF Calm, AnswerIsOwed, OnWire, Own, Solution, HalfDone
    <3>4. ~Waits' /\ call # "hardReset"
      BY <2>1, <3>1 DEF Waits, InGoodOrder, Agreed
    <3>5. HasReturned'
      BY <1>1, <2>1, <3>1, <3>4 DEF HasReturned
    <3>6. Agreed'
      BY <1>1, <1>2, <3>4 DEF InGoodOrder, Agreed, Waits
    <3>7. QED
      BY <1>2, <3>3, <3>4, <3>5, <3>6 DEF InGoodOrder, Owed
  <2>3. CASE ~IsRequested
    <3>1. pc' = "poll" /\ packetCfg' = Forgotten(packetCfg)
      BY <1>4, <2>3 DEF LookForAnswer
    <3>2. packetCfg'.id = "none" /\ "none" # requested
      <4>1. packetCfg \in Packets
        BY DEF UbxInvariant, TypeInvariant, TypeOK, PacketOK
      <4>2. "none" \notin NavIDs
        BY DEF NavIDs
      <4>3. QED
        BY <2>1, <3>1, <4>1, <4>2, ForgottenFacts DEF AnswerIsOwed
    <3>3. Waits' /\ waiting' = "noack"
      BY <1>1, <2>1, <3>1 DEF Waits
    <3>4. AnswerIsOwed'
      BY <1>1, <2>1, <3>2 DEF AnswerIsOwed, IsAsked, OnWire, Own, Solution
    <3>5. HasReturned' /\ Agreed'
      BY <1>1, <2>1, <3>1, <3>3 DEF HasReturned, InGoodOrder, Agreed
    <3>6. QED
      BY <1>2, <3>3, <3>4, <3>5 DEF InGoodOrder, Owed
  <2>4. QED
    BY <2>2, <2>3
<1>5. CASE LookOnce
  BY <1>1, <1>5, QuietStepIsOrdered DEF LookOnce, Waits
<1>6. QED
  BY <1>3, <1>4, <1>5 DEF Look

\* A setting is sent back under its own name, and an operation that ends leaves
\* driver and receiver in agreement.
LEMMA EndIsOrdered ==
  ASSUME UbxInvariant, InGoodOrder, End, undisturbed'
  PROVE  InGoodOrder'
<1>1. CASE WriteBack
  <2>1. /\ pc = "returned" /\ call \in Modifiers /\ stage' = 2 /\ ~Waits
        /\ UNCHANGED <<call, outbox, wire, sendsPVT>>
        /\ SendCommand(WriteBackID, WriteBackLen, packetCfg.payload, MaxWait)
    BY <1>1 DEF WriteBack, Waits
  <2>2. call # "hardReset"
    BY <2>1 DEF Modifiers
  <2>3. waiting = "ack" /\ requested \in SettingIDs
    BY <2>1 DEF InGoodOrder, Agreed
  <2>4. DataRead /\ packetCfg.id = requested /\ parser = "sync"
    BY <2>1, <2>2, <2>3 DEF InGoodOrder, HasReturned
  <2>5. WriteBackID \in SettingIDs /\ SettingIDs \subseteq IDs \ {"MSG", "PVT", "RST"}
    BY <2>3, <2>4 DEF WriteBackID, SettingIDs, IDs, CfgIDs
  <2>6. packetCfg.len \in Nat /\ packetCfg.payload \in Images /\ MaxWait \in Nat \ {0}
    BY PacketFacts, UbxAssumption DEF UbxInvariant, TypeInvariant, TypeOK, PacketOK
  <2>7. WriteBackLen \in Nat /\ WriteBackLen # 1
    BY <2>4, <2>6 DEF WriteBackLen, DataRead
  <2>8. ~NeedsData'
    BY <2>1 DEF NeedsData
  <2>9. QED
    BY <2>1, <2>2, <2>4, <2>5, <2>6, <2>7, <2>8, SendCommandIsOrdered
<1>2. ASSUME Done,
             UNCHANGED <<parser, inbox, outbox, wire, sendsPVT>>
      PROVE  InGoodOrder'
  <2>1. /\ pc = "returned" /\ pc' = "idle" /\ call' = "none" /\ waiting' = "none"
        /\ ~Waits /\ ~Waits'
    BY <1>2 DEF Done, Waits
  <2>2. "none" \notin Modifiers
    BY DEF Modifiers
  <2>3. Plain' /\ HasReturned'
    BY <1>2, <2>1 DEF InGoodOrder, Plain, OnWire, HasReturned
  <2>4. Calm'
    BY <1>2, <2>1 DEF InGoodOrder, Owed, Calm, OnWire, HalfDone
  <2>5. Agreed'
    BY <1>2, <2>1, <2>2 DEF Agreed
  <2>6. QED
    BY <2>1, <2>3, <2>4, <2>5 DEF InGoodOrder, Owed
<1>3. CASE FinishSetAutoPVT \/ FinishGetPVT \/ Finish
  BY <1>2, <1>3 DEF FinishSetAutoPVT, FinishGetPVT, Finish, pollVars, receiver
<1>4. QED
  BY <1>1, <1>3 DEF End

\* Two answers, one after the other.
LEMMA TwoInARow ==
  ASSUME NEW d, NEW a
  PROVE  <<d>> \o <<a>> = <<d, a>>
<1> DEFINE S == {d, a}
           r == <<d>> \o <<a>>
           t == <<d, a>>
<1>1. <<d>> \in Seq(S) /\ <<a>> \in Seq(S) /\ t \in Seq(S)
  OBVIOUS
<1>2. Len(r) = 2 /\ r[1] = d /\ r[2] = a /\ r \in Seq(S)
  BY <1>1
<1>3. Len(t) = 2 /\ t[1] = d /\ t[2] = a
  OBVIOUS
<1> HIDE DEF S, r, t
<1>4. ASSUME NEW i \in 1..Len(r) PROVE r[i] = t[i]
  <2>1. i = 1 \/ i = 2
    BY <1>2
  <2>2. QED
    BY <1>2, <1>3, <2>1
<1>5. r = t
  BY <1>1, <1>2, <1>3, <1>4, SeqEqual
<1>6. QED
  BY <1>5 DEF r, t

\* The receiver looks at the command that is waited for.
LEMMA AnswerCommandIsOrdered ==
  ASSUME UbxInvariant, InGoodOrder, AnswerCommand, undisturbed'
  PROVE  InGoodOrder'
<1> DEFINE c == Head(inbox)
<1>1. /\ inbox # <<>> /\ c.id # "RST" /\ inbox' = Tail(inbox) /\ outbox' = Answer(c)
      /\ sendsPVT' = ReportsAfter(c)
      /\ UNCHANGED <<pc, call, stage, waiting, requested, status, packetCfg, commandAck,
                     parser, wire, seen>>
  BY DEF AnswerCommand, callVars, packetVars, pollVars, navVars, observers
<1>2. Waits /\ Waits'
  BY <1>1 DEF InGoodOrder, Owed, Calm, Waits
<1>3. IsAsked /\ inbox \in Seq(CommandSet)
  BY <1>2 DEF Waits, InGoodOrder, Owed, AckIsOwed, AnswerIsOwed, UbxInvariant,
              TypeInvariant, TypeOK, CallOK, ReceiverOK
<1>4. Len(inbox) = 1 /\ c.id = requested
  BY <1>1, <1>3 DEF IsAsked
<1>5. inbox' = <<>>
  BY <1>1, <1>3, <1>4
<1> HIDE DEF c
<1>6. Plain' /\ HasReturned'
  BY <1>1, <1>2 DEF InGoodOrder, Plain, OnWire, HasReturned, Waits
<1>7. Agreed'
  BY <1>1, <1>2 DEF InGoodOrder, Agreed
<1>8. IsAsked'
  BY <1>5 DEF IsAsked
<1>9. CASE waiting = "ack"
  <2>1. AckIsOwed /\ DataComesFirst
    BY <1>2, <1>9 DEF InGoodOrder, Owed
  <2>2. requested \in CfgIDs
    BY <2>1 DEF AckIsOwed
  <2>3. outbox' = (IF Polled(c) THEN <<Data(requested), Ack(requested)>> ELSE <<Ack(requested)>>)
    <3>1. CASE Polled(c)
      <4>1. <<Data(requested)>> \o <<Ack(requested)>> = <<Data(requested), Ack(requested)>>
        BY TwoInARow
      <4>2. Answer(c) = <<Data(requested)>> \o <<Ack(requested)>>
        BY <1>4, <2>2, <3>1, Zenon DEF Answer
      <4>3. QED
        BY <1>1, <3>1, <4>1, <4>2
    <3>2. CASE ~Polled(c)
      BY <1>1, <1>4, <2>2, <3>2 DEF Answer
    <3>3. QED
      BY <3>1, <3>2
  <2>4. outbox' # <<>> /\ (outbox' = <<Ack(requested)>> => ~Polled(c))
    BY <2>3
  <2>5. \A i \in OnWire : ~Own(i) /\ Solution(i) /\ wire[i].kind # "ack"
    BY <1>1, <2>1 DEF AckIsOwed, Solution
  <2>6. commandAck = "none"
    BY <1>1, <2>1 DEF AckIsOwed
  <2>7. AckIsOwed'
    BY <1>1, <1>5, <1>8, <2>1, <2>3, <2>4, <2>5, <2>6 DEF AckIsOwed, OnWire, Own, Solution
  <2>8. DataComesFirst'
    <3>1. ~DataRead => Polled(c)
      BY <1>1, <2>1 DEF DataComesFirst, c
    <3>2. DataRead' <=> DataRead
      BY <1>1 DEF DataRead, NeedsData
    <3>3. parser = "frame" /\ wire[1].kind = "data" => DataRead
      BY <2>1 DEF DataComesFirst
    <3>4. ~DataRead => NeedsData /\ commandAck = "none"
      BY <2>1 DEF DataComesFirst
    <3>5. QED
      BY <1>1, <1>5, <2>4, <2>5, <3>1, <3>2, <3>3, <3>4 DEF DataComesFirst, NeedsData, OnWire
  <2>9. QED
    BY <1>1, <1>2, <1>6, <1>7, <1>9, <2>7, <2>8 DEF InGoodOrder, Owed
<1>10. CASE waiting = "noack"
  <2>1. AnswerIsOwed
    BY <1>2, <1>10 DEF InGoodOrder, Owed
  <2>2. requested \in NavIDs /\ requested \notin CfgIDs
    BY <2>1 DEF AnswerIsOwed, NavIDs, CfgIDs
  <2>3. outbox' = <<Data(requested)>>
    BY <1>1, <1>4, <2>2 DEF Answer, Polled
  <2>4. sendsPVT' = sendsPVT
    BY <1>1, <1>4, <2>2 DEF ReportsAfter, CfgIDs
  <2>5. packetCfg.id # requested /\ \A i \in OnWire : ~Own(i)
    BY <1>1, <2>1 DEF AnswerIsOwed
  <2>6. AnswerIsOwed'
    BY <1>1, <1>8, <2>1, <2>3, <2>4, <2>5 DEF AnswerIsOwed, OnWire, Own, Solution
  <2>7. QED
    BY <1>1, <1>2, <1>6, <1>7, <1>10, <2>6 DEF InGoodOrder, Owed
<1>11. QED
  <2>1. waiting \in {"ack", "noack", "none"}
    BY DEF UbxInvariant, TypeInvariant, TypeOK, CallOK
  <2>2. QED
    BY <1>2, <1>9, <1>10, <2>1 DEF Waits

\* A frame more in the receiver's buffer.
LEMMA AppendedFrame ==
  ASSUME wire \in Seq(FrameSet), NEW f \in FrameSet, wire' = Append(wire, f)
  PROVE  /\ Len(wire) \in Nat /\ Len(wire) + 1 \in OnWire' /\ wire'[Len(wire) + 1] = f
         /\ \A i \in OnWire : i \in OnWire' /\ wire'[i] = wire[i] /\ i < Len(wire) + 1
         /\ \A i \in OnWire' : i \in OnWire \/ i = Len(wire) + 1
BY DEF OnWire

\* It sends what it has to say, in order.
LEMMA EmitIsOrdered ==
  ASSUME UbxInvariant, InGoodOrder, Emit, undisturbed'
  PROVE  InGoodOrder'
<1> DEFINE f == Frame(Head(outbox), TRUE)
<1>1. /\ outbox # <<>> /\ outbox' = Tail(outbox) /\ wire' = Append(wire, f)
      /\ UNCHANGED <<pc, call, stage, waiting, requested, status, packetCfg, commandAck,
                     parser, inbox, sendsPVT, seen>>
  BY DEF Emit, callVars, packetVars, pollVars, navVars
<1>2. Waits /\ Waits'
  BY <1>1 DEF InGoodOrder, Owed, Calm, Waits
<1>3. /\ wire \in Seq(FrameSet) /\ f \in FrameSet
      /\ f.kind = Head(outbox).kind /\ f.id = Head(outbox).id /\ f.good
  <2>1. outbox \in Seq(ReplySet) /\ wire \in Seq(FrameSet)
    BY DEF UbxInvariant, TypeInvariant, TypeOK, ReceiverOK
  <2>2. Head(outbox) \in ReplySet
    BY <1>1, <2>1
  <2>3. QED
    BY <2>1, <2>2, FrameFacts DEF Frame
<1> HIDE DEF f
<1>0. PICK n \in Nat : n = Len(wire) + 1
  BY <1>3
<1>4. /\ n \in OnWire' /\ wire'[n] = f
      /\ \A i \in OnWire : i \in OnWire' /\ wire'[i] = wire[i] /\ i < n
      /\ \A i \in OnWire' : i \in OnWire \/ i = n
  BY <1>1, <1>3, <1>0, AppendedFrame
<1>5. /\ HasReturned' /\ Agreed'
      /\ parser = "frame" => wire'[1] = wire[1]
  BY <1>1, <1>2, <1>4, HalfReadIsThere DEF InGoodOrder, HasReturned, Agreed, Waits,
     UbxInvariant
<1>6. \A i \in OnWire : (Own(i)' <=> Own(i)) /\ (Solution(i)' <=> Solution(i))
  BY <1>1, <1>4 DEF Own, Solution
<1>7. ASSUME f.kind \in {"data", "ack"} PROVE Plain'
  <2>1. \A i \in OnWire' : wire'[i].good /\ wire'[i].kind \in {"data", "ack"}
    BY <1>3, <1>4, <1>7 DEF InGoodOrder, Plain
  <2>2. QED
    BY <1>1, <2>1 DEF InGoodOrder, Plain
<1>8. CASE waiting = "ack"
  <2>1. AckIsOwed /\ DataComesFirst
    BY <1>2, <1>8 DEF InGoodOrder, Owed
  <2>2. /\ outbox = <<Ack(requested)>> \/ outbox = <<Data(requested), Ack(requested)>>
        /\ inbox = <<>> /\ commandAck = "none" /\ \A i \in OnWire : wire[i].kind # "ack"
    BY <1>1, <2>1 DEF AckIsOwed, IsAsked
  <2>3. \/ f.kind = "data" /\ f.id = requested /\ outbox' = <<Ack(requested)>>
        \/ /\ f.kind = "ack" /\ f.id = requested /\ outbox' = <<>>
           /\ outbox = <<Ack(requested)>>
    <3>1. ASSUME NEW r, NEW a, r = <<a>>
          PROVE  Head(r) = a /\ Tail(r) = <<>>
      BY <3>1
    <3>2. ASSUME NEW r, NEW d, NEW a, r = <<d, a>>
          PROVE  Head(r) = d /\ Tail(r) = <<a>>
      BY <3>2
    <3>3. CASE outbox = <<Ack(requested)>>
      <4>1. Head(outbox) = Ack(requested) /\ outbox' = <<>>
        BY <1>1, <3>1, <3>3
      <4>2. QED
        BY <1>3, <3>3, <4>1 DEF Ack
    <3>4. CASE outbox = <<Data(requested), Ack(requested)>>
      <4>1. Head(outbox) = Data(requested) /\ outbox' = <<Ack(requested)>>
        BY <1>1, <3>2, <3>4
      <4>2. QED
        BY <1>3, <4>1 DEF Data
    <3>5. QED
      BY <2>2, <3>3, <3>4
  <2>4. Plain'
    BY <1>7, <2>3
  <2>5. Own(n)'
    BY <1>1, <1>4, <2>3 DEF Own
  <2>6. IsAsked'
    BY <1>1, <2>2 DEF IsAsked
  <2>7. parser = "frame" => Own(1)'
    BY <1>1, <1>5, <2>1 DEF AckIsOwed, Own
  <2>8. <<Ack(requested)>> # <<>>
    OBVIOUS
  <2>9. CASE f.kind = "data" /\ outbox' = <<Ack(requested)>>
    <3>1. \A i \in OnWire' : wire'[i].kind # "ack" /\ (Own(i)' \/ Solution(i)')
      BY <1>4, <1>6, <2>1, <2>2, <2>5, <2>9 DEF AckIsOwed
    <3>2. AckIsOwed'
      BY <1>1, <2>1, <2>2, <2>6, <2>7, <2>8, <2>9, <3>1 DEF AckIsOwed
    <3>3. DataComesFirst'
      BY <1>1, <1>4, <1>5, <2>1, <2>2, <2>5, <2>9, <3>1 DEF DataComesFirst, DataRead, NeedsData
    <3>4. QED
      BY <1>1, <1>2, <1>5, <1>8, <2>4, <3>2, <3>3 DEF InGoodOrder, Owed
  <2>10. CASE f.kind = "ack" /\ outbox' = <<>> /\ outbox = <<Ack(requested)>>
    <3>1. ASSUME NEW i \in OnWire'
          PROVE  \/ Own(i)'
                 \/ Solution(i)' /\ \E j \in OnWire' : i < j /\ wire'[j].kind = "ack"
      BY <1>4, <1>6, <2>1, <2>5, <2>10, <3>1 DEF AckIsOwed
    <3>2. ASSUME NEW i \in OnWire', wire'[i].kind = "ack"
          PROVE  i = n /\ \A j \in OnWire' : ~(i < j)
      <4>1. i = n
        BY <1>4, <2>2, <3>2
      <4>2. \A j \in OnWire' : ~(n < j)
        BY <1>1, <1>3, <1>4, <1>0 DEF OnWire
      <4>3. QED
        BY <4>1, <4>2
    <3>3. AckIsOwed'
      BY <1>1, <2>1, <2>2, <2>6, <2>7, <2>10, <3>1, <3>2 DEF AckIsOwed
    <3>4. DataComesFirst'
      <4>1. DataRead' <=> DataRead
        BY <1>1 DEF DataRead, NeedsData
      <4>2. ASSUME ~DataRead
            PROVE  \E j \in OnWire' : j < n /\ wire'[j].kind = "data" /\ Own(j)'
        BY <1>4, <1>6, <2>1, <2>10, <4>2 DEF DataComesFirst
      <4>3. outbox' # <<Ack(requested)>>'
        BY <2>10
      <4>4. QED
        BY <1>1, <1>5, <2>1, <2>2, <3>2, <4>1, <4>2, <4>3 DEF DataComesFirst, NeedsData
    <3>5. QED
      BY <1>1, <1>2, <1>5, <1>8, <2>4, <3>3, <3>4 DEF InGoodOrder, Owed
  <2>11. QED
    BY <2>3, <2>9, <2>10
<1>9. CASE waiting = "noack"
  <2>1. AnswerIsOwed
    BY <1>2, <1>9 DEF InGoodOrder, Owed
  <2>2. outbox = <<Data(requested)>> /\ inbox = <<>>
    BY <1>1, <2>1 DEF AnswerIsOwed, IsAsked
  <2>3. f.kind = "data" /\ f.id = requested /\ outbox' = <<>>
    BY <1>1, <1>3, <2>2 DEF Data
  <2>4. packetCfg.id # requested /\ \A i \in OnWire : ~Own(i)
    BY <1>1, <2>1 DEF AnswerIsOwed
  <2>5. Own(n)' /\ wire'[n].kind = "data"
    BY <1>1, <1>4, <2>3 DEF Own
  <2>6. \A i \in OnWire' : Own(i)' <=> i = n
    BY <1>4, <1>6, <2>4, <2>5
  <2>7. \A i \in OnWire' : wire'[i].kind = "data" /\ (Own(i)' \/ (Solution(i)' /\ sendsPVT))
    BY <1>4, <1>6, <2>1, <2>5 DEF AnswerIsOwed
  <2>8. IsAsked'
    BY <1>1, <2>2 DEF IsAsked
  <2>9. AnswerIsOwed'
    BY <1>1, <2>1, <2>2, <2>3, <2>4, <2>6, <2>7, <2>8 DEF AnswerIsOwed
  <2>10. QED
    BY <1>1, <1>2, <1>5, <1>7, <1>9, <2>3, <2>9 DEF InGoodOrder, Owed
<1>10. QED
  <2>1. waiting \in {"ack", "noack", "none"}
    BY DEF UbxInvariant, TypeInvariant, TypeOK, CallOK
  <2>2. QED
    BY <1>2, <1>8, <1>9, <2>1 DEF Waits

\* A solution comes when it was asked for, and is the answer to nothing then.
LEMMA SolutionIsOrdered ==
  ASSUME UbxInvariant, InGoodOrder, SendSolution, undisturbed'
  PROVE  InGoodOrder'
<1> DEFINE f == Frame(Data("PVT"), TRUE)
<1>1. /\ sendsPVT /\ wire' = Append(wire, f)
      /\ UNCHANGED <<pc, call, stage, waiting, requested, status, packetCfg, commandAck,
                     parser, inbox, outbox, sendsPVT, seen>>
  BY DEF SendSolution, callVars, packetVars, pollVars, navVars, observers
<1>2. wire \in Seq(FrameSet) /\ f \in FrameSet /\ f.kind = "data" /\ f.id = "PVT" /\ f.good
  BY FrameFacts DEF UbxInvariant, TypeInvariant, TypeOK, ReceiverOK, Frame, Data
<1> HIDE DEF f
<1>0. PICK n \in Nat : n = Len(wire) + 1
  BY <1>2
<1>3. /\ n \in OnWire' /\ wire'[n] = f
      /\ \A i \in OnWire : i \in OnWire' /\ wire'[i] = wire[i] /\ i < n
      /\ \A i \in OnWire' : i \in OnWire \/ i = n
  BY <1>1, <1>2, <1>0, AppendedFrame
<1>4. /\ HasReturned' /\ Agreed' /\ (Waits' <=> Waits)
      /\ parser = "frame" => wire'[1] = wire[1]
  BY <1>1, <1>3, HalfReadIsThere
  DEF InGoodOrder, HasReturned, DataRead, NeedsData, Agreed, Waits, UbxInvariant
<1>5. \A i \in OnWire : (Own(i)' <=> Own(i)) /\ (Solution(i)' <=> Solution(i))
  BY <1>1, <1>3 DEF Own, Solution
<1>6. Solution(n)' /\ wire'[n].kind = "data"
  BY <1>2, <1>3 DEF Solution
<1>7. Plain'
  <2>1. \A i \in OnWire' : wire'[i].good /\ wire'[i].kind \in {"data", "ack"}
    BY <1>2, <1>3 DEF InGoodOrder, Plain
  <2>2. QED
    BY <1>1, <2>1 DEF InGoodOrder, Plain
<1>8. IsAsked => IsAsked'
  BY <1>1 DEF IsAsked
<1>9. CASE ~Waits
  <2>1. Calm
    BY <1>9 DEF InGoodOrder, Owed
  <2>2. \A i \in OnWire' :
          wire'[i].kind = "data" /\ (HalfDone(i)' \/ (wire'[i].id = "PVT" /\ sendsPVT))
    BY <1>1, <1>2, <1>3, <2>1 DEF Calm, HalfDone
  <2>3. Calm'
    BY <1>1, <2>1, <2>2 DEF Calm
  <2>4. QED
    BY <1>4, <1>7, <1>9, <2>3 DEF InGoodOrder, Owed
<1>10. CASE Waits /\ waiting = "ack"
  <2>1. AckIsOwed /\ DataComesFirst
    BY <1>10 DEF InGoodOrder, Owed
  <2>2. ~Own(n)'
    <3>1. "PVT" \notin CfgIDs
      BY DEF CfgIDs
    <3>2. QED
      BY <1>1, <1>2, <1>3, <2>1, <3>1 DEF AckIsOwed, Own
  <2>3. \A i \in OnWire' :
          \/ Own(i)'
          \/ Solution(i)' /\ \/ sendsPVT' \/ outbox' # <<>>
                             \/ \E j \in OnWire' : i < j /\ wire'[j].kind = "ack"
    BY <1>1, <1>3, <1>5, <1>6, <2>1 DEF AckIsOwed
  <2>4. \A i \in OnWire' : Own(i)' \/ wire'[i].kind = "ack" =>
          i \in OnWire /\ (Own(i)' <=> Own(i)) /\ wire'[i] = wire[i]
    BY <1>3, <1>5, <1>6, <2>2
  <2>5. parser = "frame" => Own(1)'
    BY <1>1, <1>4, <2>1 DEF AckIsOwed, Own
  <2>6. \A i \in OnWire' : wire'[i].kind = "ack" =>
          inbox = <<>> /\ outbox = <<>> /\ \A j \in OnWire' : i < j => ~Own(j)'
    BY <2>1, <2>4 DEF AckIsOwed
  <2>7. AckIsOwed'
    BY <1>1, <1>8, <2>1, <2>3, <2>4, <2>5, <2>6 DEF AckIsOwed
  <2>8. DataComesFirst'
    <3>1. DataRead' <=> DataRead
      BY <1>1 DEF DataRead, NeedsData
    <3>2. ASSUME ~DataRead, NEW i \in OnWire', wire'[i].kind = "ack"
          PROVE  \E j \in OnWire' : j < i /\ wire'[j].kind = "data" /\ Own(j)'
      <4>1. PICK j \in OnWire : j < i /\ wire[j].kind = "data" /\ Own(j)
        BY <2>1, <2>4, <3>2 DEF DataComesFirst
      <4>2. QED
        BY <1>3, <1>5, <4>1
    <3>3. ASSUME ~DataRead, outbox = <<Ack(requested)>>
          PROVE  \E i \in OnWire' : wire'[i].kind = "data" /\ Own(i)'
      <4>1. PICK j \in OnWire : wire[j].kind = "data" /\ Own(j)
        BY <2>1, <3>3 DEF DataComesFirst
      <4>2. QED
        BY <1>3, <1>5, <4>1
    <3>4. QED
      BY <1>1, <1>4, <2>1, <3>1, <3>2, <3>3 DEF DataComesFirst, NeedsData
  <2>9. QED
    BY <1>1, <1>4, <1>7, <1>10, <2>7, <2>8 DEF InGoodOrder, Owed
<1>11. CASE Waits /\ waiting = "noack"
  <2>1. AnswerIsOwed
    BY <1>11 DEF InGoodOrder, Owed
  <2>2. ~Own(n)'
    BY <1>1, <1>2, <1>3, <2>1 DEF AnswerIsOwed, Own
  <2>3. \A i \in OnWire' : wire'[i].kind = "data" /\ (Own(i)' \/ (Solution(i)' /\ sendsPVT))
    BY <1>1, <1>3, <1>5, <1>6, <2>1 DEF AnswerIsOwed
  <2>4. \A i \in OnWire' : Own(i)' => i \in OnWire /\ Own(i)
    BY <1>3, <1>5, <2>2
  <2>5. \A i, j \in OnWire' : Own(i)' /\ Own(j)' => i = j
    BY <2>1, <2>4 DEF AnswerIsOwed
  <2>6. packetCfg.id = requested => \A i \in OnWire' : Own(i)' => HalfDone(i)'
    BY <1>1, <2>1, <2>4 DEF AnswerIsOwed, HalfDone
  <2>7. AnswerIsOwed'
    BY <1>1, <1>8, <2>1, <2>3, <2>4, <2>5, <2>6 DEF AnswerIsOwed
  <2>8. QED
    BY <1>1, <1>4, <1>7, <1>11, <2>7 DEF InGoodOrder, Owed
<1>12. QED
  <2>1. waiting \in {"ack", "noack", "none"}
    BY DEF UbxInvariant, TypeInvariant, TypeOK, CallOK
  <2>2. QED
    BY <1>9, <1>10, <1>11, <2>1 DEF Waits

\* As long as nothing went wrong, what is under way belongs to the command.
LEMMA NextIsOrdered ==
  UbxInvariant /\ OrderInvariant /\ [Next]_vars => OrderInvariant'
<1> SUFFICES ASSUME UbxInvariant, OrderInvariant, [Next]_vars, undisturbed'
             PROVE  InGoodOrder'
  BY DEF OrderInvariant
<1>1. ASSUME undisturbed, UNCHANGED vars PROVE InGoodOrder'
  <2>1. /\ Waits' <=> Waits
        /\ UNCHANGED <<pc, status, call, stage, waiting, requested, packetCfg, commandAck,
                       parser, inbox, outbox, wire, sendsPVT, seen>>
    BY <1>1 DEF vars, callVars, packetVars, pollVars, navVars, receiver, observers, Waits
  <2>2. QED
    BY <1>1, <2>1, QuietStepIsOrdered DEF OrderInvariant
<1>2. undisturbed
  <2>1. \A id, len, payload, maxWait : SendCommand(id, len, payload, maxWait) => undisturbed
    BY DEF SendCommand, SendI2cCommand
  <2>2. Begin => undisturbed
    BY <2>1 DEF Begin, Query, QueryPort, SetNavigationFrequency, GetPVT, GetFreshLatitude,
       CheckUblox, Order, SetAutoPVT, AssumeAutoPVT, HardReset, observers
  <2>3. Poll \/ PollRefused \/ PollNotReady \/ ReadRefused => undisturbed
    BY DEF Poll, Timeout, PollTooEarly, PollEmpty, PollFull, PollRefused, PollNotReady,
       ReadRefused, observers
  <2>4. Read => undisturbed
    BY DEF Read, ReadHeader, ReadChecksum, ReadDerailed, ReadSkipping, observers
  <2>5. Look => undisturbed
    BY DEF Look, LookForAck, LookForAnswer, LookOnce, LookUnchanged, observers
  <2>6. End => undisturbed
    BY <2>1 DEF End, WriteBack, FinishSetAutoPVT, FinishGetPVT, Finish
  <2>7. Receive \/ Emit \/ SendSolution \/ Tick => undisturbed
    BY DEF Receive, AnswerCommand, RefuseCommand, IgnoreCommand, Restart, Emit,
       SendSolution, Tick, observers
  <2>8. UNCHANGED vars => undisturbed
    BY DEF vars, observers
  <2>9. QED
    BY <2>2, <2>3, <2>4, <2>5, <2>6, <2>7, <2>8 DEF Next
<1>3. ASSUME Tick PROVE InGoodOrder'
  <2>1. /\ Waits' <=> Waits
        /\ UNCHANGED <<pc, status, call, stage, waiting, requested, packetCfg, commandAck,
                       parser, inbox, outbox, wire, sendsPVT, seen>>
    BY <1>3 DEF Tick, callVars, packetVars, navVars, receiver, observers, Waits
  <2>2. QED
    BY <1>2, <2>1, QuietStepIsOrdered DEF OrderInvariant
<1>4. ASSUME Receive PROVE InGoodOrder'
  BY <1>2, <1>4, AnswerCommandIsOrdered
  DEF Receive, RefuseCommand, IgnoreCommand, Restart, OrderInvariant
<1>5. QED
  BY <1>1, <1>2, <1>3, <1>4, BeginIsOrdered, PollIsOrdered, ReadIsOrdered, LookIsOrdered,
     EndIsOrdered, EmitIsOrdered, SolutionIsOrdered DEF Next, OrderInvariant

\* At power-up nothing is waited for and nothing is under way.
LEMMA InitIsOrdered == Init => OrderInvariant
<1> SUFFICES ASSUME Init PROVE InGoodOrder
  BY DEF OrderInvariant
<1>1. ~Waits /\ wire = <<>> /\ OnWire = {}
  BY DEF Init, Waits, OnWire
<1>2. Calm /\ Plain
  BY <1>1 DEF Init, Calm, Plain
<1>3. HasReturned /\ Agreed
  BY <1>1 DEF Init, HasReturned, Agreed, Modifiers
<1>4. QED
  BY <1>1, <1>2, <1>3 DEF InGoodOrder, Owed

\* So it is in every state that is reached.
LEMMA CommandsAreOrdered == Spec => [](UbxInvariant /\ OrderInvariant)
BY InitIsSound, NextIsSound, InitIsOrdered, NextIsOrdered, PTL DEF Spec

\* A command whose bus and answer nothing disturbed has what belongs to it, an
\* answer to a poll before its acknowledgement, for any operations, waits and sizes
\* of the receiver's buffers; a status of 0 is that of the reset, which nobody
\* waits for, and what the driver then writes back is the register it asked for.
THEOREM UndisturbedCommandsWork == Spec => []CommandsWork
<1>1. UbxInvariant /\ OrderInvariant => CommandsWork
  <2> SUFFICES ASSUME UbxInvariant, OrderInvariant, undisturbed, pc = "returned",
                      waiting # "none"
               PROVE  \/ /\ status = "DATA_SENT" /\ <<"ack", TRUE>> \in seen
                         /\ call \in Modifiers /\ stage = 1 => packetCfg.payload = requested
                      \/ status = "DATA_RECEIVED"
                      \/ status = "CRC_FAIL" /\ parser = "frame"
                      \/ status = "SUCCESS" /\ call = "hardReset"
    BY DEF CommandsWork
  <2>1. HasReturned
    BY DEF OrderInvariant, InGoodOrder
  <2>2. waiting \in {"ack", "noack"}
    BY DEF UbxInvariant, TypeInvariant, TypeOK, CallOK
  <2>3. QED
    BY <2>1, <2>2 DEF HasReturned, DataRead, NeedsData
<1>2. QED
  BY <1>1, CommandsAreOrdered, PTL

=============================================================================
