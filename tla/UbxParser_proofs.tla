-------------------------- MODULE UbxParser_proofs --------------------------
(***************************************************************************)
(* Theorems about UbxParser for every value of its constants: types, the   *)
(* bound on a frame, that a frame that begins in good order is taken, and  *)
(* that an answer stays in its buffer while its ACK comes in.              *)
(***************************************************************************)
EXTENDS UbxParser, SequenceTheorems, TLAPS

FrameType == [cls : Byte, id : Byte, payload : Seq(Byte)]

----------------------------------------------------------------------------
(***************************************************************************)
(* Facts about one byte.                                                   *)
(***************************************************************************)
\* Every frame that is sent, NoFrame's included, has a payload of bytes whose
\* length fits two of them.
LEMMA FrameFacts ==
  ASSUME ReceiverTypes
  PROVE  /\ sending.frame \in FrameType /\ Len(sending.frame.payload) \in Nat
         /\ Len(sending.frame.payload) < 65536
         /\ sending.pos \in Nat /\ sending.a \in Byte /\ sending.b \in Byte
<1>1. sending.frame \in FrameType
  <2>1. NoFrame.frame \in FrameType
    <3>1. <<>> \in Seq(Byte) /\ 0 \in Byte
      BY DEF Byte
    <3> QED
      BY <3>1 DEF NoFrame, FrameType
  <2> QED
    BY <2>1, ParserAssumption DEF ReceiverTypes, Transmission, FrameType
<1>2. CASE sending.frame \in Frames
  BY <1>1, <1>2, ParserAssumption DEF ReceiverTypes, Transmission, FrameType
<1>3. CASE sending.frame = NoFrame.frame
  BY <1>1, <1>3 DEF ReceiverTypes, Transmission, FrameType, NoFrame
<1> QED
  BY <1>2, <1>3 DEF ReceiverTypes, Transmission

\* The receiver sends bytes.
LEMMA SentBytes ==
  ASSUME ReceiverTypes
  PROVE  ByteAt(sending) \in Byte
<1> DEFINE n == Len(sending.frame.payload)
           octet == sending.frame.payload[sending.pos - 5]
<1>1. n \in Nat /\ n < 65536 /\ sending.frame \in FrameType
      /\ sending.pos \in Nat /\ sending.a \in Byte /\ sending.b \in Byte
  BY FrameFacts
<1> HIDE DEF n
<1>2. n % 256 \in Byte /\ n \div 256 \in Byte
  BY <1>1 DEF Byte
<1>3. sending.pos \in 6..(n + 5) => octet \in Byte
  <2> SUFFICES ASSUME sending.pos \in 6..(n + 5)
               PROVE  octet \in Byte
    OBVIOUS
  <2>1. sending.pos - 5 \in 1..n
    BY <1>1
  <2>2. sending.frame.payload \in Seq(Byte)
    BY <1>1 DEF FrameType
  <2> QED
    BY <2>1, <2>2, ElementOfSeq DEF n
<1>4. sending.frame.cls \in Byte /\ sending.frame.id \in Byte
  BY <1>1 DEF FrameType
<1>5. /\ UBX_SYNCH_1 \in Byte /\ UBX_SYNCH_2 \in Byte
  BY DEF UBX_SYNCH_1, UBX_SYNCH_2, Byte
<1>6. sending.pos \in 6..(n + 5) => ByteAt(sending) = octet
  BY <1>1 DEF ByteAt, n
<1>7. sending.pos \notin 6..(n + 5) =>
        ByteAt(sending) \in {UBX_SYNCH_1, UBX_SYNCH_2, sending.frame.cls, sending.frame.id,
                             n % 256, n \div 256, sending.a, sending.b}
  BY <1>1 DEF ByteAt, n
<1> HIDE DEF octet
<1> QED
  BY <1>1, <1>2, <1>3, <1>4, <1>5, <1>6, <1>7

\* The next state of the receiver has its types.
LEMMA SentTypes ==
  ASSUME ReceiverTypes
  PROVE  Sent(sending) \in Transmission
<1>1. ByteAt(sending) \in 0..255
  BY SentBytes DEF Byte
<1>2. sending.pos \in Nat /\ sending.a \in 0..255 /\ sending.b \in 0..255
  BY DEF ReceiverTypes, Transmission, Byte
<1>3. /\ (sending.a + ByteAt(sending)) % 256 \in 0..255
      /\ (sending.b + sending.a + ByteAt(sending)) % 256 \in 0..255
  <2>1. \A i, j, k \in 0..255 : (i + j) % 256 \in 0..255 /\ (i + j + k) % 256 \in 0..255
    OBVIOUS
  <2> QED
    BY <1>1, <1>2, <2>1
<1>4. sending.frame \in Frames \cup {NoFrame.frame}
  BY DEF ReceiverTypes, Transmission
<1> QED
  BY <1>2, <1>3, <1>4 DEF Sent, Transmission, Byte

LEMMA FiledType ==
  ASSUME NEW p \in Packet, NEW a \in Byte, NEW b \in Byte, NEW byte \in Byte
  PROVE  Filed(p, a, b, byte) \in Packet
<1>1. (p.valid \/ Passes(p, a, b, byte)) \in BOOLEAN
  OBVIOUS
<1>2. p.len + 256 * byte \in Nat /\ p.counter + 1 \in Nat
  BY DEF Packet, Byte
<1> QED
  BY <1>1, <1>2 DEF Filed, Packet, Byte

LEMMA SumTypes ==
  ASSUME NEW p \in Packet, NEW a \in Byte, NEW b \in Byte, NEW byte \in Byte
  PROVE  SumA(p, a, byte) \in Byte /\ SumB(p, a, b, byte) \in Byte
  BY DEF SumA, SumB, Byte

LEMMA StoredType ==
  ASSUME memory \in [Memory -> Byte], NEW p \in Packet, NEW byte \in Byte,
         NEW k \in Classes
  PROVE  Stored(k, p, byte) \in [Memory -> Byte]
  BY DEF Stored

\* What the getters take from payloadCfg is bytes.
LEMMA ExtractedType ==
  ASSUME memory \in [Memory -> Byte], NEW n \in 0..MaxPayload
  PROVE  /\ Extracted(n) \in Seq(Byte)
         /\ Len(Extracted(n)) = n
         /\ \A i \in 1..n : Extracted(n)[i] = memory[i + 1]
<1>1. \A i \in 1..n : 2 + i - 1 \in Memory /\ 2 + i - 1 = i + 1
  BY ParserAssumption DEF Memory
<1>2. Extracted(n) \in [1..n -> Byte]
  BY <1>1 DEF Extracted, Base
<1> QED
  BY <1>1, <1>2, IsASeq, LenProperties DEF Extracted, Base

\* The packet of a frame, as processUBX finds it.
LEMMA TargetType ==
  ASSUME ParserTypes, NEW k \in Classes
  PROVE  Target(k) \in Packet /\ PacketOf(k) \in Packet
  BY DEF ParserTypes, Target, PacketOf, Packet

LEMMA ClassTypes ==
  ASSUME ParserTypes, NEW byte \in Byte
  PROVE  /\ FrameClass(byte) \in Classes \cup {"none"}
         /\ FramePos \in Nat
         /\ Rolling(rollingChecksumA) \in Byte /\ Rolling(rollingChecksumB) \in Byte
  BY DEF ParserTypes, FrameClass, ClassOf, FramePos, Rolling, Classes, Byte

\* One byte of a UBX frame leaves everything with its types.
LEMMA UbxByteTypes ==
  ASSUME ParserTypes, NEW byte \in Byte, UbxByte(byte)
  PROVE  ParserTypes'
<1> DEFINE k == FrameClass(byte)
           p == Target(k)
           a == Rolling(rollingChecksumA)
           b == Rolling(rollingChecksumB)
<1>1. k \in Classes \cup {"none"} /\ FramePos \in Nat /\ a \in Byte /\ b \in Byte
  BY ClassTypes
<1>2. /\ ubxFrameCounter' \in Nat /\ ubxFrameClass' \in Classes \cup {"none"}
      /\ rtcmFrameCounter' \in Nat /\ rtcmLen' \in Nat
  BY <1>1 DEF UbxByte, ParserTypes
<1>3. CASE k = "none"
  BY <1>1, <1>2, <1>3 DEF UbxByte, ParserTypes, bufferVars, resultVars
<1>4. CASE k \in Classes
  <2>1. p \in Packet /\ Filed(p, a, b, byte) \in Packet
    BY <1>1, <1>4, TargetType, FiledType
  <2>2. /\ SumA(p, a, byte) \in Byte /\ SumB(p, a, b, byte) \in Byte
        /\ Stored(k, p, byte) \in [Memory -> Byte]
    BY <1>1, <1>4, <2>1, SumTypes, StoredType DEF ParserTypes
  <2>3. Extracted(PvtLen) \in Seq(Byte) /\ Extracted(HpLen) \in Seq(Byte)
    BY ExtractedType, ParserAssumption DEF ParserTypes
  <2>4. k # "none"
    BY <1>4 DEF Classes
  <2>5. /\ currentSentence' \in {"none", "ubx"}
        /\ rollingChecksumA' = SumA(p, a, byte) /\ rollingChecksumB' = SumB(p, a, b, byte)
        /\ packetAck' \in {Filed(p, a, b, byte), packetAck}
        /\ packetCfg' \in {Filed(p, a, b, byte), packetCfg}
        /\ memory' = Stored(k, p, byte)
        /\ ProcessUBXpacket(p, Passes(p, a, b, byte))
    BY <2>4 DEF UbxByte
  <2>6. /\ commandAck' \in {UBX_ACK_NACK, UBX_ACK_ACK, UBX_ACK_NONE}
        /\ solution' \in Seq(Byte) /\ highRes' \in Seq(Byte)
    BY <2>3, <2>5 DEF ProcessUBXpacket, ParserTypes
  <2> HIDE DEF p, a, b, k
  <2> QED
    BY <1>2, <2>1, <2>2, <2>5, <2>6 DEF ParserTypes
<1> QED
  BY <1>1, <1>3, <1>4

LEMMA ProcessTypes ==
  ASSUME ParserTypes, NEW byte \in Byte, Process(byte)
  PROVE  ParserTypes'
<1>1. CASE UbxByte(byte)
  BY <1>1, UbxByteTypes
<1>2. CASE NmeaByte(byte)
  BY <1>2 DEF NmeaByte, ParserTypes, bufferVars, resultVars
<1>3. CASE RtcmByte(byte)
  <2> DEFINE n == IF Listening THEN 0 ELSE rtcmFrameCounter
  <2>1. /\ n \in Nat /\ (byte % 4) * 256 \in Nat /\ rtcmLen + byte + 6 \in Nat
        /\ rtcmLen \in Nat
    BY DEF ParserTypes, Byte
  <2>2. /\ rtcmFrameCounter' = n + 1
        /\ rtcmLen' \in {(byte % 4) * 256, rtcmLen + byte + 6, rtcmLen}
        /\ currentSentence' \in {"none", "rtcm"}
    BY <1>3 DEF RtcmByte
  <2>3. rtcmFrameCounter' \in Nat /\ rtcmLen' \in Nat
    BY <2>1, <2>2
  <2>4. UNCHANGED <<ubxFrameCounter, ubxFrameClass, rollingChecksumA, rollingChecksumB,
                    bufferVars, resultVars>>
    BY <1>3 DEF RtcmByte
  <2> QED
    BY <2>2, <2>3, <2>4 DEF ParserTypes, bufferVars, resultVars
<1> QED
  BY <1>1, <1>2, <1>3 DEF Process

\* What a command leaves in packetCfg.
LEMMA PreparedType ==
  ASSUME ParserTypes, NEW c \in Commands
  PROVE  Prepared(c) \in Packet
<1>1. /\ c.cls \in Byte /\ c.id \in Byte /\ Len(c.payload) \in Nat
      /\ c.startingSpot \in Nat \cup {Keep}
  BY ParserAssumption
<1>2. packetCfg \in Packet
  BY DEF ParserTypes
<1> DEFINE x == IF c.cls = UBX_CLASS_CFG THEN c.cls ELSE 255
           y == IF c.cls = UBX_CLASS_CFG THEN c.id ELSE 255
           n == Len(c.payload)
           spot == IF c.startingSpot = Keep THEN packetCfg.startingSpot ELSE c.startingSpot
<1>3. x \in Byte /\ y \in Byte /\ n \in Nat /\ spot \in Nat
  BY <1>1, <1>2 DEF Byte, Packet
<1>4. Prepared(c) = [packetCfg EXCEPT !.cls = x, !.id = y, !.len = n, !.valid = FALSE,
                                      !.startingSpot = spot]
  BY DEF Prepared
<1> HIDE DEF x, y, n, spot
<1> QED
  BY <1>2, <1>3, <1>4 DEF Packet

LEMMA NoTransmission == NoFrame \in Transmission
  BY DEF NoFrame, Transmission, Byte

LEMMA NoBytes == <<>> \in Seq(Byte)
  OBVIOUS

\* Init gives every variable its type.
LEMMA InitTypes == Init => TypeOK
<1> SUFFICES ASSUME Init PROVE TypeOK
  OBVIOUS
<1>1. EmptyPacket \in Packet /\ 0 \in Byte
  BY DEF EmptyPacket, Packet, Byte
<1>2. ParserTypes
  BY <1>1 DEF Init, ParserTypes
<1>3. ReceiverTypes
  <2>1. 0 \in 0..MaxItems /\ 0 \in 0..MaxCommands /\ 0 \in 0..MaxCuts
    BY ParserAssumption
  <2> QED
    BY <2>1, NoTransmission, NoBytes DEF Init, ReceiverTypes
<1> QED
  BY <1>2, <1>3 DEF TypeOK

\* The steps of the receiver give the parser one byte.
LEMMA ProcessedBytes ==
  ASSUME ReceiverTypes, BeginFrame \/ NextByte \/ BeginSentence \/ NextSentenceByte
  PROVE  \E byte \in Byte : Process(byte)
<1>1. CASE BeginFrame
  BY <1>1 DEF BeginFrame, UBX_SYNCH_1, Byte
<1>2. CASE NextByte
  BY <1>2, SentBytes DEF NextByte
<1>3. CASE BeginSentence
  <2>1. PICK s \in Sentences : Process(s[1])
    BY <1>3 DEF BeginSentence
  <2>2. s \in Seq(Byte) /\ 1 \in 1..Len(s)
    BY ParserAssumption
  <2> QED
    BY <2>1, <2>2, ElementOfSeq
<1>4. CASE NextSentenceByte
  <2>1. sentence \in Seq(Byte) /\ sentence # <<>> /\ Process(Head(sentence))
    BY <1>4 DEF NextSentenceByte, ReceiverTypes
  <2> QED
    BY <2>1
<1> QED
  BY <1>1, <1>2, <1>3, <1>4

\* Every step keeps the types of the parser.
LEMMA ParserStep == TypeOK /\ [Next]_vars => ParserTypes'
<1> SUFFICES ASSUME ParserTypes, ReceiverTypes, [Next]_vars PROVE ParserTypes'
  BY DEF TypeOK
<1>1. CASE BeginFrame \/ NextByte \/ BeginSentence \/ NextSentenceByte
  BY <1>1, ProcessedBytes, ProcessTypes
<1>5. CASE Cut
  BY <1>5 DEF Cut, ParserTypes, parserVars, bufferVars, resultVars
<1>6. CASE Prepare
  <2>1. PICK c \in Commands :
        /\ packetCfg' = Prepared(c) /\ packetAck' = [packetAck EXCEPT !.valid = FALSE]
        /\ memory' = [i \in Memory |-> IF i - Base("cfg") \in 0..(Len(c.payload) - 1)
                                       THEN c.payload[i - Base("cfg") + 1] ELSE memory[i]]
        /\ commandAck' = IF c.cls = UBX_CLASS_CFG THEN UBX_ACK_NONE ELSE commandAck
        /\ UNCHANGED <<parserVars, solution, highRes>>
    BY <1>6 DEF Prepare
  <2>2. packetCfg' \in Packet
    BY <2>1, PreparedType
  <2>3. packetAck' \in Packet
    BY <2>1 DEF ParserTypes, Packet
  <2>4. memory' \in [Memory -> Byte]
    <3>1. c.payload \in Seq(Byte) /\ Len(c.payload) \in Nat
      BY ParserAssumption
    <3>2. ASSUME NEW i \in Memory, i - Base("cfg") \in 0..(Len(c.payload) - 1)
          PROVE  c.payload[i - Base("cfg") + 1] \in Byte
      <4>1. i - Base("cfg") + 1 \in 1..Len(c.payload)
        BY <3>1, <3>2 DEF Base, Memory
      <4> QED
        BY <3>1, <4>1, ElementOfSeq
    <3>3. memory \in [Memory -> Byte]
      BY DEF ParserTypes
    <3> QED
      BY <2>1, <3>2, <3>3
  <2>5. commandAck' \in {UBX_ACK_NACK, UBX_ACK_ACK, UBX_ACK_NONE}
    BY <2>1 DEF ParserTypes
  <2>6. UNCHANGED <<parserVars, solution, highRes>>
    BY <2>1
  <2> QED
    BY <2>2, <2>3, <2>4, <2>5, <2>6 DEF ParserTypes, parserVars
<1>7. CASE Forget
  <2>1. packetCfg' \in Packet
    <3>1. packetCfg' = [packetCfg EXCEPT !.cls = 255, !.id = 255, !.valid = FALSE]
      BY <1>7 DEF Forget
    <3>2. packetCfg \in Packet /\ 255 \in Byte
      BY DEF ParserTypes, Byte
    <3> QED
      BY <3>1, <3>2 DEF Packet
  <2>2. UNCHANGED <<parserVars, packetAck, memory, resultVars>>
    BY <1>7 DEF Forget
  <2> QED
    BY <2>1, <2>2 DEF ParserTypes, parserVars, resultVars
<1>8. CASE UNCHANGED vars
  BY <1>8 DEF vars, parserVars, bufferVars, resultVars, ParserTypes
<1> QED
  BY <1>1, <1>5, <1>6, <1>7, <1>8 DEF Next

LEMMA CleanTypes ==
  /\ \A f : CleanStart(f) \in BOOLEAN
  /\ Listening \in BOOLEAN
  /\ clean \in BOOLEAN => (clean /\ LeavesFrame) \in BOOLEAN
  BY DEF CleanStart, Listening, LeavesFrame

\* Every step keeps the types of the receiver and of the observers.
LEMMA ReceiverStep == TypeOK /\ [Next]_vars => ReceiverTypes'
<1> SUFFICES ASSUME ParserTypes, ReceiverTypes, [Next]_vars PROVE ReceiverTypes'
  BY DEF TypeOK
<1>0. MaxItems \in Nat /\ MaxCommands \in Nat /\ MaxCuts \in Nat
  BY ParserAssumption
<1>1. CASE BeginFrame
  <2>1. PICK f \in Frames : /\ NextItem
                           /\ sending' = Sent([NoFrame EXCEPT !.frame = f])
                           /\ clean' = CleanStart(f)
                           /\ answer' \in {answer, <<>>}
                           /\ UNCHANGED <<sentence, commands, cuts>>
    BY <1>1 DEF BeginFrame
  <2>2. [NoFrame EXCEPT !.frame = f] = [frame |-> f, pos |-> 0, a |-> 0, b |-> 0]
    BY DEF NoFrame
  <2>3. sending' = [frame |-> f, pos |-> 1, a |-> 0, b |-> 0]
    BY <2>1, <2>2 DEF Sent, Summed
  <2>4. sending' \in Transmission
    BY <2>3 DEF Transmission, Byte
  <2>5. clean' \in BOOLEAN
    BY <2>1, CleanTypes
  <2>6. answer' \in Seq(Byte)
    BY <2>1, NoBytes DEF ReceiverTypes
  <2>7. items' \in 0..MaxItems
    BY <1>0, <2>1 DEF NextItem, ReceiverTypes
  <2> QED
    BY <2>1, <2>4, <2>5, <2>6, <2>7 DEF ReceiverTypes
<1>2. CASE NextByte
  <2>1. sending' \in Transmission
    BY <1>2, NoTransmission, SentTypes DEF NextByte
  <2>2. AnswerRead(sending.frame) \in Seq(Byte)
    <3> DEFINE s == sending.frame.payload
               m == Spot(packetCfg) + 1
    <3>1. s \in Seq(Byte)
      BY FrameFacts DEF FrameType
    <3>2. m \in Int /\ m >= 1
      BY DEF ParserTypes, Packet, Spot
    <3>3. Len(s) \in Int
      BY <3>1, LenProperties
    <3>4. \A i \in m..Len(s) : s[i] \in Byte
      BY <3>1, <3>2, <3>3, ElementOfSeq
    <3> HIDE DEF s, m
    <3>5. SubSeq(s, m, Len(s)) \in Seq(Byte)
      BY <3>2, <3>3, <3>4, SubSeqProperties
    <3> QED
      BY <3>5 DEF AnswerRead, s, m
  <2>3. answer' \in {answer, AnswerRead(sending.frame), <<>>}
    BY <1>2 DEF NextByte
  <2>4. answer' \in Seq(Byte)
    BY <2>2, <2>3, NoBytes DEF ReceiverTypes
  <2>5. UNCHANGED <<sentence, clean, counters>>
    BY <1>2 DEF NextByte
  <2> QED
    BY <2>1, <2>4, <2>5 DEF ReceiverTypes, counters
<1>3. CASE BeginSentence
  <2>1. PICK s \in Sentences : /\ NextItem /\ sentence' = Tail(s)
                              /\ clean' = Listening /\ answer' \in {answer, <<>>}
                              /\ UNCHANGED <<sending, commands, cuts>>
    BY <1>3 DEF BeginSentence
  <2>2. s \in Seq(Byte) /\ s # <<>>
    BY ParserAssumption
  <2>3. sentence' \in Seq(Byte)
    BY <2>1, <2>2
  <2>4. clean' \in BOOLEAN
    BY <2>1, CleanTypes
  <2>5. answer' \in Seq(Byte)
    BY <2>1, NoBytes DEF ReceiverTypes
  <2>6. items' \in 0..MaxItems
    BY <1>0, <2>1 DEF NextItem, ReceiverTypes
  <2> QED
    BY <2>1, <2>3, <2>4, <2>5, <2>6 DEF ReceiverTypes
<1>4. CASE NextSentenceByte
  <2>1. sentence' \in Seq(Byte)
    BY <1>4 DEF NextSentenceByte, ReceiverTypes
  <2>2. UNCHANGED <<sending, clean, answer, counters>>
    BY <1>4 DEF NextSentenceByte
  <2> QED
    BY <2>1, <2>2 DEF ReceiverTypes, counters
<1>5. CASE Cut
  <2>1. /\ cuts < MaxCuts /\ cuts' = cuts + 1 /\ sending' = NoFrame
        /\ UNCHANGED <<sentence, clean, answer, items, commands>>
    BY <1>5 DEF Cut
  <2> QED
    BY <1>0, <2>1, NoTransmission DEF ReceiverTypes
<1>6. CASE Prepare
  <2>1. /\ commands < MaxCommands /\ commands' = commands + 1
        /\ clean' = (clean /\ LeavesFrame) /\ answer' = <<>>
        /\ UNCHANGED <<sending, sentence, items, cuts>>
    BY <1>6 DEF Prepare
  <2>2. clean' \in BOOLEAN
    BY <2>1, CleanTypes DEF ReceiverTypes
  <2> QED
    BY <1>0, <2>1, <2>2 DEF ReceiverTypes
<1>7. CASE Forget
  <2>1. /\ clean' = (clean /\ LeavesFrame) /\ answer' = <<>>
        /\ UNCHANGED <<sending, sentence, counters>>
    BY <1>7 DEF Forget
  <2>2. clean' \in BOOLEAN
    BY <2>1, CleanTypes DEF ReceiverTypes
  <2> QED
    BY <2>1, <2>2 DEF ReceiverTypes, counters
<1>8. CASE UNCHANGED vars
  BY <1>8 DEF vars, counters, ReceiverTypes
<1> QED
  BY <1>1, <1>2, <1>3, <1>4, <1>5, <1>6, <1>7, <1>8 DEF Next

LEMMA NextTypes == TypeOK /\ [Next]_vars => TypeOK'
  BY ParserStep, ReceiverStep DEF TypeOK

\* Counters, packets and payload arrays keep their types: what is stored stays within
\* the two arrays together, whatever the frames say of their length.
THEOREM ParserTypesHold == Spec => []TypeOK
<1> QED
  BY InitTypes, NextTypes, PTL DEF Spec

----------------------------------------------------------------------------
(***************************************************************************)
(* A frame has an end.  While one comes in, the counter of its packet      *)
(* keeps step with the parser's and has not come to the limit.             *)
(***************************************************************************)
FrameHasEnd ==
  currentSentence = "ubx" =>
    \/ ubxFrameCounter <= 2
    \/ /\ ubxFrameClass \in Classes
       /\ PacketOf(ubxFrameClass).counter = ubxFrameCounter - 2
       /\ PacketOf(ubxFrameClass).counter < MaxPayload

\* Within a frame every byte is one of it.
LEMMA InFrame ==
  ASSUME currentSentence = "ubx", NEW byte \in Byte, Process(byte)
  PROVE  /\ UbxByte(byte) /\ FramePos = ubxFrameCounter
         /\ \A sum : Rolling(sum) = sum
  BY DEF Process, UbxByte, NmeaByte, RtcmByte, Opened, Listening, FramePos, Rolling

\* What a byte does to the packet of its frame, once the class is known.
LEMMA OneByte ==
  ASSUME NEW byte \in Byte, UbxByte(byte), FrameClass(byte) # "none"
  PROVE  LET k == FrameClass(byte)
             p == Target(k)
             a == Rolling(rollingChecksumA)
             b == Rolling(rollingChecksumB)
         IN /\ ubxFrameCounter' = FramePos + 1 /\ ubxFrameClass' = k
            /\ currentSentence' = IF WrongSync(byte) \/ Ends(p) THEN "none" ELSE "ubx"
            /\ rollingChecksumA' = SumA(p, a, byte)
            /\ rollingChecksumB' = SumB(p, a, b, byte)
            /\ packetAck' = IF k = "ack" THEN Filed(p, a, b, byte) ELSE packetAck
            /\ packetCfg' = IF k = "cfg" THEN Filed(p, a, b, byte) ELSE packetCfg
            /\ memory' = Stored(k, p, byte)
            /\ ProcessUBXpacket(p, Passes(p, a, b, byte))
  BY DEF UbxByte

\* The counter of the packet that takes a byte counts it.
LEMMA CounterSteps ==
  ASSUME NEW p \in Packet, NEW a, NEW b, NEW byte
  PROVE  Filed(p, a, b, byte).counter = p.counter + 1
  BY DEF Filed

LEMMA HasEndProcess ==
  ASSUME ParserTypes, FrameHasEnd, NEW byte \in Byte, Process(byte)
  PROVE  FrameHasEnd'
<1>1. CASE UbxByte(byte)
  <2> SUFFICES ASSUME currentSentence' = "ubx", ubxFrameCounter' > 2
               PROVE  /\ ubxFrameClass' \in Classes
                      /\ PacketOf(ubxFrameClass)'.counter = ubxFrameCounter' - 2
                      /\ PacketOf(ubxFrameClass)'.counter < MaxPayload
    <3>1. FramePos \in Nat /\ ubxFrameCounter' = FramePos + 1
      BY <1>1, ClassTypes DEF UbxByte
    <3> QED
      BY <3>1 DEF FrameHasEnd
  <2> DEFINE k == FrameClass(byte)
             p == Target(k)
             a == Rolling(rollingChecksumA)
             b == Rolling(rollingChecksumB)
  <2>1. FramePos >= 2 /\ ubxFrameCounter' = FramePos + 1 /\ FramePos \in Nat
    BY <1>1, ClassTypes DEF UbxByte
  <2>2. currentSentence = "ubx" /\ FramePos = ubxFrameCounter
    BY <1>1, <2>1 DEF UbxByte, Opened, FramePos, Listening, ParserTypes
  <2>3. k \in Classes
    BY <2>1, <2>2 DEF FrameClass, ClassOf, FrameHasEnd, Classes
  <2>4. p \in Packet /\ p.counter = FramePos - 2 /\ p.counter < MaxPayload
    <3>0. p \in Packet /\ PacketOf(k) \in Packet
      BY <2>3, TargetType
    <3>1. CASE FramePos = 2
      <4>1. p = [PacketOf(k) EXCEPT !.counter = 0, !.valid = FALSE]
        BY <3>1 DEF Target
      <4>2. p.counter = 0
        BY <3>0, <4>1 DEF Packet
      <4> QED
        BY <3>0, <3>1, <4>2, ParserAssumption
    <3>2. CASE FramePos > 2
      <4>1. k = ubxFrameClass /\ p = PacketOf(k)
        <5>1. FramePos # 2
          BY <2>1, <3>2
        <5> QED
          BY <5>1, Zenon DEF Target, FrameClass
      <4>2. /\ PacketOf(ubxFrameClass).counter = FramePos - 2
            /\ PacketOf(ubxFrameClass).counter < MaxPayload
        BY <2>1, <2>2, <3>2 DEF FrameHasEnd
      <4> QED
        BY <3>0, <4>1, <4>2, Zenon
    <3> QED
      BY <2>1, <3>1, <3>2
  <2>5. k # "none"
    BY <2>3 DEF Classes
  <2>6. /\ ubxFrameClass' = k
        /\ currentSentence' = (IF WrongSync(byte) \/ Ends(p) THEN "none" ELSE "ubx")
        /\ packetAck' = (IF k = "ack" THEN Filed(p, a, b, byte) ELSE packetAck)
        /\ packetCfg' = (IF k = "cfg" THEN Filed(p, a, b, byte) ELSE packetCfg)
    BY <1>1, <2>5, OneByte
  <2>7. PacketOf(ubxFrameClass)' = Filed(p, a, b, byte)
    BY <2>3, <2>6 DEF PacketOf, Classes
  <2>8. Filed(p, a, b, byte).counter = p.counter + 1
    BY <2>4, CounterSteps
  <2>9. p.counter + 1 # MaxPayload
    BY <2>6 DEF Ends
  <2> HIDE DEF k, p, a, b
  <2>10. p.counter \in Nat
    BY <2>4 DEF Packet
  <2> QED
    BY <2>1, <2>3, <2>4, <2>6, <2>7, <2>8, <2>9, <2>10, ParserAssumption
<1>2. CASE NmeaByte(byte)
  BY <1>2 DEF NmeaByte, FrameHasEnd
<1>3. CASE RtcmByte(byte)
  BY <1>3 DEF RtcmByte, FrameHasEnd
<1> QED
  BY <1>1, <1>2, <1>3 DEF Process

\* What the thread does to packetCfg leaves its counter.
LEMMA CounterKept ==
  ASSUME ParserTypes, Prepare \/ Forget
  PROVE  /\ packetCfg'.counter = packetCfg.counter /\ packetAck'.counter = packetAck.counter
         /\ UNCHANGED parserVars
<1>1. packetCfg \in Packet /\ packetAck \in Packet
  BY DEF ParserTypes
<1>2. CASE Prepare
  <2>1. PICK c \in Commands : /\ packetCfg' = Prepared(c)
                             /\ packetAck' = [packetAck EXCEPT !.valid = FALSE]
                             /\ UNCHANGED parserVars
    BY <1>2 DEF Prepare
  <2>2. Prepared(c).counter = packetCfg.counter
    BY <1>1 DEF Prepared, Packet
  <2> QED
    BY <1>1, <2>1, <2>2 DEF Packet
<1>3. CASE Forget
  BY <1>1, <1>3 DEF Forget, Packet
<1> QED
  BY <1>2, <1>3

LEMMA HasEndStep == TypeOK /\ FrameHasEnd /\ [Next]_vars => FrameHasEnd'
<1> SUFFICES ASSUME ParserTypes, ReceiverTypes, FrameHasEnd, [Next]_vars
             PROVE  FrameHasEnd'
  BY DEF TypeOK
<1>1. ASSUME NEW byte \in Byte, Process(byte) PROVE FrameHasEnd'
  BY <1>1, HasEndProcess
<1>2. CASE BeginFrame \/ NextByte \/ BeginSentence \/ NextSentenceByte
  <2>1. \E byte \in Byte : Process(byte)
    BY <1>2, ProcessedBytes
  <2> QED
    BY <1>1, <2>1
<1>3. CASE Cut
  BY <1>3 DEF Cut, FrameHasEnd, PacketOf, parserVars, bufferVars
<1>4. CASE Prepare \/ Forget
  BY <1>4, CounterKept DEF FrameHasEnd, PacketOf, parserVars
<1>5. CASE UNCHANGED vars
  BY <1>5 DEF vars, FrameHasEnd, PacketOf, parserVars, bufferVars
<1> QED
  BY <1>2, <1>3, <1>4, <1>5 DEF Next

\* Whatever length a frame claims, and whatever is prepared in its buffer while it
\* comes in, process listens again after MAX_PAYLOAD_SIZE bytes of it.
THEOREM FramesHaveAnEnd == Spec => []NoFrameIsEndless
<1>1. Init => FrameHasEnd
  BY DEF Init, FrameHasEnd
<1>2. TypeOK /\ FrameHasEnd => NoFrameIsEndless
  BY ParserAssumption DEF TypeOK, ParserTypes, FrameHasEnd, NoFrameIsEndless
<1> QED
  BY <1>1, <1>2, InitTypes, NextTypes, HasEndStep, PTL DEF Spec

----------------------------------------------------------------------------
(***************************************************************************)
(* A frame that began in good order.  What has been read of it agrees with *)
(* what has been sent: the sums, the header, and the payload so far.       *)
(***************************************************************************)
OneAtATime == sending.pos > 0 => sentence = <<>>

AckFromItsBeginning == packetAck.startingSpot = 0

\* The second of the two synchronisation bytes is still to come.
SyncGoesOn ==
  sending.pos = 1 =>
    \/ ubxFrameClass = "none"
    \/ LET p == PacketOf(ubxFrameClass) IN
         p.counter >= p.len + 6 /\ p.counter + 1 # MaxPayload

HeaderAgrees(frame, place, sum, class, its) ==
  /\ place > 2 => class = Kind(frame) /\ its.counter = place - 2 /\ its.cls = frame.cls
  /\ place > 3 => its.id = frame.id
  /\ place = 5 => its.len = Len(frame.payload) % 256
  /\ place > 5 => its.len = Len(frame.payload)
  /\ place = Len(frame.payload) + 7 => its.checksumA = sum

PayloadAgrees(frame, place, class, its, mem) ==
  \A i \in 0..(Len(frame.payload) - 1) :
    i >= Spot(its) /\ i < place - 6 =>
      mem[Base(class) + i - Spot(its)] = frame.payload[i + 1]

GoodOrder(f) ==
  /\ f \in Frames /\ Len(f.payload) + 6 <= MaxPayload /\ sending.pos < Total(f)
  /\ currentSentence = "ubx" /\ ubxFrameCounter = sending.pos
  /\ rollingChecksumA = sending.a /\ rollingChecksumB = sending.b
  /\ SyncGoesOn
  /\ HeaderAgrees(f, sending.pos, sending.a, ubxFrameClass, PacketOf(Kind(f)))
  /\ PayloadAgrees(f, sending.pos, Kind(f), PacketOf(Kind(f)), memory)

FrameComesIn == clean /\ sending.pos > 0 => GoodOrder(sending.frame)

\* The same for the sentences: where the parser is in what is still to come.
RtcmAgrees ==
  /\ currentSentence = "rtcm"
  /\ \/ /\ rtcmFrameCounter = 1 /\ Len(sentence) >= 2
        /\ Len(sentence) + 1 = 256 * (sentence[1] % 4) + sentence[2] + 6
     \/ /\ rtcmFrameCounter = 2 /\ Len(sentence) >= 1
        /\ Len(sentence) + 2 = rtcmLen + sentence[1] + 6
     \/ /\ rtcmFrameCounter >= 3 /\ Len(sentence) + rtcmFrameCounter = rtcmLen

SentenceComesIn ==
  /\ rtcmLen # 1
  /\ clean /\ sentence # <<>> =>
       \/ /\ currentSentence = "nmea"
          /\ \A i \in 1..Len(sentence) : sentence[i] \notin {UBX_SYNCH_1, RtcmPreamble}
       \/ RtcmAgrees

TakenInvariant ==
  OneAtATime /\ AckFromItsBeginning /\ FrameComesIn /\ SentenceComesIn

\* What the receiver sends at each place of a frame.
LEMMA BytesOfFrame ==
  ASSUME ReceiverTypes, sending.pos < Total(sending.frame)
  PROVE  LET f == sending.frame
             n == Len(f.payload)
             byte == ByteAt(sending)
         IN /\ sending.pos = 1 => byte = UBX_SYNCH_2
            /\ sending.pos = 2 => byte = f.cls
            /\ sending.pos = 3 => byte = f.id
            /\ sending.pos = 4 => byte = n % 256
            /\ sending.pos = 5 => byte = n \div 256
            /\ sending.pos \in 6..(n + 5) => byte = f.payload[sending.pos - 5]
            /\ sending.pos = n + 6 => byte = sending.a
            /\ sending.pos = n + 7 => byte = sending.b
<1> DEFINE f == sending.frame
           n == Len(f.payload)
<1>1. n \in Nat /\ sending.pos \in Nat /\ sending.pos < n + 8
  BY FrameFacts DEF Total
<1>2. ByteAt(sending) =
        CASE sending.pos = 0 -> UBX_SYNCH_1
          [] sending.pos = 1 -> UBX_SYNCH_2
          [] sending.pos = 2 -> f.cls
          [] sending.pos = 3 -> f.id
          [] sending.pos = 4 -> n % 256
          [] sending.pos = 5 -> n \div 256
          [] sending.pos \in 6..(n + 5) -> f.payload[sending.pos - 5]
          [] sending.pos = n + 6 -> sending.a
          [] OTHER -> sending.b
  BY DEF ByteAt
<1> HIDE DEF n, f
<1>3. /\ sending.pos = 1 => ByteAt(sending) = UBX_SYNCH_2
      /\ sending.pos = 2 => ByteAt(sending) = f.cls
      /\ sending.pos = 3 => ByteAt(sending) = f.id
      /\ sending.pos = 4 => ByteAt(sending) = n % 256
      /\ sending.pos = 5 => ByteAt(sending) = n \div 256
      /\ sending.pos \in 6..(n + 5) => ByteAt(sending) = f.payload[sending.pos - 5]
      /\ sending.pos = n + 6 => ByteAt(sending) = sending.a
      /\ sending.pos = n + 7 => ByteAt(sending) = sending.b
  BY <1>1, <1>2
<1> QED
  BY <1>3, Zenon DEF n, f

\* The frame that comes in, its packet as processUBX finds it, and what that says.
LEMMA BeforeByte ==
  ASSUME ParserTypes, ReceiverTypes, TakenInvariant, clean, sending.pos >= 2,
         Process(ByteAt(sending))
  PROVE  LET f == sending.frame
             n == Len(f.payload)
             k == Kind(f)
             p == Target(k)
         IN /\ UbxByte(ByteAt(sending)) /\ FramePos = sending.pos
            /\ FrameClass(ByteAt(sending)) = k /\ k \in Classes
            /\ Rolling(rollingChecksumA) = sending.a
            /\ Rolling(rollingChecksumB) = sending.b
            /\ p \in Packet /\ p.counter = sending.pos - 2
            /\ sending.pos > 2 => p.cls = f.cls
            /\ sending.pos > 3 => p.id = f.id
            /\ sending.pos = 5 => p.len = n % 256
            /\ sending.pos > 5 => p.len = n
            /\ sending.pos = n + 7 => p.checksumA = sending.a
            /\ sending.pos > 6 => PayloadAgrees(f, sending.pos, k, p, memory)
            /\ k = "ack" => p.startingSpot = 0
            /\ p.startingSpot = PacketOf(k).startingSpot
<1> DEFINE f == sending.frame
           k == Kind(f)
           p == Target(k)
           byte == ByteAt(sending)
<1>1. GoodOrder(f) /\ AckFromItsBeginning
  <2>1. sending.pos > 0
    BY FrameFacts
  <2> QED
    BY <2>1, Zenon DEF TakenInvariant, FrameComesIn
<1>2. sending.pos \in Nat /\ byte \in Byte /\ sending.pos < Total(f) /\ f \in FrameType
  BY <1>1, FrameFacts, SentBytes DEF GoodOrder
<1>3. currentSentence = "ubx" /\ ubxFrameCounter = sending.pos
      /\ rollingChecksumA = sending.a /\ rollingChecksumB = sending.b
  BY <1>1 DEF GoodOrder
<1>4. UbxByte(byte) /\ FramePos = sending.pos
      /\ Rolling(rollingChecksumA) = sending.a /\ Rolling(rollingChecksumB) = sending.b
  BY <1>2, <1>3, InFrame
<1>5. k \in Classes
  BY DEF Kind, Classes
<1>6. /\ HeaderAgrees(f, sending.pos, sending.a, ubxFrameClass, PacketOf(k))
      /\ PayloadAgrees(f, sending.pos, k, PacketOf(k), memory)
  BY <1>1 DEF GoodOrder
<1>7. PacketOf(k) \in Packet /\ p \in Packet
  BY <1>5, TargetType
<1>8. k = "ack" => PacketOf(k).startingSpot = 0
  BY <1>1 DEF AckFromItsBeginning, PacketOf
<1>9. CASE sending.pos = 2
  <2>1. byte = f.cls
    BY <1>2, <1>9, BytesOfFrame
  <2>2. FrameClass(byte) = k
    BY <1>4, <1>9, <2>1 DEF FrameClass, ClassOf, Kind
  <2>3. p = [PacketOf(k) EXCEPT !.counter = 0, !.valid = FALSE]
    BY <1>4, <1>9 DEF Target
  <2>4. p.counter = 0 /\ p.startingSpot = PacketOf(k).startingSpot
    BY <1>7, <2>3 DEF Packet
  <2> HIDE DEF p, k
  <2>5. Len(f.payload) \in Nat
    BY FrameFacts
  <2> QED
    BY <1>4, <1>5, <1>7, <1>8, <1>9, <2>2, <2>4, <2>5 DEF p, k
<1>10. CASE sending.pos > 2
  <2>1. FramePos # 2
    BY <1>4, <1>10
  <2>2. p = PacketOf(k)
    BY <2>1, Zenon DEF Target
  <2>3. FrameClass(byte) = k
    BY <1>6, <1>10, <2>1 DEF FrameClass, HeaderAgrees
  <2>4. /\ p.counter = sending.pos - 2 /\ p.cls = f.cls
        /\ sending.pos > 3 => p.id = f.id
        /\ sending.pos = 5 => p.len = Len(f.payload) % 256
        /\ sending.pos > 5 => p.len = Len(f.payload)
        /\ sending.pos = Len(f.payload) + 7 => p.checksumA = sending.a
        /\ PayloadAgrees(f, sending.pos, k, p, memory)
    <3> HIDE DEF p, k
    <3> QED
      BY <1>6, <1>10, <2>2 DEF HeaderAgrees
  <2> HIDE DEF p, k
  <2> QED
    BY <1>4, <1>5, <1>7, <1>8, <1>10, <2>2, <2>3, <2>4 DEF p, k
<1>11. sending.pos = 2 \/ sending.pos > 2
  BY <1>2
<1> QED
  BY <1>9, <1>10, <1>11, Zenon

\* The sums are those of the receiver: both count the same bytes.
LEMMA SumsAgree ==
  ASSUME NEW p \in Packet, NEW n \in Nat, NEW pos \in Nat, pos >= 2,
         p.counter = pos - 2, pos > 5 => p.len = n
  PROVE  Counted(p) <=> pos \in 2..(n + 5)
<1>1. p.len \in Nat
  BY DEF Packet
<1> QED
  BY <1>1 DEF Counted

\* Where the payload goes, and that nothing of it goes anywhere else.
LEMMA PayloadGrows ==
  ASSUME ParserTypes, NEW f \in Frames, NEW k \in Classes, NEW p \in Packet,
         NEW q \in Packet, NEW byte \in Byte, NEW pos \in Nat,
         Len(f.payload) + 6 <= MaxPayload, pos >= 2, pos < Len(f.payload) + 8,
         p.counter = pos - 2, pos > 5 => p.len = Len(f.payload),
         pos \in 6..(Len(f.payload) + 5) => byte = f.payload[pos - 5],
         pos >= 6 => Spot(q) = Spot(p),
         \A i \in 0..(Len(f.payload) - 1) :
           i >= Spot(p) /\ i < pos - 6 => memory[Base(k) + i - Spot(p)] = f.payload[i + 1]
  PROVE  \A i \in 0..(Len(f.payload) - 1) :
           i >= Spot(q) /\ i < pos - 5 =>
             Stored(k, p, byte)[Base(k) + i - Spot(q)] = f.payload[i + 1]
<1> DEFINE n == Len(f.payload)
<1>1. n \in Nat /\ Spot(p) \in Nat /\ memory \in [Memory -> Byte] /\ Base(k) \in {0, 2}
  <2>1. f.payload \in Seq(Byte)
    BY ParserAssumption
  <2>2. n \in Nat
    BY <2>1, LenProperties
  <2>3. Spot(p) \in Nat
    BY DEF Spot, Packet
  <2> QED
    BY <2>2, <2>3 DEF ParserTypes, Base
<1> SUFFICES ASSUME NEW i \in 0..(n - 1), i >= Spot(q), i < pos - 5
             PROVE  Stored(k, p, byte)[Base(k) + i - Spot(q)] = f.payload[i + 1]
  OBVIOUS
<1>2. pos >= 6 /\ Spot(q) = Spot(p) /\ i \in Nat /\ i < n
  BY <1>1
<1>3. p.len = n /\ Index(p) = pos - 6 - Spot(p) /\ p.counter = pos - 2 /\ pos < n + 8
  BY <1>1, <1>2 DEF Index
<1>4. AtChecksumA(p) <=> pos = n + 6
  BY <1>1, <1>2, <1>3 DEF AtChecksumA
<1>5. AtChecksumB(p) <=> pos = n + 7
  BY <1>1, <1>2, <1>3 DEF AtChecksumB
<1>6. IsPayload(p) <=> pos < n + 6
  <2>1. p.counter >= 4
    BY <1>2, <1>3
  <2>2. \A x, y \in Nat : x < y + 8 => (x < y + 6 <=> ~(x = y + 6) /\ ~(x = y + 7))
    OBVIOUS
  <2>3. pos < n + 6 <=> ~(pos = n + 6) /\ ~(pos = n + 7)
    BY <1>1, <1>3, <2>2
  <2> QED
    BY <1>4, <1>5, <2>1, <2>3, Zenon DEF IsPayload
<1>7. Base(k) + i - Spot(p) \in Memory
  BY <1>1, <1>2, ParserAssumption DEF Memory
<1> DEFINE here == Base(k) + i - Spot(p)
           there == Base(k) + Index(p)
<1>8. CASE i < pos - 6
  <2>1. memory[here] = f.payload[i + 1]
    BY <1>2, <1>8
  <2>2. here # there
    BY <1>1, <1>2, <1>3, <1>8
  <2>3. Stored(k, p, byte) \in {memory, [memory EXCEPT ![there] = byte]}
    BY DEF Stored
  <2> HIDE DEF here, there
  <2>4. Stored(k, p, byte)[here] = memory[here]
    BY <1>1, <1>7, <2>2, <2>3 DEF here
  <2> QED
    BY <1>2, <2>1, <2>4 DEF here
<1>9. CASE i = pos - 6
  <2>1. here = there /\ pos < n + 6
    BY <1>1, <1>2, <1>3, <1>9
  <2>2. Index(p) >= 0 /\ Index(p) < MaxPayload
    BY <1>1, <1>2, <1>3, <1>9, ParserAssumption
  <2>3. Stored(k, p, byte) = [memory EXCEPT ![there] = byte]
    BY <1>6, <2>1, <2>2 DEF Stored
  <2>4. byte = f.payload[i + 1]
    <3>1. pos \in 6..(n + 5) /\ i + 1 = pos - 5
      BY <1>1, <1>2, <1>9
    <3> QED
      BY <3>1
  <2> HIDE DEF here, there
  <2>5. Stored(k, p, byte)[here] = byte
    BY <1>1, <1>7, <2>1, <2>3 DEF here
  <2> QED
    BY <1>2, <2>4, <2>5 DEF here
<1> QED
  BY <1>1, <1>2, <1>8, <1>9

\* The second synchronisation byte does no harm to the packet that it goes to.
LEMMA SecondByte ==
  ASSUME ParserTypes, ReceiverTypes, TakenInvariant, clean, sending.pos = 1,
         Process(ByteAt(sending))
  PROVE  /\ currentSentence' = "ubx" /\ ubxFrameCounter' = 2
         /\ rollingChecksumA' = sending.a /\ rollingChecksumB' = sending.b
<1> DEFINE f == sending.frame
           byte == ByteAt(sending)
           k == FrameClass(byte)
           p == Target(k)
<1>1. GoodOrder(f)
  BY DEF TakenInvariant, FrameComesIn
<1>2. byte = UBX_SYNCH_2 /\ byte \in Byte
  BY <1>1, BytesOfFrame, SentBytes DEF GoodOrder
<1>3. /\ UbxByte(byte) /\ FramePos = 1
      /\ Rolling(rollingChecksumA) = sending.a /\ Rolling(rollingChecksumB) = sending.b
  BY <1>1, <1>2, InFrame DEF GoodOrder
<1>4. k = ubxFrameClass /\ ~WrongSync(byte)
  BY <1>2, <1>3 DEF FrameClass, WrongSync
<1>5. CASE k = "none"
  <2> HIDE DEF byte
  <2> QED
    BY <1>3, <1>4, <1>5 DEF UbxByte
<1>6. CASE k # "none"
  <2>1. k \in Classes /\ p \in Packet
    BY <1>4, <1>6, TargetType DEF ParserTypes
  <2>2. p = PacketOf(ubxFrameClass)
    <3>1. FramePos # 2
      BY <1>3
    <3> QED
      BY <1>4, <3>1, Zenon DEF Target
  <2>3. p.counter >= p.len + 6 /\ p.counter + 1 # MaxPayload
    <3>1. ubxFrameClass # "none"
      BY <1>4, <1>6
    <3> HIDE DEF p
    <3> QED
      BY <1>1, <2>2, <3>1 DEF GoodOrder, SyncGoesOn
  <2>4. /\ ubxFrameCounter' = FramePos + 1
        /\ currentSentence' = (IF WrongSync(byte) \/ Ends(p) THEN "none" ELSE "ubx")
        /\ rollingChecksumA' = SumA(p, sending.a, byte)
        /\ rollingChecksumB' = SumB(p, sending.a, sending.b, byte)
    BY <1>2, <1>3, <1>6, OneByte
  <2> HIDE DEF p, k, byte
  <2>5. p.counter \in Nat /\ p.len \in Nat
    BY <2>1 DEF Packet
  <2>6. ~Ends(p) /\ ~Counted(p)
    BY <2>3, <2>5 DEF Ends, AtChecksumB, Counted
  <2> QED
    BY <1>3, <1>4, <2>4, <2>6 DEF SumA, SumB
<1> QED
  BY <1>5, <1>6

\* A byte that is not the last keeps the frame in good order.
LEMMA GoodByte ==
  ASSUME ParserTypes, ReceiverTypes, TakenInvariant, clean, sending.pos > 0,
         NextByte, ~LastByte
  PROVE  GoodOrder(sending.frame)'
<1> DEFINE f == sending.frame
           n == Len(f.payload)
           byte == ByteAt(sending)
           pos == sending.pos
<1>1. GoodOrder(f)
  BY DEF TakenInvariant, FrameComesIn
<1>2. f \in Frames /\ n + 6 <= MaxPayload /\ pos < n + 8
  BY <1>1 DEF GoodOrder, Total
<1>3. /\ pos \in Nat /\ n \in Nat /\ byte \in Byte /\ sending.a \in Byte
      /\ sending.b \in Byte
  BY FrameFacts, SentBytes
<1>4. pos + 1 < n + 8
  BY <1>2, <1>3 DEF LastByte, Total
<1>5. Process(byte) /\ sending' = Sent(sending)
  BY DEF NextByte
<1>6. /\ sending'.frame = f /\ sending'.pos = pos + 1
      /\ sending'.a = (IF Summed(sending) THEN (sending.a + byte) % 256 ELSE sending.a)
      /\ sending'.b = (IF Summed(sending) THEN (sending.b + sending.a + byte) % 256
                                          ELSE sending.b)
  BY <1>5 DEF Sent
<1>7. CASE pos = 1
  <2>1. ~Summed(sending)
    BY <1>7 DEF Summed
  <2>2. /\ currentSentence' = "ubx" /\ ubxFrameCounter' = sending'.pos
        /\ rollingChecksumA' = sending'.a /\ rollingChecksumB' = sending'.b
    BY <1>5, <1>6, <1>7, <2>1, SecondByte
  <2>3. sending'.pos = 2
    BY <1>6, <1>7
  <2>4. SyncGoesOn'
    BY <2>3 DEF SyncGoesOn
  <2>5. HeaderAgrees(f, 2, sending'.a, ubxFrameClass', PacketOf(Kind(f))')
    BY <1>3 DEF HeaderAgrees
  <2>6. PayloadAgrees(f, 2, Kind(f), PacketOf(Kind(f))', memory')
    BY <1>3 DEF PayloadAgrees
  <2> QED
    BY <1>2, <1>4, <1>6, <2>2, <2>3, <2>4, <2>5, <2>6 DEF GoodOrder, Total
<1>8. CASE pos >= 2
  <2> DEFINE k == Kind(f)
             p == Target(k)
             q == Filed(p, sending.a, sending.b, byte)
  <2>1. /\ UbxByte(byte) /\ FramePos = pos /\ FrameClass(byte) = k /\ k \in Classes
        /\ Rolling(rollingChecksumA) = sending.a /\ Rolling(rollingChecksumB) = sending.b
        /\ p \in Packet /\ p.counter = pos - 2
        /\ pos > 2 => p.cls = f.cls
        /\ pos > 3 => p.id = f.id
        /\ pos = 5 => p.len = n % 256
        /\ pos > 5 => p.len = n
        /\ pos = n + 7 => p.checksumA = sending.a
        /\ pos > 6 => PayloadAgrees(f, sending.pos, k, p, memory)
    BY <1>5, <1>8, BeforeByte
  <2>2. k # "none"
    BY <2>1 DEF Classes
  <2>3. /\ ubxFrameCounter' = pos + 1 /\ ubxFrameClass' = k
        /\ currentSentence' = (IF WrongSync(byte) \/ Ends(p) THEN "none" ELSE "ubx")
        /\ rollingChecksumA' = SumA(p, sending.a, byte)
        /\ rollingChecksumB' = SumB(p, sending.a, sending.b, byte)
        /\ packetAck' = (IF k = "ack" THEN q ELSE packetAck)
        /\ packetCfg' = (IF k = "cfg" THEN q ELSE packetCfg)
        /\ memory' = Stored(k, p, byte)
    BY <1>3, <2>1, <2>2, OneByte
  <2>4. PacketOf(k)' = q
    BY <1>6, <2>1, <2>3 DEF PacketOf, Classes, Kind
  <2>5. /\ pos = 2 => byte = f.cls
        /\ pos = 3 => byte = f.id
        /\ pos = 4 => byte = n % 256
        /\ pos = 5 => byte = n \div 256
        /\ pos \in 6..(n + 5) => byte = f.payload[pos - 5]
        /\ pos = n + 6 => byte = sending.a
    BY <1>2, BytesOfFrame DEF Total
  <2>6. Counted(p) <=> Summed(sending)
    BY <1>3, <1>8, <2>1, SumsAgree DEF Summed
  <2>7. /\ rollingChecksumA' = sending'.a /\ rollingChecksumB' = sending'.b
    BY <1>6, <2>3, <2>6 DEF SumA, SumB
  <2>8. p.len \in Nat /\ p.counter \in Nat
    BY <2>1 DEF Packet
  <2>9. ~WrongSync(byte)
    BY <1>8, <2>1 DEF WrongSync
  <2>10. ~Ends(p)
    BY <1>2, <1>3, <1>4, <1>8, <2>1, <2>8, ParserAssumption DEF Ends, AtChecksumB
  <2>11. currentSentence' = "ubx" /\ ubxFrameCounter' = sending'.pos
    BY <1>6, <2>3, <2>9, <2>10
  <2>12. /\ q.counter = pos - 1 /\ q.startingSpot = p.startingSpot
         /\ q.cls = f.cls
         /\ pos > 2 => q.id = f.id
         /\ pos = 4 => q.len = n % 256
         /\ pos > 4 => q.len = n
         /\ pos = n + 6 => q.checksumA = sending.a
    <3> HIDE DEF p, k, byte, f, n
    <3>1. q.counter = p.counter + 1 /\ q.startingSpot = p.startingSpot
      BY DEF Filed
    <3>2. q.cls = f.cls
      BY <1>3, <1>8, <2>1, <2>5 DEF Filed
    <3>3. pos > 2 => q.id = f.id
      BY <1>3, <1>8, <2>1, <2>5 DEF Filed
    <3>4. pos = 4 => q.len = n % 256
      BY <1>3, <2>1, <2>5 DEF Filed
    <3>5. pos = 5 => q.len = n
      <4>1. (n % 256) + 256 * (n \div 256) = n
        BY <1>3
      <4> QED
        BY <1>3, <2>1, <2>5, <4>1 DEF Filed
    <3>6. pos > 5 => q.len = n
      BY <1>3, <2>1 DEF Filed
    <3>7. pos = n + 6 => AtChecksumA(p)
      BY <1>3, <2>1 DEF AtChecksumA
    <3>8. pos = n + 6 => q.checksumA = sending.a
      BY <2>5, <3>7 DEF Filed
    <3> QED
      BY <1>3, <2>1, <3>1, <3>2, <3>3, <3>4, <3>5, <3>6, <3>8
  <2>13. n + 6 # n + 7 /\ (sending'.a = sending.a \/ pos # n + 6)
    BY <1>3, <1>6 DEF Summed
  <2>14. HeaderAgrees(f, pos + 1, sending'.a, k, q)
    <3> HIDE DEF q, p, k, n, pos
    <3>1. /\ pos + 1 > 2 /\ (pos + 1) - 2 = pos - 1
          /\ pos + 1 > 3 <=> pos > 2
          /\ pos + 1 > 5 <=> pos > 4
          /\ pos + 1 = 5 <=> pos = 4
          /\ pos + 1 = n + 7 <=> pos = n + 6
      BY <1>3, <1>8
    <3>2. /\ q.counter = (pos + 1) - 2 /\ q.cls = f.cls
          /\ pos + 1 > 3 => q.id = f.id
          /\ pos + 1 = 5 => q.len = n % 256
          /\ pos + 1 > 5 => q.len = n
          /\ pos + 1 = n + 7 => q.checksumA = sending'.a
      BY <2>12, <2>13, <3>1
    <3>3. k = Kind(f)
      BY DEF k
    <3>4. /\ pos + 1 > 2 => k = Kind(f) /\ q.counter = (pos + 1) - 2 /\ q.cls = f.cls
          /\ pos + 1 > 3 => q.id = f.id
          /\ pos + 1 = 5 => q.len = Len(f.payload) % 256
          /\ pos + 1 > 5 => q.len = Len(f.payload)
          /\ pos + 1 = Len(f.payload) + 7 => q.checksumA = sending'.a
      BY <3>2, <3>3, Zenon DEF n
    <3> QED
      BY <3>4, Zenon DEF HeaderAgrees
  <2>15. pos >= 6 => Spot(q) = Spot(p)
    <3>1. pos >= 6 => pos > 3 /\ pos > 2
      BY <1>3
    <3> HIDE DEF q, p
    <3> QED
      BY <2>1, <2>12, <3>1, Zenon DEF Spot
  <2>16. q \in Packet
    BY <1>3, <2>1, FiledType
  <2>17. PayloadAgrees(f, pos + 1, k, q, memory')
    <3>1. \A i \in 0..(n - 1) :
            i >= Spot(p) /\ i < pos - 6 => memory[Base(k) + i - Spot(p)] = f.payload[i + 1]
      BY <1>3, <2>1 DEF PayloadAgrees
    <3>2. (pos + 1) - 6 = pos - 5
      BY <1>3
    <3> HIDE DEF q, p, k, byte, pos, f
    <3>3. /\ f \in Frames /\ k \in Classes /\ p \in Packet /\ q \in Packet
          /\ byte \in Byte /\ pos \in Nat
      BY <1>2, <1>3, <2>1, <2>16
    <3>4. /\ Len(f.payload) + 6 <= MaxPayload /\ pos >= 2 /\ pos < Len(f.payload) + 8
          /\ p.counter = pos - 2 /\ (pos > 5 => p.len = Len(f.payload))
          /\ (pos \in 6..(Len(f.payload) + 5) => byte = f.payload[pos - 5])
          /\ (pos >= 6 => Spot(q) = Spot(p))
      BY <1>2, <1>8, <2>1, <2>5, <2>15, Zenon
    <3>5. \A i \in 0..(n - 1) :
            i >= Spot(q) /\ i < pos - 5 =>
              Stored(k, p, byte)[Base(k) + i - Spot(q)] = f.payload[i + 1]
      BY <3>1, <3>3, <3>4, PayloadGrows, Zenon
    <3>6. \A i \in 0..(n - 1) :
            i >= Spot(q) /\ i < (pos + 1) - 6 => memory'[Base(k) + i - Spot(q)] = f.payload[i + 1]
      <4> HIDE DEF n
      <4> QED
        BY <2>3, <3>2, <3>5
    <3> QED
      BY <3>6, Zenon DEF PayloadAgrees, n
  <2>18. SyncGoesOn'
    BY <1>3, <1>6, <1>8 DEF SyncGoesOn
  <2> HIDE DEF q, p
  <2> QED
    BY <1>2, <1>4, <1>6, <2>3, <2>4, <2>7, <2>11, <2>14, <2>17, <2>18 DEF GoodOrder, Total
<1> QED
  BY <1>3, <1>7, <1>8

\* The first synchronisation byte finds the parser listening and the last packet
\* complete.
LEMMA FirstByte ==
  ASSUME ParserTypes, NEW f \in Frames, CleanStart(f), Process(UBX_SYNCH_1),
         sending' = Sent([NoFrame EXCEPT !.frame = f])
  PROVE  GoodOrder(f)' /\ sending'.frame = f
<1> DEFINE k == ubxFrameClass
           p == Target(k)
<1>0. f \in FrameType /\ Len(f.payload) \in Nat
  <2>1. f.payload \in Seq(Byte) /\ f \in FrameType
    BY ParserAssumption DEF FrameType
  <2> QED
    BY <2>1, LenProperties
<1>1. sending' = [frame |-> f, pos |-> 1, a |-> 0, b |-> 0]
  <2>1. [NoFrame EXCEPT !.frame = f] = [frame |-> f, pos |-> 0, a |-> 0, b |-> 0]
    BY DEF NoFrame
  <2> QED
    BY <2>1 DEF Sent, Summed
<1>2. sending'.frame = f /\ sending'.pos = 1 /\ sending'.a = 0 /\ sending'.b = 0
  BY <1>1
<1>3. Listening /\ SyncHarmless /\ Len(f.payload) + 6 <= MaxPayload
  BY DEF CleanStart
<1>4. UbxByte(UBX_SYNCH_1) /\ FramePos = 0
  BY <1>3 DEF Process, UbxByte, NmeaByte, RtcmByte, Opened, FramePos,
              UBX_SYNCH_1, Dollar, RtcmPreamble
<1>5. Rolling(rollingChecksumA) = 0 /\ Rolling(rollingChecksumB) = 0
  BY <1>3 DEF Rolling
<1>6. FrameClass(UBX_SYNCH_1) = k /\ ~WrongSync(UBX_SYNCH_1)
  BY <1>4 DEF FrameClass, WrongSync
<1>7. /\ currentSentence' = "ubx" /\ ubxFrameCounter' = 1
      /\ rollingChecksumA' = 0 /\ rollingChecksumB' = 0 /\ SyncGoesOn'
  <2>1. CASE k = "none"
    BY <1>2, <1>4, <1>5, <1>6, <2>1 DEF UbxByte, SyncGoesOn
  <2>2. CASE k # "none"
    <3>1. k \in Classes /\ p \in Packet /\ UBX_SYNCH_1 \in Byte
      <4>1. k \in Classes
        BY <2>2 DEF ParserTypes
      <4> QED
        BY <4>1, TargetType DEF UBX_SYNCH_1, Byte
    <3>2. p = PacketOf(k)
      <4>1. FramePos # 2
        BY <1>4
      <4> QED
        BY <4>1, Zenon DEF Target
    <3>3. p.counter >= p.len + 6 /\ p.counter + 1 # MaxPayload /\ p.counter + 2 # MaxPayload
      <4>1. PacketOf(k).counter >= PacketOf(k).len + 6
            /\ PacketOf(k).counter \notin {MaxPayload - 2, MaxPayload - 1}
        BY <1>3, <2>2 DEF SyncHarmless
      <4>2. p.counter \in Nat
        BY <3>1 DEF Packet
      <4> HIDE DEF p
      <4> QED
        BY <3>2, <4>1, <4>2, ParserAssumption
    <3> DEFINE q == Filed(p, 0, 0, UBX_SYNCH_1)
    <3>4. /\ ubxFrameCounter' = 1 /\ ubxFrameClass' = k
          /\ currentSentence' = (IF WrongSync(UBX_SYNCH_1) \/ Ends(p) THEN "none" ELSE "ubx")
          /\ rollingChecksumA' = SumA(p, 0, UBX_SYNCH_1)
          /\ rollingChecksumB' = SumB(p, 0, 0, UBX_SYNCH_1)
          /\ packetAck' = (IF k = "ack" THEN q ELSE packetAck)
          /\ packetCfg' = (IF k = "cfg" THEN q ELSE packetCfg)
      BY <1>4, <1>5, <1>6, <2>2, <3>1, OneByte
    <3>5. PacketOf(k)' = q
      BY <3>1, <3>4 DEF PacketOf, Classes
    <3> HIDE DEF p
    <3>6. p.counter \in Nat /\ p.len \in Nat
      BY <3>1 DEF Packet
    <3>7. q.counter = p.counter + 1 /\ q.len = p.len
      BY <3>3, <3>6 DEF Filed
    <3>8. ~Ends(p) /\ ~Counted(p)
      BY <3>3, <3>6 DEF Ends, AtChecksumB, Counted
    <3>9. q.counter >= q.len + 6 /\ q.counter + 1 # MaxPayload
      BY <3>3, <3>6, <3>7, ParserAssumption
    <3> HIDE DEF q
    <3>10. SyncGoesOn'
      BY <3>5, <3>9 DEF SyncGoesOn
    <3> QED
      BY <1>6, <3>4, <3>8, <3>10 DEF SumA, SumB
  <2> QED
    BY <2>1, <2>2
<1>8. HeaderAgrees(f, 1, sending'.a, ubxFrameClass', PacketOf(Kind(f))')
  BY <1>0 DEF HeaderAgrees
<1>9. PayloadAgrees(f, 1, Kind(f), PacketOf(Kind(f))', memory')
  BY <1>0 DEF PayloadAgrees
<1> QED
  BY <1>0, <1>2, <1>3, <1>7, <1>8, <1>9 DEF GoodOrder, Total

----------------------------------------------------------------------------
\* The last byte: the sums agree, and the packet holds what the frame does.
LEMMA LastByteTakes ==
  ASSUME ParserTypes, ReceiverTypes, TakenInvariant, clean, LastByte, NextByte
  PROVE  IsTaken(sending.frame)
<1> DEFINE f == sending.frame
           n == Len(f.payload)
           byte == ByteAt(sending)
           k == Kind(f)
           p == Target(k)
           q == Filed(p, sending.a, sending.b, byte)
           spot == Spot(p)
<1>1. /\ sending.pos > 0 /\ sending.pos + 1 = n + 8 /\ Process(byte)
  BY DEF LastByte, NextByte, Total
<1>2. /\ f \in FrameType /\ n \in Nat /\ sending.pos \in Nat /\ byte \in Byte
      /\ sending.a \in Byte /\ sending.b \in Byte
  BY FrameFacts, SentBytes
<1>3. sending.pos = n + 7 /\ sending.pos >= 2
  BY <1>1, <1>2
<1>4. f \in Frames
  <2>1. GoodOrder(f)
    BY <1>1 DEF TakenInvariant, FrameComesIn
  <2> QED
    BY <2>1 DEF GoodOrder
<1>5. /\ UbxByte(byte) /\ FramePos = sending.pos /\ FrameClass(byte) = k /\ k \in Classes
      /\ Rolling(rollingChecksumA) = sending.a /\ Rolling(rollingChecksumB) = sending.b
      /\ p \in Packet /\ p.counter = sending.pos - 2
      /\ sending.pos > 2 => p.cls = f.cls
      /\ sending.pos > 3 => p.id = f.id
      /\ sending.pos > 5 => p.len = n
      /\ sending.pos = n + 7 => p.checksumA = sending.a
      /\ sending.pos > 6 => PayloadAgrees(f, sending.pos, k, p, memory)
      /\ k = "ack" => p.startingSpot = 0
  BY <1>1, <1>3, BeforeByte
<1>6. /\ p.counter = n + 5 /\ p.cls = f.cls /\ p.id = f.id /\ p.len = n
      /\ p.checksumA = sending.a
  BY <1>2, <1>3, <1>5
<1>7. byte = sending.b
  <2>1. sending.pos < Total(f)
    BY <1>2, <1>3 DEF Total
  <2> QED
    BY <1>3, <2>1, BytesOfFrame
<1>8. p = PacketOf(k) /\ spot = Spot(PacketOf(k)) /\ spot \in Nat
  <2>1. FramePos # 2
    BY <1>2, <1>3, <1>5
  <2>2. p = PacketOf(k)
    BY <2>1, Zenon DEF Target
  <2>3. spot \in Nat
    BY <1>5 DEF Spot, Packet
  <2> QED
    BY <2>2, <2>3, Zenon
<1>9. AtChecksumB(p) /\ ~AtChecksumA(p) /\ ~IsPayload(p)
  BY <1>2, <1>6 DEF AtChecksumA, AtChecksumB, IsPayload
<1>10. Passes(p, sending.a, sending.b, byte) /\ Ends(p)
  BY <1>6, <1>7, <1>9 DEF Passes, Ends
<1>11. /\ currentSentence' = (IF WrongSync(byte) \/ Ends(p) THEN "none" ELSE "ubx")
       /\ packetAck' = (IF k = "ack" THEN q ELSE packetAck)
       /\ packetCfg' = (IF k = "cfg" THEN q ELSE packetCfg)
       /\ memory' = Stored(k, p, byte)
       /\ ProcessUBXpacket(p, Passes(p, sending.a, sending.b, byte))
  <2>1. k # "none"
    BY <1>5 DEF Classes
  <2> QED
    BY <1>2, <1>5, <2>1, OneByte
<1>12. memory' = memory
  BY <1>9, <1>11 DEF Stored
<1>13. q.valid /\ q.cls = f.cls /\ q.id = f.id /\ q.len = n
  <2>1. q = [cls          |-> IF p.counter = 0 THEN byte ELSE p.cls,
             id           |-> IF p.counter = 1 THEN byte ELSE p.id,
             len          |-> IF p.counter = 2 THEN byte
                              ELSE IF p.counter = 3 THEN p.len + 256 * byte ELSE p.len,
             counter      |-> p.counter + 1,
             startingSpot |-> p.startingSpot,
             checksumA    |-> IF AtChecksumA(p) THEN byte ELSE p.checksumA,
             checksumB    |-> IF AtChecksumB(p) THEN byte ELSE p.checksumB,
             valid        |-> p.valid \/ Passes(p, sending.a, sending.b, byte)]
    BY DEF Filed
  <2>2. q.valid
    <3> DEFINE valid == p.valid \/ Passes(p, sending.a, sending.b, byte)
    <3>1. valid
      BY <1>10, Zenon
    <3> HIDE DEF valid, p, byte
    <3>2. q.valid = valid
      BY <2>1 DEF valid
    <3> QED
      BY <3>1, <3>2, Zenon
  <2> HIDE DEF p, n, f, byte
  <2>3. q.cls = f.cls /\ q.id = f.id /\ q.len = n
    BY <1>2, <1>6, <2>1
  <2> QED
    BY <2>2, <2>3
<1>14. \A i \in spot..(n - 1) : memory[Base(k) + i - spot] = f.payload[i + 1]
  <2>1. PayloadAgrees(f, sending.pos, k, p, memory)
    BY <1>2, <1>3, <1>5
  <2>2. \A i \in 0..(n - 1) :
          i >= spot /\ i < sending.pos - 6 => memory[Base(k) + i - spot] = f.payload[i + 1]
    BY <2>1, Zenon DEF PayloadAgrees
  <2> HIDE DEF spot, p, k, n, f
  <2> QED
    BY <1>2, <1>3, <1>8, <2>2
<1>15. IF k = "ack" THEN packetAck' = q ELSE packetCfg' = q
  BY <1>5, <1>11 DEF Classes
<1>16. ASSUME f.cls = UBX_CLASS_ACK, f.payload = <<packetCfg.cls, packetCfg.id>>
       PROVE  commandAck' = f.id
  <2>1. k = "ack" /\ n = 2 /\ f.id \in {UBX_ACK_ACK, UBX_ACK_NACK} /\ Base(k) = 0
    BY <1>4, <1>16, ParserAssumption DEF Kind, Base
  <2>2. spot = 0
    BY <1>5, <1>6, <1>16, <2>1 DEF Spot, UBX_CLASS_ACK, UBX_CLASS_NAV
  <2>3. memory[0] = f.payload[1] /\ memory[1] = f.payload[2]
    <3> HIDE DEF spot, k, n, f
    <3> QED
      BY <1>14, <2>1, <2>2
  <2>4. Acknowledges(p)
    BY <1>6, <1>16, <2>3 DEF Acknowledges
  <2> HIDE DEF p
  <2> QED
    BY <1>6, <1>10, <1>11, <2>1, <2>4 DEF ProcessUBXpacket
<1>17. ASSUME NEW m \in 0..MaxPayload, f.cls = UBX_CLASS_NAV, n = m, spot = 0
       PROVE  Extracted(m) = f.payload
  <2>1. k = "cfg" /\ Base(k) = 2
    BY <1>17 DEF Kind, Base, UBX_CLASS_NAV, UBX_CLASS_ACK
  <2>2. /\ Extracted(m) \in Seq(Byte) /\ Len(Extracted(m)) = m
        /\ \A i \in 1..m : Extracted(m)[i] = memory[i + 1]
    BY ExtractedType DEF ParserTypes
  <2>3. f.payload \in Seq(Byte)
    BY <1>2 DEF FrameType
  <2>4. \A i \in 1..m : f.payload[i] = memory[i + 1]
    <3> TAKE i \in 1..m
    <3>1. i - 1 \in 0..(n - 1) /\ 2 + (i - 1) - 0 = i + 1 /\ (i - 1) + 1 = i
      BY <1>2, <1>17
    <3> HIDE DEF spot, k, n, f
    <3>2. memory[2 + (i - 1) - 0] = f.payload[(i - 1) + 1]
      BY <1>14, <1>17, <2>1, <3>1
    <3> QED
      BY <3>1, <3>2
  <2> HIDE DEF f
  <2> QED
    BY <1>17, <2>2, <2>3, <2>4, SeqEqual DEF n
<1>18. ASSUME f.cls = UBX_CLASS_NAV, f.id = UBX_NAV_PVT, n = PvtLen
       PROVE  solution' = f.payload
  <2>1. spot = 0
    BY <1>6, <1>18 DEF Spot
  <2>2. Extracted(PvtLen) = f.payload
    BY <1>17, <1>18, <2>1, ParserAssumption
  <2> HIDE DEF p
  <2> QED
    BY <1>6, <1>10, <1>11, <1>18, <2>2 DEF ProcessUBXpacket
<1>19. ASSUME f.cls = UBX_CLASS_NAV, f.id = UBX_NAV_HPPOSLLH, n = HpLen, spot = 0
       PROVE  highRes' = f.payload
  <2>2. Extracted(HpLen) = f.payload
    BY <1>17, <1>19, ParserAssumption
  <2> HIDE DEF p
  <2> QED
    BY <1>6, <1>10, <1>11, <1>19, <2>2 DEF ProcessUBXpacket
<1>20. currentSentence' = "none"
  BY <1>10, <1>11
<1>21. /\ (IF k = "ack" THEN packetAck' ELSE packetCfg') = q
       /\ Spot(PacketOf(k)) = spot
  BY <1>8, <1>15, Zenon
<1> HIDE DEF q, p, spot, k, n, f
<1>22. /\ currentSentence' = "none"
       /\ q.valid /\ q.cls = f.cls /\ q.id = f.id /\ q.len = n
       /\ \A i \in spot..(n - 1) : memory'[Base(k) + i - spot] = f.payload[i + 1]
       /\ f.cls = UBX_CLASS_ACK /\ f.payload = <<packetCfg.cls, packetCfg.id>> =>
            commandAck' = f.id
       /\ f.cls = UBX_CLASS_NAV /\ f.id = UBX_NAV_PVT /\ n = PvtLen =>
            solution' = f.payload
       /\ f.cls = UBX_CLASS_NAV /\ f.id = UBX_NAV_HPPOSLLH /\ n = HpLen /\ spot = 0 =>
            highRes' = f.payload
  BY <1>12, <1>13, <1>14, <1>16, <1>18, <1>19, <1>20
<1> QED
  BY <1>21, <1>22, Zenon DEF IsTaken, k, n, f

----------------------------------------------------------------------------
\* No byte moves the beginning of the ACK packet, and rtcmLen is never one.
LEMMA ProcessKeeps ==
  ASSUME ParserTypes, AckFromItsBeginning, rtcmLen # 1, NEW byte \in Byte, Process(byte)
  PROVE  AckFromItsBeginning' /\ rtcmLen' # 1
<1>1. rtcmLen \in Nat /\ byte \in Int /\ byte >= 0
  BY DEF ParserTypes, Byte
<1>2. CASE UbxByte(byte)
  <2>1. rtcmLen' = rtcmLen
    BY <1>2 DEF UbxByte
  <2>2. CASE FrameClass(byte) = "none"
    <3>1. packetAck' = packetAck
      BY <1>2, <2>2 DEF UbxByte, bufferVars
    <3> QED
      BY <2>1, <3>1 DEF AckFromItsBeginning
  <2>3. CASE FrameClass(byte) # "none"
    <3> DEFINE k == FrameClass(byte)
               p == Target(k)
               q == Filed(p, Rolling(rollingChecksumA), Rolling(rollingChecksumB), byte)
    <3>1. packetAck' = (IF k = "ack" THEN q ELSE packetAck)
      BY <1>2, <2>3, OneByte
    <3>2. q.startingSpot = p.startingSpot
      <4> HIDE DEF p
      <4> QED
        BY DEF Filed
    <3>3. k = "ack" => p.startingSpot = packetAck.startingSpot
      <4>1. packetAck \in Packet
        BY DEF ParserTypes
      <4>2. k = "ack" => p \in {packetAck, [packetAck EXCEPT !.counter = 0, !.valid = FALSE]}
        BY DEF Target, PacketOf
      <4>3. [packetAck EXCEPT !.counter = 0, !.valid = FALSE].startingSpot
              = packetAck.startingSpot
        BY <4>1 DEF Packet
      <4> HIDE DEF p, k
      <4> QED
        BY <4>2, <4>3
    <3> HIDE DEF q, p, k
    <3> QED
      BY <2>1, <3>1, <3>2, <3>3 DEF AckFromItsBeginning
  <2> QED
    BY <2>2, <2>3
<1>3. CASE NmeaByte(byte)
  BY <1>3 DEF NmeaByte, bufferVars, AckFromItsBeginning
<1>4. CASE RtcmByte(byte)
  <2>1. packetAck' = packetAck
    BY <1>4 DEF RtcmByte, bufferVars
  <2>2. rtcmLen' \in {(byte % 4) * 256, rtcmLen + byte + 6, rtcmLen}
    BY <1>4 DEF RtcmByte
  <2>3. (byte % 4) * 256 # 1 /\ rtcmLen + byte + 6 # 1
    BY <1>1
  <2> QED
    BY <2>1, <2>2, <2>3 DEF AckFromItsBeginning
<1> QED
  BY <1>2, <1>3, <1>4 DEF Process

LEMMA BytesAreNumbers == \A x \in Byte : x \in Nat
  BY DEF Byte

\* A sentence that begins while process listens.
LEMMA FirstOfSentence ==
  ASSUME ParserTypes, NEW s \in Sentences, rtcmLen # 1, Listening, Process(s[1]),
         sentence' = Tail(s), rtcmLen' # 1
  PROVE  SentenceComesIn'
<1>1. /\ s \in Seq(Byte) /\ Len(s) \in Nat /\ Len(s) > 1 /\ (IsNmea(s) \/ IsRtcm(s))
  <2>1. s \in Seq(Byte)
    BY ParserAssumption
  <2> QED
    BY <2>1, ParserAssumption, LenProperties
<1>2. /\ Len(sentence') = Len(s) - 1
      /\ \A i \in 1..(Len(s) - 1) : sentence'[i] = s[i + 1]
  <2>1. s # <<>>
    BY <1>1
  <2> QED
    BY <1>1, <2>1, HeadTailProperties
<1>3. CASE IsNmea(s)
  <2>1. s[1] = Dollar
    BY <1>3 DEF IsNmea
  <2>2. Opened(s[1]) = "nmea"
    BY <2>1 DEF Opened, Dollar, UBX_SYNCH_1, RtcmPreamble
  <2>3. currentSentence' = "nmea"
    BY <2>2 DEF Process, UbxByte, NmeaByte, RtcmByte
  <2>4. \A i \in 1..Len(sentence') : sentence'[i] \notin {UBX_SYNCH_1, RtcmPreamble}
    <3> TAKE i \in 1..Len(sentence')
    <3>1. i \in 1..(Len(s) - 1) /\ i + 1 \in 2..Len(s)
      BY <1>1, <1>2
    <3> QED
      BY <1>2, <1>3, <3>1 DEF IsNmea
  <2> QED
    BY <2>3, <2>4 DEF SentenceComesIn
<1>4. CASE IsRtcm(s)
  <2>1. s[1] = RtcmPreamble /\ Len(s) > 5 /\ Len(s) = 256 * (s[2] % 4) + s[3] + 6
    BY <1>4 DEF IsRtcm
  <2>2. Opened(s[1]) = "rtcm"
    BY <2>1 DEF Opened, RtcmPreamble, Dollar, UBX_SYNCH_1
  <2>3. RtcmByte(s[1])
    BY <2>2 DEF Process, UbxByte, NmeaByte
  <2>4. rtcmFrameCounter' = 1 /\ rtcmLen' = rtcmLen
    BY <2>3 DEF RtcmByte
  <2>5. currentSentence' = "rtcm"
    BY <2>3, <2>4 DEF RtcmByte
  <2>6. sentence'[1] = s[2] /\ sentence'[2] = s[3]
    BY <1>1, <1>2, <2>1
  <2>7. /\ Len(sentence') >= 2
        /\ Len(sentence') + 1 = 256 * (sentence'[1] % 4) + sentence'[2] + 6
    <3>1. s[2] \in Nat /\ s[3] \in Nat
      <4>1. s[2] \in Byte /\ s[3] \in Byte
        BY <1>1, <2>1
      <4> QED
        BY <4>1, BytesAreNumbers
    <3> QED
      BY <1>1, <1>2, <2>1, <2>6, <3>1
  <2> QED
    BY <2>4, <2>5, <2>7 DEF SentenceComesIn, RtcmAgrees
<1> QED
  BY <1>1, <1>3, <1>4

\* A byte of a sentence that began so: the parser goes on in it, and listens after it.
LEMMA SentenceByte ==
  ASSUME ParserTypes, ReceiverTypes, SentenceComesIn, clean, sentence # <<>>,
         Process(Head(sentence)), sentence' = Tail(sentence), rtcmLen' # 1
  PROVE  /\ SentenceComesIn'
         /\ sentence' = <<>> => currentSentence' \in {"none", "nmea"}
<1> DEFINE byte == Head(sentence)
           n == Len(sentence)
<1>1. /\ sentence \in Seq(Byte) /\ n \in Nat /\ n > 0 /\ byte = sentence[1] /\ byte \in Byte
      /\ Len(sentence') = n - 1 /\ \A i \in 1..(n - 1) : sentence'[i] = sentence[i + 1]
      /\ sentence' = <<>> <=> n = 1
  <2>1. sentence \in Seq(Byte)
    BY DEF ReceiverTypes
  <2>2. sentence' \in Seq(Byte) /\ n \in Nat /\ n > 0
    BY <2>1, HeadTailProperties, LenProperties, EmptySeq
  <2>3. Len(sentence') = n - 1 /\ \A i \in 1..(n - 1) : sentence'[i] = sentence[i + 1]
    BY <2>1, HeadTailProperties
  <2>4. byte = sentence[1] /\ byte \in Byte
    BY <2>1, <2>2
  <2>5. sentence' = <<>> <=> Len(sentence') = 0
    BY <2>2, EmptySeq
  <2> QED
    BY <2>1, <2>2, <2>3, <2>4, <2>5
<1>2. CASE /\ currentSentence = "nmea"
           /\ \A i \in 1..n : sentence[i] \notin {UBX_SYNCH_1, RtcmPreamble}
  <2>1. byte \notin {UBX_SYNCH_1, RtcmPreamble}
    BY <1>1, <1>2
  <2>2. Opened(byte) = "nmea"
    BY <1>2, <2>1 DEF Opened, Listening
  <2>3. currentSentence' = "nmea"
    BY <2>2 DEF Process, UbxByte, NmeaByte, RtcmByte
  <2>4. \A i \in 1..Len(sentence') : sentence'[i] \notin {UBX_SYNCH_1, RtcmPreamble}
    <3> TAKE i \in 1..Len(sentence')
    <3>1. i \in 1..(n - 1) /\ i + 1 \in 1..n
      BY <1>1
    <3> QED
      BY <1>1, <1>2, <3>1
  <2> QED
    BY <2>3, <2>4 DEF SentenceComesIn
<1>3. CASE RtcmAgrees
  <2>1. ~Listening /\ Opened(byte) = "rtcm"
    BY <1>3 DEF RtcmAgrees, Listening, Opened
  <2>2. RtcmByte(byte)
    BY <2>1 DEF Process, UbxByte, NmeaByte
  <2>3. /\ rtcmFrameCounter' = rtcmFrameCounter + 1
        /\ rtcmLen' = (CASE rtcmFrameCounter = 1 -> (byte % 4) * 256
                         [] rtcmFrameCounter = 2 -> rtcmLen + byte + 6
                         [] OTHER -> rtcmLen)
        /\ currentSentence' = IF rtcmFrameCounter' = rtcmLen' THEN "none" ELSE "rtcm"
    BY <2>1, <2>2 DEF RtcmByte
  <2>4. rtcmFrameCounter \in Nat /\ rtcmLen \in Nat /\ byte \in Nat
    BY <1>1, BytesAreNumbers DEF ParserTypes
  <2>5. CASE /\ rtcmFrameCounter = 1 /\ n >= 2
             /\ n + 1 = 256 * (sentence[1] % 4) + sentence[2] + 6
    <3>1. rtcmFrameCounter' = 2 /\ rtcmLen' = 256 * (sentence[1] % 4)
      BY <1>1, <2>3, <2>4, <2>5
    <3>2. 256 * (sentence[1] % 4) # 2
      BY <1>1, <2>4
    <3>3. currentSentence' = "rtcm" /\ sentence'[1] = sentence[2]
      BY <1>1, <2>3, <2>5, <3>1, <3>2
    <3>4. sentence[2] \in Nat /\ sentence[1] % 4 \in Nat
      <4>1. sentence[2] \in Byte
        BY <1>1, <2>5
      <4> QED
        BY <1>1, <2>4, <4>1, BytesAreNumbers
    <3>5. Len(sentence') >= 1 /\ Len(sentence') + 2 = rtcmLen' + sentence'[1] + 6
      BY <1>1, <2>5, <3>1, <3>3, <3>4
    <3> QED
      BY <1>1, <2>5, <3>1, <3>3, <3>5 DEF SentenceComesIn, RtcmAgrees
  <2>6. CASE /\ rtcmFrameCounter = 2 /\ n >= 1 /\ n + 2 = rtcmLen + sentence[1] + 6
    <3>1. rtcmFrameCounter' = 3 /\ rtcmLen' = n + 2
      BY <1>1, <2>3, <2>4, <2>6
    <3>2. rtcmLen' # 3 /\ n # 1
      BY <1>1, <2>4, <2>6, <3>1
    <3>3. currentSentence' = "rtcm"
      BY <2>3, <3>1, <3>2
    <3>4. Len(sentence') + rtcmFrameCounter' = rtcmLen' /\ rtcmFrameCounter' >= 3
      BY <1>1, <3>1
    <3> QED
      BY <1>1, <3>2, <3>3, <3>4 DEF SentenceComesIn, RtcmAgrees
  <2>7. CASE rtcmFrameCounter >= 3 /\ n + rtcmFrameCounter = rtcmLen
    <3>1. rtcmFrameCounter' = rtcmFrameCounter + 1 /\ rtcmLen' = rtcmLen
      BY <2>3, <2>4, <2>7
    <3>2. rtcmFrameCounter' = rtcmLen' <=> n = 1
      BY <1>1, <2>4, <2>7, <3>1
    <3>3. Len(sentence') + rtcmFrameCounter' = rtcmLen' /\ rtcmFrameCounter' >= 3
      BY <1>1, <2>4, <2>7, <3>1
    <3> QED
      BY <1>1, <2>3, <3>2, <3>3 DEF SentenceComesIn, RtcmAgrees
  <2> QED
    BY <1>3, <2>5, <2>6, <2>7 DEF RtcmAgrees
<1> QED
  BY <1>2, <1>3 DEF SentenceComesIn

----------------------------------------------------------------------------
\* What the thread does between two bytes leaves a frame in good order only when the
\* frame goes to the packet of the ACKs.
LEMMA ThreadStep ==
  ASSUME ParserTypes, ReceiverTypes, TakenInvariant, Prepare \/ Forget
  PROVE  TakenInvariant'
<1> DEFINE f == sending.frame
<1>1. /\ UNCHANGED <<parserVars, sending, sentence>> /\ clean' = (clean /\ LeavesFrame)
  BY DEF Prepare, Forget
<1>2. packetAck \in Packet /\ memory \in [Memory -> Byte] /\ MaxPayload \in Nat
  BY ParserAssumption DEF ParserTypes
<1>3. packetAck' \in {packetAck, [packetAck EXCEPT !.valid = FALSE]}
  BY DEF Prepare, Forget
<1>4. /\ packetAck'.counter = packetAck.counter /\ packetAck'.cls = packetAck.cls
      /\ packetAck'.id = packetAck.id /\ packetAck'.len = packetAck.len
      /\ packetAck'.startingSpot = packetAck.startingSpot
      /\ packetAck'.checksumA = packetAck.checksumA
  BY <1>2, <1>3 DEF Packet
<1>5. memory'[0] = memory[0] /\ memory'[1] = memory[1]
  <2>1. CASE Prepare
    <3>1. PICK c \in Commands :
            memory' = [i \in Memory |-> IF i - Base("cfg") \in 0..(Len(c.payload) - 1)
                                        THEN c.payload[i - Base("cfg") + 1] ELSE memory[i]]
      BY <2>1 DEF Prepare
    <3>2. 0 \in Memory /\ 1 \in Memory /\ Base("cfg") = 2
      BY <1>2 DEF Memory, Base
    <3>3. 0 - 2 \notin 0..(Len(c.payload) - 1) /\ 1 - 2 \notin 0..(Len(c.payload) - 1)
      <4>1. Len(c.payload) \in Nat
        BY ParserAssumption, LenProperties
      <4> QED
        BY <4>1
    <3> QED
      BY <3>1, <3>2, <3>3
  <2>2. CASE Forget
    BY <2>2 DEF Forget
  <2> QED
    BY <2>1, <2>2
<1>6. OneAtATime' /\ AckFromItsBeginning'
  BY <1>1, <1>4 DEF TakenInvariant, OneAtATime, AckFromItsBeginning
<1>7. SentenceComesIn'
  <2>1. clean' => clean
    BY <1>1
  <2> QED
    BY <1>1, <2>1 DEF TakenInvariant, SentenceComesIn, RtcmAgrees, parserVars
<1>8. ASSUME clean', sending'.pos > 0 PROVE GoodOrder(f)' /\ sending'.frame = f
  <2>1. clean /\ LeavesFrame /\ sending.pos > 0
    BY <1>1, <1>8
  <2>2. sending.pos > 2 /\ ubxFrameClass = "ack"
    BY <2>1, FrameFacts DEF LeavesFrame
  <2>3. GoodOrder(f)
    BY <2>1 DEF TakenInvariant, FrameComesIn
  <2>4. Kind(f) = "ack" /\ packetAck.cls = f.cls /\ f.cls = UBX_CLASS_ACK
    <3>1. HeaderAgrees(f, sending.pos, sending.a, ubxFrameClass, PacketOf(Kind(f)))
      BY <2>3 DEF GoodOrder
    <3>2. ubxFrameClass = Kind(f) /\ PacketOf(Kind(f)).cls = f.cls
      BY <2>2, <3>1 DEF HeaderAgrees
    <3> QED
      BY <2>2, <3>2 DEF PacketOf, Kind
  <2>5. PacketOf(Kind(f)) = packetAck /\ PacketOf(Kind(f))' = packetAck'
    BY <1>1, <2>4 DEF PacketOf, Kind
  <2>6. HeaderAgrees(f, sending.pos, sending.a, ubxFrameClass, packetAck)
    BY <2>3, <2>5 DEF GoodOrder
  <2>7. HeaderAgrees(f, sending.pos, sending.a, ubxFrameClass, packetAck')
    BY <1>4, <2>6, Zenon DEF HeaderAgrees
  <2>8. PayloadAgrees(f, sending.pos, "ack", packetAck, memory)
    BY <2>3, <2>4, <2>5 DEF GoodOrder
  <2>9. Spot(packetAck) = 0 /\ Spot(packetAck') = 0 /\ Base("ack") = 0
    BY <1>4, <2>4 DEF Spot, Base, TakenInvariant, AckFromItsBeginning, UBX_CLASS_ACK,
                      UBX_CLASS_NAV
  <2>10. Len(f.payload) = 2
    BY <2>3, <2>4, ParserAssumption DEF GoodOrder
  <2>11. PayloadAgrees(f, sending.pos, "ack", packetAck', memory')
    <3> SUFFICES ASSUME NEW i \in 0..(Len(f.payload) - 1), i >= 0, i < sending.pos - 6
                 PROVE  memory'[0 + i - 0] = f.payload[i + 1]
      BY <2>9 DEF PayloadAgrees
    <3>1. i \in {0, 1} /\ 0 + i - 0 = i
      BY <2>10
    <3>2. memory[0 + i - 0] = f.payload[i + 1]
      BY <2>8, <2>9 DEF PayloadAgrees
    <3> QED
      BY <1>5, <3>1, <3>2
  <2>12. SyncGoesOn'
    BY <1>1, <2>2 DEF SyncGoesOn
  <2> QED
    BY <1>1, <2>3, <2>4, <2>5, <2>7, <2>11, <2>12 DEF GoodOrder, parserVars, Total, Kind
<1>9. FrameComesIn'
  BY <1>8 DEF FrameComesIn
<1> QED
  BY <1>6, <1>7, <1>9 DEF TakenInvariant

\* The invariant of the frames and sentences that come in.
LEMMA TakenStep == TypeOK /\ TakenInvariant /\ [Next]_vars => TakenInvariant'
<1> SUFFICES ASSUME ParserTypes, ReceiverTypes, TakenInvariant, [Next]_vars
             PROVE  TakenInvariant'
  BY DEF TypeOK
<1>1. /\ OneAtATime /\ AckFromItsBeginning /\ FrameComesIn /\ SentenceComesIn
      /\ rtcmLen # 1 /\ sending.pos \in Nat
  BY FrameFacts DEF TakenInvariant, SentenceComesIn
<1>2. ASSUME NEW byte \in Byte, Process(byte)
      PROVE  AckFromItsBeginning' /\ rtcmLen' # 1
  BY <1>1, <1>2, ProcessKeeps
<1>3. CASE BeginFrame
  <2>1. PICK f \in Frames : /\ NextItem /\ sending' = Sent([NoFrame EXCEPT !.frame = f])
                            /\ Process(UBX_SYNCH_1) /\ clean' = CleanStart(f)
                            /\ UNCHANGED sentence
    BY <1>3 DEF BeginFrame
  <2>2. AckFromItsBeginning' /\ rtcmLen' # 1
    BY <1>2, <2>1 DEF Byte, UBX_SYNCH_1
  <2>3. sentence' = <<>>
    BY <2>1 DEF NextItem, Quiet
  <2>4. FrameComesIn'
    BY <2>1, FirstByte DEF FrameComesIn
  <2> QED
    BY <2>2, <2>3, <2>4 DEF TakenInvariant, OneAtATime, SentenceComesIn
<1>4. CASE NextByte
  <2>1. AckFromItsBeginning' /\ rtcmLen' # 1
    BY <1>2, <1>4, SentBytes DEF NextByte
  <2>2. sentence = <<>> /\ sentence' = <<>> /\ clean' = clean
    BY <1>1, <1>4 DEF OneAtATime, NextByte
  <2>3. CASE LastByte
    <3>1. sending'.pos = 0
      BY <1>4, <2>3 DEF NextByte, NoFrame
    <3> QED
      BY <2>1, <2>2, <3>1 DEF TakenInvariant, OneAtATime, SentenceComesIn, FrameComesIn
  <2>4. CASE ~LastByte
    <3>1. clean => GoodOrder(sending.frame)'
      BY <1>4, <2>4, GoodByte DEF NextByte
    <3>2. FrameComesIn'
      BY <2>2, <3>1 DEF FrameComesIn
    <3> QED
      BY <2>1, <2>2, <3>2 DEF TakenInvariant, OneAtATime, SentenceComesIn
  <2> QED
    BY <2>3, <2>4
<1>5. CASE BeginSentence
  <2>1. PICK s \in Sentences : /\ NextItem /\ sentence' = Tail(s) /\ Process(s[1])
                               /\ clean' = Listening /\ UNCHANGED sending
    BY <1>5 DEF BeginSentence
  <2>2. s[1] \in Byte
    <3>1. s \in Seq(Byte) /\ Len(s) > 1
      BY ParserAssumption
    <3> QED
      BY <3>1, ElementOfSeq, LenProperties
  <2>3. AckFromItsBeginning' /\ rtcmLen' # 1
    BY <1>2, <2>1, <2>2
  <2>4. sending'.pos = 0
    BY <2>1 DEF NextItem, Quiet
  <2>5. SentenceComesIn'
    <3>1. CASE Listening
      BY <1>1, <2>1, <2>3, <3>1, FirstOfSentence
    <3>2. CASE ~Listening
      BY <2>1, <2>3, <3>2 DEF SentenceComesIn
    <3> QED
      BY <3>1, <3>2
  <2> QED
    BY <2>3, <2>4, <2>5 DEF TakenInvariant, OneAtATime, FrameComesIn
<1>6. CASE NextSentenceByte
  <2>1. /\ sentence # <<>> /\ Process(Head(sentence)) /\ sentence' = Tail(sentence)
        /\ UNCHANGED <<sending, clean>>
    BY <1>6 DEF NextSentenceByte
  <2>2. Head(sentence) \in Byte
    BY <2>1, HeadTailProperties DEF ReceiverTypes
  <2>3. AckFromItsBeginning' /\ rtcmLen' # 1
    BY <1>2, <2>1, <2>2
  <2>4. ~(sending'.pos > 0)
    BY <1>1, <2>1 DEF OneAtATime
  <2>5. SentenceComesIn'
    <3>1. CASE clean
      BY <1>1, <2>1, <2>3, <3>1, SentenceByte
    <3>2. CASE ~clean
      BY <2>1, <2>3, <3>2 DEF SentenceComesIn
    <3> QED
      BY <3>1, <3>2
  <2> QED
    BY <2>3, <2>4, <2>5 DEF TakenInvariant, OneAtATime, FrameComesIn
<1>7. CASE Cut
  <2>1. sending'.pos = 0 /\ UNCHANGED <<parserVars, packetAck, sentence, clean>>
    BY <1>7 DEF Cut, NoFrame, bufferVars
  <2> QED
    BY <1>1, <2>1 DEF TakenInvariant, OneAtATime, AckFromItsBeginning, FrameComesIn,
                      SentenceComesIn, RtcmAgrees, parserVars
<1>8. CASE Prepare \/ Forget
  BY <1>8, ThreadStep
<1>9. CASE UNCHANGED vars
  <2>1. UNCHANGED <<parserVars, bufferVars, sending, sentence, clean>>
    BY <1>9 DEF vars
  <2> QED
    BY <1>1, <2>1, Zenon DEF TakenInvariant, OneAtATime, AckFromItsBeginning, FrameComesIn,
         SentenceComesIn, RtcmAgrees, parserVars, bufferVars, GoodOrder, SyncGoesOn, PacketOf
<1> QED
  BY <1>3, <1>4, <1>5, <1>6, <1>7, <1>8, <1>9 DEF Next

\* Every frame that begins in good order is taken, with all its bytes, and process
\* listens again after every sentence that does.
THEOREM FramesAreTaken == Spec => FrameIsTaken
<1>1. Init => TakenInvariant
  BY DEF Init, TakenInvariant, OneAtATime, AckFromItsBeginning, FrameComesIn,
         SentenceComesIn, EmptyPacket, NoFrame
<1>2. TypeOK /\ TakenInvariant /\ [Next]_vars =>
        [/\ LastByte /\ clean /\ sending'.pos = 0 /\ cuts' = cuts => IsTaken(sending.frame)
         /\ sentence # <<>> /\ sentence' = <<>> /\ clean =>
              currentSentence' \in {"none", "nmea"}]_vars
  <2> SUFFICES ASSUME ParserTypes, ReceiverTypes, TakenInvariant, Next
               PROVE  /\ LastByte /\ clean /\ sending'.pos = 0 /\ cuts' = cuts =>
                           IsTaken(sending.frame)
                      /\ sentence # <<>> /\ sentence' = <<>> /\ clean =>
                           currentSentence' \in {"none", "nmea"}
    BY DEF TypeOK
  <2>1. ASSUME LastByte, clean, sending'.pos = 0, cuts' = cuts
        PROVE  IsTaken(sending.frame)
    <3>1. sending.pos > 0 /\ sending' # sending
      BY <2>1, FrameFacts DEF LastByte
    <3>2. ~Cut
      <4>1. cuts \in Nat
        BY ParserAssumption DEF ReceiverTypes
      <4>2. Cut => cuts' = cuts + 1
        BY DEF Cut
      <4>3. cuts + 1 # cuts
        BY <4>1
      <4> QED
        BY <2>1, <4>2, <4>3, Zenon
    <3>3. NextByte
      <4>1. sending.pos # 0
        BY <3>1, FrameFacts
      <4>2. ~BeginFrame /\ ~BeginSentence
        BY <4>1, Zenon DEF BeginFrame, BeginSentence, NextItem, Quiet
      <4>3. ~NextSentenceByte
        BY <3>1, Zenon DEF NextSentenceByte
      <4>4. ~Prepare /\ ~Forget
        BY <3>1 DEF Prepare, Forget
      <4> QED
        BY <3>2, <4>2, <4>3, <4>4, Zenon DEF Next
    <3> QED
      BY <2>1, <3>3, LastByteTakes
  <2>2. ASSUME sentence # <<>>, sentence' = <<>>, clean
        PROVE  currentSentence' \in {"none", "nmea"}
    <3>1. ~(sending.pos > 0)
      BY <2>2 DEF TakenInvariant, OneAtATime
    <3>2. NextSentenceByte
      BY <2>2, <3>1 DEF Next, BeginFrame, NextItem, Quiet, BeginSentence, NextByte, Cut,
                        Prepare, Forget
    <3>3. /\ Process(Head(sentence)) /\ sentence' = Tail(sentence) /\ rtcmLen # 1
          /\ Head(sentence) \in Byte
      BY <2>2, <3>2, HeadTailProperties DEF NextSentenceByte, ReceiverTypes, TakenInvariant,
                                            SentenceComesIn
    <3>4. rtcmLen' # 1
      BY <3>3, ProcessKeeps DEF TakenInvariant
    <3> QED
      BY <2>2, <3>3, <3>4, SentenceByte DEF TakenInvariant
  <2> QED
    BY <2>1, <2>2
<1> QED
  BY <1>1, <1>2, InitTypes, NextTypes, TakenStep, PTL DEF Spec, FrameIsTaken

----------------------------------------------------------------------------
(***************************************************************************)
(* The last answer, while the ACK that follows it comes in.                *)
(***************************************************************************)
\* A packet that is complete, and what the array of payloadCfg holds of its answer.
Holds(p, mem, bytes) ==
  /\ p.valid /\ p.counter >= p.len + 6 /\ p.len + 6 <= MaxPayload
  /\ Len(bytes) + Spot(p) <= p.len
  /\ \A i \in 1..Len(bytes) : mem[Base("cfg") + i - 1] = bytes[i]

\* The two bytes that begin a frame go to packetCfg; the others go to it only if they
\* are those of an answer.
AckComes ==
  sending.pos > 0 =>
    /\ sending.pos = 1 \/ Kind(sending.frame) = "ack"
    /\ sending.pos <= 2 => ubxFrameClass = "cfg"

\* The first byte of a frame has been read.
Opening == currentSentence = "ubx" /\ ubxFrameCounter = 1

\* An ACK whose first two bytes brought the counter of packetCfg to the limit is lost:
\* process does not find a third byte of a frame in what is left of it.
AckIsLost ==
  sending.pos > 0 /\ ~clean /\ Kind(sending.frame) = "ack" =>
    /\ ubxFrameClass = "cfg"
    /\ sending.pos = 1 =>
         \/ currentSentence = "none"
         \/ Opening /\ packetCfg.counter + 1 = MaxPayload
    /\ sending.pos \in 2..7 => Listening
    /\ sending.pos = 8 =>
         \/ Listening \/ currentSentence = "rtcm"
         \/ Opening /\ sending.frame.payload[2] = UBX_SYNCH_1
    /\ sending.pos = 9 => Listening \/ currentSentence = "rtcm" \/ Opening

\* What is so from the last byte of an answer to the next answer or command.
AnswerInvariant ==
  answer # <<>> =>
    /\ Holds(packetCfg, memory, answer) /\ ubxFrameClass \in Classes
    /\ sentence # <<>> => clean
    /\ AckComes /\ AckIsLost

\* The last byte of a frame ends it.
WithinFrame == sending.pos > 0 => sending.pos < Total(sending.frame)

\* The first sum of an ACK: its two synchronisation bytes do not come again in it.
AckSums ==
  LET f == sending.frame
      header == UBX_CLASS_ACK + f.id + 2
  IN sending.pos > 0 /\ f.cls = UBX_CLASS_ACK =>
       /\ sending.pos <= 2 => sending.a = 0
       /\ sending.pos = 3 => sending.a = UBX_CLASS_ACK
       /\ sending.pos = 4 => sending.a = UBX_CLASS_ACK + f.id
       /\ sending.pos \in {5, 6} => sending.a = header
       /\ sending.pos = 7 => sending.a = header + f.payload[1]
       /\ sending.pos = 8 => sending.a = (header + f.payload[1] + f.payload[2]) % 256

\* An ACK is one that the receiver sends, of an id and of two bytes, the first of which
\* is a class.
LEMMA AckFacts ==
  ASSUME ReceiverTypes, sending.frame.cls = UBX_CLASS_ACK
  PROVE  LET f == sending.frame IN
           /\ f \in Frames /\ Len(f.payload) = 2 /\ f.id \in {0, 1}
           /\ f.payload[1] \in Nat /\ f.payload[1] < 98
           /\ f.payload[2] \in Nat /\ f.payload[2] < 256
<1> DEFINE f == sending.frame
<1>1. f \in Frames
  BY DEF ReceiverTypes, Transmission, NoFrame, UBX_CLASS_ACK
<1>2. /\ Len(f.payload) = 2 /\ f.id \in {0, 1} /\ f.payload[1] < 98
      /\ f.payload \in Seq(Byte)
  <2> HIDE DEF f
  <2> QED
    BY <1>1, ParserAssumption DEF f, UBX_ACK_ACK, UBX_ACK_NACK, UBX_SYNCH_2
<1>3. f.payload[1] \in Byte /\ f.payload[2] \in Byte
  <2> HIDE DEF f
  <2> QED
    BY <1>2, ElementOfSeq
<1>4. \A x \in Byte : x \in Nat /\ x < 256
  BY DEF Byte
<1> HIDE DEF f
<1> QED
  BY <1>1, <1>2, <1>3, <1>4 DEF f

\* What is sent of an ACK, place by place.
LEMMA AckBytes ==
  ASSUME ReceiverTypes, sending.frame.cls = UBX_CLASS_ACK, sending.pos < Total(sending.frame)
  PROVE  LET f == sending.frame
             byte == ByteAt(sending)
         IN /\ sending.pos < 10
            /\ sending.pos = 1 => byte = UBX_SYNCH_2
            /\ sending.pos = 2 => byte = UBX_CLASS_ACK
            /\ sending.pos = 3 => byte = f.id
            /\ sending.pos = 4 => byte = 2
            /\ sending.pos = 5 => byte = 0
            /\ sending.pos = 6 => byte = f.payload[1]
            /\ sending.pos = 7 => byte = f.payload[2]
            /\ sending.pos = 8 => byte = sending.a
<1> DEFINE f == sending.frame
<1>1. Len(f.payload) = 2
  BY AckFacts
<1>2. sending.pos \in Nat
  BY FrameFacts
<1>3. sending.pos < 10
  BY <1>1 DEF Total
<1>4. /\ sending.pos = 1 => ByteAt(sending) = UBX_SYNCH_2
      /\ sending.pos = 2 => ByteAt(sending) = f.cls
      /\ sending.pos = 3 => ByteAt(sending) = f.id
      /\ sending.pos = 4 => ByteAt(sending) = 2 % 256
      /\ sending.pos = 5 => ByteAt(sending) = 2 \div 256
      /\ sending.pos \in 6..7 => ByteAt(sending) = f.payload[sending.pos - 5]
      /\ sending.pos = 8 => ByteAt(sending) = sending.a
  BY <1>1, BytesOfFrame
<1>5. 2 % 256 = 2 /\ 2 \div 256 = 0
  OBVIOUS
<1>6. sending.pos = 6 => ByteAt(sending) = f.payload[1]
  <2> SUFFICES ASSUME sending.pos = 6 PROVE ByteAt(sending) = f.payload[1]
    OBVIOUS
  <2>1. sending.pos - 5 = 1 /\ sending.pos \in 6..7
    OBVIOUS
  <2> QED
    BY <1>4, <2>1
<1>7. sending.pos = 7 => ByteAt(sending) = f.payload[2]
  <2> SUFFICES ASSUME sending.pos = 7 PROVE ByteAt(sending) = f.payload[2]
    OBVIOUS
  <2>1. sending.pos - 5 = 2 /\ sending.pos \in 6..7
    OBVIOUS
  <2> QED
    BY <1>4, <2>1
<1> QED
  BY <1>3, <1>4, <1>5, <1>6, <1>7

\* Every step keeps the place in the frame, and the sum of an ACK.
LEMMA WithinFrameStep == TypeOK /\ WithinFrame /\ [Next]_vars => WithinFrame'
<1> SUFFICES ASSUME ReceiverTypes, WithinFrame, [Next]_vars
             PROVE  WithinFrame'
  BY DEF TypeOK
<1>1. CASE BeginFrame
  <2>1. PICK f \in Frames : sending' = Sent([NoFrame EXCEPT !.frame = f])
    BY <1>1 DEF BeginFrame
  <2>2. [NoFrame EXCEPT !.frame = f] = [frame |-> f, pos |-> 0, a |-> 0, b |-> 0]
    BY DEF NoFrame
  <2>3. sending'.pos = 1 /\ sending'.frame = f
    BY <2>1, <2>2 DEF Sent
  <2>4. Len(f.payload) \in Nat
    BY ParserAssumption, LenProperties
  <2> QED
    BY <2>3, <2>4 DEF WithinFrame, Total
<1>2. CASE NextByte
  <2>1. CASE LastByte
    BY <1>2, <2>1 DEF NextByte, WithinFrame, NoFrame
  <2>2. CASE ~LastByte
    <3>1. sending.pos > 0 /\ sending' = Sent(sending)
      BY <1>2, <2>2 DEF NextByte
    <3>2. sending'.pos = sending.pos + 1 /\ sending'.frame = sending.frame
      BY <3>1 DEF Sent
    <3>3. sending.pos < Total(sending.frame) /\ sending.pos + 1 # Total(sending.frame)
      BY <2>2, <3>1 DEF WithinFrame, LastByte
    <3>4. Total(sending.frame) \in Nat /\ sending.pos \in Nat
      BY FrameFacts DEF Total
    <3>5. sending.pos + 1 < Total(sending.frame)
      BY <3>3, <3>4
    <3> QED
      BY <3>2, <3>5 DEF WithinFrame, Total
  <2> QED
    BY <2>1, <2>2
<1>3. CASE BeginSentence \/ NextSentenceByte \/ Cut \/ Prepare \/ Forget \/ UNCHANGED vars
  <2>1. sending' = sending \/ sending' = NoFrame
    BY <1>3 DEF BeginSentence, NextSentenceByte, Cut, Prepare, Forget, vars
  <2> QED
    BY <2>1 DEF WithinFrame, Total, NoFrame
<1> QED
  BY <1>1, <1>2, <1>3 DEF Next

\* Every step keeps the sum of an ACK that is being sent.
LEMMA AckSumsStep == TypeOK /\ AckSums /\ [Next]_vars => AckSums'
<1> SUFFICES ASSUME ReceiverTypes, AckSums, [Next]_vars
             PROVE  AckSums'
  BY DEF TypeOK
<1>1. CASE BeginFrame
  <2>1. PICK f \in Frames : sending' = Sent([NoFrame EXCEPT !.frame = f])
    BY <1>1 DEF BeginFrame
  <2>2. [NoFrame EXCEPT !.frame = f] = [frame |-> f, pos |-> 0, a |-> 0, b |-> 0]
    BY DEF NoFrame
  <2>3. sending'.pos = 1 /\ sending'.a = 0
    BY <2>1, <2>2 DEF Sent, Summed
  <2> QED
    BY <2>3 DEF AckSums
<1>2. CASE NextByte
  <2> SUFFICES ASSUME sending'.pos > 0, sending'.frame.cls = UBX_CLASS_ACK
               PROVE  AckSums'
    BY DEF AckSums
  <2> DEFINE f == sending.frame
             byte == ByteAt(sending)
  <2>1. sending' = Sent(sending) /\ ~LastByte /\ sending.pos > 0
    BY <1>2 DEF NextByte, NoFrame
  <2>2. /\ sending'.frame = f /\ sending'.pos = sending.pos + 1
        /\ sending'.a = IF Summed(sending) THEN (sending.a + byte) % 256 ELSE sending.a
    BY <2>1 DEF Sent
  <2>3. Len(f.payload) = 2 /\ f.id \in {0, 1} /\ f.payload[1] \in Nat /\ f.payload[1] < 98
        /\ f.payload[2] \in Nat /\ f.payload[2] < 256
    BY <2>2, AckFacts
  <2>4. sending.pos \in Nat /\ sending.a \in Nat
    BY FrameFacts, BytesAreNumbers
  <2>5. Summed(sending) <=> sending.pos \in 2..7
    BY <2>3 DEF Summed
  <2>6. CASE sending.pos < Total(f)
    <3>1. /\ sending.pos = 2 => byte = UBX_CLASS_ACK
          /\ sending.pos = 3 => byte = f.id
          /\ sending.pos = 4 => byte = 2
          /\ sending.pos = 5 => byte = 0
          /\ sending.pos = 6 => byte = f.payload[1]
          /\ sending.pos = 7 => byte = f.payload[2]
      BY <2>2, <2>6, AckBytes
    <3>2. sending.pos \in 1..9
      BY <2>1, <2>3, <2>4, <2>6 DEF Total
    <3>3. /\ sending.pos <= 2 => sending.a = 0
          /\ sending.pos = 3 => sending.a = UBX_CLASS_ACK
          /\ sending.pos = 4 => sending.a = UBX_CLASS_ACK + f.id
          /\ sending.pos \in {5, 6} => sending.a = UBX_CLASS_ACK + f.id + 2
          /\ sending.pos = 7 => sending.a = UBX_CLASS_ACK + f.id + 2 + f.payload[1]
      BY <2>1, <2>2 DEF AckSums
    <3> HIDE DEF f, byte
    <3>4. /\ sending'.pos <= 2 => sending'.a = 0
          /\ sending'.pos = 3 => sending'.a = 5
          /\ sending'.pos = 4 => sending'.a = 5 + f.id
      BY <2>2, <2>3, <2>4, <2>5, <3>1, <3>2, <3>3 DEF UBX_CLASS_ACK
    <3>5. sending.pos \in 2..7 => sending'.a = (sending.a + byte) % 256
      BY <2>2, <2>5
    <3>6. sending'.pos = 5 => sending'.a = 7 + f.id
      BY <2>2, <2>3, <2>4, <3>1, <3>2, <3>3, <3>5 DEF UBX_CLASS_ACK
    <3>7. sending'.pos = 6 => sending'.a = 7 + f.id
      BY <2>2, <2>3, <2>4, <3>1, <3>2, <3>3, <3>5 DEF UBX_CLASS_ACK
    <3>8. sending'.pos = 7 => sending'.a = 7 + f.id + f.payload[1]
      BY <2>2, <2>3, <2>4, <3>1, <3>2, <3>3, <3>5 DEF UBX_CLASS_ACK
    <3>9. sending'.pos = 8 => sending'.a = (7 + f.id + f.payload[1] + f.payload[2]) % 256
      BY <2>2, <2>3, <2>4, <3>1, <3>2, <3>3, <3>5 DEF UBX_CLASS_ACK
    <3> QED
      BY <2>2, <2>3, <2>4, <3>4, <3>6, <3>7, <3>8, <3>9 DEF AckSums, UBX_CLASS_ACK
  <2>7. CASE ~(sending.pos < Total(f))
    <3>1. sending'.pos > 8
      BY <2>2, <2>3, <2>4, <2>7 DEF Total
    <3> QED
      BY <2>2, <2>4, <3>1 DEF AckSums
  <2> QED
    BY <2>6, <2>7
<1>3. CASE BeginSentence \/ NextSentenceByte \/ Cut \/ Prepare \/ Forget \/ UNCHANGED vars
  <2>1. sending' = sending \/ sending' = NoFrame
    BY <1>3 DEF BeginSentence, NextSentenceByte, Cut, Prepare, Forget, vars
  <2>2. CASE sending' = sending
    BY <2>2 DEF AckSums
  <2>3. CASE sending' = NoFrame
    BY <2>3 DEF AckSums, NoFrame
  <2> QED
    BY <2>1, <2>2, <2>3
<1> QED
  BY <1>1, <1>2, <1>3 DEF Next
\* Another byte of a complete packet changes neither its fields nor its answer.
LEMMA SpentPacket ==
  ASSUME memory \in [Memory -> Byte], NEW p \in Packet, NEW bytes \in Seq(Byte),
         Holds(p, memory, bytes), NEW a \in Byte, NEW b \in Byte, NEW byte \in Byte
  PROVE  /\ Holds(Filed(p, a, b, byte), Stored("cfg", p, byte), bytes)
         /\ Filed(p, a, b, byte).counter = p.counter + 1
<1> DEFINE q == Filed(p, a, b, byte)
<1>1. /\ p.counter \in Nat /\ p.len \in Nat /\ p.counter >= p.len + 6 /\ MaxPayload \in Nat
      /\ p.len + 6 <= MaxPayload /\ Len(bytes) \in Nat /\ p.valid /\ Spot(p) \in Nat
      /\ Len(bytes) + Spot(p) <= p.len
  <2>1. Len(bytes) \in Nat /\ MaxPayload \in Nat
    BY LenProperties, ParserAssumption
  <2>2. p.startingSpot \in Nat /\ Spot(p) \in {0, p.startingSpot}
    BY DEF Packet, Spot
  <2> QED
    BY <2>1, <2>2 DEF Packet, Holds
<1>2. /\ q.valid /\ q.counter = p.counter + 1 /\ q.len = p.len /\ q.cls = p.cls
      /\ q.id = p.id /\ q.startingSpot = p.startingSpot
  <2>1. q.valid
    <3>1. q.valid = (p.valid \/ Passes(p, a, b, byte))
      BY Zenon DEF Filed
    <3> QED
      BY <1>1, <3>1, Zenon
  <2>2. /\ q.counter = p.counter + 1 /\ q.startingSpot = p.startingSpot
        /\ q.len = (IF p.counter = 2 THEN byte
                    ELSE IF p.counter = 3 THEN p.len + 256 * byte ELSE p.len)
        /\ q.cls = (IF p.counter = 0 THEN byte ELSE p.cls)
        /\ q.id = (IF p.counter = 1 THEN byte ELSE p.id)
    BY Zenon DEF Filed
  <2> HIDE DEF q
  <2> QED
    BY <1>1, <2>1, <2>2
<1>3. Spot(q) = Spot(p)
  BY <1>2, Zenon DEF Spot
<1>4. ASSUME NEW i \in 1..Len(bytes)
      PROVE  Stored("cfg", p, byte)[Base("cfg") + i - 1] = bytes[i]
  <2>1. memory[2 + i - 1] = bytes[i]
    BY DEF Holds, Base
  <2>2. 2 + i - 1 \in Memory
    BY <1>1 DEF Memory
  <2>3. Index(p) >= Len(bytes)
    BY <1>1 DEF Index
  <2>4. 2 + Index(p) # 2 + i - 1
    BY <1>1, <2>3 DEF Index
  <2>5. [memory EXCEPT ![2 + Index(p)] = byte][2 + i - 1] = memory[2 + i - 1]
    BY <2>2, <2>4
  <2>6. Stored("cfg", p, byte) \in {memory, [memory EXCEPT ![2 + Index(p)] = byte]}
    BY DEF Stored, Base
  <2> QED
    BY <2>1, <2>5, <2>6, Zenon DEF Base
<1> HIDE DEF q
<1>5. q.counter >= q.len + 6 /\ q.len + 6 <= MaxPayload /\ Len(bytes) + Spot(q) <= q.len
  BY <1>1, <1>2, <1>3
<1> QED
  BY <1>2, <1>4, <1>5 DEF Holds, q

\* A byte that belongs to no frame whose class is known, while the last one was an answer.
LEMMA StrayByte ==
  ASSUME ParserTypes, NEW bytes \in Seq(Byte), Holds(packetCfg, memory, bytes),
         ubxFrameClass = "cfg", NEW byte \in Byte, Process(byte),
         Listening \/ currentSentence = "rtcm" \/ Opening
  PROVE  /\ Holds(packetCfg', memory', bytes) /\ ubxFrameClass' = "cfg"
         /\ Listening => \/ Listening' \/ currentSentence' = "rtcm"
                         \/ byte = UBX_SYNCH_1 /\ Opening'
         /\ Listening /\ byte \notin {UBX_SYNCH_1, RtcmPreamble} => Listening'
         /\ Listening /\ byte = UBX_SYNCH_1 =>
              \/ currentSentence' = "none" /\ packetCfg.counter + 1 = MaxPayload
              \/ /\ Opening' /\ packetCfg.counter + 1 # MaxPayload
                 /\ packetCfg'.counter = packetCfg.counter + 1
         /\ currentSentence = "rtcm" => currentSentence' \in {"none", "rtcm"}
         /\ Opening /\ (byte # UBX_SYNCH_2 \/ packetCfg.counter + 1 = MaxPayload) =>
              currentSentence' = "none"
<1>1. CASE NmeaByte(byte)
  <2>0. /\ UNCHANGED <<packetCfg, memory, ubxFrameClass>>
        /\ Opened(byte) \in {"none", "nmea"} /\ currentSentence' = Opened(byte)
    BY <1>1 DEF NmeaByte, bufferVars
  <2>1. Listening /\ currentSentence' \in {"none", "nmea"} /\ byte # UBX_SYNCH_1
    BY <2>0 DEF Opened, Listening, Opening, UBX_SYNCH_1, Dollar, RtcmPreamble
  <2> QED
    BY <2>0, <2>1 DEF Listening, Opening
<1>2. CASE RtcmByte(byte)
  <2>1. /\ UNCHANGED <<packetCfg, memory, ubxFrameClass>>
        /\ currentSentence' \in {"none", "rtcm"}
    BY <1>2 DEF RtcmByte, bufferVars
  <2>2. Opened(byte) = "rtcm"
    BY <1>2 DEF RtcmByte
  <2>3. currentSentence = "rtcm" \/ (Listening /\ byte = RtcmPreamble)
    BY <2>2 DEF Opened, Listening, Opening
  <2> QED
    BY <2>1, <2>3 DEF Listening, Opening, UBX_SYNCH_1, RtcmPreamble
<1>3. CASE UbxByte(byte)
  <2> DEFINE a == Rolling(rollingChecksumA)
             b == Rolling(rollingChecksumB)
             q == Filed(packetCfg, a, b, byte)
  <2>1. \/ Listening /\ byte = UBX_SYNCH_1 /\ FramePos = 0
        \/ Opening /\ ~Listening /\ FramePos = 1
    BY <1>3 DEF UbxByte, Opened, Listening, FramePos, Opening
  <2>2. FramePos # 2 /\ FrameClass(byte) = "cfg" /\ Target("cfg") = packetCfg
    BY <2>1 DEF FrameClass, Target, PacketOf
  <2>3. a \in Byte /\ b \in Byte /\ packetCfg \in Packet /\ memory \in [Memory -> Byte]
    BY ClassTypes DEF ParserTypes
  <2>4. /\ ubxFrameCounter' = FramePos + 1 /\ ubxFrameClass' = "cfg"
        /\ currentSentence' = (IF WrongSync(byte) \/ Ends(packetCfg) THEN "none" ELSE "ubx")
        /\ packetCfg' = q /\ memory' = Stored("cfg", packetCfg, byte)
    BY <1>3, <2>2, OneByte
  <2>5. Holds(packetCfg', memory', bytes) /\ packetCfg'.counter = packetCfg.counter + 1
    BY <2>3, <2>4, SpentPacket
  <2>6. Ends(packetCfg) <=> packetCfg.counter + 1 = MaxPayload
    <3>1. packetCfg.counter >= packetCfg.len + 6 /\ packetCfg.counter \in Nat
          /\ packetCfg.len \in Nat
      BY <2>3 DEF Holds, Packet
    <3> QED
      BY <3>1 DEF Ends, AtChecksumB
  <2>7. CASE Listening /\ byte = UBX_SYNCH_1 /\ FramePos = 0
    <3>1. ~WrongSync(byte) /\ ubxFrameCounter' = 1
      BY <2>4, <2>7 DEF WrongSync
    <3>2. \/ currentSentence' = "none" /\ packetCfg.counter + 1 = MaxPayload
          \/ Opening' /\ packetCfg.counter + 1 # MaxPayload
      BY <2>4, <2>6, <3>1 DEF Opening
    <3> QED
      BY <2>4, <2>5, <2>7, <3>2 DEF Listening, Opening
  <2>8. CASE Opening /\ ~Listening /\ FramePos = 1
    <3>1. WrongSync(byte) <=> byte # UBX_SYNCH_2
      BY <2>8 DEF WrongSync
    <3> QED
      BY <2>4, <2>5, <2>6, <2>8, <3>1 DEF Opening
  <2> QED
    BY <2>1, <2>7, <2>8
<1> QED
  BY <1>1, <1>2, <1>3 DEF Process
\* A byte of an ACK that began in good order, after the two that begin it, leaves
\* packetCfg and its array alone.
LEMMA AckGoesApart ==
  ASSUME ParserTypes, ReceiverTypes, TakenInvariant, clean, sending.pos >= 2,
         Kind(sending.frame) = "ack", Process(ByteAt(sending))
  PROVE  /\ packetCfg' = packetCfg /\ ubxFrameClass' = "ack"
         /\ \A i \in Memory : i >= 2 => memory'[i] = memory[i]
<1> DEFINE p == Target("ack")
           byte == ByteAt(sending)
<1>1. sending.frame.cls = UBX_CLASS_ACK
  BY DEF Kind
<1>2. Len(sending.frame.payload) = 2
  BY <1>1, AckFacts
<1>3. /\ UbxByte(byte) /\ FrameClass(byte) = "ack" /\ p \in Packet
      /\ p.counter = sending.pos - 2
      /\ sending.pos > 2 => p.cls = UBX_CLASS_ACK
      /\ sending.pos > 5 => p.len = 2
      /\ p.startingSpot = 0
  BY <1>1, <1>2, BeforeByte
<1>4. /\ ubxFrameClass' = "ack" /\ packetCfg' = packetCfg
      /\ memory' = Stored("ack", p, byte)
  BY <1>3, SentBytes, OneByte
<1>5. sending.pos \in Nat /\ sending.pos < 10
  <2>1. sending.pos \in Nat
    BY FrameFacts
  <2>2. GoodOrder(sending.frame)
    BY <2>1 DEF TakenInvariant, FrameComesIn
  <2> QED
    BY <1>2, <2>1, <2>2 DEF GoodOrder, Total
<1>6. memory' = memory \/ \E j \in {0, 1} : memory' = [memory EXCEPT ![j] = byte]
  <2>1. CASE IsPayload(p)
    <3>1. sending.pos \in 6..7 /\ Spot(p) = 0
      <4> HIDE DEF p
      <4> QED
        BY <1>3, <1>5, <2>1 DEF IsPayload, AtChecksumA, AtChecksumB, Spot
    <3>2. Base("ack") + Index(p) \in {0, 1}
      <4> HIDE DEF p
      <4> QED
        BY <1>3, <1>5, <3>1 DEF Base, Index
    <3> QED
      BY <1>4, <3>2 DEF Stored
  <2>2. CASE ~IsPayload(p)
    BY <1>4, <2>2 DEF Stored
  <2> QED
    BY <2>1, <2>2
<1>7. ASSUME NEW i \in Memory, i >= 2 PROVE memory'[i] = memory[i]
  <2>1. i # 0 /\ i # 1
    BY <1>7
  <2> QED
    BY <1>6, <2>1 DEF ParserTypes
<1> QED
  BY <1>4, <1>7

\* The last byte of an answer: its payload is in payloadCfg, from where its packet says.
LEMMA AnswerComes ==
  ASSUME ParserTypes, ReceiverTypes, TakenInvariant, clean, LastByte, NextByte,
         Kind(sending.frame) = "cfg", answer' # <<>>
  PROVE  Holds(packetCfg', memory', answer') /\ ubxFrameClass' = "cfg"
<1> DEFINE f == sending.frame
           n == Len(f.payload)
           byte == ByteAt(sending)
           a == Rolling(rollingChecksumA)
           b == Rolling(rollingChecksumB)
           spot == Spot(packetCfg)
<1>1. IsTaken(f)
  BY LastByteTakes
<1>2. /\ sending.pos = n + 7 /\ n \in Nat /\ f \in FrameType /\ byte \in Byte
      /\ Process(byte) /\ sending.pos >= 2
  BY FrameFacts, SentBytes DEF LastByte, NextByte, Total
<1>3. f \in Frames /\ n + 6 <= MaxPayload
  <2>1. sending.pos > 0
    BY <1>2
  <2>2. GoodOrder(f)
    BY <2>1, Zenon DEF TakenInvariant, FrameComesIn
  <2> QED
    BY <2>2 DEF GoodOrder
<1>4. /\ UbxByte(byte) /\ FramePos = sending.pos /\ FrameClass(byte) = "cfg"
      /\ Target("cfg") \in Packet /\ Target("cfg").counter = sending.pos - 2
      /\ sending.pos > 5 => Target("cfg").len = n
      /\ sending.pos > 2 => Target("cfg").cls = f.cls
      /\ sending.pos > 3 => Target("cfg").id = f.id
  BY <1>2, BeforeByte
<1>5. Target("cfg") = packetCfg
  <2>1. FramePos # 2
    BY <1>2, <1>4
  <2> QED
    BY <2>1 DEF Target, PacketOf
<1>6. /\ packetCfg \in Packet /\ packetCfg.counter = n + 5 /\ packetCfg.len = n
      /\ packetCfg.cls = f.cls /\ packetCfg.id = f.id
  BY <1>2, <1>4, <1>5
<1>7. packetCfg' = Filed(packetCfg, a, b, byte) /\ ubxFrameClass' = "cfg"
  BY <1>2, <1>4, <1>5, OneByte
<1>8. /\ packetCfg'.counter = n + 6 /\ packetCfg'.startingSpot = packetCfg.startingSpot
      /\ packetCfg'.cls = packetCfg.cls /\ packetCfg'.id = packetCfg.id
  <2> HIDE DEF a, b, byte, n
  <2> QED
    BY <1>2, <1>6, <1>7 DEF Filed
<1>9. Spot(packetCfg') = spot /\ spot \in Nat
  <2>1. Spot(packetCfg') = spot
    BY <1>8, Zenon DEF Spot
  <2> QED
    BY <1>6, <2>1 DEF Spot, Packet
<1>10. /\ packetCfg'.valid /\ packetCfg'.len = n
       /\ \A i \in spot..(n - 1) : memory'[Base("cfg") + i - spot] = f.payload[i + 1]
  BY <1>1 DEF IsTaken, PacketOf
<1>11. answer' = SubSeq(f.payload, spot + 1, n)
  BY DEF NextByte, AnswerRead
<1>12. f.payload \in Seq(Byte)
  BY <1>2 DEF FrameType
<1> HIDE DEF spot, n, f
<1>13. spot < n
  <2> SUFFICES ASSUME ~(spot < n) PROVE FALSE
    OBVIOUS
  <2>1. spot + 1 > n
    BY <1>2, <1>9
  <2>2. SubSeq(f.payload, spot + 1, n) = <<>>
    BY <1>2, <1>9, <1>12, <2>1, SubSeqProperties DEF n
  <2> QED
    BY <1>11, <2>2
<1>14. /\ Len(answer') = n - spot
       /\ \A i \in 1..(n - spot) : answer'[i] = f.payload[spot + i]
  <2>1. spot + 1 \in 1..(n + 1) /\ n \in 0..n
    BY <1>2, <1>9, <1>13
  <2>2. Len(SubSeq(f.payload, spot + 1, n)) = n - spot
    BY <1>2, <1>9, <1>12, <1>13, <2>1, SubSeqProperties DEF n
  <2>3. \A i \in 1..(n - spot) :
          SubSeq(f.payload, spot + 1, n)[i] = f.payload[spot + i]
    BY <1>2, <1>9, <1>12, <1>13, <2>1, SubSeqProperties DEF n
  <2> QED
    BY <1>11, <2>2, <2>3
<1>15. ASSUME NEW i \in 1..Len(answer')
       PROVE  memory'[Base("cfg") + i - 1] = answer'[i]
  <2>1. i \in 1..(n - spot) /\ spot + i - 1 \in spot..(n - 1)
    BY <1>2, <1>9, <1>14
  <2>2. 2 + (spot + i - 1) - spot = 2 + i - 1 /\ (spot + i - 1) + 1 = spot + i
    BY <1>9, <2>1
  <2>3. memory'[2 + (spot + i - 1) - spot] = f.payload[(spot + i - 1) + 1]
    BY <1>10, <2>1 DEF Base
  <2> QED
    BY <1>14, <2>1, <2>2, <2>3 DEF Base
<1>16. Len(answer') + Spot(packetCfg') <= packetCfg'.len
       /\ packetCfg'.counter >= packetCfg'.len + 6 /\ packetCfg'.len + 6 <= MaxPayload
  BY <1>2, <1>3, <1>8, <1>9, <1>10, <1>14 DEF n
<1> QED
  BY <1>7, <1>10, <1>15, <1>16 DEF Holds
\* A byte of an ACK that is lost goes to no packet but the complete one.
LEMMA LostByte ==
  ASSUME ParserTypes, ReceiverTypes, WithinFrame, AckSums, answer # <<>>,
         AnswerInvariant, ~clean, sending.pos > 0, Kind(sending.frame) = "ack", NextByte
  PROVE  /\ Holds(packetCfg', memory', answer) /\ ubxFrameClass' = "cfg"
         /\ sending'.pos > 0 => AckIsLost'
<1> DEFINE f == sending.frame
           byte == ByteAt(sending)
           pos == sending.pos
<1>1. f.cls = UBX_CLASS_ACK /\ pos \in Nat
  BY FrameFacts DEF Kind
<1>2. /\ Len(f.payload) = 2 /\ f.id \in {0, 1} /\ f.payload[1] \in Nat /\ f.payload[1] < 98
      /\ f.payload[2] \in Nat /\ f.payload[2] < 256
  BY <1>1, AckFacts
<1>3. /\ Holds(packetCfg, memory, answer) /\ ubxFrameClass = "cfg"
      /\ answer \in Seq(Byte) /\ Process(byte) /\ byte \in Byte
  BY SentBytes DEF AnswerInvariant, AckIsLost, ReceiverTypes, NextByte
<1>4. /\ pos = 1 => \/ currentSentence = "none"
                    \/ Opening /\ packetCfg.counter + 1 = MaxPayload
      /\ pos \in 2..7 => Listening
      /\ pos = 8 => \/ Listening \/ currentSentence = "rtcm"
                    \/ Opening /\ f.payload[2] = UBX_SYNCH_1
      /\ pos = 9 => Listening \/ currentSentence = "rtcm" \/ Opening
  BY Zenon DEF AnswerInvariant, AckIsLost
<1>5. /\ pos < 10
      /\ pos = 1 => byte = UBX_SYNCH_2
      /\ pos = 2 => byte = UBX_CLASS_ACK
      /\ pos = 3 => byte = f.id
      /\ pos = 4 => byte = 2
      /\ pos = 5 => byte = 0
      /\ pos = 6 => byte = f.payload[1]
      /\ pos = 7 => byte = f.payload[2]
      /\ pos = 8 => byte = sending.a
  BY <1>1, AckBytes DEF WithinFrame
<1>6. pos = 8 => sending.a = (7 + f.id + f.payload[1] + f.payload[2]) % 256
  <2>1. pos = 8 => sending.a = (UBX_CLASS_ACK + f.id + 2 + f.payload[1] + f.payload[2]) % 256
    BY <1>1, Zenon DEF AckSums
  <2>2. UBX_CLASS_ACK + f.id + 2 + f.payload[1] + f.payload[2]
          = 7 + f.id + f.payload[1] + f.payload[2]
    BY <1>2 DEF UBX_CLASS_ACK
  <2> QED
    BY <2>1, <2>2, Zenon
<1>7. /\ sending' = (IF LastByte THEN NoFrame ELSE Sent(sending)) /\ clean' = clean
      /\ LastByte <=> pos = 9
  BY <1>1, <1>2 DEF NextByte, LastByte, Total
<1>8. \/ sending'.pos = 0
      \/ sending'.pos = pos + 1 /\ sending'.frame = f /\ pos # 9
  BY <1>7 DEF Sent, NoFrame
<1> HIDE DEF f, byte, pos
<1>9. Listening \/ currentSentence = "rtcm" \/ Opening
  <2>1. pos \in 1..9
    BY <1>1, <1>5 DEF pos
  <2> QED
    BY <1>4, <2>1 DEF Listening
<1>10. /\ Holds(packetCfg', memory', answer) /\ ubxFrameClass' = "cfg"
       /\ Listening => \/ Listening' \/ currentSentence' = "rtcm"
                       \/ byte = UBX_SYNCH_1 /\ Opening'
       /\ Listening /\ byte \notin {UBX_SYNCH_1, RtcmPreamble} => Listening'
       /\ currentSentence = "rtcm" => currentSentence' \in {"none", "rtcm"}
       /\ Opening /\ (byte # UBX_SYNCH_2 \/ packetCfg.counter + 1 = MaxPayload) =>
            currentSentence' = "none"
  BY <1>3, <1>9, StrayByte
<1>11. ASSUME sending'.pos = pos + 1, sending'.frame = f, pos # 9 PROVE AckIsLost'
  <2>1. CASE pos = 1
    <3>1. Listening'
      <4>1. byte \notin {UBX_SYNCH_1, RtcmPreamble}
        BY <1>5, <2>1 DEF UBX_SYNCH_1, UBX_SYNCH_2, RtcmPreamble
      <4>2. CASE currentSentence = "none"
        BY <1>10, <4>1, <4>2 DEF Listening
      <4>3. CASE Opening /\ packetCfg.counter + 1 = MaxPayload
        BY <1>10, <4>3 DEF Listening
      <4> QED
        BY <1>4, <2>1, <4>2, <4>3
    <3> QED
      BY <1>10, <1>11, <2>1, <3>1 DEF AckIsLost
  <2>2. CASE pos \in 2..6
    <3>1. byte \notin {UBX_SYNCH_1, RtcmPreamble}
      BY <1>2, <1>5, <2>2 DEF UBX_SYNCH_1, RtcmPreamble, UBX_CLASS_ACK
    <3>2. Listening'
      BY <1>4, <1>10, <2>2, <3>1
    <3> QED
      BY <1>10, <1>11, <2>2, <3>2 DEF AckIsLost
  <2>3. CASE pos = 7
    <3>1. \/ Listening' \/ currentSentence' = "rtcm"
          \/ f.payload[2] = UBX_SYNCH_1 /\ Opening'
      BY <1>4, <1>5, <1>10, <2>3
    <3> QED
      BY <1>10, <1>11, <2>3, <3>1 DEF AckIsLost
  <2>4. CASE pos = 8
    <3>1. CASE Listening \/ currentSentence = "rtcm"
      <4>1. Listening' \/ currentSentence' = "rtcm" \/ Opening'
        BY <1>10, <3>1 DEF Listening
      <4> QED
        BY <1>10, <1>11, <2>4, <4>1 DEF AckIsLost
    <3>2. CASE Opening /\ f.payload[2] = UBX_SYNCH_1
      <4>1. byte # UBX_SYNCH_2
        BY <1>2, <1>5, <1>6, <2>4, <3>2 DEF UBX_SYNCH_1, UBX_SYNCH_2
      <4>2. Listening'
        BY <1>10, <3>2, <4>1 DEF Listening
      <4> QED
        BY <1>10, <1>11, <2>4, <4>2 DEF AckIsLost
    <3> QED
      BY <1>4, <2>4, <3>1, <3>2
  <2>5. pos \in 1..9
    BY <1>1, <1>5 DEF pos
  <2> QED
    BY <1>11, <2>1, <2>2, <2>3, <2>4, <2>5
<1> QED
  BY <1>8, <1>10, <1>11

\* The bytes of other sentences go to no packet.
LEMMA ApartFromFrames ==
  ASSUME ParserTypes, NEW byte, NmeaByte(byte) \/ RtcmByte(byte)
  PROVE  UNCHANGED <<packetCfg, memory, ubxFrameClass>>
  BY DEF NmeaByte, RtcmByte, bufferVars

\* The first byte of a frame, when the last frame was an answer.
LEMMA AnswerAtFirstByte ==
  ASSUME ParserTypes, ReceiverTypes, AnswerInvariant, BeginFrame, answer' # <<>>
  PROVE  AnswerInvariant'
<1>1. PICK f \in Frames : /\ NextItem /\ sending' = Sent([NoFrame EXCEPT !.frame = f])
                          /\ Process(UBX_SYNCH_1) /\ clean' = CleanStart(f)
                          /\ UNCHANGED sentence
                          /\ answer' = IF Listening /\ ubxFrameClass # "ack"
                                       THEN answer ELSE <<>>
  BY DEF BeginFrame
<1>2. Listening /\ ubxFrameClass # "ack" /\ answer' = answer /\ answer # <<>>
  BY <1>1
<1>3. /\ Holds(packetCfg, memory, answer) /\ ubxFrameClass = "cfg"
      /\ answer \in Seq(Byte)
  BY <1>2 DEF AnswerInvariant, Classes, ReceiverTypes
<1>4. UBX_SYNCH_1 \in Byte
  BY DEF UBX_SYNCH_1, Byte
<1>5. /\ Holds(packetCfg', memory', answer) /\ ubxFrameClass' = "cfg"
      /\ \/ currentSentence' = "none" /\ packetCfg.counter + 1 = MaxPayload
         \/ /\ Opening' /\ packetCfg.counter + 1 # MaxPayload
            /\ packetCfg'.counter = packetCfg.counter + 1
  BY <1>1, <1>2, <1>3, <1>4, StrayByte
<1>6. sending'.pos = 1 /\ sending'.frame = f /\ sentence' = <<>>
  <2>1. [NoFrame EXCEPT !.frame = f] = [frame |-> f, pos |-> 0, a |-> 0, b |-> 0]
    BY DEF NoFrame
  <2> QED
    BY <1>1, <2>1 DEF Sent, NextItem, Quiet
<1>7. ASSUME ~clean', Kind(f) = "ack"
      PROVE  \/ currentSentence' = "none"
             \/ Opening' /\ packetCfg'.counter + 1 = MaxPayload
  <2>1. Len(f.payload) = 2 /\ MaxPayload > 8 /\ MaxPayload \in Nat
    BY <1>7, ParserAssumption DEF Kind
  <2>2. ~SyncHarmless
    <3>1. ~CleanStart(f)
      BY <1>1, <1>7
    <3>2. Len(f.payload) + 6 <= MaxPayload
      BY <2>1
    <3> QED
      BY <1>2, <3>1, <3>2, Zenon DEF CleanStart
  <2>3. packetCfg.counter >= packetCfg.len + 6 /\ packetCfg \in Packet
    BY <1>3 DEF Holds, ParserTypes
  <2>4. packetCfg.counter \in {MaxPayload - 2, MaxPayload - 1}
    BY <1>3, <2>2, <2>3 DEF SyncHarmless, PacketOf
  <2>5. packetCfg.counter + 1 = MaxPayload \/ packetCfg.counter + 2 = MaxPayload
    BY <2>1, <2>4
  <2>6. CASE packetCfg.counter + 1 = MaxPayload
    BY <1>5, <2>6
  <2>7. CASE packetCfg.counter + 2 = MaxPayload
    <3>1. packetCfg.counter \in Nat
      BY <2>3 DEF Packet
    <3> QED
      BY <1>5, <2>1, <2>7, <3>1
  <2> QED
    BY <2>5, <2>6, <2>7
<1>8. AckComes' /\ AckIsLost'
  BY <1>5, <1>6, <1>7 DEF AckComes, AckIsLost
<1> QED
  BY <1>2, <1>5, <1>6, <1>8 DEF AnswerInvariant, Classes

\* A byte of a frame, while the last answer or the one that it ends is to be kept.
LEMMA AnswerAtNextByte ==
  ASSUME ParserTypes, ReceiverTypes, TakenInvariant, WithinFrame, AckSums,
         AnswerInvariant, NextByte, answer' # <<>>
  PROVE  AnswerInvariant'
<1> DEFINE f == sending.frame
           byte == ByteAt(sending)
<1>1. /\ sending.pos > 0 /\ sending.pos \in Nat /\ Process(byte) /\ clean' = clean
      /\ byte \in Byte /\ sentence' = sentence
      /\ sending' = IF LastByte THEN NoFrame ELSE Sent(sending)
      /\ answer' = IF Kind(f) = "ack" THEN answer
                   ELSE IF LastByte /\ clean THEN AnswerRead(f) ELSE <<>>
  BY FrameFacts, SentBytes DEF NextByte
<1>2. sentence' = <<>>
  BY <1>1 DEF TakenInvariant, OneAtATime
<1>3. \/ sending'.pos = 0
      \/ sending'.pos = sending.pos + 1 /\ sending'.frame = f
  BY <1>1 DEF Sent, NoFrame
<1>4. Kind(f) \in {"ack", "cfg"}
  BY DEF Kind
<1>5. CASE Kind(f) = "cfg"
  <2>1. LastByte /\ clean
    BY <1>1, <1>5
  <2>2. Holds(packetCfg', memory', answer') /\ ubxFrameClass' = "cfg"
    BY <1>5, <2>1, AnswerComes
  <2>3. sending'.pos = 0
    BY <1>1, <2>1 DEF NoFrame
  <2> QED
    BY <1>2, <2>2, <2>3 DEF AnswerInvariant, Classes, AckComes, AckIsLost
<1>6. CASE Kind(f) = "ack" /\ clean
  <2>1. answer' = answer /\ answer # <<>> /\ answer \in Seq(Byte)
    BY <1>1, <1>6 DEF ReceiverTypes
  <2>2. Holds(packetCfg, memory, answer) /\ AckComes
    BY <2>1 DEF AnswerInvariant
  <2>3. AckIsLost'
    BY <1>1, <1>6 DEF AckIsLost
  <2>4. CASE sending.pos = 1
    <3>1. GoodOrder(f)
      BY <1>1, <1>6 DEF TakenInvariant, FrameComesIn
    <3>2. Opening /\ ubxFrameClass = "cfg"
      BY <2>2, <2>4, <3>1 DEF GoodOrder, Opening, AckComes
    <3>3. Holds(packetCfg', memory', answer) /\ ubxFrameClass' = "cfg"
      BY <1>1, <2>1, <2>2, <3>2, StrayByte
    <3>4. AckComes'
      BY <1>3, <1>6, <3>3 DEF AckComes
    <3> QED
      BY <1>2, <2>1, <2>3, <3>3, <3>4 DEF AnswerInvariant, Classes
  <2>5. CASE sending.pos >= 2
    <3>1. /\ packetCfg' = packetCfg /\ ubxFrameClass' = "ack"
          /\ \A i \in Memory : i >= 2 => memory'[i] = memory[i]
      BY <1>1, <1>6, <2>5, AckGoesApart
    <3>2. ASSUME NEW i \in 1..Len(answer)
          PROVE  memory'[Base("cfg") + i - 1] = answer[i]
      <4>1. /\ Len(answer) \in Nat /\ MaxPayload \in Nat /\ packetCfg.len \in Nat
            /\ Spot(packetCfg) \in Nat
        BY <2>1, LenProperties, ParserAssumption DEF ParserTypes, Packet, Spot
      <4>2. Len(answer) + Spot(packetCfg) <= packetCfg.len
            /\ packetCfg.len + 6 <= MaxPayload
        BY <2>2 DEF Holds
      <4>3. 2 + i - 1 \in Memory /\ 2 + i - 1 >= 2
        BY <4>1, <4>2 DEF Memory
      <4>4. memory[2 + i - 1] = answer[i]
        BY <2>2 DEF Holds, Base
      <4> QED
        BY <3>1, <4>3, <4>4 DEF Base
    <3>3. Holds(packetCfg', memory', answer)
      BY <2>2, <3>1, <3>2 DEF Holds
    <3>4. AckComes'
      BY <1>1, <1>3, <1>6, <2>5 DEF AckComes
    <3> QED
      BY <1>2, <2>1, <2>3, <3>1, <3>3, <3>4 DEF AnswerInvariant, Classes
  <2> QED
    BY <1>1, <2>4, <2>5
<1>7. CASE Kind(f) = "ack" /\ ~clean
  <2>1. answer' = answer /\ answer # <<>>
    BY <1>1, <1>7
  <2>2. /\ Holds(packetCfg', memory', answer) /\ ubxFrameClass' = "cfg"
        /\ sending'.pos > 0 => AckIsLost'
    BY <1>1, <1>7, <2>1, LostByte
  <2>3. AckIsLost'
    BY <2>2 DEF AckIsLost
  <2>4. AckComes'
    BY <1>3, <1>7, <2>2 DEF AckComes
  <2> QED
    BY <1>2, <2>1, <2>2, <2>3, <2>4 DEF AnswerInvariant, Classes
<1> QED
  BY <1>4, <1>5, <1>6, <1>7

\* The invariant of the last answer: only bytes of frames go to packetCfg, and those
\* of an ACK after its first two do not.
LEMMA AnswerStep ==
  TypeOK /\ TakenInvariant /\ WithinFrame /\ AckSums /\ AnswerInvariant /\ [Next]_vars
    => AnswerInvariant'
<1> SUFFICES ASSUME ParserTypes, ReceiverTypes, TakenInvariant, WithinFrame, AckSums,
                    AnswerInvariant, [Next]_vars, answer' # <<>>
             PROVE  AnswerInvariant'
  BY DEF TypeOK, AnswerInvariant
<1>1. CASE BeginFrame
  BY <1>1, AnswerAtFirstByte
<1>2. CASE NextByte
  BY <1>2, AnswerAtNextByte
<1>3. CASE BeginSentence
  <2>1. PICK s \in Sentences : /\ NextItem /\ Process(s[1]) /\ clean' = Listening
                               /\ answer' = (IF Listening THEN answer ELSE <<>>)
                               /\ UNCHANGED sending
    BY <1>3 DEF BeginSentence
  <2>2. Listening /\ answer' = answer /\ answer # <<>> /\ clean' /\ sending'.pos = 0
    BY <2>1 DEF NextItem, Quiet
  <2>3. s[1] \in {Dollar, RtcmPreamble}
    BY ParserAssumption DEF IsNmea, IsRtcm
  <2>4. NmeaByte(s[1]) \/ RtcmByte(s[1])
    BY <2>1, <2>2, <2>3 DEF Process, UbxByte, Opened, UBX_SYNCH_1, Dollar, RtcmPreamble
  <2>5. UNCHANGED <<packetCfg, memory, ubxFrameClass>>
    BY <2>4, ApartFromFrames
  <2> QED
    BY <2>2, <2>5 DEF AnswerInvariant, AckComes, AckIsLost
<1>4. CASE NextSentenceByte
  <2>1. /\ sentence # <<>> /\ Process(Head(sentence)) /\ UNCHANGED <<sending, clean, answer>>
    BY <1>4 DEF NextSentenceByte
  <2>2. clean /\ ~(sending.pos > 0)
    BY <2>1 DEF AnswerInvariant, TakenInvariant, OneAtATime
  <2>3. Head(sentence) = sentence[1] /\ Len(sentence) \in Nat /\ Len(sentence) >= 1
    BY <2>1, LenProperties, EmptySeq DEF ReceiverTypes
  <2>4. NmeaByte(Head(sentence)) \/ RtcmByte(Head(sentence))
    <3>1. CASE /\ currentSentence = "nmea"
               /\ \A i \in 1..Len(sentence) : sentence[i] \notin {UBX_SYNCH_1, RtcmPreamble}
      BY <2>1, <2>3, <3>1 DEF Process, UbxByte, Opened, Listening
    <3>2. CASE currentSentence = "rtcm"
      BY <2>1, <3>2 DEF Process, UbxByte, Opened, Listening
    <3> QED
      BY <2>1, <2>2, <3>1, <3>2 DEF TakenInvariant, SentenceComesIn, RtcmAgrees
  <2>5. UNCHANGED <<packetCfg, memory, ubxFrameClass>>
    BY <2>4, ApartFromFrames
  <2> QED
    BY <2>1, <2>2, <2>5 DEF AnswerInvariant, AckComes, AckIsLost
<1>5. CASE Cut
  <2>1. /\ sending'.pos = 0
        /\ UNCHANGED <<packetCfg, memory, ubxFrameClass, sentence, clean, answer>>
    BY <1>5 DEF Cut, NoFrame, bufferVars, parserVars
  <2> QED
    BY <2>1 DEF AnswerInvariant, AckComes, AckIsLost
<1>6. CASE Prepare \/ Forget
  BY <1>6 DEF Prepare, Forget
<1>7. CASE UNCHANGED vars
  <2>1. UNCHANGED <<currentSentence, ubxFrameCounter, ubxFrameClass, packetCfg, memory,
                    sending, sentence, clean, answer>>
    BY <1>7 DEF vars, parserVars, bufferVars
  <2> QED
    BY <2>1, Zenon DEF AnswerInvariant, AckComes, AckIsLost, Opening, Listening
<1> QED
  BY <1>1, <1>2, <1>3, <1>4, <1>5, <1>6, <1>7 DEF Next

\* An answer can be read, whole and valid, while other sentences and the ACK that
\* follows it come in.
THEOREM AnswersAreKept == Spec => []AnswerKept
<1>1. Init => TakenInvariant /\ WithinFrame /\ AckSums /\ AnswerInvariant
  BY DEF Init, TakenInvariant, OneAtATime, AckFromItsBeginning, FrameComesIn,
         SentenceComesIn, EmptyPacket, NoFrame, WithinFrame, AckSums, AnswerInvariant
<1>2. AnswerInvariant => AnswerKept
  BY DEF AnswerInvariant, Holds, AnswerKept
<1> QED
  BY <1>1, <1>2, InitTypes, NextTypes, TakenStep, WithinFrameStep, AckSumsStep, AnswerStep,
     PTL DEF Spec

=============================================================================
