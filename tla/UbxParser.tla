------------------------------ MODULE UbxParser ------------------------------
(***************************************************************************)
(* The byte parser of the u-blox driver (process and processUBX in         *)
(* lib/ublox/ublox.cpp) against a receiver that sends UBX frames, NMEA and *)
(* RTCM sentences, while the driver reuses packetCfg for its commands.     *)
(*                                                                         *)
(* Bytes are numbers, and the checksum is computed as the code does.  Both *)
(* payload arrays are one memory, for the compiler lays them out one after *)
(* the other and the code writes past the end of the first.                *)
(***************************************************************************)
EXTENDS Integers, Sequences

CONSTANTS
  MaxPayload,      (* MAX_PAYLOAD_SIZE: 256                                 *)
  PvtLen, HpLen,   (* the lengths of NAV-PVT and NAV-HPPOSLLH: 92 and 36    *)
  Frames,          (* the UBX frames the receiver may send                  *)
  Sentences,       (* the NMEA and RTCM sentences it may send               *)
  Commands,        (* what the driver's commands put into packetCfg         *)
  MaxItems,        (* bound on the frames and sentences sent                *)
  MaxCommands,     (* bound on the commands prepared                        *)
  MaxCuts          (* bound on the frames whose end is never sent           *)

Byte == 0..255
UBX_SYNCH_1 == 181
UBX_SYNCH_2 == 98
Dollar == 36
RtcmPreamble == 211
UBX_CLASS_NAV == 1
UBX_CLASS_ACK == 5
UBX_CLASS_CFG == 6
UBX_NAV_PVT == 7
UBX_NAV_HPPOSLLH == 20
UBX_ACK_NACK == 0
UBX_ACK_ACK == 1
UBX_ACK_NONE == 2

Keep == -1    \* a command that leaves startingSpot as it is

\* NMEA is text.  An RTCM frame has its length in ten bits, and 6 bytes more.
IsNmea(s) == /\ s[1] = Dollar
             /\ \A i \in 2..Len(s) : s[i] \notin {UBX_SYNCH_1, RtcmPreamble}
IsRtcm(s) == /\ s[1] = RtcmPreamble /\ Len(s) > 5
             /\ Len(s) = 256 * (s[2] % 4) + s[3] + 6

\* An ACK names a message by class and id.  The classes that are acknowledged, in
\* fact UBX-CFG's alone, are below the characters that begin a frame.
ASSUME ParserAssumption ==
  /\ MaxPayload \in Nat /\ MaxPayload > 8
  /\ PvtLen \in 0..MaxPayload /\ HpLen \in 0..MaxPayload
  /\ Frames \subseteq [cls : Byte, id : Byte, payload : Seq(Byte)]
  /\ \A f \in Frames :
       /\ Len(f.payload) < 65536
       /\ f.cls = UBX_CLASS_ACK =>
            /\ Len(f.payload) = 2 /\ f.id \in {UBX_ACK_ACK, UBX_ACK_NACK}
            /\ f.payload[1] < UBX_SYNCH_2
  /\ Sentences \subseteq Seq(Byte)
  /\ \A s \in Sentences : Len(s) > 1 /\ (IsNmea(s) \/ IsRtcm(s))
  /\ Commands \subseteq [cls : Byte \ {UBX_CLASS_ACK}, id : Byte,
                         payload : Seq(Byte), startingSpot : Nat \cup {Keep}]
  /\ \A c \in Commands : Len(c.payload) <= MaxPayload
  /\ MaxItems \in Nat /\ MaxCommands \in Nat /\ MaxCuts \in Nat

VARIABLES
  currentSentence, \* "none", "nmea", "ubx", "rtcm"
  ubxFrameCounter, ubxFrameClass,   \* bytes of the frame so far; "none", "ack", "cfg"
  rollingChecksumA, rollingChecksumB,
  rtcmFrameCounter, rtcmLen,
  packetAck, packetCfg,
  memory,          \* payloadAck, and payloadCfg after it
  commandAck,
  solution,        \* the position globals, as the bytes they were taken from
  highRes,         \* the same for the high resolution position
  \* the receiver
  sending,         \* the frame that is being sent, and how far
  sentence,        \* the bytes to come of an NMEA or RTCM sentence
  \* observers and bounds
  clean,           \* did the frame begin in good order, and stay so?
  answer,          \* the payload of the last answer, while a caller may read it
  items, commands, cuts

parserVars == <<currentSentence, ubxFrameCounter, ubxFrameClass, rollingChecksumA,
                rollingChecksumB, rtcmFrameCounter, rtcmLen>>
bufferVars == <<packetAck, packetCfg, memory>>
resultVars == <<commandAck, solution, highRes>>
counters   == <<items, commands, cuts>>
vars == <<parserVars, bufferVars, resultVars, sending, sentence, clean, answer,
          counters>>

NoFrame == [frame |-> [cls |-> 0, id |-> 0, payload |-> <<>>], pos |-> 0,
            a |-> 0, b |-> 0]

Classes == {"ack", "cfg"}

\* payloadAck has two bytes.
Base(k) == IF k = "ack" THEN 0 ELSE 2
PacketOf(k) == IF k = "ack" THEN packetAck ELSE packetCfg
Memory == 0..(MaxPayload + 1)

EmptyPacket == [cls |-> 0, id |-> 0, len |-> 0, counter |-> 0, startingSpot |-> 0,
                checksumA |-> 0, checksumB |-> 0, valid |-> FALSE]

Init ==
  /\ currentSentence = "none" /\ ubxFrameClass = "none"
  /\ ubxFrameCounter = 0 /\ rollingChecksumA = 0 /\ rollingChecksumB = 0
  /\ rtcmFrameCounter = 0 /\ rtcmLen = 0
  /\ packetAck = EmptyPacket /\ packetCfg = EmptyPacket
  /\ memory = [i \in Memory |-> 0]
  /\ commandAck = UBX_ACK_NONE /\ solution = <<>> /\ highRes = <<>>
  /\ sending = NoFrame /\ sentence = <<>>
  /\ clean = FALSE /\ answer = <<>>
  /\ items = 0 /\ commands = 0 /\ cuts = 0

----------------------------------------------------------------------------
(***************************************************************************)
(* processUBX(incoming, packet): one byte into the packet of this class.   *)
(***************************************************************************)
\* addToChecksum: the checksum covers what comes before its own bytes.
Counted(p) == p.counter < p.len + 4

SumA(p, a, byte) == IF Counted(p) THEN (a + byte) % 256 ELSE a
SumB(p, a, b, byte) == IF Counted(p) THEN (b + a + byte) % 256 ELSE b

AtChecksumA(p) == p.counter >= 4 /\ p.counter = p.len + 4
AtChecksumB(p) == p.counter >= 4 /\ p.counter = p.len + 5

Passes(p, a, b, byte) == AtChecksumB(p) /\ p.checksumA = a /\ byte = b

Filed(p, a, b, byte) ==
  [cls          |-> IF p.counter = 0 THEN byte ELSE p.cls,
   id           |-> IF p.counter = 1 THEN byte ELSE p.id,
   len          |-> IF p.counter = 2 THEN byte
                    ELSE IF p.counter = 3 THEN p.len + 256 * byte ELSE p.len,
   counter      |-> p.counter + 1,
   startingSpot |-> p.startingSpot,
   checksumA    |-> IF AtChecksumA(p) THEN byte ELSE p.checksumA,
   checksumB    |-> IF AtChecksumB(p) THEN byte ELSE p.checksumB,
   valid        |-> p.valid \/ Passes(p, a, b, byte)]

\* A solution that comes unasked is recorded from its beginning.
Spot(p) == IF p.cls = UBX_CLASS_NAV /\ p.id = UBX_NAV_PVT THEN 0 ELSE p.startingSpot

IsPayload(p) == p.counter >= 4 /\ ~AtChecksumA(p) /\ ~AtChecksumB(p)

Index(p) == p.counter - 4 - Spot(p)

\* The room is that of payloadCfg, whichever packet it is.
Stored(k, p, byte) ==
  IF IsPayload(p) /\ Index(p) >= 0 /\ Index(p) < MaxPayload
  THEN [memory EXCEPT ![Base(k) + Index(p)] = byte] ELSE memory

\* Mutant: any length is believed.
EndsAsItSays(p) == AtChecksumB(p)

\* The end of the frame, or a length that is not believed.
Ends(p) == AtChecksumB(p) \/ p.counter + 1 = MaxPayload

----------------------------------------------------------------------------
(***************************************************************************)
(* processUBXpacket: what a valid packet sets.  The values are taken from  *)
(* payloadCfg from its beginning, wherever recording began.                *)
(***************************************************************************)
Extracted(n) == [i \in 1..n |-> memory[Base("cfg") + i - 1]]

Acknowledges(p) ==
  p.cls = UBX_CLASS_ACK /\ memory[0] = packetCfg.cls
                        /\ memory[1] = packetCfg.id

ProcessUBXpacket(p, passes) ==
  /\ commandAck' = IF passes /\ Acknowledges(p) /\ p.id \in {UBX_ACK_ACK, UBX_ACK_NACK}
                   THEN p.id ELSE commandAck
  /\ solution' = IF passes /\ p.cls = UBX_CLASS_NAV /\ p.id = UBX_NAV_PVT
                           /\ p.len = PvtLen
                 THEN Extracted(PvtLen) ELSE solution
  /\ highRes' = IF passes /\ p.cls = UBX_CLASS_NAV /\ p.id = UBX_NAV_HPPOSLLH
                          /\ p.len = HpLen
                THEN Extracted(HpLen) ELSE highRes

----------------------------------------------------------------------------
(***************************************************************************)
(* process(incoming).  A start character is looked for between sentences   *)
(* and within NMEA; the first two bytes of a frame, whose class is not yet *)
(* known, go to the packet of the frame before.                            *)
(***************************************************************************)
Listening == currentSentence \in {"none", "nmea"}

Opened(byte) ==
  IF ~Listening THEN currentSentence
  ELSE CASE byte = UBX_SYNCH_1 -> "ubx"
         [] byte = Dollar -> "nmea"
         [] byte = RtcmPreamble -> "rtcm"
         [] OTHER -> currentSentence

FramePos == IF Listening THEN 0 ELSE ubxFrameCounter

WrongSync(byte) == \/ FramePos = 0 /\ byte # UBX_SYNCH_1
                   \/ FramePos = 1 /\ byte # UBX_SYNCH_2

\* Mutant: an acknowledgement is an answer like any other.
ClassOfAnswer(byte) == "cfg"

ClassOf(byte) == IF byte = UBX_CLASS_ACK THEN "ack" ELSE "cfg"

FrameClass(byte) == IF FramePos = 2 THEN ClassOf(byte) ELSE ubxFrameClass

\* The packet as processUBX finds it.
Target(k) == IF FramePos = 2 THEN [PacketOf(k) EXCEPT !.counter = 0, !.valid = FALSE]
                             ELSE PacketOf(k)

\* Mutant: the sums go on from frame to frame.
RollingKept(sum) == sum

Rolling(sum) == IF Listening THEN 0 ELSE sum

UbxByte(byte) ==
  /\ Opened(byte) = "ubx"
  /\ ubxFrameCounter' = FramePos + 1
  /\ ubxFrameClass' = FrameClass(byte)
  /\ IF FrameClass(byte) = "none"
     THEN /\ currentSentence' = IF WrongSync(byte) THEN "none" ELSE "ubx"
          /\ rollingChecksumA' = Rolling(rollingChecksumA)
          /\ rollingChecksumB' = Rolling(rollingChecksumB)
          /\ UNCHANGED <<bufferVars, resultVars>>
     ELSE LET k == FrameClass(byte)
              p == Target(k)
              a == Rolling(rollingChecksumA)
              b == Rolling(rollingChecksumB)
          IN /\ currentSentence' = IF WrongSync(byte) \/ Ends(p) THEN "none" ELSE "ubx"
             /\ rollingChecksumA' = SumA(p, a, byte)
             /\ rollingChecksumB' = SumB(p, a, b, byte)
             /\ packetAck' = IF k = "ack" THEN Filed(p, a, b, byte) ELSE packetAck
             /\ packetCfg' = IF k = "cfg" THEN Filed(p, a, b, byte) ELSE packetCfg
             /\ memory' = Stored(k, p, byte)
             /\ ProcessUBXpacket(p, Passes(p, a, b, byte))
  /\ UNCHANGED <<rtcmFrameCounter, rtcmLen>>

\* NMEA goes to a serial port, if one is set; other bytes are dropped.
NmeaByte(byte) ==
  /\ Opened(byte) \in {"none", "nmea"}
  /\ currentSentence' = Opened(byte)
  /\ UNCHANGED <<ubxFrameCounter, ubxFrameClass, rollingChecksumA, rollingChecksumB,
                 rtcmFrameCounter, rtcmLen, bufferVars, resultVars>>

\* processRTCMframe: the length is in ten bits of the second and third byte.
RtcmByte(byte) ==
  /\ Opened(byte) = "rtcm"
  /\ LET n == IF Listening THEN 0 ELSE rtcmFrameCounter IN
       /\ rtcmFrameCounter' = n + 1
       /\ rtcmLen' = CASE n = 1 -> (byte % 4) * 256
                       [] n = 2 -> rtcmLen + byte + 6
                       [] OTHER -> rtcmLen
       /\ currentSentence' = IF rtcmFrameCounter' = rtcmLen' THEN "none" ELSE "rtcm"
  /\ UNCHANGED <<ubxFrameCounter, ubxFrameClass, rollingChecksumA, rollingChecksumB,
                 bufferVars, resultVars>>

Process(byte) == UbxByte(byte) \/ NmeaByte(byte) \/ RtcmByte(byte)

----------------------------------------------------------------------------
(***************************************************************************)
(* The receiver sends byte after byte.  The two sums are its own.          *)
(***************************************************************************)
Total(f) == Len(f.payload) + 8

ByteAt(s) ==
  LET n == Len(s.frame.payload) IN
    CASE s.pos = 0 -> UBX_SYNCH_1
      [] s.pos = 1 -> UBX_SYNCH_2
      [] s.pos = 2 -> s.frame.cls
      [] s.pos = 3 -> s.frame.id
      [] s.pos = 4 -> n % 256
      [] s.pos = 5 -> n \div 256
      [] s.pos \in 6..(n + 5) -> s.frame.payload[s.pos - 5]
      [] s.pos = n + 6 -> s.a
      [] OTHER -> s.b

Summed(s) == s.pos \in 2..(Len(s.frame.payload) + 5)

Sent(s) ==
  [frame |-> s.frame, pos |-> s.pos + 1,
   a |-> IF Summed(s) THEN (s.a + ByteAt(s)) % 256 ELSE s.a,
   b |-> IF Summed(s) THEN (s.b + s.a + ByteAt(s)) % 256 ELSE s.b]

Kind(f) == IF f.cls = UBX_CLASS_ACK THEN "ack" ELSE "cfg"

Quiet == sending.pos = 0 /\ sentence = <<>>

(***************************************************************************)
(* When can a frame be taken?  When the parser listens, the frame has      *)
(* room, and its first two bytes do no harm in the packet of the last one: *)
(* that packet is complete, and its counter does not come to the limit.    *)
(***************************************************************************)
SyncHarmless ==
  \/ ubxFrameClass = "none"
  \/ LET p == PacketOf(ubxFrameClass) IN
       /\ p.counter >= p.len + 6
       /\ p.counter \notin {MaxPayload - 2, MaxPayload - 1}

CleanStart(f) == Listening /\ SyncHarmless /\ Len(f.payload) + 6 <= MaxPayload

NextItem == Quiet /\ items < MaxItems /\ items' = items + 1

BeginFrame ==
  \E f \in Frames :
    /\ NextItem
    /\ sending' = Sent([NoFrame EXCEPT !.frame = f])
    /\ Process(UBX_SYNCH_1)
    /\ clean' = CleanStart(f)
    \* The packet of an ACK has no room for what its counter lets in.
    /\ answer' = IF Listening /\ ubxFrameClass # "ack" THEN answer ELSE <<>>
    /\ UNCHANGED <<sentence, commands, cuts>>

LastByte == sending.pos > 0 /\ sending.pos + 1 = Total(sending.frame)

AnswerRead(f) == SubSeq(f.payload, Spot(packetCfg) + 1, Len(f.payload))

NextByte ==
  /\ sending.pos > 0
  /\ Process(ByteAt(sending))
  /\ sending' = IF LastByte THEN NoFrame ELSE Sent(sending)
  /\ answer' = IF Kind(sending.frame) = "ack" THEN answer
               ELSE IF LastByte /\ clean THEN AnswerRead(sending.frame) ELSE <<>>
  /\ UNCHANGED <<sentence, clean, counters>>

BeginSentence ==
  \E s \in Sentences :
    /\ NextItem
    /\ sentence' = Tail(s)
    /\ Process(s[1])
    /\ clean' = Listening
    /\ answer' = IF Listening THEN answer ELSE <<>>
    /\ UNCHANGED <<sending, commands, cuts>>

NextSentenceByte ==
  /\ sentence # <<>>
  /\ Process(Head(sentence))
  /\ sentence' = Tail(sentence)
  /\ UNCHANGED <<sending, clean, answer, counters>>

\* The receiver restarts, or its buffer overflows: the frame has no end.
Cut ==
  /\ sending.pos > 0 /\ cuts < MaxCuts
  /\ cuts' = cuts + 1 /\ sending' = NoFrame
  /\ UNCHANGED <<parserVars, bufferVars, resultVars, sentence, clean, answer,
                 items, commands>>

----------------------------------------------------------------------------
(***************************************************************************)
(* The thread between two bytes: a command is put into packetCfg and sent, *)
(* and the wait for it begins; or a wait finds an answer to another        *)
(* question and forgets it.                                                *)
(***************************************************************************)
\* Does the buffer of the frame that comes in stay as it is?
LeavesFrame == sending.pos = 0 \/ (sending.pos > 2 /\ ubxFrameClass = "ack")

Prepared(c) ==
  [packetCfg EXCEPT
     !.cls = IF c.cls = UBX_CLASS_CFG THEN c.cls ELSE 255,
     !.id  = IF c.cls = UBX_CLASS_CFG THEN c.id ELSE 255,
     !.len = Len(c.payload), !.valid = FALSE,
     !.startingSpot = IF c.startingSpot = Keep THEN @ ELSE c.startingSpot]

Prepare ==
  \E c \in Commands :
    /\ commands < MaxCommands /\ commands' = commands + 1
    /\ packetCfg' = Prepared(c) /\ packetAck' = [packetAck EXCEPT !.valid = FALSE]
    /\ memory' = [i \in Memory |-> IF i - Base("cfg") \in 0..(Len(c.payload) - 1)
                                   THEN c.payload[i - Base("cfg") + 1] ELSE memory[i]]
    /\ commandAck' = IF c.cls = UBX_CLASS_CFG THEN UBX_ACK_NONE ELSE commandAck
    /\ clean' = (clean /\ LeavesFrame) /\ answer' = <<>>
    /\ UNCHANGED <<parserVars, solution, highRes, sending, sentence, items, cuts>>

Forget ==
  /\ commands > 0
  /\ packetCfg.cls < 255 /\ packetCfg.id < 255
  /\ packetCfg' = [packetCfg EXCEPT !.cls = 255, !.id = 255, !.valid = FALSE]
  /\ clean' = (clean /\ LeavesFrame) /\ answer' = <<>>
  /\ UNCHANGED <<parserVars, packetAck, memory, resultVars, sending, sentence, counters>>

Next == \/ BeginFrame \/ NextByte \/ BeginSentence \/ NextSentenceByte \/ Cut
        \/ Prepare \/ Forget

Spec == Init /\ [][Next]_vars

----------------------------------------------------------------------------
(***************************************************************************)
(* Properties.                                                             *)
(***************************************************************************)
Packet == [cls : Byte, id : Byte, len : Nat, counter : Nat, startingSpot : Nat,
           checksumA : Byte, checksumB : Byte, valid : BOOLEAN]

Transmission == [frame : Frames \cup {NoFrame.frame}, pos : Nat, a : Byte, b : Byte]

ParserTypes ==
  /\ currentSentence \in {"none", "nmea", "ubx", "rtcm"}
  /\ ubxFrameCounter \in Nat /\ ubxFrameClass \in Classes \cup {"none"}
  /\ rollingChecksumA \in Byte /\ rollingChecksumB \in Byte
  /\ rtcmFrameCounter \in Nat /\ rtcmLen \in Nat
  /\ packetAck \in Packet /\ packetCfg \in Packet
  /\ memory \in [Memory -> Byte]
  /\ commandAck \in {UBX_ACK_NACK, UBX_ACK_ACK, UBX_ACK_NONE}
  /\ solution \in Seq(Byte) /\ highRes \in Seq(Byte)

ReceiverTypes ==
  /\ sending \in Transmission /\ sentence \in Seq(Byte)
  /\ clean \in BOOLEAN /\ answer \in Seq(Byte)
  /\ items \in 0..MaxItems /\ commands \in 0..MaxCommands /\ cuts \in 0..MaxCuts

\* The variables keep their types: the counters, and what the payload arrays hold.
TypeOK == ParserTypes /\ ReceiverTypes

\* What is to be found after the last byte of a frame.
IsTaken(f) ==
  LET k == Kind(f)
      spot == Spot(PacketOf(k))
      its == IF k = "ack" THEN packetAck' ELSE packetCfg'
  IN /\ currentSentence' = "none"
     /\ its.valid /\ its.cls = f.cls /\ its.id = f.id /\ its.len = Len(f.payload)
     /\ \A i \in spot..(Len(f.payload) - 1) :
          memory'[Base(k) + i - spot] = f.payload[i + 1]
     /\ f.cls = UBX_CLASS_ACK /\ f.payload = <<packetCfg.cls, packetCfg.id>> =>
          commandAck' = f.id
     /\ f.cls = UBX_CLASS_NAV /\ f.id = UBX_NAV_PVT /\ Len(f.payload) = PvtLen =>
          solution' = f.payload
     /\ f.cls = UBX_CLASS_NAV /\ f.id = UBX_NAV_HPPOSLLH /\ Len(f.payload) = HpLen
          /\ spot = 0 => highRes' = f.payload

\* processUBX takes a frame that began in good order with all its bytes, wherever
\* other sentences, cut frames and the driver's commands came before it, and
\* process listens again after it, as it does after an RTCM frame.
FrameIsTaken ==
  [][/\ LastByte /\ clean /\ sending'.pos = 0 /\ cuts' = cuts => IsTaken(sending.frame)
     /\ sentence # <<>> /\ sentence' = <<>> /\ clean =>
       currentSentence' \in {"none", "nmea"}]_vars

\* An answer stays in payloadCfg, and stays valid, while the ACK that follows it is
\* read into the packet next to it, until another frame or command comes.
AnswerKept ==
  answer # <<>> =>
    /\ packetCfg.valid
    /\ \A i \in 1..Len(answer) : memory[Base("cfg") + i - 1] = answer[i]

\* No frame keeps the parser: whatever length it claims, and whatever is done to
\* its buffer meanwhile, process listens again after MAX_PAYLOAD_SIZE bytes.
NoFrameIsEndless == currentSentence = "ubx" => ubxFrameCounter <= MaxPayload + 1

=============================================================================
