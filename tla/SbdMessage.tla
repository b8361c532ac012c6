---------------------------- MODULE SbdMessage ----------------------------
(***************************************************************************)
(* What a report says and how it is put together: the coordinates that     *)
(* gpsUpdate keeps (prev_version/GPSCoordinates.cpp, NAL9602.cpp), the     *)
(* buffers into which pod data are taken (commandSequences.cpp) and the    *)
(* bytes setMessage makes of both (SBDmessage.cpp).                        *)
(*                                                                         *)
(* A latitude, longitude, altitude or time is the number of the update it  *)
(* came from, and 0 when there is no valid one (latSet, longSet and altSet *)
(* are false).  Bytes 0 to 26 of the message are its head, a record; from  *)
(* FirstPod on there are bytes.  Behind the array sbd lies podData, as in  *)
(* the object: stores beyond the one run into the other.  Of sbd itself    *)
(* only the bits of byte 2 outlive a call, the rest is always written      *)
(* before it is read.  Mission number, velocities, voltage, temperatures   *)
(* and checksum are left out.                                              *)
(*                                                                         *)
(* send_SBD_message goes through its steps in one call; commands come      *)
(* between two calls, when step = "idle".                                  *)
(***************************************************************************)
EXTENDS Integers

CONSTANTS
  FirstPod,     \* where the pods' bytes begin: 27
  SBD_LENGTH,   \* 340
  POD_LENGTH,   \* 70
  MAXPODS,      \* 6
  MAX_FC,       \* the radio's bound on pod numbers
  Lengths,      \* what a byte keeps of the lengths given to PODLINK
  Readings,     \* what a pod may have to say
  MaxUpdates,   \* bound on the updates of the position
  MaxCommands   \* bound on the commands given

Pods == 1..MAXPODS

ASSUME SbdAssumption ==
  /\ FirstPod \in Nat /\ SBD_LENGTH \in Nat /\ POD_LENGTH \in Nat /\ MAXPODS \in Nat
  /\ FirstPod + MAXPODS <= SBD_LENGTH
  /\ MAX_FC \in Nat /\ Lengths \subseteq 0..255
  /\ Readings \subseteq Nat /\ MaxUpdates \in Nat /\ MaxCommands \in Nat

VARIABLES
  coord,          \* the position, and which parts of it are valid
  updates,        \* how many times it was asked for
  podLengths,
  podData,        \* by address: behind the sbd array
  bits,           \* byte 2 of sbd, the set of its bits that are 1
  msgLength,
  doneLoading, updatedGPS, messageLoaded,
  step,           \* where send_SBD_message is
  commands,       \* how many have been given
  registry,       \* the radio's pods and their lengths, or Unlinked
  reading,        \* what each pod has sent last
  sent,           \* the message in the modem
  own,            \* observer: it was written for this report
  taken,          \* observer: the bytes taken from each pod for this report, if any
  relinked,       \* observer: pods whose length a command has changed since then
  overrun         \* observer: pods into whose buffer setMessage has run since then

gpsVars == <<coord, updates>>
buffers == <<podLengths, podData, bits, msgLength>>
flags   == <<doneLoading, updatedGPS, messageLoaded>>
radio   == <<registry, reading>>
told    == <<sent, own, taken, relinked, overrun>>
vars == <<gpsVars, buffers, flags, step, commands, radio, told>>

----------------------------------------------------------------------------
\* NAL9602::gpsUpdate: the lines of the answer come one by one, and after one
\* that does not come the others are not looked for.  A value out of range is
\* not valid.  "Invalid Position Fix" may come with them, or only with the
\* velocities asked for next, when the time is already kept.
Missing == "missing"
Comes   == {"good", "outOfRange"}

Answers == {a \in [lat : Comes \cup {Missing}, lon : Comes \cup {Missing},
                   alt : Comes \cup {Missing}, sats : {"few", "enough", Missing},
                   invalidFix : {"no", "position", "velocity"}] :
              /\ a.lat = Missing => a.lon = Missing
              /\ a.lon = Missing => a.alt = Missing
              /\ a.alt = Missing => a.sats = Missing}

GoodPosition(a) == a.invalidFix # "position" /\ a.sats = "enough"
NewFix(a) == GoodPosition(a) /\ a.invalidFix # "velocity"

\* mutant: latSet is not taken back when a value is out of range.
KeptOutOfRange(line, new, old) == IF line = "good" THEN new ELSE old
Kept(line, new, old) == CASE line = "good" -> new
                          [] line = "outOfRange" -> 0
                          [] OTHER -> old

ClearedCoordinates == [positionFix |-> FALSE, lat |-> 0, lon |-> 0, alt |-> 0, syncTime |-> 0]

GpsUpdate(a) ==
  /\ updates < MaxUpdates /\ updates' = updates + 1
  /\ coord' = [positionFix |-> NewFix(a),
               lat |-> Kept(a.lat, updates', coord.lat),
               lon |-> Kept(a.lon, updates', coord.lon),
               alt |-> Kept(a.alt, updates', coord.alt),
               syncTime |-> IF GoodPosition(a) THEN updates' ELSE coord.syncTime]

ValidCoordinates ==
  coord.positionFix /\ coord.lat # 0 /\ coord.lon # 0 /\ coord.alt # 0

Raw(value) == IF ValidCoordinates THEN value ELSE 0

----------------------------------------------------------------------------
\* The buffers of SBDmessage.
PodStart(p) == SBD_LENGTH + (p - 1) * POD_LENGTH
Beyond      == SBD_LENGTH..(SBD_LENGTH + MAXPODS * POD_LENGTH - 1)
Addresses   == FirstPod..(SBD_LENGTH - 1) \cup Beyond

\* A pod with more bytes than its buffer has goes on in the next one's.  What lies
\* behind the last buffer reads 0: nothing depends on these bytes.
Read(memory, a) == IF a \in Addresses THEN memory[a] ELSE 0

\* updateMsgLength: a pod without bytes takes no room, another has a byte for
\* their number in front.
RoomOf(lengths, p) == IF lengths[p] > 0 THEN lengths[p] + 1 ELSE 0
Before(lengths) ==
  LET before[p \in 1..(MAXPODS + 1)] ==
        IF p = 1 THEN FirstPod ELSE before[p - 1] + RoomOf(lengths, p - 1)
  IN before
UpdatedLength(lengths) == Before(lengths)[MAXPODS + 1]

\* Byte j of what pod p sends when its reading is r.
PodByte(p, r, j) == 100 * p + 10 * r + j

FixBit    == 0
PodBit(p) == p + 1

\* clearMessage, generateGPSBytes: the bits are or-ed into what is there.
\* mutant: clearMessage forgotten.
NotClearedBits(old) == old
ClearedBits(old) == {}
ClearedBytes == [a \in Addresses |-> IF a < SBD_LENGTH THEN 0 ELSE podData[a]]

GpsBits(old) == old \cup (IF coord.positionFix THEN {FixBit} ELSE {})
GpsBytes == [lat |-> Raw(coord.lat), lon |-> Raw(coord.lon), alt |-> Raw(coord.alt),
             syncTime |-> coord.syncTime]

Blank == [bits |-> {}, gps |-> [lat |-> 0, lon |-> 0, alt |-> 0, syncTime |-> 0],
          length |-> FirstPod, bytes |-> [a \in {} |-> 0]]

\* generatePodBytes looks at no bound.
PodBits(old) == old \cup {PodBit(p) : p \in {q \in Pods : podLengths[q] > 0}}

\* mutant: podData[i][j + 1].
PodBytesFromTheNext(old) ==
  LET at == Before(podLengths)
      Fills(p, a) == podLengths[p] > 0 /\ a \in at[p]..(at[p] + podLengths[p])
      Source(p, a) == PodStart(p) + (a - at[p])
  IN [a \in Addresses |->
        IF \E p \in Pods : Fills(p, a)
          THEN LET p == CHOOSE q \in Pods : Fills(q, a)
               IN IF a = at[p] THEN podLengths[p]
                  ELSE Read(old, Source(p, a))
          ELSE old[a]]

PodBytes(old) ==
  LET at == Before(podLengths)
      Fills(p, a) == podLengths[p] > 0 /\ a \in at[p]..(at[p] + podLengths[p])
  IN [a \in Addresses |->
        IF \E p \in Pods : Fills(p, a)
          THEN LET p == CHOOSE q \in Pods : Fills(q, a)
               IN IF a = at[p] THEN podLengths[p] ELSE Read(old, PodStart(p) + (a - at[p] - 1))
          ELSE old[a]]

----------------------------------------------------------------------------
\* send_SBD_message, step by step.
UpdatePosition ==
  /\ step = "idle" /\ step' = "pods"
  /\ \/ updatedGPS /\ UNCHANGED <<gpsVars, updatedGPS>>
     \/ /\ ~updatedGPS
        /\ \E a \in Answers : GpsUpdate(a) /\ updatedGPS' = NewFix(a)
  /\ UNCHANGED <<buffers, doneLoading, messageLoaded, radio, commands, told>>

\* The pods have not all answered, and there is time left.
Wait == /\ step = "pods" /\ step' = "message"
        /\ UNCHANGED <<gpsVars, buffers, flags, radio, commands, told>>

\* transfer_pod_data_to_SBD: an answer has the registered length, as far as the
\* bytes for it go (MAX_POD_DATA_BYTES), or none came.
Unlinked    == -1
Linked      == {p \in Pods : registry[p] # Unlinked}
AnswerOf(p) == IF registry[p] <= POD_LENGTH THEN registry[p] ELSE POD_LENGTH

Transfer ==
  /\ step = "pods" /\ step' = "message" /\ ~doneLoading /\ doneLoading' = TRUE
  /\ \E silent \in SUBSET Linked :
       LET length == [p \in Pods |-> IF p \in Linked \ silent /\ p < MAX_FC THEN AnswerOf(p) ELSE 0]
           Loads(p, a) == a \in PodStart(p)..(PodStart(p) + length[p] - 1)
       IN
       /\ podLengths' = [p \in Pods |-> IF p \in Linked THEN length[p] ELSE podLengths[p]]
       /\ podData' = [a \in Beyond |->
            IF \E p \in Pods : Loads(p, a)
              THEN LET p == CHOOSE q \in Pods : Loads(q, a)
                   IN PodByte(p, reading[p], (a - PodStart(p)) + 1)
              ELSE podData[a]]
       /\ taken' = [p \in Pods |->
            IF p \in Linked THEN {[j \in 1..length[p] |-> PodByte(p, reading[p], j)]} ELSE {}]
  /\ msgLength' = UpdatedLength(podLengths') /\ relinked' = {} /\ overrun' = {}
  /\ UNCHANGED <<gpsVars, bits, updatedGPS, messageLoaded, radio, commands, sent, own>>

NoMessage ==
  /\ step = "message" /\ (doneLoading /\ updatedGPS => messageLoaded) /\ step' = "transmit"
  /\ UNCHANGED <<gpsVars, buffers, flags, radio, commands, told>>

\* setMessage.  The length is looked at when the bytes are in place.  A message
\* too long is never written, another may be refused by the modem.  err has no
\* value when its answer to AT+SBDWB does not come, so that a message may count
\* as loaded that is not in the modem, or be there and not count.
SetMessage ==
  LET stored == PodBytes(ClearedBytes) IN
  /\ step = "message" /\ doneLoading /\ updatedGPS /\ ~messageLoaded
  /\ step' = "transmit"
  /\ bits' = PodBits(GpsBits(ClearedBits(bits)))
  /\ podData' = [a \in Beyond |-> stored[a]]
  /\ msgLength' = UpdatedLength(podLengths)
  /\ overrun' = overrun \cup {p \in Pods : msgLength' > PodStart(p)}
  /\ \/ UNCHANGED <<sent, own>>
     \/ /\ msgLength' <= SBD_LENGTH /\ own' = TRUE
        /\ sent' = [bits |-> bits', gps |-> GpsBytes, length |-> msgLength',
                    bytes |-> [a \in FirstPod..(msgLength' - 1) |-> stored[a]]]
  /\ IF msgLength' <= SBD_LENGTH THEN messageLoaded' \in BOOLEAN ELSE UNCHANGED messageLoaded
  /\ UNCHANGED <<gpsVars, podLengths, doneLoading, updatedGPS, radio, commands, taken, relinked>>

\* Not transmitted, and there is time left.
Again == /\ step = "transmit" /\ step' = "idle"
         /\ UNCHANGED <<gpsVars, buffers, flags, radio, commands, told>>

\* Transmitted (when messageLoaded), or time-out.  The modem keeps the message.
ReportEnds ==
  /\ step = "transmit" /\ step' = "idle"
  /\ doneLoading' = FALSE /\ updatedGPS' = FALSE /\ messageLoaded' = FALSE
  /\ own' = FALSE
  /\ taken' = [p \in Pods |-> {}] /\ relinked' = {} /\ overrun' = {}
  /\ UNCHANGED <<gpsVars, buffers, radio, commands, sent>>

----------------------------------------------------------------------------
\* Commands, and the pods.
Command == step = "idle" /\ commands < MaxCommands /\ commands' = commands + 1

GpsData ==
  /\ Command /\ \E a \in Answers : GpsUpdate(a)
  /\ UNCHANGED <<buffers, flags, step, radio, told>>

GpsOff ==
  /\ Command
  /\ coord' = ClearedCoordinates
  /\ UNCHANGED <<updates, buffers, flags, step, radio, told>>

\* The number of a pod is 1 to MAXPODS here (the code looks at the upper bound
\* only), and no lengths are given with which the array runs beyond podData.
Podlink ==
  /\ Command /\ msgLength' = UpdatedLength(podLengths')
  /\ msgLength' <= SBD_LENGTH + MAXPODS * POD_LENGTH
  /\ relinked' = relinked \cup {p \in Pods : doneLoading /\ podLengths'[p] # podLengths[p]}
  /\ UNCHANGED <<gpsVars, podData, bits, flags, step, reading, sent, own, taken, overrun>>

\* The listed pods get their lengths, the others keep theirs.
PodlinkOn ==
  /\ registry' \in [Pods -> Lengths \cup {Unlinked}]
  /\ podLengths' = [p \in Pods |-> IF registry'[p] = Unlinked THEN podLengths[p] ELSE registry'[p]]
  /\ Podlink

PodlinkOff ==
  /\ registry' = [p \in Pods |-> Unlinked] /\ podLengths' = [p \in Pods |-> 0]
  /\ Podlink

PodReports(p) ==
  /\ p \in Linked /\ \E r \in Readings : reading' = [reading EXCEPT ![p] = r]
  /\ UNCHANGED <<gpsVars, buffers, flags, step, commands, registry, told>>

Init ==
  /\ coord = ClearedCoordinates
  /\ updates = 0
  /\ registry = [p \in Pods |-> Unlinked] /\ podLengths = [p \in Pods |-> 0]
  /\ podData = [a \in Beyond |-> 0] /\ bits = {} /\ msgLength = FirstPod
  /\ doneLoading = FALSE /\ updatedGPS = FALSE /\ messageLoaded = FALSE
  /\ step = "idle" /\ commands = 0
  /\ reading = [p \in Pods |-> CHOOSE r \in Readings : TRUE]
  /\ sent = Blank /\ own = FALSE
  /\ taken = [p \in Pods |-> {}] /\ relinked = {} /\ overrun = {}

Next ==
  \/ UpdatePosition \/ Wait \/ Transfer \/ NoMessage \/ SetMessage
  \/ Again \/ ReportEnds
  \/ GpsData \/ GpsOff \/ PodlinkOn \/ PodlinkOff
  \/ \E p \in Pods : PodReports(p)

Spec == Init /\ [][Next]_vars

----------------------------------------------------------------------------
\* testPodBytes: where the receiver of a message finds the bytes of pod p.
Received(message, a) == IF a \in DOMAIN message.bytes THEN message.bytes[a] ELSE 0
FoundAt(message) ==
  LET at[p \in 1..(MAXPODS + 1)] ==
        IF p = 1 THEN FirstPod
        ELSE at[p - 1] + (IF PodBit(p - 1) \in message.bits
                            THEN 1 + Received(message, at[p - 1]) ELSE 0)
  IN at
Found(message, p) ==
  IF PodBit(p) \notin message.bits THEN [j \in {} |-> 0]
  ELSE LET at == FoundAt(message)[p]
       IN [j \in 1..Received(message, at) |-> Received(message, at + j)]

----------------------------------------------------------------------------
\* A message that the modem took for a report gives every pod the bytes that were
\* taken from it for that report, as far as there are both, whatever it has sent,
\* and whatever lengths have been linked, since; and as many of them, unless a
\* command has changed their number.  Only a buffer that an overlong message ran
\* into has lost them (transfer_pod_data_to_SBD, PODLINK, generatePodBytes).
Agree(s, t) == \A j \in DOMAIN s \cap DOMAIN t : s[j] = t[j]
PodsAsTaken ==
  own => \A p \in Pods : \A bytes \in taken[p] :
           /\ p \notin overrun => Agree(Found(sent, p), bytes)
           /\ p \notin relinked => DOMAIN Found(sent, p) = DOMAIN bytes

\* A message that the modem took fits the array, and its receiver, who goes from
\* pod to pod by their numbers of bytes, comes out at its end: no bytes of an
\* earlier message are left in it (setMessage, updateMsgLength).
MessageIsWhole ==
  /\ sent.length <= SBD_LENGTH
  /\ FoundAt(sent)[MAXPODS + 1] = sent.length

\* Latitude, longitude, altitude and time of a message are of one and the same
\* update, and a fix is claimed with them; or there is no position at all
\* (gpsUpdate, validCoordinates, generateGPSBytes).
PositionOfOneFix ==
  LET h == sent.gps IN
  \/ h.lat = 0 /\ h.lon = 0 /\ h.alt = 0
  \/ FixBit \in sent.bits /\ h.lat = h.syncTime /\ h.lon = h.syncTime /\ h.alt = h.syncTime

=============================================================================
