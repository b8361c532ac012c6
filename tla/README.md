# Verification of the Whitworth Command Module

The repository holds the software of the Command Module of a high-altitude
balloon: a mission program (`prev_version/`), which tracks the flight and
reports by satellite, and the device drivers of its successor board (`lib/`):
GPS receiver, I2C bridge, FRAM, status light, Bluetooth and satellite modems.
This directory models what of it is concurrent, stateful or time-dependent in
TLA+, checks the models with TLC and proves their invariants with TLAPS.

`src/main.cpp` of the repository is a bench test of one modem; the program that
flies is `prev_version/old_main.cpp`, and that is the one modelled first. Paths below
leave out the leading `src/`.

## 1. Inventory

| Part | State | Operations | Interaction, what is hard |
|---|---|---|---|
| Mission program `prev_version/old_main.cpp` | mode 0..3, timers, ground altitude, landing counter, `gps_success` | start-up, the loop with its four modes, launch, landing and battery checks | one thread; every other part is called from it. Order of stages over many iterations, power cycles, flags of an earlier iteration |
| SBD report `prev_version/commandSequences.cpp` | five flags and two timers in `SBDmessage`, timeouts | `send_SBD_message`, `transfer_pod_data_to_SBD` | one call does one pass over the stages; commands and mode changes come between calls; retries, timeouts, lost replies |
| Launch control `prev_version/launchControlComm.cpp` | none of its own | commands over Bluetooth, mode changes | changes mode, period, mission ID, radios under an open report; `changeModeToPending` waits for a fix and the parser for the rest of a line, both without limit |
| Satellite modem `prev_version/NAL9602.cpp` | power flags, coordinates, message, lines not yet read | `gpsUpdate`, `gpsOn/Off`, `satLinkOn/Off`, `setMessage`, `transmitMessage`, `syncTime` | replies may not come, or come when nobody waits any more; a status that is then not assigned |
| SBD message `prev_version/SBDmessage.cpp` | 340 bytes, offsets, pod lengths | setters, `generateGPSBytes`, `loadPodBuffer`, `retrieveInt16` | layout, length limit, what lies behind the array, sign of the mission ID |
| GPS coordinates `prev_version/GPSCoordinates.cpp` | one sample, flags of what is set | setters, getters, validity | sample of mixed age |
| Flight parameters `src/FlightParameters.h` | a record | none | shared by all of the above |
| u-blox driver `lib/ublox/ublox.cpp` | one packet buffer for requests and answers, parser counters, freshness flags, timer | `sendCommand`, two wait loops, poll, parser, some sixty getters and setters | a second machine answers late, corruptly, not at all or unasked; one buffer for everything |
| Status light `lib/StatusLED/StatusLED.cpp` | mode, duty cycle, direction | `mode`, thread `_updateLED` | two threads without a lock |
| I2C bridge `lib/ZDU0110RFX/` | bus lock | `send`, `recv`, configuration | `recv` keeps the lock; `send` repeats without limit |
| FRAM `lib/Cypress_FM24W256/` | the device's address pointer | reads and writes | address and data in separate transfers, no lock |
| Bluetooth modem `lib/RN41/` | connected? | connection, shutdown | what start-up waits for |
| RockBLOCK 9603 `lib/RockBlock9603/`, bench program `src/main.cpp` | two power flags | four queries, printed; the rest is commented out or not called | the same kind of dialogue as the modem's |
| ADT7410, TMP36 | none | one read, a conversion | none |
| `test/` | none | board tests | what they expect of the libraries is read |

`PROJECT.json` lists the same parts with their files and how far each is
modelled, and the hazards of the code line by line with the property that
watches each.

## 2. Modules

    BalloonMission          the promise: phases of a flight, one report at a time
      ^ implemented by
    FlightRefinement        the mapping; EXTENDS FlightControl
      FlightControl         mission program, report, commands, modem
      MCFlightControl       constants for TLC
      FlightControl_proofs  9 theorems
    SbdMessage              what a report says: position, pods' data, bytes
      SbdMessage_proofs     3 theorems
    ModemLink               the dialogue with the modem, line by line
      ModemLink_proofs      2 theorems
    UbxDriver               GPS driver and receiver, by halves of frames
      MCUbxDriver           constants for TLC
      UbxDriver_proofs      4 theorems
    UbxParser               the driver's parser, byte by byte
      MCUbxParser           constants for TLC
      UbxParser_proofs      4 theorems
    UbxConfig               the driver's settings, command by command
      MCUbxConfig           constants for TLC
      UbxConfig_proofs      4 theorems
    StatusLight             LED thread and its callers
      StatusLight_proofs    4 theorems
    SharedBus               FRAM and bridge drivers on one I2C bus
      MCSharedBus           constants for TLC
      SharedBus_proofs      5 theorems

### FlightControl

The program has one thread, so a step is one numbered stage of an iteration of
the loop and `pc` names the next: `top` decides whether a report is due
(`BeginReport`, `NoReport`); `updateGPS`, `loadPods`, `setMessage`, `transmit`
and `finish` are the steps 2 to 6 of `send_SBD_message`; `check` is the 15 s
check of the mode (`LaunchCheck`, `LandingCheck`, `BatteryCheck`, `NoCheck`);
`command`, `reading` and `lineEnd` are `parseLaunchControlInput`: nothing readable
(`NoCommand`) or the beginning of a line (`BeginLine`), its words, with one action
per group of commands, and its end;
`bluetooth`, `syncTime` and `acquire` are start-up and the endless loop of
`changeModeToPending`; `off` is the sleep on an empty battery. Variables carry
the names of the code; `sbdPeriod` stands for the pair of timeouts that are 0.9
and 0.2 of it.

Time (`Tick`), the balloon (`Release`, `Touchdown`) and the supply
(`PowerCycle`) step between any two stages. A position is a record of fix,
altitude and "is the vertical velocity small": the program distinguishes no
more. `gpsUpdate` fetches position and velocity separately, so a sample may join
a new altitude and an old velocity (`GpsOutcomes`). What the modem is really
doing (`gpsPower`) is kept apart from what the program believes (`gpsStatus`):
the reply to a command can be lost after the command was obeyed.
A fix can come without a height (`altitude()` is then -999).

What the modem holds (`message`) is kept apart from the flag `messageLoaded` in the
same way. `transmitMessage` and `setMessage` decide with variables that an
unanswered command leaves unassigned, and the model lets them take either value: a
message may be stored and not count, or count while the modem still has the one
before, and nothing ever takes a message out of the modem. `own` marks the
message that the open report has written; it is an observer.

The pods are an external part: `LoadPods` takes their data as complete, or not,
at any time. Also external: the modem's side of the serial line, Bluetooth,
`mbed::Timer`.

### BalloonMission and FlightRefinement

`BalloonMission` says what a user is promised without stages, timers or radios:
the phases `lab`, `pad`, `flight`, `landed`, `off`, and a report that is opened,
loaded and closed. A phase goes back only when launch control says so on the
pad, or with `Reset`, which counts `resets`: the mapping gives it the count of
the power cycles, so that no command passes for one. Before flight launch
control may change the phase under an open report; a step into flight, landed or
off needs the report closed; the phase a report is loaded in is the phase it is
sent in. The mapping reads the phase off `mode` and `pc` and the report off two
flags.

The mission program, the message and the modem are one system, cut where the
code is cut. `FlightControl` says when a report is loaded, sent and given up,
and takes what is in it and the answers of the modem as events; `SbdMessage`
opens the first, `ModemLink` the second. `FlightControl` supposes that the result
of `setMessage` or `transmitMessage` is either that of its own command or what
happens to be in a variable; `CodeIsOfThisCall` is where that is shown.

### SbdMessage

`coord` and `updates` are the coordinates: each part is the number of the
update it came from, and 0 while it is not valid, so that "latitude of one
position, altitude of another" can be said at all. `Answers` are the ways the
lines of `+PLOC` and `+PVEL` can come: complete, cut off after any of them, out of
range, with "Invalid Position Fix" in the first answer or only in the second.
`GpsUpdate` keeps what the code keeps.

From byte 27 on the message is an array of bytes, and behind it in memory lie
the pods' buffers `podData`, which is what a message that is too long is written
over: `setMessage` looks at the length afterwards. With six pods of 70 bytes
(27 + 6 x 71 = 453 > 340) it returns -1 at every try until the report is given
up. `Transfer` is `transfer_pod_data_to_SBD`, `SetMessage` the calls from
`clearMessage` to the answer of the modem, `PodlinkOn/Off` the command PODLINK
in either form; the positions of pods are computed by a recursive function
(`Before`), the receiver of a message finds them as `testPodBytes` does
(`FoundAt`).

A length is any byte: the driver keeps the low one of whatever number PODLINK is
given. What a pod then sends goes no further than its buffer
(`MAX_POD_DATA_BYTES`), what is read for the message does, into the next pod's
(`Read`); behind the last, 0 is read. The number of a pod is 1 to `MAXPODS` here;
the code tests the upper bound only, and a list with pod 0 or less, like lengths
whose sum leads beyond `podData`, is outside of the object and of the model.

`sent` is the message in the modem, `own` whether it was written for this report,
`taken` what was taken from each pod for it; the two are what `PodsAsTaken`
compares. `relinked` are the pods whose length a command has changed since then, and
`overrun` those whose buffer a message too long has run into. A pod of the first
kind has a different number of bytes, which must still be those that were taken as
far as there are both; only the second has lost them. Seen in the model and left
as the code has it: PODLINK ON leaves the lengths of pods that are no longer
listed, whose old bytes then go on being sent; PODLINK between transfer and message
changes the length of what has been taken already, and a longer one is filled up
with what lies behind; the modem may hold an earlier report's message while
`messageLoaded` is true; a value out of range that comes with a fix
gives a message with the bit of the fix and no position; "Invalid Position Fix"
with the velocities only leaves the new time without a fix.

### ModemLink

`Scripts` has, for each call of a driver, what it sends and what it waits for,
in order: `Switch`, `Query`, `Quality`, `SetMessage`, and the calls made of two.
`recv` throws away lines until one matches (`Receive`) or its time is over
(`TimeOut`); `send` does not empty the input, so what no call read is still
there for the next. `MayCall` is the order in which the flight program calls:
after an unsuccessful transmission the signal quality is asked for, and a message
is set only when none is loaded. `driver` says which program runs, the flight
program or `src/main.cpp` with the RockBLOCK driver, which makes its four calls
once each. The modem is external: it echoes a command, answers or refuses it, and
the serial line delivers its lines in order, loses some and delays some.

A line carries the number of the call it answers; that, `got`, and the counters
are observers. What is supposed of the modem: the echo of a command and READY,
which it sends at once, come in time when they come; results of commands that
take their time may be late. Were the echo late too, a whole answer would be
left for the next call of the same kind, and the next.

Seen in the model: `signalQuality` and `get_new_signal_quality` never read their
OK, and `gpsOn`, `gpsOff`, `satLinkOn` and `satLinkOff` take any OK for theirs. A
refused GPS OFF after a query of the signal counts as done, so that `gpsStatus`
is wrong until the next switch. `FlightControl` has no refused commands, only
lost replies. A lost reply to `satLinkOff` sets `iridiumStatus`; the constructor
of `RockBlock9603` sets it without asking.

### UbxDriver

The driver and the receiver are two machines joined by an I2C bus. On the
driver's side `pc` is where the calling thread is: `idle`, `poll`
(`checkUbloxI2C`), `read` (`process`), `look` (one round of a wait loop),
`returned` (back from `sendCommand`). `call` and `stage` say which operation
it executes and whether that has got to the write-back of a setting. The one
buffer `packetCfg` is a record of class/ID, length, `valid` and payload, where a
payload is the name of the register it is the image of; the operations are
grouped by what they send: `Query`, `QueryPort`, `SetNavigationFrequency`,
`GetPVT`, `GetFreshLatitude`, `CheckUblox`, `Order` (the setters that send one
command: `saveConfiguration`, `factoryDefault`, `enableMessage`, `disableMessage`,
`configureMessage`), `SetAutoPVT`, `AssumeAutoPVT` (which sends nothing),
`HardReset`, with `WriteBack` for the second command of the settings that are
read, changed and written.

A poll has the outcomes of `checkUbloxI2C`: too early (`PollTooEarly`), refused
(`PollRefused`, where a count of bytes that is refused, or has 0xFF in it, resets the
timer and a refused address does not), no bytes (`PollEmpty`, which resets it),
bytes (`PollFull`), or bytes of which the first is 0x7F (`PollNotReady`: what has been
read with it is gone, and the parser meets the stream somewhere else,
`AfterLoss`). That the bytes are fetched in chunks is left out: the chunks are read
one after the other and make one stream.

Frames are read in two halves, header with payload and checksum, because a poll
may end in the middle of a frame and the next operation may then refill the
buffer. If that changes the length the frame is measured with, the parser loses
it: the states `derailed`, `lost`, `skips` and `skipping` of `parser` are what
it then does with the bytes that follow.

The receiver takes commands one at a time (`AnswerCommand`, `RefuseCommand`,
`IgnoreCommand`, `Restart`), puts its answers into a bounded buffer (`Emit`,
which may lose or corrupt one) and may report solutions unasked
(`SendSolution`), as `enableAutoPVT`, `enableMessage` and the configuration it
starts with (`savedPVT`) have it; `factoryDefault` ends that. The driver's
`autoPVT` follows `setAutoPVT` and `assumeAutoPVT` only, so the two may disagree
with nothing disturbed, and nothing here says otherwise. It is external:
modelled from the protocol as the driver uses it.

`seen` and `undisturbed` are observers; no action of the driver reads them.
`calls` and `faults` count against the bounds.

### UbxParser

The same driver below half a frame. A step is one byte: `UbxByte`, `NmeaByte`
and `RtcmByte` are what `process` and `processUBX` do with it, and the receiver
sends frames, NMEA and RTCM sentences byte after byte (`BeginFrame`, `NextByte`,
`BeginSentence`, `NextSentenceByte`) or stops in the middle (`Cut`). Between any
two bytes the calling thread may put a command into `packetCfg` (`Prepare`) or
forget the one it has asked with (`Forget`). Checksums are computed; the two
payload arrays are one `memory`, because the code stores up to 256 bytes into
either, and the array for acknowledgements has two.

`clean` says that a frame began in good order: the parser listened, the frame
fits, the packet of the frame before is complete (`SyncHarmless`), and nothing
was prepared in its buffer since. `FrameIsTaken` shows that this is enough, and
so what the atomic half frames of `UbxDriver` rest on. That it is needed shows
in the model:

- the first two bytes of a frame go to the packet of the frame before. If a longer
  command was put into that packet in between, they are counted into the
  checksum, and a good frame is rejected; if it is one or two bytes longer, they
  end it;
- after an acknowledgement they are stored behind its two bytes, which is in
  `payloadCfg`;
- a packet whose counter stands just below `MAX_PAYLOAD_SIZE` ends there, and
  with it the frame that has just begun;
- a command prepared in the middle of a frame changes the length the frame is
  measured with.

### UbxConfig

The operations that change what the receiver is set to, with the values that
`UbxDriver` leaves out. A command with all that becomes of it is one step
(`SendCommand`: refused, gone out, unanswered, acknowledged, not acknowledged,
answered with or without its ACK, overtaken by a report), because what goes
wrong here is what the driver believes between commands. `payload` keeps the
bytes of each register that some operation changes and one that none does;
`ReadSetting` and `WriteBack` are the two halves of an operation, and the second
sends whatever is in the buffer. `AddGeofence` and `ClearGeofences` keep the list
and send it whole; `NewCfgValset`, `AddCfgValset`, `SendCfgValset` and `SetVal` put a
list of keys together over several calls, in the same buffer; `PowerSaveMode` asks
for the protocol version first. The receiver has a configuration, one in permanent
memory, and an address; `SaveConfiguration`, `FactoryDefault`, `FactoryReset`,
`HardReset` and a restart of the program do to them what they say.

`answered`, `listed`, `undisturbed`, `fencesTaken` and `strayed` are observers. Late
answers belong to `UbxDriver`; of the ports only I2C; a key's value has one, two or
four bytes (`Width`), so that an entry of the list has 5, 6 or 8; `addCfgValset`
tests no bound, and the model stops where the buffer ends (`BufferSize`): what an
entry beyond it writes over is not modelled, and the theorem is about lists that
fit. Seen in the model: nothing looks
at the status of the first command (`== true`, `== false` hold for hardly any), so
that leftovers are written back after a poll without an answer, and
`setI2CAddress` never stores the new address; `setSurveyMode` clears what it has
read; `setPortOutput` goes on with an ACK that need not be that of its poll; the
driver keeps its fences through a reset of the receiver, which does not.

### StatusLight

A step of the thread is one access to `_mode`, `_pwm` or `_delta`; `mode()` is
one step, because the thread has the lowest priority and runs only while its
callers sleep, and may come between any two accesses of the thread. The duty
cycle is counted in steps of `DELTA_SIZE`; the rounding of `PwmOut` to timer
counts is left out (it can add a step to a breath, since both ends are tested
with <= and >=).

### SharedBus

Threads that call the FRAM driver and threads that call the bridge driver, on
one bus. A step is one call of mbed's `I2C` class, which waits until the bus is
free or held by its own thread (`Free`). The two drivers use it differently, and
that is what the module is about. The bridge driver locks the bus for a whole
operation: `Ask`, `Answer`, `Unlock` (the queries), `SendBegin`, `SendByte`,
`SendEnd`, `RecvBegin`, `RecvByte`, and `Configure` for the settings, which are
a single transfer. The FRAM driver locks nothing and sends a read in separate
calls: `ReadAt` or `ReadHere` (start), `AddressWrite`, `High`, `Low`, `Restart`,
`AddressRead`, `ReadByte`, `Stop`, with `ReadNowhere` for an address that fails
the check; a write is one call of `I2C::write`, which takes the lock itself
(`Write`). `pc` is the next call of each thread, `job` the operation and its
arguments, `owner` and `depth` the recursive lock.

The FRAM is external: a cell it points at (`latch`), its memory, and what it
takes the next byte on the wire for (`bus`): `OnWire` is its half of a byte. Any
other driver's start or stop ends what it was doing. The bridge is a buffer that
a serial line empties (`Drain`) and, for queries, the register last addressed.
`read_int16` alone takes a signed address, so that an address with the top bit
set passes its check and is read with the bit dropped (`TooHigh`, `Masked`).

`torn` says that another thread used the bus while a thread was reading its
bytes (after the address to read was acknowledged the driver gets bytes without
an acknowledge, so nothing tells it); `next` is the cell after the last one read
or written, which the reads without address promise to go on with; `recvCalled`
that `recv` has been called. They are observers. Left out: the values of
settings and their conversions, the bridge's second UART, the electrical level.

## 3. Runs

Passing:

- **flight_safety** (9.8 million states). Every command at any moment, lost
  replies, failing fixes and one power cycle at any stage, with a
  period in flight that differs from the one on the ground. Shows the six parts of the inductive invariant one by one,
  `FlightOnlyForward`, and the refinement `ImplementsMission`.
- **flight_live**. Shows `ReportResolves`, `ReportsKeepComing`,
  `LaunchNotMissed`, `LandingNotMissed`, the first two if launch control ends
  the lines it begins (`LinesEnd`), the others if in the end fixes have heights
  as well (`HeightsCome`).
- **sbd** (2.4 million). Two pods that report or are silent, positions that come
  whole or in part, GPS and PODLINK commands between any two calls, messages
  that fit, that do not, and that are not in the modem though they count as
  loaded. Shows `PodsAsTaken` (the message that the report has written says of
  each pod what was taken from it, through changes of its length),
  `MessageIsWhole` (whoever reads it pod by pod comes out at its end) and
  `PositionOfOneFix`.
- **modem_lines** (2.4 million). Six calls of the flight program, and the four
  of the test program, with refused commands, one line lost and two late. Shows
  `CodeIsOfThisCall` and `UnreadIsRecent`.
- **ubx_driver** (2.4 million). One operation of each kind, two calls in
  sequence and a getter after them, one fault anywhere. Shows `StatusIsEarned`,
  `SolutionIsMeasured`, `CommandsWork` for commands that nothing has disturbed,
  and the liveness property `CommandsEnd`.
- **parser_frames** (2.5 million). Frames of each kind, one longer than the
  buffer, a cut, sentences, and a command between any two bytes. Shows
  `AnswerKept` (as long as nothing is prepared and no further answer begins, the
  payload of the last one stays readable), `NoFrameIsEndless` and
  `FrameIsTaken`.
- **config** (5.9 million). Four operations in a row, one fault, reports in
  between, resets and a restart of the program. Shows `FencesAgree`,
  `AddressIsWhereAsked`, `OnlyTheSettingAsked` and `TransactionIntact`.
- **light_modes** (52 thousand, with the resolution and the waiting times of the
  code). Shows `LightFitsMode`, `ModeTakenInTime` and the liveness properties
  `Flashes` and `Breathes`.
- **bus_shared** (0.9 million). One thread that uses both drivers and one that
  uses the bridge, their calls interleaved in every way, any start refused.
  Shows `ReadIsTrueOrReported`, `ReadsStoreNothing`, `AnswerIsToTheQuestion`,
  `SendArrivesWhole` and the liveness property `EndsWithoutRecv`.

Violated, each a disagreement between the code and a comment of the repository;
`PROJECT.json` quotes both sides under "findings":

| Run | Property | What TLC shows |
|---|---|---|
| flight_no_bluetooth | `TrackingAfterReset` | After a power cycle in flight, start-up waits for Bluetooth for ever; the default tracking the comment promises is unreachable (`old_main.cpp:112`). |
| flight_false_success | `SuccessMeansSent` | No answer to `AT+SBDI` leaves `outgoingStatus` unassigned; the report may count as sent and be dropped (`NAL9602.cpp:260`). |
| ubx_silent | `EveryWaitEnds` | Every empty poll resets the timer that the timeout is measured with: a silent receiver keeps the caller for ever (`ublox.cpp:234`). |

Modelled as the code has it, and seen in the models without a run of its own,
besides what section 2 names with the modules: a report given up on the pad leaves
its message in the modem; if in flight the answer to `AT+SBDWB` is lost and counts as
"stored", `AT+SBDI` sends that old message, whose negative ID says "pre- or
post-flight" (`docs/SBD_messages.adoc:8`, `NAL9602.cpp:409`), so `MissionIdSign`
without `own` is false; a line that launch control begins and does not end stops
the program on the pad for ever, with a report open or the balloon gone
(`launchControlComm.cpp:10`, `:147`), so `ReportResolves` and `LaunchNotMissed`
without `LinesEnd` are false; `gps_success` survives into later
iterations in flight mode, so one slow sample can count as several signs of
landing (`old_main.cpp:255`); with automatic reports `getPVT` calls one solution
new again and again (`ublox.cpp:2114`); `factoryDefault`, `configureMessage` or
`assumeAutoPVT` leave the driver waiting for reports that nobody sends, or polling
among reports (`ublox.cpp:1064`, `:1674`); the late answer of one command overwrites
the packet the next ACK is compared with (`ublox.cpp:552`); the LED thread
computes a level, the mode is set to off, the thread writes, and the light stays
lit (`StatusLED.cpp:43`); `recv` returns with the bus locked, and every other
thread that uses the bus waits for ever (`ZDU0110RFX.cpp:81`); with a second
thread that reads the FRAM `ReadsStoreNothing` is false, as the address of one
reader is stored as data by the partial write of the other
(`cypress_fm24w256.cpp:113`): two threads for `FramThreads` in `bus_shared.cfg`
show it within a minute.

Read in the code and not in a model: `getHPPOSLLH` does not set `startingSpot`,
which `getProtocolVersion` leaves at 40 (`ublox.cpp:2221`); the echo functions of
the RockBLOCK driver, which nothing calls, stop on a line whose first letter is O
or whose second is K, and one does not end at all on a time-out;
`get_IMEI` and `get_buffer_status` return what their variables had when no answer
comes.

What the properties do not cover. Some are about the cases in which the code keeps
a promise, and leave out, by an observer, those in which it does not. The hazards
in `PROJECT.json` say so one by one; together:

| Property | Left out | What then happens in the model |
|---|---|---|
| `MissionIdSign` | messages of earlier reports | sent with the sign they had |
| `PodsAsTaken` | buffers a message too long ran into | the bytes of that message are sent |
| `LandingNotMissed` | how distinct the signs of landing are | one slow sample counts several times |
| `CommandsWork`, `CommandsEnd` | commands a fault, a time-out or another frame has disturbed | time-outs, ACKs lost to late answers; `StatusIsEarned` and `SolutionIsMeasured` still hold |
| `OnlyTheSettingAsked` | the own register after an unanswered poll; lists that something came into | leftovers are written to it |
| `AddressIsWhereAsked` | the receiver that has taken its new address | the driver goes on with the old one |
| `FencesAgree` | from a fence command that fails to one that is obeyed | driver and receiver differ |
| `TransactionIntact` | lists that another operation came into | they are sent as they are |
| `FrameIsTaken` | frames after leftovers that are not harmless | the frame is lost |
| `LightFitsMode` | a mode that the thread has overwritten | the light stays wrong |
| `ReadIsTrueOrReported` | reads that another bus user has torn | bytes of no cell, reported as read |

### Bounds

- *Ticks of FlightControl* stand for 15 s or more. `CheckPeriod` is one tick;
  the report periods are one or two, so that a check falls within a report, on
  its end and after it; with a period of 2 the pod timeout (0.2) is reached after
  one tick and the send timeout (0.9) after two. `MaxClock` is above every limit
  a timer is compared with, so a stopped timer gives the same answer to every
  test as one that runs on (`PeriodAssumption`). Only one period is accepted in
  flight, so in the runs TRANSPERIOD gives the period that is there already; the
  theorems are for any number of them.
- *Altitudes* are three steps: pad below the trigger, aloft above it, and one at
  the ceiling above which no landing is believed. The liveness run has both
  aloft; `flight_safety` needs no more than one, since no invariant depends on
  the landing altitude.
- `MaxResets = 1`: everything in RAM is lost at once, at any stage and wherever
  the balloon is; the theorems cover every number of resets. The landing
  counter has no bound of its own: the program leaves flight mode when it
  exceeds twice the quotient of the periods.
- *SbdMessage*: the head of the message has its 27 bytes, the array is scaled down
  to 33 bytes and the pods' buffers to 2 each. PODLINK gives a length of 3, more than
  the buffer, so a pod that answers has 2 bytes and one that is relinked 3: two
  that answer fill the array to the last byte, and with one of 3 the message is too
  long and runs into the buffer of the first. The theorems are for all lengths of a
  byte, and buffers of any size. Two updates tell two positions
  apart; two commands are enough for one before and one after the transfer, of
  either kind.
- *ModemLink*: six calls are enough for a call whose answer is left over, the two
  forced ones after it (message, transmission, quality) and one that could read
  it. One lost line and two late ones: the second of these leaves a line for
  the call after the next.
- *UbxParser*: `MaxPayload = 14` instead of 256: two of the frames fit with their
  eight bytes, one does not; three frames or sentences are enough for one that
  leaves something, one that meets it and one that shows it. The theorems are for
  any size.
- *UbxConfig*: four calls are a list of keys begun, disturbed, continued and sent,
  or a setting read, disturbed and written twice; two fences are one and the
  limit; the two keys have one byte and four. Receivers on both sides of version 27.
- *UbxDriver*: two calls of any kind, because a call leaves to the next only what
  is in the buffer, the parser and the receiver, and one command after them
  (`LastOps`), which reads what a reset in the middle of a frame has left. One
  fault: `CommandsWork` speaks of exchanges without any, and all three invariants are
  proved for every number of faults and calls, and all operations. The operations
  of the run are one or two of each action; `saveConfiguration` is not among them, so
  the receiver comes back from a reset without reports there.
  `MaxWire = 2` holds an answer with its ACK, so a third frame is lost;
  `MaxInbox = 1` lets a second command arrive while the first waits. `PollWaits`
  is the case of the code where `i2cPollingWait` equals `maxWait` (1 Hz), in which
  no poll happens at all; the shorter wait is the one it starts with.
- *SharedBus*: two threads, of which one uses both drivers, so that each
  operation of one meets each call of the other and a thread goes from the FRAM
  to the bridge and back. Eight cells in two pages of four, neighbours different,
  so that a wrong cell shows; the addresses are an inner cell, the last cell and
  one beyond `maxAddress`. `MaxLen = 2` passes the last cell and repeats each
  loop; `TxSize = 1` fills the buffer of the bridge with every byte; `MaxDepth =
  1` lets a thread call `recv` once before the lock is lost to the others.
- *StatusLight*: none but `MaxAge`, where an observer stops counting, above
  `SlowWait`.

None of these bounds enters a proof. (`MaxLen` of `SharedBus` is any length
below a page, `MaxDepth` and `TxSize` any number.)

### Fairness

- `FlightControl!FairSpec`: the loop goes on (WF of `Main`, which ends where a line
  from launch control begins) and time passes (WF of `Tick`); mbed's timers are hardware. Strong fairness of `GoodSample` for
  each of the four places that ask for a position says that a receiver that is on
  gives a fix from time to time to a caller that keeps asking. It is the weakest
  assumption under which launch detection can be promised at all, and it says
  nothing when the receiver is off. The program waits without limit in two places. In
  `acquire` it waits for a fix, and `ReportResolves` exempts it. In `reading` and
  `lineEnd` it waits in `scanf` and `getc` for characters, in modes 0 and 1 and in the
  iteration that detects the launch: these steps have no fairness, since how
  long they take is up to launch control. The properties say what they need of it
  as a hypothesis, `LinesEnd` (again and again no line is half read), and TLC refutes
  `ReportResolves` and `LaunchNotMissed` without. In flight and after landing
  no line is begun. `HeightsCome` (fixes come with heights, in the end) is a
  hypothesis too, as a fix without a height ends a check that finds nothing. No
  fairness for commands, the balloon, resets
  or the modem's answers: a report may never be sent and must still end.
- `UbxDriver!FairSpec`: the thread runs, time passes, the receiver gets round to
  its commands and sends what it has to say. No fairness for refused transfers,
  so the bus is not busy for ever. There is none for `Begin`: nothing has to be
  called.
- `StatusLight!Spec`: the thread gets the processor whenever its callers sleep,
  and time passes. Calls of `mode()` stop eventually in the antecedent of the
  liveness properties (`LeftIn`): a caller that repeats `breathing` for ever keeps
  the light dark, and no one promises otherwise. The timed property supposes
  that callers leave the processor to the thread while it computes: time passes
  only in its sleep.

- `SharedBus!FairSpec`: the serial line takes bytes (WF of `Drain`), and a thread
  in the middle of an operation goes on if it can do so again and again (SF of
  `Proceed`): mbed's mutex is handed to the thread that has waited longest, and
  the bus is free between any two operations. No fairness for `Begin`.

`SbdMessage`, `ModemLink`, `UbxParser` and `UbxConfig` state no fairness: their
properties are about what is done, and not that anything is. In their runs
`CHECK_DEADLOCK` is off, because they end where the bounds on calls, frames or
updates are used up; it is on in every other.

## 4. Proofs

All theorems hold for every value of the constants that satisfies the named
assumptions: `PeriodAssumption` (periods positive, `MaxClock` above them),
`SettingAssumption` (types of the settings), `UbxAssumption` (types and
`MaxTimer` above the waits), `LightAssumption` (`SlowWait` is the longest wait),
`BusAssumption` (types of addresses and memory, two different slave addresses,
lengths below a page), `ParserAssumption` (frames and sentences are bytes, an
acknowledgement has two, of which the first is no synchronisation byte, as only
CFG and NAV commands exist to be acknowledged; an RTCM sentence has its length;
a command fits the buffer), `ConfigAssumption` (types; addresses of seven bits)
and `SbdAssumption` (types; lengths are bytes; the pods begin inside the array). TLC evaluates them
in the runs of their modules.

**FlightControl_proofs.** `FlightInvariant` is inductive as the conjunction of
its seven parts, which lean on each other. `MissionIdSign` (a message that the
open report has written carries the sign of the mode it would be sent in,
whether or not its answer was read) says also that this report is open and has
its data, so that the checks, which change the sign and run between reports
only, cannot come after it. `TimeoutsFitMode` needs `StageFitsMode`, as
`acquire` may set launch-pad timeouts only before flight. `ClocksAgree` needs
the flags of `PipelineOrder` to know which clock the first call of
`send_SBD_message` resets. One lemma per action, one step per part the action
can disturb. From it: every part (`TypeCorrect`, `ReportsBuiltInOrder`,
`SignIsThatOfTheMode`, `LabIsSilent`, `TimeoutsAreTheModes`,
`ReportClocksAgree`, `SleepsOnlyLanded`), the action property `FlightIsOneWay`,
and the refinement `MissionImplemented`: initial states map to `MissionInit` and
every step to a step of `BalloonMission` or a stutter.

**UbxDriver_proofs.** `UbxInvariant` has two halves. `TypeInvariant` joins
`TypeOK` and `BytesAreThere` to `BufferNamed`: the buffer always names a command
when an operation is about to send one back from it, whatever frame was read
into it. `HonestInvariant` carries what honesty of the results needs:
`FrameInProgress` (while a data frame is half read the buffer has its length,
and holds the image of a solution only if the frame is one), `WaitIsHonest`
(during a wait, `commandAck` and `valid` are backed by `seen`, and the payload
by the frame being read), `StatusIsEarned` and `SolutionIsMeasured`. The second
is needed because a status is decided a step after the last byte was read, the
first because a frame may outlive the command it came for. From it:
`UbxTypesHold`, `StatusIsAlwaysEarned`,
`SolutionIsAlwaysMeasured`.

What a command has that nothing disturbed needs a third, `OrderInvariant`, which
follows the answer from the command to the status. `AckIsOwed` and
`AnswerIsOwed` say where it is while it is waited for: the command is in the
receiver's inbox, or what answers it is in the outbox, on the wire or read, with
solutions in between only if the receiver reports them; in front of an
acknowledgement a solution disturbs when it is read, and one that is polled
while the receiver reports solutions anyway is disturbed from the start.
`DataComesFirst` says that a polled register is before its ACK at each of these
places, which is why a status that speaks of the ACK alone can be followed by a
write-back of the register. `Calm` is what is left between commands, `Agreed`
that a setting waits for the ACK of a setting. From it
`UndisturbedCommandsWork`. Nothing is proved of `autoPVT`: after
`factoryDefault` the driver and an undisturbed receiver disagree about it.

**UbxParser_proofs.** `ParserTypesHold` first, since the counters and sums are
what the rest computes with. `FramesHaveAnEnd` needs one more fact, `FrameHasEnd`:
inside a frame the counter of its packet follows the counter of its bytes, so
that whatever length it claims the parser listens again after 256.
`FramesAreTaken` is an action property and takes the most: `TakenInvariant` says,
while a frame that began in good order comes in, that the packet has what was
sent of the head (`GoodOrder`), that the two sums on either side agree, and that
the bytes so far are in memory. One lemma for each kind of byte: the first,
which goes to the old packet, the second, those of head, payload and
checksum (`GoodByte`), the last (`LastByteTakes`).
`AnswersAreKept` follows the packet of an answer through the ACK behind it: the
first two bytes of the ACK are still counted into the answer's packet, since the
parser learns the class with the third (`AckComes`); its counter is then beyond its
checksum, so they change nothing but, just below `MAX_PAYLOAD_SIZE`, end the frame
(`AckIsLost`). What is left of that ACK must not look like the beginning of
another frame; it would if its payload were the two synchronisation bytes, which
is why `ParserAssumption` says that a class that is acknowledged is none of them.
The proof found this; the classes of `ublox.h:131-144` bear the assumption out.

**UbxConfig_proofs.** `FencesAlwaysAgree` rests on what a fence command carries:
from the moment it is prepared until its operation returns it is the driver's
list (`CarriesTheList`), and no other operation's packet is one that the receiver
would take for a fence command. `AddressIsKept` needs to know why the driver
never stores another address (`NeverStored`: FAIL is the status of a poll of one
byte only) and why the receiver keeps its own: a write-back of the port carries
the address because the poll before it was answered (`PortIsRead`), and what the
buffer names is the port whenever it claims so (`PortOpsSendPort`).
`TransactionsAreWhole` rests on `ListInvariant`, that the keys in the packet are
those listed and the packet is still the list's. `SettingsKeepToThemselves` rests on
`RegisterInvariant`: a packet that names a register while a setting is changed
names the one of that setting (`OwnRegister`); nothing counts as answered before
the poll of this operation was (`PollFirst`); then the buffer has what the
receiver has, except in the place of the setting (`ReadIntoBuffer`). That
`OwnRegister` must except `sendCfgValset` was found in this proof: a poll of the survey
mode that is refused leaves the packet with its ID, four `addCfgValset` bring it to
forty bytes, and the list then goes out as that register (`ublox.h:478-483`,
`ublox.cpp:1353`). It takes six calls, more than the run has. The property
therefore speaks of a list only when nothing came into it.

**SbdMessage_proofs.** `PositionsAreOfOneFix` from `FixIsOne`: with a fix, each
part of the coordinates is of the update that the time is of, or not valid. That
is so because an answer with enough satellites has all its lines before the
number of satellites, and because `generateGPSBytes` leaves out a position any
part of which is not valid. The other two are about the bytes of the pods.
Their places are sums of lengths, in the code and in the receiver of the message;
that both add up to the same, and that the places of two pods and the buffers of
two pods do not meet, is shown by induction over the pods (`SetInduction`, from
the library's theorem that the naturals are well-founded; `IsSum`). `MessagesAreWhole`
then needs the types of the buffers only, `PodsAreAsTaken` also `PodsInvariant`:
until a message is loaded the buffers hold what was taken from the pods, and
after it the message does.

**ModemLink_proofs.** `LinkInvariant` describes all lines that have come or may
still come (`Unread`). Among them is at most one mark, an echo that some call waits
for or READY, it is of the call under way and that call is waiting for it; nothing
is behind READY; nothing of a call is behind its OK; and each line is at most as
old as `late` allows (`Age`). A call with a mark therefore finds nothing older once
the mark is read or has not come, and a call without one reads an OK and returns
nothing. From it: `CodesAreOfTheirCalls` and `LittleIsUnread`, for any number of
calls and of lost and late lines and for both drivers.

**StatusLight_proofs.** `LightInvariant` adds to the types and `LightFitsMode`
which mode the thread works for while awake (`WorksForTaken`) and how long that
may be an earlier one (`LateAtMost`: in its sleep, no longer than what is left
of the slow wait; in mid-computation, only since this instant). From it:
`LightInvariantHolds`, `DutyCycleInRange`, `LightShowsMode`, `ModesAreTaken`.

**SharedBus_proofs.** Two invariants. `LockInvariant`, for any number of threads
of either kind, says that a thread inside an operation of the bridge owns the
lock (`LockIsHeld`); then no other thread can take any step but a failing check
of an address (`LockedOut`), so the register addressed stays the one asked for
(`QuestionStands`) and what has arrived is what was counted (`SentInOrder`).
From it: `BusTypesHold`, `AnswersAreToTheQuestion`, `SendsArriveWhole`. The FRAM
is read without the lock, and there the argument is another: `ReaderInvariant`
adds what the next byte on the wire is to the FRAM at each place of the reader
(`BusAsExpected`: what the reader expects, or nothing, since the calls of other
drivers can only end a transfer), and how far the read has come (`ReadOnCourse`:
the FRAM's cell and the bytes so far). It holds if one thread uses the FRAM
(`OneReader`, an assumption of the two theorems and not of the code; the code
enforces nothing of the kind). From it: `NoReadStores`,
`ReadsAreTrueOrReported`.

The types of `FlightControl`, `UbxDriver` and `SharedBus` are proved and take no
place in the runs; those of `StatusLight` are in both.

Every invariant and action property of the passing runs, and the refinement, is
the statement of a theorem. Only model-checked: liveness (`ReportResolves`,
`ReportsKeepComing`, `LaunchNotMissed`, `LandingNotMissed`, `CommandsEnd`, `Flashes`,
`Breathes`, `EndsWithoutRecv`), as fairness and ENABLED are out of the prover's
reach; and the violations.

## 5. Not modelled, and why

- Pod radio (`CM_to_FC`), the receivers' and modems' firmware, mission control:
  not in the repository; external actions stand for them.
- The status-light ticker and the invitation to pods in `old_main.cpp`, the
  commands PODTIME?, PODDATA and CMDSENSORS: they touch no state the mission
  depends on.
- The diagnostic commands of the modem class (ring alert, registration, logging,
  reading messages), which nothing in the mission calls.
- Formatting, logging and unit conversions, among them how voltages,
  temperatures, velocities and angles become the bytes of a message, and its
  checksum; ADT7410 and TMP36 are one read and one formula each.
- RockBLOCK 9603: what is commented out, and what nothing calls (`radio_on`,
  `radio_off`, `get_last_signal_quality`, which have the shape of the calls that
  are modelled; the functions that copy raw lines to the screen).
- In the u-blox driver: the serial port (`Ublox_GPS` talks to I2C here), what the
  queries return beyond position and version, the getters of HPPOSLLH.

## 6. Where the project stands

What was planned is done: the mission program with its promise as an abstract
specification, the receiver's driver by halves of frames, by bytes and by
settings, light and bus, the layout of the message and the dialogue with the
modem. What would come next, in order of weight: a
refinement from `UbxParser` to the half frames of `UbxDriver`, which is now an
argument by `FrameIsTaken` and `AnswerKept`; `OrderInvariant` for commands that one
fault has disturbed, as far as they still end well; the receiver's driver as a
third user of `SharedBus`.

## 7. Running

    tlc -workers 2 -config flight_safety.cfg MCFlightControl
    tlc -workers 2 -config flight_live.cfg MCFlightControl
    tlc -workers 2 -config sbd.cfg SbdMessage
    tlc -workers 2 -config modem_lines.cfg ModemLink
    tlc -workers 2 -config ubx_driver.cfg MCUbxDriver
    tlc -workers 2 -config parser_frames.cfg MCUbxParser
    tlc -workers 2 -config config.cfg MCUbxConfig
    tlc -workers 2 -config light_modes.cfg StatusLight
    tlc -workers 2 -config bus_shared.cfg MCSharedBus
    tlapm FlightControl_proofs.tla
    tlapm SbdMessage_proofs.tla
    tlapm ModemLink_proofs.tla
    tlapm UbxDriver_proofs.tla
    tlapm UbxParser_proofs.tla
    tlapm UbxConfig_proofs.tla
    tlapm StatusLight_proofs.tla
    tlapm SharedBus_proofs.tla

The `Mutant` operators stand beside the definitions they replace: each is a
plausible slip in that code, and each property of a passing run has one that
breaks it.
