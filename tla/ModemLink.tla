----------------------------- MODULE ModemLink -----------------------------
(***************************************************************************)
(* The dialogue with the satellite modem, line by line: what the drivers   *)
(* of the flight program (prev_version/NAL9602.cpp) and of the test        *)
(* program (lib/RockBlock9603, src/main.cpp) send and wait for, and what   *)
(* stays unread on the line between two calls.                             *)
(*                                                                         *)
(* recv reads line after line and throws away what does not match, until a *)
(* line does or the time is over; send does not empty the input.  Some     *)
(* calls wait only for OK, some never read it.                             *)
(*                                                                         *)
(* A line carries the number of the call whose command it answers, which   *)
(* the drivers do not see.  A whole answer (the lines of +PLOC) is one     *)
(* line.  What the flight program does with codes is in FlightControl, and *)
(* with positions in SbdMessage.                                           *)
(***************************************************************************)
EXTENDS Naturals, Sequences

CONSTANTS
  MaxCalls,   \* bound on the calls of a driver
  MaxLost,    \* how many lines get lost
  MaxLate     \* how many times a line comes when the time of recv is over

VARIABLES
  driver,     \* which of the two programs runs
  op, at,     \* the call, and the step of it that is next; 0: none
  call,       \* how many calls there have been
  status,     \* gpsStatus and iridiumStatus
  loaded,     \* messageLoaded
  got,        \* the call that the code or value read belongs to; 0: none read
  input,      \* lines that have come and are not read
  pending,    \* lines the modem is going to send
  writing,    \* the modem waits for the bytes of a message
  lost, late

program == <<driver, op, at, call, status, loaded, got>>
vars == <<program, input, pending, writing, lost, late>>

----------------------------------------------------------------------------
\* What a call does: send a command, or wait for a line.
Send(command)  == [do |-> "send", kind |-> command, of |-> command]
Recv(kind, of) == [do |-> "recv", kind |-> kind, of |-> of]

Echo(command)  == Recv("echo", command)
Value(command) == Recv("value", command)
OK     == Recv("OK", "any")
READY  == Recv("READY", "any")
Number == Recv("number", "any")

\* mutant: the answer to a command that switches something is not read.
SwitchUnread(command) == <<Send(command)>>
Switch(command) == <<Send(command), OK>>
Query(command)  == <<Send(command), Echo(command), Value(command), OK>>
Quality(command) == <<Send(command), Echo(command), Value(command)>>

\* mutant: READY is not waited for.
SetMessageAtOnce == <<Send("AT+SBDWB"), Send("bytes"), Number, OK>>
SetMessage == <<Send("AT+SBDWB"), READY, Send("bytes"), Number, OK>>
GpsUpdate  == Query("AT+PLOC") \o Query("AT+PVEL")
SyncTime   == Query("AT+PD") \o Query("AT+PT")
GpsNoSleep == <<Send("AT^GAO1"), Echo("AT^GAO1"), OK>>
GetIMEI    == <<Send("AT+GSN"), Echo("AT+GSN"), Number, OK>>

FlightScripts ==
  [gpsOn |-> Switch("AT+PP"), gpsOff |-> Switch("AT+PP"),
   satLinkOn |-> Switch("AT*S"), satLinkOff |-> Switch("AT*S"),
   setModeGPS |-> Switch("AT+PNAV"), gpsNoSleep |-> GpsNoSleep, syncTime |-> SyncTime,
   gpsUpdate |-> GpsUpdate, setMessage |-> SetMessage,
   transmitMessage |-> Query("AT+SBDI"), signalQuality |-> Quality("AT+CSQF")]

TestScripts ==
  [RockBlock9603 |-> Switch("AT&K0"), get_IMEI |-> GetIMEI,
   get_new_signal_quality |-> Quality("AT+CSQ"), get_buffer_status |-> Query("AT+SBDSX")]

Scripts(d) == IF d = "NAL9602" THEN FlightScripts ELSE TestScripts

\* A message is transmitted when it is loaded, and when it stays so, the signal
\* quality is asked for before anything else; it is set when none is loaded.  The
\* test program makes each of its calls once.
MainCalls == <<"RockBlock9603", "get_IMEI", "get_new_signal_quality",
               "get_buffer_status">>

MayCall(o) ==
  \/ /\ driver = "NAL9602"
     /\ (o = "signalQuality") = (op = "transmitMessage" /\ loaded)
     /\ o = "setMessage" => ~loaded
     /\ o = "transmitMessage" => loaded
  \/ /\ driver = "RockBlock9603"
     /\ call < Len(MainCalls) /\ o = MainCalls[call + 1]

Script == Scripts(driver)[op]

----------------------------------------------------------------------------
\* The modem.  A command is echoed, then answered, or refused; what follows
\* AT+SBDWB is the message if the modem waits for it, and no command otherwise.
Line(kind, of) == [kind |-> kind, of |-> of, call |-> call]

ValueKind(command) == IF command = "AT+GSN" THEN "number" ELSE "value"
HasValue(command) ==
  command \in {"AT+PD", "AT+PT", "AT+PLOC", "AT+PVEL", "AT+SBDI", "AT+CSQF",
               "AT+GSN", "AT+CSQ", "AT+SBDSX"}

Answer(command) ==
  <<Line("echo", command)>>
    \o (IF HasValue(command) THEN <<Line(ValueKind(command), command)>> ELSE <<>>)
    \o (IF command = "AT+SBDWB" THEN <<Line("READY", command)>> ELSE <<Line("OK", command)>>)
Refusal(command) == <<Line("echo", command), Line("ERROR", command)>>
Written == <<Line("number", "bytes"), Line("OK", "bytes")>>

\* One line of what is pending comes, or gets lost.
Arrive ==
  /\ pending # <<>> /\ pending' = Tail(pending)
  /\ input' = Append(input, Head(pending))
  /\ UNCHANGED <<program, writing, lost, late>>

Lose ==
  /\ pending # <<>> /\ pending' = Tail(pending)
  /\ lost < MaxLost /\ lost' = lost + 1
  /\ UNCHANGED <<program, input, writing, late>>

----------------------------------------------------------------------------
\* The drivers.
Call(o) ==
  /\ at = 0 /\ call < MaxCalls /\ MayCall(o)
  /\ op' = o /\ at' = 1 /\ call' = call + 1 /\ got' = 0
  /\ UNCHANGED <<driver, status, loaded, input, pending, writing, lost, late>>

\* At the end of a call its code says whether a message is loaded now, or is no
\* longer, as does what was in the variable when no code came.
Advance(by) ==
  IF at + by <= Len(Script)
    THEN at' = at + by /\ UNCHANGED loaded
    ELSE /\ at' = 0
         /\ IF op \in {"setMessage", "transmitMessage"}
              THEN loaded' \in BOOLEAN ELSE UNCHANGED loaded

\* The time for the report is over.
GiveUp ==
  /\ at = 0 /\ loaded /\ op # "transmitMessage" /\ loaded' = FALSE
  /\ UNCHANGED <<driver, op, at, call, status, got, input, pending, writing, lost, late>>

SendCommand ==
  /\ at # 0 /\ Script[at].do = "send" /\ Script[at].kind # "bytes"
  /\ LET command == Script[at].kind IN
     \/ /\ pending' = pending \o Answer(command)
        /\ writing' = (command = "AT+SBDWB")
     \/ pending' = pending \o Refusal(command) /\ writing' = FALSE
  /\ Advance(1)
  /\ UNCHANGED <<driver, op, call, status, got, input, lost, late>>

SendBytes ==
  /\ at # 0 /\ Script[at].do = "send" /\ Script[at].kind = "bytes"
  /\ \/ writing /\ pending' = pending \o Written
     \/ ~writing /\ pending' = pending \o Refusal("bytes")
  /\ writing' = FALSE
  /\ Advance(1)
  /\ UNCHANGED <<driver, op, call, status, got, input, lost, late>>

Matches(line, pattern) ==
  line.kind = pattern.kind /\ pattern.of \in {line.of, "any"}
Matching == {i \in 1..Len(input) : Matches(input[i], Script[at])}

\* gpsOn, gpsOff, satLinkOn and satLinkOff take OK for the answer to the command.
NewStatus(answered) ==
  [gps     |-> CASE op = "gpsOn"  -> answered
                 [] op = "gpsOff" -> ~answered
                 [] OTHER -> status.gps,
   iridium |-> CASE op = "satLinkOn"  -> answered
                 [] op = "satLinkOff" -> ~answered
                 [] OTHER -> status.iridium]

Receive ==
  /\ at # 0 /\ Script[at].do = "recv" /\ Matching # {}
  /\ LET first == CHOOSE i \in Matching : \A j \in Matching : i <= j IN
     /\ input' = SubSeq(input, first + 1, Len(input))
     /\ got' = IF Script[at].kind \in {"value", "number"} THEN input[first].call ELSE got
  /\ status' = NewStatus(TRUE)
  /\ Advance(1)
  /\ UNCHANGED <<driver, op, call, pending, writing, lost, late>>

\* The time is over.  A result may come after it; the echo of a command and READY
\* come in time, when they come.  Without its position gpsUpdate does not wait for
\* the OK.
TimeOut ==
  /\ at # 0 /\ Script[at].do = "recv" /\ Matching = {}
  /\ \/ pending = <<>> /\ UNCHANGED late
     \/ /\ pending # <<>> /\ Script[at].kind \notin {"echo", "READY"}
        /\ late < MaxLate /\ late' = late + 1
  /\ input' = <<>>
  /\ status' = NewStatus(FALSE)
  /\ Advance(IF Script[at] = Value("AT+PLOC") THEN 2 ELSE 1)
  /\ UNCHANGED <<driver, op, call, got, pending, writing, lost>>

Init ==
  /\ driver \in {"NAL9602", "RockBlock9603"}
  /\ op = "none" /\ at = 0 /\ call = 0 /\ got = 0 /\ loaded = FALSE
  /\ status = [gps |-> FALSE, iridium |-> driver = "RockBlock9603"]
  /\ input = <<>> /\ pending = <<>> /\ writing = FALSE
  /\ lost = 0 /\ late = 0

Next ==
  \/ \E o \in DOMAIN Scripts(driver) : Call(o)
  \/ GiveUp
  \/ SendCommand \/ SendBytes \/ Receive \/ TimeOut
  \/ Arrive \/ Lose

Spec == Init /\ [][Next]_vars

----------------------------------------------------------------------------
\* A code, a position or a quality that a call reads was sent in answer to that
\* very call, and not left over from an earlier one: no report counts as written
\* or sent for what the modem said of another (setMessage, transmitMessage).
CodeIsOfThisCall == got # 0 => got = call

\* What no call has read yet does not pile up, although some calls never read
\* their OK and others take an OK that is not theirs: between two calls it is
\* of the last calls, one more of them than there were late lines.
UnreadIsRecent ==
  at = 0 => \A i \in 1..Len(input \o pending) : (input \o pending)[i].call + late >= call
=============================================================================
