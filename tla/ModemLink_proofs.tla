-------------------------- MODULE ModemLink_proofs --------------------------
(***************************************************************************)
(* Proof that a code is of the call that reads it, and that what is left   *)
(* unread is recent: for any number of calls, of lost lines and of late    *)
(* ones.                                                                   *)
(*                                                                         *)
(* The drivers do not see whose lines they read.  What keeps the calls     *)
(* apart are the marks, the echoes that are waited for and READY: there is *)
(* never more than one on the line, it is of the call under way, and that  *)
(* call waits for it.  Once it is read, or has not come, all that is       *)
(* unread is of this call; and no value or number is read before.          *)
(*                                                                         *)
(* Calls without a mark read an OK, of whatever call.  An OK is the last   *)
(* line of its call, so that reading it leaves nothing of that call, and   *)
(* what is unread gets older only by a line that comes too late.           *)
(***************************************************************************)
EXTENDS ModemLink, Integers, TLAPS, WellFoundedInduction

\* The commands whose echo is waited for.
Awaited == {"AT+PLOC", "AT+PVEL", "AT+PD", "AT+PT", "AT^GAO1", "AT+SBDI", "AT+CSQF",
            "AT+GSN", "AT+CSQ", "AT+SBDSX"}

\* All of them, and the message.
Commands == Awaited \cup {"AT+PP", "AT*S", "AT+PNAV", "AT&K0", "AT+SBDWB", "bytes"}

\* Step k waits for an echo or for READY.
AtMark(script, k) == script[k].do = "recv" /\ script[k].kind \in {"echo", "READY"}

\* What all the calls have in common: a command is followed by the wait for its
\* answer, one whose echo is waited for by that; the second step is such a wait
\* in every call of more than two; a value or number comes after it.
WellFormedStep(script, k) ==
  LET s == script[k]
      next == script[k + 1]
  IN
  /\ s.do \in {"send", "recv"}
  /\ k = 2 /\ k < Len(script) => AtMark(script, k)
  /\ s.do = "send" =>
       /\ s.kind \in Commands
       /\ k < Len(script) /\ next.do = "recv"
       /\ s.kind \in Awaited => next = Echo(s.kind)
       /\ s.kind = "AT+SBDWB" => next = READY
       /\ s.kind \notin Awaited \cup {"AT+SBDWB"} => ~AtMark(script, k + 1)
       /\ s.kind \notin Awaited \cup {"bytes"} => k = 1
       /\ s.kind = "bytes" => s = Send("bytes") /\ k = 3
  /\ AtMark(script, k) =>
       /\ k < Len(script)
       /\ s.kind = "echo" => s.of \in Awaited
       /\ s.kind = "READY" => s = READY
       /\ s # Value("AT+PLOC")
  /\ s.do = "recv" =>
       /\ s.kind \in {"echo", "READY", "value", "number", "OK"}
       /\ k < Len(script) => ~AtMark(script, k + 1)
       /\ k < Len(script) /\ next = Send("bytes") => s = READY
       /\ s.kind \in {"value", "number"} => k >= 3
  /\ s = Value("AT+PLOC") => k + 2 <= Len(script) /\ script[k + 2] = Send("AT+PVEL")

WellFormed(script) ==
  /\ Len(script) \in Nat \ {0, 1}
  /\ script[1].do = "send"
  /\ \A k \in 1..Len(script) : WellFormedStep(script, k)

\* Each of the drivers' calls is of this form.
LEMMA SwitchWF ==
  ASSUME NEW c \in {"AT+PP", "AT*S", "AT+PNAV", "AT&K0"}
  PROVE  WellFormed(Switch(c))
<1> DEFINE s == Switch(c)
<1>1. Len(s) = 2 /\ s[1] = Send(c) /\ s[2] = OK
  BY DEF Switch
<1> HIDE DEF s
<1>2. ASSUME NEW k \in 1..2 PROVE WellFormedStep(s, k)
  <2>1. CASE k = 1
    BY <1>1, <2>1 DEF WellFormedStep, AtMark, Send, OK, READY, Recv, Value, Echo, Commands, Awaited
  <2>2. CASE k = 2
    BY <1>1, <2>2 DEF WellFormedStep, AtMark, Send, OK, READY, Recv, Value, Echo, Commands, Awaited
  <2> QED BY <2>1, <2>2
<1>3. WellFormed(s)
  BY <1>1, <1>2 DEF WellFormed, Send
<1> QED BY <1>3 DEF s

LEMMA QualityWF ==
  ASSUME NEW c \in {"AT+CSQF", "AT+CSQ"}
  PROVE  WellFormed(Quality(c))
<1> DEFINE s == Quality(c)
<1>1. Len(s) = 3 /\ s[1] = Send(c) /\ s[2] = Echo(c) /\ s[3] = Value(c)
  BY DEF Quality
<1> HIDE DEF s
<1>2. ASSUME NEW k \in 1..3 PROVE WellFormedStep(s, k)
  <2>1. k = 1 \/ k = 2 \/ k = 3
    OBVIOUS
  <2> QED BY <1>1, <2>1 DEF WellFormedStep, AtMark, Send, OK, READY, Recv, Value, Echo, Commands, Awaited
<1>3. WellFormed(s)
  BY <1>1, <1>2 DEF WellFormed, Send
<1> QED BY <1>3 DEF s

LEMMA QueryWF ==
  ASSUME NEW c \in {"AT+SBDI", "AT+SBDSX"}
  PROVE  WellFormed(Query(c))
<1> DEFINE s == Query(c)
<1>1. Len(s) = 4 /\ s[1] = Send(c) /\ s[2] = Echo(c) /\ s[3] = Value(c) /\ s[4] = OK
  BY DEF Query
<1> HIDE DEF s
<1>2. ASSUME NEW k \in 1..4 PROVE WellFormedStep(s, k)
  <2>1. k = 1 \/ k = 2 \/ k = 3 \/ k = 4
    OBVIOUS
  <2> QED BY <1>1, <2>1 DEF WellFormedStep, AtMark, Send, OK, READY, Recv, Value, Echo, Commands, Awaited
<1>3. WellFormed(s)
  BY <1>1, <1>2 DEF WellFormed, Send
<1> QED BY <1>3 DEF s

LEMMA TwoQueriesWF ==
  ASSUME NEW c, NEW d, <<c, d>> \in {<<"AT+PLOC", "AT+PVEL">>, <<"AT+PD", "AT+PT">>}
  PROVE  WellFormed(Query(c) \o Query(d))
<1> DEFINE s == Query(c) \o Query(d)
<1>1. /\ Len(s) = 8 /\ s[1] = Send(c) /\ s[2] = Echo(c) /\ s[3] = Value(c) /\ s[4] = OK
      /\ s[5] = Send(d) /\ s[6] = Echo(d) /\ s[7] = Value(d) /\ s[8] = OK
  BY DEF Query
<1>2. c \in Awaited /\ d \in Awaited /\ (c = "AT+PLOC" => d = "AT+PVEL") /\ d # "AT+PLOC"
      /\ c # "bytes" /\ d # "bytes" /\ c # "AT+SBDWB" /\ d # "AT+SBDWB"
  BY DEF Awaited
<1> HIDE DEF s
<1>3. ASSUME NEW k \in 1..8 PROVE WellFormedStep(s, k)
  <2>1. CASE k = 1 \/ k = 2 \/ k = 3 \/ k = 4
    BY <1>1, <1>2, <2>1 DEF WellFormedStep, AtMark, Send, OK, READY, Recv, Value, Echo, Commands
  <2>2. CASE k = 5 \/ k = 6 \/ k = 7 \/ k = 8
    BY <1>1, <1>2, <2>2 DEF WellFormedStep, AtMark, Send, OK, READY, Recv, Value, Echo, Commands
  <2> QED BY <2>1, <2>2
<1>4. WellFormed(s)
  BY <1>1, <1>3 DEF WellFormed, Send
<1> QED BY <1>4 DEF s

LEMMA OthersWF == WellFormed(SetMessage) /\ WellFormed(GpsNoSleep) /\ WellFormed(GetIMEI)
<1>1. WellFormed(SetMessage)
  <2> DEFINE s == SetMessage
  <2>1. /\ Len(s) = 5 /\ s[1] = Send("AT+SBDWB") /\ s[2] = READY /\ s[3] = Send("bytes")
        /\ s[4] = Number /\ s[5] = OK
    BY DEF SetMessage
  <2> HIDE DEF s
  <2>2. ASSUME NEW k \in 1..5 PROVE WellFormedStep(s, k)
    <3>1. k = 1 \/ k = 2 \/ k = 3 \/ k = 4 \/ k = 5
      OBVIOUS
    <3> QED BY <2>1, <3>1
            DEF WellFormedStep, AtMark, Send, OK, READY, Number, Recv, Value, Echo, Commands, Awaited
  <2>3. WellFormed(s)
    BY <2>1, <2>2 DEF WellFormed, Send
  <2> QED BY <2>3 DEF s
<1>2. WellFormed(GpsNoSleep)
  <2> DEFINE s == GpsNoSleep
  <2>1. Len(s) = 3 /\ s[1] = Send("AT^GAO1") /\ s[2] = Echo("AT^GAO1") /\ s[3] = OK
    BY DEF GpsNoSleep
  <2> HIDE DEF s
  <2>2. ASSUME NEW k \in 1..3 PROVE WellFormedStep(s, k)
    <3>1. k = 1 \/ k = 2 \/ k = 3
      OBVIOUS
    <3> QED BY <2>1, <3>1
            DEF WellFormedStep, AtMark, Send, OK, READY, Number, Recv, Value, Echo, Commands, Awaited
  <2>3. WellFormed(s)
    BY <2>1, <2>2 DEF WellFormed, Send
  <2> QED BY <2>3 DEF s
<1>3. WellFormed(GetIMEI)
  <2> DEFINE s == GetIMEI
  <2>1. Len(s) = 4 /\ s[1] = Send("AT+GSN") /\ s[2] = Echo("AT+GSN") /\ s[3] = Number /\ s[4] = OK
    BY DEF GetIMEI
  <2> HIDE DEF s
  <2>2. ASSUME NEW k \in 1..4 PROVE WellFormedStep(s, k)
    <3>1. k = 1 \/ k = 2 \/ k = 3 \/ k = 4
      OBVIOUS
    <3> QED BY <2>1, <3>1
            DEF WellFormedStep, AtMark, Send, OK, READY, Number, Recv, Value, Echo, Commands, Awaited
  <2>3. WellFormed(s)
    BY <2>1, <2>2 DEF WellFormed, Send
  <2> QED BY <2>3 DEF s
<1> QED BY <1>1, <1>2, <1>3

LEMMA ScriptsWF ==
  ASSUME NEW d \in {"NAL9602", "RockBlock9603"}, NEW o \in DOMAIN Scripts(d)
  PROVE  WellFormed(Scripts(d)[o])
<1>1. CASE d = "NAL9602"
  <2>1. Scripts(d) = FlightScripts
    BY <1>1 DEF Scripts
  <2> HIDE DEF WellFormed
  <2>2. \/ Scripts(d)[o] \in {Switch("AT+PP"), Switch("AT*S"), Switch("AT+PNAV")}
        \/ Scripts(d)[o] \in {GpsNoSleep, SyncTime, GpsUpdate, SetMessage}
        \/ Scripts(d)[o] \in {Query("AT+SBDI"), Quality("AT+CSQF")}
    BY <2>1 DEF FlightScripts
  <2>3. WellFormed(Switch("AT+PP")) /\ WellFormed(Switch("AT*S")) /\ WellFormed(Switch("AT+PNAV"))
    BY SwitchWF
  <2>4. WellFormed(Query("AT+SBDI")) /\ WellFormed(Quality("AT+CSQF"))
    BY QueryWF, QualityWF
  <2>5. WellFormed(SyncTime) /\ WellFormed(GpsUpdate)
    BY TwoQueriesWF DEF SyncTime, GpsUpdate
  <2> QED BY <2>2, <2>3, <2>4, <2>5, OthersWF
<1>2. CASE d = "RockBlock9603"
  <2>1. Scripts(d) = TestScripts
    BY <1>2 DEF Scripts
  <2>2. Scripts(d)[o] \in {Switch("AT&K0"), GetIMEI, Quality("AT+CSQ"), Query("AT+SBDSX")}
    BY <2>1 DEF TestScripts
  <2> QED BY <2>2, SwitchWF, QueryWF, QualityWF, OthersWF
<1> QED BY <1>1, <1>2

----------------------------------------------------------------------------
\* What comes or has come, in the order of its sending.
Unread == input \o pending
Kinds  == {"echo", "value", "number", "OK", "READY", "ERROR"}
Lines  == [kind : Kinds, of : Commands, call : Nat]

IsMark(line) == line.kind = "READY" \/ (line.kind = "echo" /\ line.of \in Awaited)
AwaitsMark == at # 0 /\ AtMark(Script, at)

\* The types, and a step of the call's own script.
LinkTypes ==
  /\ driver \in {"NAL9602", "RockBlock9603"}
  /\ call \in Nat /\ late \in Nat /\ at \in Nat
  /\ at # 0 => op \in DOMAIN Scripts(driver) /\ at \in 1..Len(Script)
  /\ input \in Seq(Lines) /\ pending \in Seq(Lines)

\* The lines are in the order of the calls; there is one mark among them, nothing
\* is behind READY, and nothing of a call is behind its OK.  While a mark is waited
\* for, this is so only behind it.
Sorted(u)    == \A i, j \in 1..Len(u) : i < j => u[i].call <= u[j].call
OneMark(u)   == \A i, j \in 1..Len(u) : i < j => ~(IsMark(u[i]) /\ IsMark(u[j]))
ReadyLast(u) == \A i, j \in 1..Len(u) : i < j => u[i].kind # "READY"
OkLast(u)    == \A i, j \in 1..Len(u) : i < j /\ u[i].kind = "OK" => u[i].call < u[j].call
OkLastAfterMark(u) ==
  \A k, i, j \in 1..Len(u) :
     k < i /\ i < j /\ IsMark(u[k]) /\ u[i].kind = "OK" => u[i].call < u[j].call

\* How old a line can be, by the step that is next.
Age(line) ==
  /\ line.call <= call
  /\ at = 0 => line.call + late >= call
  /\ at = 1 => line.call < call
  /\ at \in {1, 2} => line.call + late + 1 >= call
  /\ at >= 3 => line.call = call

\* A mark is of this call, and this step waits for it.
LineOK(line) ==
  /\ Age(line)
  /\ IsMark(line) => AwaitsMark /\ line.call = call /\ Matches(line, Script[at])

\* The inductive invariant: the types, what every unread line is, and how they
\* follow each other; nothing is unread when the bytes of a message are sent.
LinkInvariant ==
  /\ LinkTypes
  /\ \A i \in 1..Len(Unread) : LineOK(Unread[i])
  /\ Sorted(Unread) /\ OneMark(Unread) /\ ReadyLast(Unread)
  /\ ~AwaitsMark => OkLast(Unread)
  /\ AwaitsMark => OkLastAfterMark(Unread)
  /\ at # 0 /\ Script[at] = Send("bytes") => Unread = <<>>

\* v is u without some of its lines.
Thinned(v, u) ==
  \E h : /\ \A i \in 1..Len(v) : h[i] \in 1..Len(u) /\ v[i] = u[h[i]]
         /\ \A i, j \in 1..Len(v) : i < j => h[i] < h[j]

\* What is said of pairs of lines holds when others are taken out.
LEMMA ThinnedKeeps ==
  ASSUME NEW u, NEW v, Thinned(v, u)
  PROVE  /\ \A i \in 1..Len(v) : \E k \in 1..Len(u) : v[i] = u[k]
         /\ Sorted(u) => Sorted(v)
         /\ OneMark(u) => OneMark(v)
         /\ ReadyLast(u) => ReadyLast(v)
         /\ OkLast(u) => OkLast(v)
         /\ OkLastAfterMark(u) => OkLastAfterMark(v)
<1>1. PICK h : /\ \A i \in 1..Len(v) : h[i] \in 1..Len(u) /\ v[i] = u[h[i]]
               /\ \A i, j \in 1..Len(v) : i < j => h[i] < h[j]
  BY DEF Thinned
<1>2. \A i \in 1..Len(v) : \E k \in 1..Len(u) : v[i] = u[k]
  BY <1>1
<1>3. Sorted(u) => Sorted(v)
  BY <1>1 DEF Sorted
<1>4. OneMark(u) => OneMark(v)
  BY <1>1 DEF OneMark
<1>5. ReadyLast(u) => ReadyLast(v)
  BY <1>1 DEF ReadyLast
<1>6. OkLast(u) => OkLast(v)
  BY <1>1 DEF OkLast
<1>7. ASSUME OkLastAfterMark(u), NEW k \in 1..Len(v), NEW i \in 1..Len(v), NEW j \in 1..Len(v),
             k < i, i < j, IsMark(v[k]), v[i].kind = "OK"
      PROVE  v[i].call < v[j].call
  <2>1. /\ h[k] \in 1..Len(u) /\ h[i] \in 1..Len(u) /\ h[j] \in 1..Len(u)
        /\ v[k] = u[h[k]] /\ v[i] = u[h[i]] /\ v[j] = u[h[j]]
        /\ h[k] < h[i] /\ h[i] < h[j]
    BY <1>1, <1>7
  <2> QED BY <1>7, <2>1 DEF OkLastAfterMark
<1>8. OkLastAfterMark(u) => OkLastAfterMark(v)
  BY <1>7 DEF OkLastAfterMark
<1> QED BY <1>2, <1>3, <1>4, <1>5, <1>6, <1>8

\* A line of the input, or of what is pending.
LEMMA UnreadIs ==
  ASSUME LinkTypes
  PROVE  /\ Unread \in Seq(Lines) /\ Len(Unread) = Len(input) + Len(pending)
         /\ Len(input) \in Nat /\ Len(pending) \in Nat
         /\ \A i \in 1..Len(input) : Unread[i] = input[i]
         /\ \A i \in 1..Len(pending) : Unread[Len(input) + i] = pending[i]
BY DEF LinkTypes, Unread

\* The call under way has such a script.
LEMMA ScriptIs == LinkTypes /\ at # 0 => WellFormed(Script) /\ at \in 1..Len(Script)
BY ScriptsWF DEF LinkTypes, Script

\* The lines that come or get lost.
LEMMA ArriveKeeps ==
  ASSUME LinkTypes, Arrive
  PROVE  Unread' = Unread /\ LinkTypes'
<1>1. /\ pending # <<>> /\ pending' = Tail(pending) /\ input' = Append(input, Head(pending))
      /\ UNCHANGED program /\ UNCHANGED late
  BY DEF Arrive
<1>2. input \in Seq(Lines) /\ pending \in Seq(Lines)
  BY DEF LinkTypes
<1>3. input' \in Seq(Lines) /\ pending' \in Seq(Lines)
  BY <1>1, <1>2
<1>4. Unread' = Unread
  BY <1>1, <1>2 DEF Unread
<1>5. LinkTypes'
  BY <1>1, <1>3 DEF LinkTypes, program, Script
<1> QED BY <1>4, <1>5

LEMMA LoseThins ==
  ASSUME LinkTypes, Lose
  PROVE  Thinned(Unread', Unread) /\ LinkTypes'
<1>1. /\ pending # <<>> /\ pending' = Tail(pending) /\ input' = input
      /\ UNCHANGED program /\ UNCHANGED late
  BY DEF Lose
<1>2. input \in Seq(Lines) /\ pending \in Seq(Lines)
  BY DEF LinkTypes
<1>3. pending' \in Seq(Lines)
  BY <1>1, <1>2
<1>4. LinkTypes'
  BY <1>1, <1>2, <1>3 DEF LinkTypes, program, Script
<1> DEFINE h == [i \in 1..Len(Unread') |-> IF i <= Len(input) THEN i ELSE i + 1]
<1>5. /\ Len(input) \in Nat /\ Len(pending) \in Nat /\ Len(pending') = Len(pending) - 1
      /\ \A i \in 1..Len(pending') : pending'[i] = pending[i + 1]
      /\ Len(Unread') = Len(input) + Len(pending')
      /\ \A i \in 1..Len(input) : Unread'[i] = input[i]
      /\ \A i \in 1..Len(pending') : Unread'[Len(input) + i] = pending'[i]
  BY <1>1, <1>2, <1>3 DEF Unread
<1>6. ASSUME NEW i \in 1..Len(Unread') PROVE h[i] \in 1..Len(Unread) /\ Unread'[i] = Unread[h[i]]
  <2>1. CASE i <= Len(input)
    BY <1>5, <2>1, UnreadIs
  <2>2. CASE i > Len(input)
    <3>1. /\ i - Len(input) \in 1..Len(pending') /\ Len(input) + (i - Len(input)) = i
          /\ (i - Len(input)) + 1 \in 1..Len(pending) /\ Len(input) + ((i - Len(input)) + 1) = i + 1
          /\ h[i] = i + 1 /\ i + 1 \in 1..Len(Unread)
      BY <1>5, <2>2, UnreadIs
    <3>2. Unread'[i] = pending[(i - Len(input)) + 1]
      BY <1>5, <3>1
    <3>3. Unread[i + 1] = pending[(i - Len(input)) + 1]
      BY <3>1, UnreadIs
    <3> QED BY <3>1, <3>2, <3>3
  <2> QED BY <1>5, <2>1, <2>2
<1>7. \A i, j \in 1..Len(Unread') : i < j => h[i] < h[j]
  BY <1>5
<1> HIDE DEF h
<1>8. Thinned(Unread', Unread)
  BY <1>6, <1>7 DEF Thinned
<1> QED BY <1>4, <1>8

\* A set of numbers has a least one.
LEMMA LeastNumber ==
  ASSUME NEW S \in SUBSET Nat, S # {}
  PROVE  \E m \in S : \A n \in S : m <= n
<1> DEFINE R == OpToRel(<, Nat)
<1>1. IsWellFoundedOn(R, Nat)
  BY NatLessThanWellFounded
<1>2. \A x, y \in Nat : y < x => <<y, x>> \in R
  BY DEF OpToRel
<1> HIDE DEF R
<1>3. PICK m \in S : \A n \in S : ~(<<n, m>> \in R)
  BY <1>1, WFMin
<1>4. \A n \in S : ~(n < m)
  BY <1>2, <1>3
<1> QED BY <1>3, <1>4

\* A line that is waited for: what of the unread ones is left behind it.
LEMMA ReceiveThins ==
  ASSUME LinkTypes, Receive
  PROVE  \E i \in 1..Len(Unread) :
           /\ Matches(Unread[i], Script[at])
           /\ input[i] = Unread[i] /\ i \in 1..Len(input)
           /\ got' = IF Script[at].kind \in {"value", "number"} THEN Unread[i].call ELSE got
           /\ Len(Unread') = Len(Unread) - i
           /\ \A j \in 1..Len(Unread') : Unread'[j] = Unread[i + j]
           /\ Thinned(Unread', Unread)
           /\ input' \in Seq(Lines) /\ pending' = pending
<1> DEFINE first == CHOOSE i \in Matching : \A j \in Matching : i <= j
<1>1. /\ Matching # {} /\ input' = SubSeq(input, first + 1, Len(input)) /\ pending' = pending
      /\ got' = IF Script[at].kind \in {"value", "number"} THEN input[first].call ELSE got
  BY DEF Receive
<1>2. input \in Seq(Lines) /\ pending \in Seq(Lines)
  BY DEF LinkTypes
<1>3. Matching \subseteq Nat
  BY <1>2 DEF Matching
<1>4. \E i \in Matching : \A j \in Matching : i <= j
  BY <1>1, <1>3, LeastNumber
<1>5. first \in Matching
  BY <1>4
<1> HIDE DEF first
<1>6. first \in 1..Len(input) /\ Matches(input[first], Script[at])
  BY <1>5 DEF Matching
<1>7. /\ input' \in Seq(Lines) /\ Len(input') = Len(input) - first
      /\ \A j \in 1..Len(input') : input'[j] = input[first + j]
      /\ Len(input) \in Nat /\ Len(pending) \in Nat /\ Len(input') \in Nat
  BY <1>1, <1>2, <1>6
<1>8. /\ Len(Unread') = Len(input') + Len(pending)
      /\ \A j \in 1..Len(input') : Unread'[j] = input'[j]
      /\ \A j \in 1..Len(pending) : Unread'[Len(input') + j] = pending[j]
  BY <1>1, <1>2, <1>7 DEF Unread
<1>9. ASSUME NEW j \in 1..Len(Unread') PROVE Unread'[j] = Unread[first + j]
  <2>1. CASE j <= Len(input')
    <3>1. j \in 1..Len(input') /\ first + j \in 1..Len(input)
      BY <1>6, <1>7, <1>8, <2>1
    <3>2. Unread'[j] = input[first + j]
      BY <1>7, <1>8, <3>1
    <3>3. Unread[first + j] = input[first + j]
      BY <3>1, UnreadIs
    <3> QED BY <3>2, <3>3
  <2>2. CASE j > Len(input')
    <3>1. /\ j - Len(input') \in 1..Len(pending) /\ Len(input') + (j - Len(input')) = j
          /\ Len(input) + (j - Len(input')) = first + j
      BY <1>6, <1>7, <1>8, <2>2
    <3>2. Unread'[j] = pending[j - Len(input')]
      BY <1>8, <3>1
    <3>3. Unread[first + j] = pending[j - Len(input')]
      BY <3>1, UnreadIs
    <3> QED BY <3>2, <3>3
  <2> QED BY <1>7, <1>8, <2>1, <2>2
<1>10. /\ first \in 1..Len(Unread) /\ Unread[first] = input[first]
       /\ Len(Unread') = Len(Unread) - first
  <2>1. Len(Unread) = Len(input) + Len(pending) /\ \A i \in 1..Len(input) : Unread[i] = input[i]
    BY UnreadIs
  <2>2. Unread[first] = input[first]
    BY <1>6, <2>1
  <2>3. Len(Unread') = Len(Unread) - first /\ first \in 1..Len(Unread)
    <3> HIDE DEF Unread
    <3> QED BY <1>6, <1>7, <1>8, <2>1
  <2> QED BY <2>2, <2>3
<1>11. Thinned(Unread', Unread)
  <2> DEFINE h == [j \in 1..Len(Unread') |-> first + j]
  <2>1. \A j \in 1..Len(Unread') : h[j] \in 1..Len(Unread) /\ Unread'[j] = Unread[h[j]]
    BY <1>6, <1>7, <1>8, <1>9, <1>10, UnreadIs
  <2>2. \A i, j \in 1..Len(Unread') : i < j => h[i] < h[j]
    BY <1>6, <1>7, <1>8
  <2> HIDE DEF h
  <2> QED BY <2>1, <2>2 DEF Thinned
<1> QED BY <1>1, <1>6, <1>7, <1>9, <1>10, <1>11

\* recv gives up: nothing of the input is left.
LEMMA TimeOutThins ==
  ASSUME LinkTypes, TimeOut
  PROVE  Thinned(Unread', Unread) /\ Unread' = pending /\ pending' = pending /\ input' = <<>>
<1>1. pending' = pending /\ input' = <<>> /\ pending \in Seq(Lines)
  BY DEF TimeOut, LinkTypes
<1>2. Unread' = pending
  BY <1>1 DEF Unread
<1> DEFINE h == [j \in 1..Len(pending) |-> Len(input) + j]
<1>3. \A j \in 1..Len(pending) : h[j] \in 1..Len(Unread) /\ pending[j] = Unread[h[j]]
  BY UnreadIs
<1>4. \A i, j \in 1..Len(pending) : i < j => h[i] < h[j]
  BY UnreadIs
<1> HIDE DEF h
<1> QED BY <1>1, <1>2, <1>3, <1>4 DEF Thinned

----------------------------------------------------------------------------
\* What a command adds: its echo first, and at most READY is a mark besides.
Added(new, c) ==
  /\ new \in Seq(Lines)
  /\ \A i \in 1..Len(new) : new[i].call = call
  /\ \A i, j \in 1..Len(new) : i < j => new[i].kind \notin {"OK", "READY"}
  /\ \A i \in 1..Len(new) :
       IsMark(new[i]) => \/ i = 1 /\ new[i].kind = "echo" /\ new[i].of = c /\ c \in Awaited
                         \/ i = Len(new) /\ new[i].kind = "READY" /\ c = "AT+SBDWB"

LEMMA AddedIs ==
  ASSUME call \in Nat, NEW c \in Commands, NEW new, new = Answer(c) \/ new = Refusal(c)
  PROVE  Added(new, c)
<1>1. CASE new = Refusal(c)
  <2>1. Len(new) = 2 /\ new[1] = Line("echo", c) /\ new[2] = Line("ERROR", c)
    BY <1>1 DEF Refusal
  <2>2. new \in Seq(Lines)
    <3>1. Line("echo", c) \in Lines /\ Line("ERROR", c) \in Lines
      BY DEF Line, Lines, Kinds
    <3> QED BY <1>1, <3>1 DEF Refusal
  <2>3. ASSUME NEW i \in 1..Len(new) PROVE i = 1 \/ i = 2
    BY <2>1
  <2>4. /\ new[1].kind = "echo" /\ new[1].of = c /\ new[1].call = call
        /\ new[2].kind = "ERROR" /\ new[2].of = c /\ new[2].call = call
    BY <2>1 DEF Line
  <2>5. \A i \in 1..Len(new) : new[i].call = call
    BY <2>3, <2>4
  <2>6. \A i, j \in 1..Len(new) : i < j => new[i].kind \notin {"OK", "READY"}
    BY <2>1, <2>3, <2>4
  <2>7. ASSUME NEW i \in 1..Len(new), IsMark(new[i])
        PROVE  \/ i = 1 /\ new[i].kind = "echo" /\ new[i].of = c /\ c \in Awaited
               \/ i = Len(new) /\ new[i].kind = "READY" /\ c = "AT+SBDWB"
    BY <2>1, <2>3, <2>4, <2>7 DEF IsMark
  <2> QED BY <2>2, <2>5, <2>6, <2>7 DEF Added
<1>2. CASE new = Answer(c) /\ HasValue(c)
  <2>1. /\ Len(new) = 3 /\ new[1] = Line("echo", c) /\ new[2] = Line(ValueKind(c), c)
        /\ new[3] = Line("OK", c) /\ new \in Seq(Lines)
    <3>1. Line("echo", c) \in Lines /\ Line("OK", c) \in Lines /\ Line(ValueKind(c), c) \in Lines
      BY DEF Line, Lines, Kinds, ValueKind
    <3>2. c # "AT+SBDWB"
      BY <1>2 DEF HasValue
    <3>3. new = <<Line("echo", c)>> \o <<Line(ValueKind(c), c)>> \o <<Line("OK", c)>>
      BY <1>2, <3>2 DEF Answer
    <3> QED BY <3>1, <3>3
  <2>2. c \in Awaited /\ ValueKind(c) \in {"number", "value"}
    BY <1>2 DEF HasValue, ValueKind, Awaited
  <2>3. ASSUME NEW i \in 1..Len(new) PROVE i = 1 \/ i = 2 \/ i = 3
    BY <2>1
  <2>4. /\ new[1].kind = "echo" /\ new[1].of = c /\ new[1].call = call
        /\ new[2].kind \in {"number", "value"} /\ new[2].call = call
        /\ new[3].kind = "OK" /\ new[3].call = call
    BY <2>1, <2>2 DEF Line
  <2>5. \A i \in 1..Len(new) : new[i].call = call
    BY <2>3, <2>4
  <2>6. \A i, j \in 1..Len(new) : i < j => new[i].kind \notin {"OK", "READY"}
    BY <2>1, <2>3, <2>4
  <2>7. ASSUME NEW i \in 1..Len(new), IsMark(new[i])
        PROVE  \/ i = 1 /\ new[i].kind = "echo" /\ new[i].of = c /\ c \in Awaited
               \/ i = Len(new) /\ new[i].kind = "READY" /\ c = "AT+SBDWB"
    BY <2>1, <2>2, <2>3, <2>4, <2>7 DEF IsMark
  <2> QED BY <2>1, <2>5, <2>6, <2>7 DEF Added
<1>3. CASE new = Answer(c) /\ ~HasValue(c)
  <2> DEFINE last == IF c = "AT+SBDWB" THEN Line("READY", c) ELSE Line("OK", c)
  <2>1. Len(new) = 2 /\ new[1] = Line("echo", c) /\ new[2] = last /\ new \in Seq(Lines)
    <3>1. Line("echo", c) \in Lines /\ last \in Lines
      BY DEF Line, Lines, Kinds
    <3>2. new = <<Line("echo", c)>> \o <<>> \o <<last>>
      BY <1>3 DEF Answer
    <3> HIDE DEF last
    <3> QED BY <3>1, <3>2
  <2>2. ASSUME NEW i \in 1..Len(new) PROVE i = 1 \/ i = 2
    BY <2>1
  <2>3. /\ new[1].kind = "echo" /\ new[1].of = c /\ new[1].call = call
        /\ new[2].kind \in {"OK", "READY"} /\ new[2].call = call
        /\ new[2].kind = "READY" => c = "AT+SBDWB"
    BY <2>1 DEF Line
  <2> HIDE DEF last
  <2>5. \A i \in 1..Len(new) : new[i].call = call
    BY <2>2, <2>3
  <2>6. \A i, j \in 1..Len(new) : i < j => new[i].kind \notin {"OK", "READY"}
    BY <2>1, <2>2, <2>3
  <2>7. ASSUME NEW i \in 1..Len(new), IsMark(new[i])
        PROVE  \/ i = 1 /\ new[i].kind = "echo" /\ new[i].of = c /\ c \in Awaited
               \/ i = Len(new) /\ new[i].kind = "READY" /\ c = "AT+SBDWB"
    BY <2>1, <2>2, <2>3, <2>7 DEF IsMark
  <2> QED BY <2>1, <2>5, <2>6, <2>7 DEF Added
<1> QED BY <1>1, <1>2, <1>3

\* What follows when a call goes on, or ends.
LEMMA AdvanceIs ==
  ASSUME LinkTypes, at # 0, NEW by \in Nat, Advance(by), UNCHANGED <<driver, op>>
  PROVE  /\ Script' = Script
         /\ \/ at' = at + by /\ at' \in 1..Len(Script)
            \/ at' = 0 /\ at + by > Len(Script)
BY ScriptIs DEF Advance, Script, WellFormed, LinkTypes

\* Lines added to others.
LEMMA AppendedIs ==
  ASSUME LinkTypes, NEW new \in Seq(Lines), pending' = pending \o new, input' = input
  PROVE  /\ Len(Unread') = Len(Unread) + Len(new) /\ pending' \in Seq(Lines)
         /\ \A i \in 1..Len(Unread') :
              \/ i \in 1..Len(Unread) /\ Unread'[i] = Unread[i]
              \/ i > Len(Unread) /\ i - Len(Unread) \in 1..Len(new)
                   /\ Unread'[i] = new[i - Len(Unread)]
<1>1. input \in Seq(Lines) /\ pending \in Seq(Lines) /\ pending' \in Seq(Lines)
  BY DEF LinkTypes
<1>2. Unread' = Unread \o new
  <2>1. Unread' = input \o (pending \o new)
    BY DEF Unread
  <2> QED BY <1>1, <2>1 DEF Unread
<1>3. Unread \in Seq(Lines)
  BY UnreadIs
<1> HIDE DEF Unread
<1> QED BY <1>1, <1>2, <1>3

\* A command is sent with no mark on the line; its own is the one waited for next.
LEMMA SendCommandKeeps ==
  ASSUME LinkInvariant, SendCommand
  PROVE  LinkInvariant'
<1> DEFINE c == Script[at].kind
<1>1. LinkTypes /\ at # 0 /\ Script[at].do = "send" /\ c # "bytes"
  BY DEF LinkInvariant, SendCommand
<1>2. WellFormed(Script) /\ at \in 1..Len(Script)
  BY <1>1, ScriptIs
<1>3. WellFormedStep(Script, at)
  BY <1>2 DEF WellFormed
<1>4. UNCHANGED <<driver, op, call, late, input>> /\ Advance(1)
  BY DEF SendCommand
<1>5. PICK new : pending' = pending \o new /\ (new = Answer(c) \/ new = Refusal(c))
  BY DEF SendCommand
<1>6. c \in Commands /\ at < Len(Script) /\ Script[at + 1].do = "recv" /\ at # 2
      /\ (c \notin Awaited => at = 1)
  BY <1>1, <1>3 DEF WellFormedStep, AtMark
<1>7. /\ at \in Nat /\ Len(Script) \in Nat /\ call \in Nat /\ late \in Nat
  BY <1>1, <1>2 DEF LinkTypes, WellFormed
<1>8. Script' = Script /\ at' = at + 1 /\ at' \in 1..Len(Script) /\ at' # 0
  BY <1>1, <1>4, <1>6, <1>7, AdvanceIs
<1>9. Added(new, c)
  BY <1>5, <1>6, <1>7, AddedIs
<1>10. /\ Len(Unread') = Len(Unread) + Len(new) /\ pending' \in Seq(Lines)
       /\ \A i \in 1..Len(Unread') :
            \/ i \in 1..Len(Unread) /\ Unread'[i] = Unread[i]
            \/ i > Len(Unread) /\ i - Len(Unread) \in 1..Len(new)
                 /\ Unread'[i] = new[i - Len(Unread)]
  BY <1>1, <1>4, <1>5, <1>9, AppendedIs DEF Added
<1>11. Len(Unread) \in Nat /\ Len(new) \in Nat
  BY <1>1, <1>9, UnreadIs DEF Added
<1>12. ~AwaitsMark
  BY <1>1 DEF AwaitsMark, AtMark
<1>13. \A i \in 1..Len(Unread) :
          ~IsMark(Unread[i]) /\ Age(Unread[i]) /\ Unread[i].call \in Nat /\ Unread[i].kind # "READY"
  <2>1. \A i \in 1..Len(Unread) : LineOK(Unread[i])
    BY DEF LinkInvariant
  <2>2. \A i \in 1..Len(Unread) : Unread[i] \in Lines
    BY <1>1, UnreadIs
  <2>3. \A i \in 1..Len(Unread) : Unread[i].call \in Nat
    BY <2>2 DEF Lines
  <2> QED BY <1>12, <2>1, <2>3 DEF LineOK, IsMark
<1> HIDE DEF c
<1>14. /\ c \in Awaited => Script[at + 1] = Echo(c)
       /\ c = "AT+SBDWB" => Script[at + 1] = READY
       /\ c \notin Awaited \cup {"AT+SBDWB"} => ~AtMark(Script, at + 1)
  BY <1>1, <1>3 DEF WellFormedStep, c
<1>15. /\ c \in Awaited => AwaitsMark' /\ Script'[at'] = Echo(c)
       /\ c = "AT+SBDWB" => AwaitsMark' /\ Script'[at'] = READY
       /\ c \notin Awaited \cup {"AT+SBDWB"} => ~AwaitsMark'
  BY <1>7, <1>8, <1>14 DEF AwaitsMark, AtMark, Echo, READY, Recv
<1>16. LinkTypes'
  BY <1>1, <1>4, <1>7, <1>8, <1>10 DEF LinkTypes
<1>17. ASSUME NEW i \in 1..Len(Unread') PROVE LineOK(Unread[i])'
  <2>1. CASE i \in 1..Len(Unread) /\ Unread'[i] = Unread[i]
    <3>1. Age(Unread[i])'
      <4>1. /\ Unread'[i].call = Unread[i].call /\ Unread[i].call \in Nat
            /\ call' = call /\ late' = late /\ Age(Unread[i])
        BY <1>4, <1>13, <2>1
      <4>2. CASE at = 1
        <5>1. at' = 2
          BY <1>8, <4>2
        <5> QED BY <1>7, <4>1, <4>2, <5>1 DEF Age
      <4>3. CASE at # 1
        <5>1. at >= 3 /\ at' >= 3 /\ at' # 0 /\ at' # 1 /\ at' # 2
          BY <1>2, <1>6, <1>7, <1>8, <4>3
        <5> QED BY <1>7, <4>1, <4>3, <5>1 DEF Age
      <4> QED BY <4>2, <4>3
    <3> QED BY <1>13, <2>1, <3>1 DEF LineOK
  <2>2. CASE i - Len(Unread) \in 1..Len(new) /\ Unread'[i] = new[i - Len(Unread)]
    <3> DEFINE k == i - Len(Unread)
    <3>1. k \in 1..Len(new) /\ Unread'[i] = new[k]
      BY <2>2
    <3> HIDE DEF k
    <3>2. new[k].call = call
      BY <1>9, <3>1 DEF Added
    <3>3. Age(Unread[i])'
      <4>1. Unread'[i].call = call /\ call' = call /\ late' = late /\ at' # 0 /\ at' # 1
        BY <1>2, <1>4, <1>7, <1>8, <3>1, <3>2
      <4> QED BY <1>7, <4>1 DEF Age
    <3>4. ASSUME IsMark(new[k]) PROVE AwaitsMark' /\ Matches(new[k], Script'[at'])
      BY <1>9, <1>15, <3>1, <3>4 DEF Added, Matches, Echo, READY, Recv
    <3> QED BY <1>4, <3>1, <3>2, <3>3, <3>4 DEF LineOK
  <2> QED BY <1>10, <2>1, <2>2
<1>18. ASSUME NEW i \in 1..Len(Unread'), NEW j \in 1..Len(Unread'), i < j
       PROVE  /\ Unread'[i].call <= Unread'[j].call
              /\ Unread'[i].kind # "READY"
              /\ ~(IsMark(Unread'[i]) /\ IsMark(Unread'[j]))
              /\ ~AwaitsMark' /\ Unread'[i].kind = "OK" => Unread'[i].call < Unread'[j].call
              /\ \A k \in 1..Len(Unread') :
                   k < i /\ IsMark(Unread'[k]) => Unread'[i].kind # "OK"
  <2>1. CASE i \in 1..Len(Unread) /\ Unread'[i] = Unread[i]
    <3>1. CASE j \in 1..Len(Unread) /\ Unread'[j] = Unread[j]
      <4>1. Unread[i].call <= Unread[j].call /\ (Unread[i].kind = "OK" => Unread[i].call < Unread[j].call)
        BY <1>12, <1>18, <2>1, <3>1 DEF LinkInvariant, Sorted, OkLast
      <4>2. \A k \in 1..Len(Unread') : k < i => ~IsMark(Unread'[k])
        BY <1>10, <1>11, <1>13, <2>1
      <4> QED BY <1>13, <2>1, <3>1, <4>1, <4>2
    <3>2. CASE j - Len(Unread) \in 1..Len(new) /\ Unread'[j] = new[j - Len(Unread)]
      <4>1. Unread'[j].call = call
        BY <1>9, <3>2 DEF Added
      <4>2. Unread[i].call <= call /\ (~AwaitsMark' => Unread[i].call < call)
        BY <1>6, <1>7, <1>13, <1>15, <2>1 DEF Age
      <4>3. \A k \in 1..Len(Unread') : k < i => ~IsMark(Unread'[k])
        BY <1>10, <1>11, <1>13, <2>1
      <4> QED BY <1>13, <2>1, <4>1, <4>2, <4>3
    <3> QED BY <1>10, <3>1, <3>2
  <2>2. CASE i > Len(Unread) /\ i - Len(Unread) \in 1..Len(new) /\ Unread'[i] = new[i - Len(Unread)]
    <3> DEFINE a == i - Len(Unread)
               b == j - Len(Unread)
    <3>1. a \in 1..Len(new) /\ b \in 1..Len(new) /\ a < b
          /\ Unread'[i] = new[a] /\ Unread'[j] = new[b]
      BY <1>10, <1>11, <1>18, <2>2
    <3> HIDE DEF a, b
    <3>2. new[a].call = call /\ new[b].call = call /\ new[a].kind \notin {"OK", "READY"}
      BY <1>9, <3>1 DEF Added
    <3>3. "AT+SBDWB" \notin Awaited
      BY DEF Awaited
    <3>4. ~(IsMark(new[a]) /\ IsMark(new[b]))
      BY <1>9, <1>11, <3>1, <3>3 DEF Added
    <3> QED BY <1>7, <3>1, <3>2, <3>4
  <2> QED BY <1>10, <2>1, <2>2
<1>19. Sorted(Unread') /\ OneMark(Unread') /\ ReadyLast(Unread')
  BY <1>18 DEF Sorted, OneMark, ReadyLast
<1>20. (~AwaitsMark' => OkLast(Unread')) /\ (AwaitsMark' => OkLastAfterMark(Unread'))
  BY <1>18 DEF OkLast, OkLastAfterMark
<1>21. Script'[at'] # Send("bytes")
  BY <1>6, <1>8 DEF Send
<1> QED BY <1>16, <1>17, <1>19, <1>20, <1>21 DEF LinkInvariant

\* The bytes of a message are sent to an empty line.
LEMMA SendBytesKeeps ==
  ASSUME LinkInvariant, SendBytes
  PROVE  LinkInvariant'
<1>1. LinkTypes /\ at # 0 /\ Script[at].do = "send" /\ Script[at].kind = "bytes"
  BY DEF LinkInvariant, SendBytes
<1>2. WellFormed(Script) /\ at \in 1..Len(Script)
  BY <1>1, ScriptIs
<1>3. WellFormedStep(Script, at)
  BY <1>2 DEF WellFormed
<1>4. UNCHANGED <<driver, op, call, late, input>> /\ Advance(1)
  BY DEF SendBytes
<1>5. PICK new : pending' = pending \o new /\ (new = Written \/ new = Refusal("bytes"))
  BY DEF SendBytes
<1>6. "bytes" \notin Awaited \cup {"AT+SBDWB"} /\ "bytes" \in Commands
  BY DEF Awaited, Commands
<1>7. /\ at < Len(Script) /\ at = 3 /\ Script[at] = Send("bytes")
      /\ Script[at + 1].do = "recv" /\ ~AtMark(Script, at + 1)
  BY <1>1, <1>3, <1>6 DEF WellFormedStep
<1>8. call \in Nat /\ late \in Nat /\ Len(Script) \in Nat
  BY <1>1, <1>2 DEF LinkTypes, WellFormed
<1>9. Script' = Script /\ at' = 4 /\ at' \in 1..Len(Script)
  BY <1>1, <1>4, <1>7, <1>8, AdvanceIs
<1>10. Added(new, "bytes")
  <2>1. CASE new = Refusal("bytes")
    BY <1>6, <1>8, <2>1, AddedIs
  <2>2. CASE new = Written
    <3>1. Len(new) = 2 /\ new[1] = Line("number", "bytes") /\ new[2] = Line("OK", "bytes")
      BY <2>2 DEF Written
    <3>2. new \in Seq(Lines)
      <4>1. Line("number", "bytes") \in Lines /\ Line("OK", "bytes") \in Lines
        BY <1>6, <1>8 DEF Line, Lines, Kinds
      <4> QED BY <2>2, <4>1 DEF Written
    <3>3. ASSUME NEW i \in 1..Len(new) PROVE i = 1 \/ i = 2
      BY <3>1
    <3>4. /\ new[1].kind = "number" /\ new[1].call = call
          /\ new[2].kind = "OK" /\ new[2].call = call
      BY <3>1 DEF Line
    <3>5. \A i \in 1..Len(new) : new[i].call = call /\ ~IsMark(new[i])
      BY <3>3, <3>4 DEF IsMark
    <3>6. \A i, j \in 1..Len(new) : i < j => new[i].kind \notin {"OK", "READY"}
      BY <3>1, <3>3, <3>4
    <3> QED BY <3>2, <3>5, <3>6 DEF Added
  <2> QED BY <1>5, <2>1, <2>2
<1>11. Unread = <<>>
  BY <1>1, <1>7 DEF LinkInvariant
<1>12. Len(Unread) = 0
  BY <1>11
<1>13. /\ Len(Unread') = Len(new) /\ pending' \in Seq(Lines)
       /\ \A i \in 1..Len(Unread') : i \in 1..Len(new) /\ Unread'[i] = new[i]
  <2>1. new \in Seq(Lines)
    BY <1>10 DEF Added
  <2>2. /\ Len(Unread') = Len(Unread) + Len(new) /\ pending' \in Seq(Lines)
        /\ \A i \in 1..Len(Unread') :
             \/ i \in 1..Len(Unread) /\ Unread'[i] = Unread[i]
             \/ i > Len(Unread) /\ i - Len(Unread) \in 1..Len(new)
                  /\ Unread'[i] = new[i - Len(Unread)]
    BY <1>1, <1>4, <1>5, <2>1, AppendedIs
  <2> HIDE DEF Unread
  <2> QED BY <1>12, <2>1, <2>2
<1>14. LinkTypes'
  BY <1>1, <1>4, <1>8, <1>9, <1>13 DEF LinkTypes
<1>15. \A i \in 1..Len(new) : new[i].call = call /\ ~IsMark(new[i])
  BY <1>6, <1>10 DEF Added
<1>16. \A i, j \in 1..Len(new) : i < j => new[i].kind \notin {"OK", "READY"}
  BY <1>10 DEF Added
<1>17. ~AwaitsMark' /\ Script'[at'] # Send("bytes")
  BY <1>7, <1>9 DEF AwaitsMark, Send
<1>18. ASSUME NEW i \in 1..Len(Unread') PROVE LineOK(Unread[i])'
  <2>1. Unread'[i].call = call /\ ~IsMark(Unread'[i])
    BY <1>13, <1>15
  <2> QED BY <1>4, <1>8, <1>9, <2>1 DEF LineOK, Age
<1>19. Sorted(Unread') /\ OneMark(Unread') /\ ReadyLast(Unread') /\ OkLast(Unread')
  BY <1>8, <1>13, <1>15, <1>16 DEF Sorted, OneMark, ReadyLast, OkLast
<1> QED BY <1>14, <1>17, <1>18, <1>19 DEF LinkInvariant

\* Where a call is after a line was waited for.
LEMMA AfterReceiving ==
  ASSUME LinkTypes, at # 0, Script[at].do = "recv", UNCHANGED <<driver, op>>,
         NEW by \in {1, 2}, Advance(by), by = 2 => Script[at] = Value("AT+PLOC")
  PROVE  /\ Script' = Script /\ at >= 2
         /\ at' \in Nat /\ (at' # 0 => at' \in 1..Len(Script) /\ at' >= 3)
         /\ ~AwaitsMark'
         /\ AwaitsMark => at' # 0
         /\ ~AwaitsMark => (at' # 0 => at >= 3 /\ Script'[at'] # Send("bytes"))
         /\ ~AwaitsMark /\ at = 2 => Script[at].kind = "OK"
         /\ AwaitsMark /\ at' # 0 /\ Script'[at'] = Send("bytes") => Script[at] = READY
<1>1. WellFormed(Script) /\ at \in 1..Len(Script) /\ Len(Script) \in Nat /\ at \in Nat
  BY ScriptIs DEF WellFormed
<1>2. WellFormedStep(Script, at)
  BY <1>1 DEF WellFormed
<1>3. Script' = Script /\ (\/ at' = at + by /\ at' \in 1..Len(Script)
                           \/ at' = 0 /\ at + by > Len(Script))
  BY AdvanceIs
<1>4. at # 1
  BY <1>1 DEF WellFormed
<1>5. at >= 2
  BY <1>1, <1>4
<1>6. AwaitsMark => at < Len(Script) /\ by = 1
  BY <1>2 DEF AwaitsMark, WellFormedStep
<1>7. by = 2 => at >= 3 /\ at + 2 <= Len(Script) /\ Script[at + 2] = Send("AT+PVEL")
  BY <1>2 DEF WellFormedStep, Value, Recv
<1>8. ~AwaitsMark /\ at = 2 => Script[at].kind = "OK" /\ ~(at < Len(Script))
  BY <1>2 DEF AwaitsMark, AtMark, WellFormedStep
<1>9. CASE by = 1
  <2>1. at < Len(Script) => ~AtMark(Script, at + 1) /\ (Script[at + 1] = Send("bytes") => Script[at] = READY)
    BY <1>2 DEF WellFormedStep
  <2>2. Script[at] = READY => AwaitsMark
    BY DEF AwaitsMark, AtMark, READY, Recv
  <2>3. at' # 0 => at' = at + 1 /\ at < Len(Script)
    BY <1>1, <1>3, <1>9
  <2>4. ~AwaitsMark'
    BY <1>3, <2>1, <2>3 DEF AwaitsMark
  <2>5. AwaitsMark => at' # 0
    BY <1>1, <1>3, <1>6
  <2>6. ~AwaitsMark => (at' # 0 => at >= 3 /\ Script'[at'] # Send("bytes"))
    BY <1>1, <1>3, <1>5, <1>8, <2>1, <2>2, <2>3
  <2>7. AwaitsMark /\ at' # 0 /\ Script'[at'] = Send("bytes") => Script[at] = READY
    BY <1>3, <2>1, <2>3
  <2>8. at' \in Nat /\ (at' # 0 => at' \in 1..Len(Script) /\ at' >= 3)
    BY <1>1, <1>3, <1>5, <2>3
  <2> QED BY <1>3, <1>5, <1>8, <2>4, <2>5, <2>6, <2>7, <2>8
<1>10. CASE by = 2
  <2>1. at' = at + 2 /\ at' \in 1..Len(Script) /\ at >= 3 /\ Script'[at'] = Send("AT+PVEL")
    BY <1>1, <1>3, <1>7, <1>10
  <2>2. ~AwaitsMark' /\ Script'[at'] # Send("bytes")
    BY <2>1 DEF AwaitsMark, AtMark, Send
  <2>3. ~AwaitsMark
    BY <1>6, <1>10
  <2> QED BY <1>1, <1>3, <1>5, <1>8, <2>1, <2>2, <2>3
<1> QED BY <1>9, <1>10

\* Behind a mark all is of this call; behind an OK nothing is of the OK's call.
LEMMA ReceiveKeeps ==
  ASSUME LinkInvariant, Receive
  PROVE  LinkInvariant' /\ call' = call /\ (got' # got => got' = call)
<1>1. LinkTypes /\ at # 0 /\ Script[at].do = "recv" /\ Advance(1) /\ UNCHANGED <<driver, op, call, late>>
  BY DEF LinkInvariant, Receive
<1>2. /\ Script' = Script /\ at >= 2
      /\ at' \in Nat /\ (at' # 0 => at' \in 1..Len(Script) /\ at' >= 3)
      /\ ~AwaitsMark'
      /\ AwaitsMark => at' # 0
      /\ ~AwaitsMark => (at' # 0 => at >= 3 /\ Script'[at'] # Send("bytes"))
      /\ ~AwaitsMark /\ at = 2 => Script[at].kind = "OK"
      /\ AwaitsMark /\ at' # 0 /\ Script'[at'] = Send("bytes") => Script[at] = READY
  BY <1>1, AfterReceiving
<1>3. PICK i \in 1..Len(Unread) :
           /\ Matches(Unread[i], Script[at])
           /\ input[i] = Unread[i] /\ i \in 1..Len(input)
           /\ got' = IF Script[at].kind \in {"value", "number"} THEN Unread[i].call ELSE got
           /\ Len(Unread') = Len(Unread) - i
           /\ \A j \in 1..Len(Unread') : Unread'[j] = Unread[i + j]
           /\ Thinned(Unread', Unread)
           /\ input' \in Seq(Lines) /\ pending' = pending
  BY <1>1, ReceiveThins
<1>4. /\ call \in Nat /\ late \in Nat /\ at \in Nat /\ Len(Unread) \in Nat
      /\ \A j \in 1..Len(Unread) : Unread[j].call \in Nat
  <2>1. \A j \in 1..Len(Unread) : Unread[j] \in Lines
    BY <1>1, UnreadIs
  <2>2. Len(Unread) \in Nat
    BY <1>1, UnreadIs
  <2> HIDE DEF Unread
  <2> QED BY <1>1, <2>1, <2>2 DEF LinkTypes, Lines
<1>5. LinkTypes'
  BY <1>1, <1>2, <1>3 DEF LinkTypes
<1>6. /\ Sorted(Unread') /\ OneMark(Unread') /\ ReadyLast(Unread')
      /\ \A j \in 1..Len(Unread') : i + j \in 1..Len(Unread) /\ i < i + j /\ Unread'[j] = Unread[i + j]
  BY <1>3, <1>4, ThinnedKeeps DEF LinkInvariant
<1>7. \A j \in 1..Len(Unread) : LineOK(Unread[j]) /\ Age(Unread[j])
  BY DEF LinkInvariant, LineOK
<1>8. /\ \A j \in 1..Len(Unread) : i < j => Unread[i].call <= Unread[j].call
      /\ \A j \in 1..Len(Unread) : i < j => Unread[i].kind # "READY"
      /\ \A j \in 1..Len(Unread) : i < j => ~(IsMark(Unread[i]) /\ IsMark(Unread[j]))
  BY DEF LinkInvariant, Sorted, ReadyLast, OneMark
<1>9. ASSUME Script[at].kind \in {"value", "number"} PROVE Unread[i].call = call
  <2>1. at >= 3
    <3>1. WellFormedStep(Script, at)
      BY <1>1, ScriptIs DEF WellFormed
    <3> QED BY <1>1, <1>9, <3>1 DEF WellFormedStep
  <2> QED BY <1>7, <2>1 DEF Age
<1>10. call' = call /\ (got' # got => got' = call)
  BY <1>1, <1>3, <1>9
<1>11. CASE AwaitsMark
  <2>1. IsMark(Unread[i])
    <3>1. WellFormedStep(Script, at)
      BY <1>1, ScriptIs DEF WellFormed
    <3>2. AtMark(Script, at)
      BY <1>11 DEF AwaitsMark
    <3>3. Script[at].kind = "echo" => Script[at].of \in Awaited
      BY <3>1, <3>2 DEF WellFormedStep
    <3>4. "any" \notin Awaited
      BY DEF Awaited
    <3> QED BY <1>3, <3>2, <3>3, <3>4 DEF AtMark, Matches, IsMark
  <2>2. Unread[i].call = call
    BY <1>7, <2>1 DEF LineOK
  <2>3. \A j \in 1..Len(Unread) : i < j => Unread[j].call = call /\ ~IsMark(Unread[j])
    BY <1>4, <1>7, <1>8, <2>1, <2>2 DEF Age
  <2>4. at' >= 3
    BY <1>2, <1>11
  <2>5. ASSUME NEW j \in 1..Len(Unread') PROVE LineOK(Unread[j])'
    <3>1. Unread'[j].call = call /\ ~IsMark(Unread'[j])
      BY <1>6, <2>3
    <3> QED BY <1>1, <1>2, <1>4, <2>4, <3>1 DEF LineOK, Age
  <2>6. OkLast(Unread')
    <3> SUFFICES ASSUME NEW j \in 1..Len(Unread'), NEW k \in 1..Len(Unread'), j < k, Unread'[j].kind = "OK"
                 PROVE  Unread'[j].call < Unread'[k].call
      BY DEF OkLast
    <3>1. OkLastAfterMark(Unread)
      BY <1>11 DEF LinkInvariant
    <3>2. /\ i + j \in 1..Len(Unread) /\ i + k \in 1..Len(Unread) /\ i < i + j /\ i + j < i + k
          /\ Unread'[j] = Unread[i + j] /\ Unread'[k] = Unread[i + k]
      BY <1>4, <1>6
    <3> QED BY <2>1, <3>1, <3>2 DEF OkLastAfterMark
  <2>7. ASSUME Script'[at'] = Send("bytes") PROVE Unread' = <<>>
    <3>1. Script[at] = READY
      BY <1>2, <1>11, <2>7
    <3>2. Unread[i].kind = "READY"
      BY <1>3, <3>1 DEF Matches, READY, Recv
    <3>3. \A j \in 1..Len(Unread) : ~(i < j)
      BY <1>8, <3>2
    <3>4. Len(Unread) = i
      BY <1>4, <3>3
    <3>5. Len(Unread') = 0
      BY <1>3, <1>4, <3>4
    <3>6. Unread' \in Seq(Lines)
      BY <1>5, UnreadIs DEF LinkTypes, Unread
    <3> QED BY <3>5, <3>6
  <2> QED BY <1>2, <1>5, <1>6, <1>10, <2>5, <2>6, <2>7 DEF LinkInvariant
<1>12. CASE ~AwaitsMark
  <2>1. OkLast(Unread)
    BY <1>12 DEF LinkInvariant
  <2>2. OkLast(Unread')
    BY <1>3, <2>1, ThinnedKeeps
  <2>3. ASSUME NEW j \in 1..Len(Unread') PROVE LineOK(Unread[j])'
    <3>1. Unread'[j] = Unread[i + j] /\ i + j \in 1..Len(Unread) /\ i < i + j
      BY <1>6
    <3>2. Age(Unread[i + j]) /\ ~IsMark(Unread[i + j]) /\ Unread[i + j].call \in Nat
      BY <1>4, <1>7, <1>12, <3>1 DEF LineOK
    <3>3. CASE at >= 3
      <4>1. Unread'[j].call = call
        BY <3>1, <3>2, <3>3 DEF Age
      <4>2. Age(Unread[j])'
        BY <1>1, <1>2, <1>4, <4>1 DEF Age
      <4> QED BY <3>1, <3>2, <4>2 DEF LineOK
    <3>4. CASE at = 2
      <4>1. Unread[i].kind = "OK" /\ at' = 0
        BY <1>2, <1>3, <1>12, <3>4 DEF Matches
      <4>2. Unread[i].call < Unread[i + j].call
        BY <2>1, <3>1, <4>1 DEF OkLast
      <4>3. Unread[i].call + late + 1 >= call
        BY <1>7, <3>4 DEF Age
      <4>4. Unread[i + j].call <= call
        BY <3>2 DEF Age
      <4>5. Unread'[j].call <= call /\ Unread'[j].call + late >= call
        BY <1>4, <3>1, <3>2, <4>2, <4>3, <4>4
      <4>6. Age(Unread[j])'
        BY <1>1, <4>1, <4>5 DEF Age
      <4> QED BY <3>1, <3>2, <4>6 DEF LineOK
    <3> QED BY <1>2, <1>4, <3>3, <3>4
  <2> QED BY <1>2, <1>5, <1>6, <1>10, <1>12, <2>2, <2>3 DEF LinkInvariant
<1> QED BY <1>11, <1>12

\* Without its mark a call goes on with an empty line; any other wait given up
\* leaves lines only when one of them is late.
LEMMA TimeOutKeeps ==
  ASSUME LinkInvariant, TimeOut
  PROVE  LinkInvariant' /\ call' = call /\ got' = got
<1> DEFINE by == IF Script[at] = Value("AT+PLOC") THEN 2 ELSE 1
<1>1. /\ LinkTypes /\ at # 0 /\ Script[at].do = "recv" /\ Advance(by)
      /\ UNCHANGED <<driver, op, call, got>>
      /\ \/ pending = <<>> /\ late' = late
         \/ Script[at].kind \notin {"echo", "READY"} /\ late' = late + 1
  BY DEF LinkInvariant, TimeOut
<1>2. by \in {1, 2} /\ (by = 2 => Script[at] = Value("AT+PLOC"))
  OBVIOUS
<1> HIDE DEF by
<1>3. /\ Script' = Script /\ at >= 2
      /\ at' \in Nat /\ (at' # 0 => at' \in 1..Len(Script) /\ at' >= 3)
      /\ ~AwaitsMark'
      /\ ~AwaitsMark => (at' # 0 => at >= 3 /\ Script'[at'] # Send("bytes"))
  BY <1>1, <1>2, AfterReceiving
<1>4. Thinned(Unread', Unread) /\ Unread' = pending /\ pending' = pending /\ input' = <<>>
  BY <1>1, TimeOutThins
<1>5. /\ call \in Nat /\ late \in Nat /\ at \in Nat /\ pending \in Seq(Lines)
      /\ \A j \in 1..Len(Unread) : Unread[j].call \in Nat
  <2>1. \A j \in 1..Len(Unread) : Unread[j] \in Lines
    BY <1>1, UnreadIs
  <2>2. Len(Unread) \in Nat
    BY <1>1, UnreadIs
  <2> HIDE DEF Unread
  <2> QED BY <1>1, <2>1, <2>2 DEF LinkTypes, Lines
<1>6. LinkTypes'
  <2>1. input' \in Seq(Lines) /\ late' \in Nat
    BY <1>1, <1>4, <1>5
  <2> QED BY <1>1, <1>3, <1>4, <2>1 DEF LinkTypes
<1>7. CASE pending = <<>>
  <2>1. Len(Unread') = 0 /\ Unread' = <<>>
    BY <1>4, <1>7
  <2> QED BY <1>1, <1>3, <1>6, <2>1 DEF LinkInvariant, Sorted, OneMark, ReadyLast, OkLast
<1>8. CASE pending # <<>>
  <2>1. ~AwaitsMark /\ late' = late + 1
    BY <1>1, <1>8 DEF AwaitsMark, AtMark
  <2>2. Sorted(Unread') /\ OneMark(Unread') /\ ReadyLast(Unread') /\ OkLast(Unread')
    BY <1>4, <2>1, ThinnedKeeps DEF LinkInvariant
  <2>3. ASSUME NEW j \in 1..Len(Unread') PROVE LineOK(Unread[j])'
    <3>1. PICK k \in 1..Len(Unread) : Unread'[j] = Unread[k]
      BY <1>4, ThinnedKeeps
    <3>2. Age(Unread[k]) /\ ~IsMark(Unread[k]) /\ Unread[k].call \in Nat
      BY <1>5, <2>1 DEF LinkInvariant, LineOK
    <3>3. /\ Unread[k].call <= call /\ (at >= 3 => Unread[k].call = call)
          /\ Unread[k].call + late + 1 >= call
      BY <1>3, <1>5, <3>2 DEF Age
    <3>4. /\ Unread'[j].call <= call /\ Unread'[j].call + late' >= call
          /\ at' # 0 => at' >= 3 /\ Unread'[j].call = call
      BY <1>3, <1>5, <2>1, <3>1, <3>2, <3>3
    <3>5. Age(Unread[j])'
      BY <1>1, <1>3, <3>4 DEF Age
    <3> QED BY <3>1, <3>2, <3>5 DEF LineOK
  <2> QED BY <1>1, <1>3, <1>6, <2>1, <2>2, <2>3 DEF LinkInvariant
<1> QED BY <1>7, <1>8

\* A new call finds no mark, and lines that are older by one call.
LEMMA CallKeeps ==
  ASSUME LinkInvariant, NEW o \in DOMAIN Scripts(driver), Call(o)
  PROVE  LinkInvariant'
<1>1. /\ LinkTypes /\ at = 0 /\ op' = o /\ at' = 1 /\ call' = call + 1
      /\ UNCHANGED <<driver, input, pending, late>>
  BY DEF LinkInvariant, Call
<1>2. Unread' = Unread
  BY <1>1 DEF Unread
<1>3. WellFormed(Script')
  BY <1>1, ScriptsWF DEF LinkTypes, Script
<1>4. Len(Script') \in Nat \ {0, 1} /\ Script'[1].do = "send" /\ WellFormedStep(Script', 1)
  BY <1>3 DEF WellFormed
<1>5. ~AwaitsMark' /\ Script'[at'] # Send("bytes")
  BY <1>1, <1>4 DEF AwaitsMark, AtMark, WellFormedStep, Send
<1>6. LinkTypes'
  BY <1>1, <1>4 DEF LinkTypes
<1>7. ~AwaitsMark /\ call \in Nat /\ late \in Nat
  BY <1>1 DEF AwaitsMark, LinkTypes
<1>8. ASSUME NEW i \in 1..Len(Unread') PROVE LineOK(Unread[i])'
  <2>1. LineOK(Unread[i]) /\ Unread[i].call \in Nat
    <3>1. Unread[i] \in Lines
      BY <1>1, <1>2, UnreadIs
    <3> QED BY <1>2, <3>1 DEF LinkInvariant, Lines
  <2>2. ~IsMark(Unread[i]) /\ Unread[i].call <= call /\ Unread[i].call + late >= call
    BY <1>1, <1>7, <2>1 DEF LineOK, Age
  <2> QED BY <1>1, <1>2, <1>7, <2>1, <2>2 DEF LineOK, Age
<1>9. Sorted(Unread') /\ OneMark(Unread') /\ ReadyLast(Unread') /\ OkLast(Unread')
  BY <1>2, <1>7 DEF LinkInvariant
<1> QED BY <1>5, <1>6, <1>8, <1>9 DEF LinkInvariant

\* A lost line leaves the others as they were.
LEMMA LoseKeeps ==
  ASSUME LinkInvariant, Lose
  PROVE  LinkInvariant'
<1>1. LinkTypes' /\ Thinned(Unread', Unread) /\ UNCHANGED <<driver, op, at, call, late>>
  BY LoseThins DEF LinkInvariant, Lose, program
<1>2. Script' = Script /\ AwaitsMark' = AwaitsMark
  BY <1>1 DEF Script, AwaitsMark
<1>3. /\ Sorted(Unread') /\ OneMark(Unread') /\ ReadyLast(Unread')
      /\ ~AwaitsMark => OkLast(Unread')
      /\ AwaitsMark => OkLastAfterMark(Unread')
  BY <1>1, ThinnedKeeps DEF LinkInvariant
<1>4. ASSUME NEW i \in 1..Len(Unread') PROVE LineOK(Unread[i])'
  <2>1. PICK k \in 1..Len(Unread) : Unread'[i] = Unread[k]
    BY <1>1, ThinnedKeeps
  <2>2. LineOK(Unread[k])
    BY DEF LinkInvariant
  <2> QED BY <1>1, <1>2, <2>1, <2>2 DEF LineOK, Age
<1>5. ASSUME at' # 0, Script'[at'] = Send("bytes") PROVE Unread' = <<>>
  <2>1. Unread = <<>>
    BY <1>1, <1>2, <1>5 DEF LinkInvariant
  <2>2. Len(Unread) = 0
    BY <2>1
  <2>3. Len(Unread') = 0
    <3>1. \A i \in 1..Len(Unread') : \E k \in 1..Len(Unread) : TRUE
      BY <1>1, ThinnedKeeps
    <3>2. Unread' \in Seq(Lines)
      BY <1>1 DEF LinkTypes, Unread
    <3> HIDE DEF Unread
    <3> QED BY <2>2, <3>1, <3>2
  <2>4. Unread' \in Seq(Lines)
    BY <1>1 DEF LinkTypes, Unread
  <2> QED BY <2>3, <2>4
<1> QED BY <1>1, <1>2, <1>3, <1>4, <1>5 DEF LinkInvariant

\* Nothing changes for lines that stay unread.
LEMMA SameKeeps ==
  ASSUME LinkInvariant, Unread' = Unread, LinkTypes', UNCHANGED <<driver, op, at, call, late>>
  PROVE  LinkInvariant'
<1>1. Script' = Script /\ AwaitsMark' = AwaitsMark
  BY DEF Script, AwaitsMark
<1>2. ASSUME NEW i \in 1..Len(Unread') PROVE LineOK(Unread[i])'
  <2>1. LineOK(Unread[i])
    BY DEF LinkInvariant
  <2> QED BY <1>1, <2>1 DEF LineOK, Age
<1> QED BY <1>1, <1>2 DEF LinkInvariant

\* LinkInvariant is inductive, and with it so is the property.
LEMMA InitLink == Init => LinkInvariant /\ got = 0
<1> SUFFICES ASSUME Init PROVE LinkInvariant /\ got = 0
  OBVIOUS
<1>1. /\ driver \in {"NAL9602", "RockBlock9603"} /\ at = 0 /\ call = 0 /\ late = 0 /\ got = 0
      /\ input = <<>> /\ pending = <<>>
  BY DEF Init
<1>2. Unread = <<>> /\ Len(Unread) = 0
  BY <1>1 DEF Unread
<1>3. LinkTypes
  BY <1>1 DEF LinkTypes
<1> QED BY <1>1, <1>2, <1>3 DEF LinkInvariant, Sorted, OneMark, ReadyLast, OkLast, OkLastAfterMark, AwaitsMark

LEMMA StepLink == LinkInvariant /\ CodeIsOfThisCall /\ [Next]_vars => LinkInvariant' /\ CodeIsOfThisCall'
<1> SUFFICES ASSUME LinkInvariant, CodeIsOfThisCall, [Next]_vars
             PROVE  LinkInvariant' /\ CodeIsOfThisCall'
  OBVIOUS
<1>1. ASSUME call' = call, got' = got \/ got' = call PROVE CodeIsOfThisCall'
  BY <1>1 DEF CodeIsOfThisCall
<1>2. ASSUME NEW o \in DOMAIN Scripts(driver), Call(o) PROVE LinkInvariant' /\ CodeIsOfThisCall'
  <2>1. got' = 0
    BY <1>2 DEF Call
  <2> QED BY <1>2, <2>1, CallKeeps DEF CodeIsOfThisCall
<1>3. CASE GiveUp
  <2>1. UNCHANGED <<driver, op, at, call, late, got, input, pending>>
    BY <1>3 DEF GiveUp
  <2>2. Unread' = Unread /\ LinkTypes'
    BY <2>1 DEF Unread, LinkInvariant, LinkTypes, Script
  <2> QED BY <1>1, <2>1, <2>2, SameKeeps
<1>4. CASE SendCommand
  BY <1>1, <1>4, SendCommandKeeps DEF SendCommand
<1>5. CASE SendBytes
  BY <1>1, <1>5, SendBytesKeeps DEF SendBytes
<1>6. CASE Receive
  BY <1>1, <1>6, ReceiveKeeps
<1>7. CASE TimeOut
  BY <1>1, <1>7, TimeOutKeeps
<1>8. CASE Arrive
  <2>1. Unread' = Unread /\ LinkTypes'
    BY <1>8, ArriveKeeps DEF LinkInvariant
  <2>2. UNCHANGED <<driver, op, at, call, late, got>>
    BY <1>8 DEF Arrive, program
  <2> QED BY <1>1, <2>1, <2>2, SameKeeps
<1>9. CASE Lose
  <2>1. UNCHANGED <<call, got>>
    BY <1>9 DEF Lose, program
  <2> QED BY <1>1, <1>9, <2>1, LoseKeeps
<1>10. CASE UNCHANGED vars
  <2>1. UNCHANGED <<driver, op, at, call, late, got, input, pending>>
    BY <1>10 DEF vars, program
  <2>2. Unread' = Unread /\ LinkTypes'
    BY <2>1 DEF Unread, LinkInvariant, LinkTypes, Script
  <2> QED BY <1>1, <2>1, <2>2, SameKeeps
<1> QED BY <1>2, <1>3, <1>4, <1>5, <1>6, <1>7, <1>8, <1>9, <1>10 DEF Next

\* Between two calls the age of the lines is what the property says.
LEMMA RecentByAge == LinkInvariant => UnreadIsRecent
<1> SUFFICES ASSUME LinkInvariant, at = 0, NEW i \in 1..Len(Unread)
             PROVE  Unread[i].call + late >= call
  BY DEF UnreadIsRecent, Unread
<1> QED BY DEF LinkInvariant, LineOK, Age

\* A code, position or quality that a call reads was sent in answer to that very
\* call, however many lines get lost or come late.
THEOREM CodesAreOfTheirCalls == Spec => []CodeIsOfThisCall
<1>1. Init => LinkInvariant /\ CodeIsOfThisCall
  BY InitLink DEF CodeIsOfThisCall
<1> QED BY <1>1, StepLink, PTL DEF Spec

\* Between two calls what is unread is of the last calls, one more of them than
\* there were late lines, however many calls there are.
THEOREM LittleIsUnread == Spec => []UnreadIsRecent
<1>1. Init => LinkInvariant /\ CodeIsOfThisCall
  BY InitLink DEF CodeIsOfThisCall
<1> QED BY <1>1, StepLink, RecentByAge, PTL DEF Spec
=============================================================================
