------------------------- MODULE SbdMessage_proofs -------------------------
(***************************************************************************)
(* Proofs about the message of a report.                                   *)
(*                                                                         *)
(* Position.  What setMessage copies is right only because of what         *)
(* gpsUpdate leaves behind: with a fix, every part is of the update that   *)
(* the time is of, or is not valid.  That is FixIsOne, and together with   *)
(* the property it is inductive.                                           *)
(*                                                                         *)
(* Pods.  The places of the pods in the array are sums of their lengths,   *)
(* and the receiver finds them again by adding up what it reads.  That     *)
(* both sums are the same, that the places of two pods and the buffers of  *)
(* two pods do not meet, and that no place reaches beyond msgLength, is    *)
(* shown by induction over the pods.  The rest is the invariant            *)
(* PodsInvariant: the buffers hold what was taken, as far as nothing has   *)
(* run into them, and so does the message once the modem has it.           *)
(***************************************************************************)
EXTENDS SbdMessage, TLAPS, WellFoundedInduction

\* With a fix, each part of the position is of the update of the time, or none.
FixIsOne ==
  coord.positionFix =>
    /\ coord.lat \in {0, coord.syncTime}
    /\ coord.lon \in {0, coord.syncTime}
    /\ coord.alt \in {0, coord.syncTime}

PositionInvariant == FixIsOne /\ PositionOfOneFix

\* An answer with enough satellites has all its lines, so that nothing of the
\* position before is kept (NAL9602::gpsUpdate).
LEMMA UpdateIsOne ==
  ASSUME NEW a \in Answers, GpsUpdate(a)
  PROVE  FixIsOne'
<1> SUFFICES ASSUME coord'.positionFix
             PROVE  /\ coord'.lat \in {0, coord'.syncTime}
                    /\ coord'.lon \in {0, coord'.syncTime}
                    /\ coord'.alt \in {0, coord'.syncTime}
  BY DEF FixIsOne
<1>1. GoodPosition(a) /\ a.sats = "enough"
  BY DEF GpsUpdate, NewFix, GoodPosition
<1>2. coord'.syncTime = updates'
  BY <1>1 DEF GpsUpdate
<1>3. a.alt # Missing /\ a.lon # Missing /\ a.lat # Missing
  BY <1>1 DEF Answers, Missing
<1>4. a.lat \in Comes /\ a.lon \in Comes /\ a.alt \in Comes
  BY <1>3 DEF Answers
<1>5. ASSUME NEW line \in Comes, NEW old
      PROVE  Kept(line, updates', old) \in {0, updates'}
  BY <1>5 DEF Kept, Comes
<1>6. /\ coord'.lat = Kept(a.lat, updates', coord.lat)
      /\ coord'.lon = Kept(a.lon, updates', coord.lon)
      /\ coord'.alt = Kept(a.alt, updates', coord.alt)
  BY DEF GpsUpdate
<1> QED BY <1>2, <1>4, <1>5, <1>6

\* What generateGPSBytes makes of such coordinates is a position of one update
\* with the bit of the fix, or none.
LEMMA BytesAreOfOneFix ==
  ASSUME FixIsOne, SetMessage, sent' # sent
  PROVE  PositionOfOneFix'
<1>1. sent'.gps = GpsBytes /\ sent'.bits = PodBits(GpsBits(ClearedBits(bits)))
  BY DEF SetMessage
<1>2. CASE ~ValidCoordinates
  BY <1>1, <1>2 DEF GpsBytes, Raw, PositionOfOneFix
<1>3. CASE ValidCoordinates
  <2>1. /\ coord.lat = coord.syncTime /\ coord.lon = coord.syncTime
        /\ coord.alt = coord.syncTime
    BY <1>3 DEF ValidCoordinates, FixIsOne
  <2>2. FixBit \in GpsBits(ClearedBits(bits))
    BY <1>3 DEF ValidCoordinates, GpsBits
  <2>3. FixBit \in sent'.bits
    BY <1>1, <2>2 DEF PodBits
  <2> QED BY <1>1, <1>3, <2>1, <2>3 DEF GpsBytes, Raw, PositionOfOneFix
<1> QED BY <1>2, <1>3

LEMMA InitPosition == Init => PositionInvariant
BY DEF Init, PositionInvariant, FixIsOne, PositionOfOneFix, ClearedCoordinates, Blank

LEMMA StepPosition == PositionInvariant /\ [Next]_vars => PositionInvariant'
<1> SUFFICES ASSUME FixIsOne, PositionOfOneFix, [Next]_vars
             PROVE  FixIsOne' /\ PositionOfOneFix'
  BY DEF PositionInvariant
<1>1. (UNCHANGED coord => FixIsOne') /\ (UNCHANGED sent => PositionOfOneFix')
  BY DEF FixIsOne, PositionOfOneFix
<1>2. CASE UpdatePosition
  BY <1>1, <1>2, UpdateIsOne DEF UpdatePosition, gpsVars, told
<1>3. CASE GpsData
  BY <1>1, <1>3, UpdateIsOne DEF GpsData, told
<1>4. CASE GpsOff
  <2>1. FixIsOne'
    BY <1>4 DEF GpsOff, ClearedCoordinates, FixIsOne
  <2> QED BY <1>1, <1>4, <2>1 DEF GpsOff, told
<1>5. CASE SetMessage
  <2>1. UNCHANGED coord
    BY <1>5 DEF SetMessage, gpsVars
  <2>2. CASE sent' = sent
    BY <1>1, <2>1, <2>2
  <2>3. CASE sent' # sent
    BY <1>1, <1>5, <2>1, <2>3, BytesAreOfOneFix
  <2> QED BY <2>2, <2>3
<1>6. CASE ReportEnds
  BY <1>1, <1>6 DEF ReportEnds, gpsVars
<1>7. CASE Wait \/ Transfer \/ NoMessage \/ Again
  BY <1>1, <1>7 DEF Wait, Transfer, NoMessage, Again, gpsVars, told
<1>8. CASE PodlinkOn \/ PodlinkOff \/ \E p \in Pods : PodReports(p)
  BY <1>1, <1>8 DEF PodlinkOn, PodlinkOff, Podlink, PodReports, gpsVars, told
<1>9. CASE UNCHANGED vars
  BY <1>1, <1>9 DEF vars, gpsVars, told
<1> QED BY <1>2, <1>3, <1>4, <1>5, <1>6, <1>7, <1>8, <1>9 DEF Next

\* Latitude, longitude, altitude and time of every message are of one update, and
\* a fix is claimed with them, or there is no position at all: for any answers of
\* the receiver and any commands between the calls of send_SBD_message.
THEOREM PositionsAreOfOneFix == Spec => []PositionOfOneFix
<1>1. PositionInvariant => PositionOfOneFix
  BY DEF PositionInvariant
<1> QED BY <1>1, InitPosition, StepPosition, PTL DEF Spec

----------------------------------------------------------------------------
\* Sums over the pods.  Induction, for a set of numbers: the least number outside
\* of it cannot be 0, nor come after another.
LEMMA SetInduction ==
  ASSUME NEW S \in SUBSET Nat, 0 \in S, \A n \in S : n + 1 \in S
  PROVE  S = Nat
<1> SUFFICES ASSUME Nat \ S # {} PROVE FALSE
  OBVIOUS
<1> DEFINE T == Nat \ S
           R == OpToRel(<, Nat)
<1>1. IsWellFoundedOn(R, Nat)
  BY NatLessThanWellFounded
<1>2. T \subseteq Nat /\ T # {}
  OBVIOUS
<1>3. \A x, y \in Nat : y < x => <<y, x>> \in R
  BY DEF OpToRel
<1> HIDE DEF R, T
<1>4. PICK x \in T : \A y \in T : ~(<<y, x>> \in R)
  BY <1>1, <1>2, WFMin
<1>5. x \in Nat /\ x # 0 /\ x - 1 \in Nat /\ x - 1 < x /\ (x - 1) + 1 = x
  BY <1>4 DEF T
<1>6. x - 1 \notin T
  <2>1. <<x - 1, x>> \in R
    BY <1>3, <1>5, Zenon
  <2> QED BY <1>4, <2>1, Zenon
<1> QED BY <1>4, <1>5, <1>6 DEF T

\* f[p] is start and the terms before p, added up.
IsSum(f, n, start, term) ==
  /\ f = [p \in 1..(n + 1) |-> f[p]]
  /\ f[1] = start
  /\ \A p \in 1..n : f[p + 1] = f[p] + term[p]

\* There is such a function, for any terms.
LEMMA SumExists ==
  ASSUME NEW n \in Nat, NEW start, NEW term
  PROVE  \E f : IsSum(f, n, start, term)
<1> DEFINE S == {m \in Nat : \E f : IsSum(f, m, start, term)}
<1>1. 0 \in S
  <2>1. IsSum([p \in 1..1 |-> start], 0, start, term)
    BY DEF IsSum
  <2> QED BY <2>1
<1>2. ASSUME NEW m \in S PROVE m + 1 \in S
  <2>1. PICK f : IsSum(f, m, start, term)
    OBVIOUS
  <2>2. m \in Nat /\ (m + 1) + 1 = m + 2 /\ m + 1 \in Nat
    OBVIOUS
  <2> DEFINE g == [p \in 1..(m + 2) |-> IF p = m + 2 THEN f[m + 1] + term[m + 1] ELSE f[p]]
  <2>3. g = [p \in 1..(m + 2) |-> g[p]] /\ g[1] = start
    BY <2>1, <2>2 DEF IsSum
  <2>4. ASSUME NEW p \in 1..(m + 1) PROVE g[p + 1] = g[p] + term[p]
    <3>1. p + 1 \in 1..(m + 2) /\ p \in 1..(m + 2) /\ p # m + 2
      BY <2>2
    <3>2. g[p] = f[p] /\ g[p + 1] = IF p + 1 = m + 2 THEN f[m + 1] + term[m + 1] ELSE f[p + 1]
      BY <3>1
    <3> HIDE DEF g
    <3>3. CASE p = m + 1
      BY <2>2, <3>2, <3>3
    <3>4. CASE p # m + 1
      <4>1. p \in 1..m /\ p + 1 # m + 2
        BY <2>2, <3>4
      <4> QED BY <2>1, <3>2, <4>1 DEF IsSum
    <3> QED BY <3>3, <3>4
  <2> HIDE DEF g
  <2>5. IsSum(g, m + 1, start, term)
    BY <2>2, <2>3, <2>4 DEF IsSum
  <2> QED BY <2>2, <2>5
<1> HIDE DEF S
<1>3. S = Nat
  <2>1. S \in SUBSET Nat
    BY DEF S
  <2> QED BY <1>1, <1>2, <2>1, SetInduction
<1> QED BY <1>3 DEF S

\* Induction up to a bound.
LEMMA UpTo ==
  ASSUME NEW n \in Nat, NEW S, 1 \in S, \A p \in 1..n : p \in S => p + 1 \in S
  PROVE  1..(n + 1) \subseteq S
<1> DEFINE T == {m \in Nat : m <= n => m + 1 \in S}
<1>1. 0 \in T
  OBVIOUS
<1>2. ASSUME NEW m \in T PROVE m + 1 \in T
  <2> SUFFICES ASSUME m + 1 <= n PROVE (m + 1) + 1 \in S
    OBVIOUS
  <2>1. m + 1 \in 1..n /\ m + 1 \in S
    OBVIOUS
  <2> QED BY <2>1
<1>3. T = Nat
  <2>1. T \in SUBSET Nat
    OBVIOUS
  <2> HIDE DEF T
  <2> QED BY <1>1, <1>2, <2>1, SetInduction
<1>4. ASSUME NEW p \in 1..(n + 1) PROVE p \in S
  <2>1. p - 1 \in Nat /\ (p - 1) + 1 = p /\ p - 1 <= n
    OBVIOUS
  <2> QED BY <1>3, <2>1
<1> QED BY <1>4

\* Before is what its recursive definition says (updateMsgLength).
LEMMA BeforeIsSum ==
  ASSUME NEW lengths
  PROVE  /\ Before(lengths)[1] = FirstPod
         /\ \A p \in Pods : Before(lengths)[p + 1] = Before(lengths)[p] + RoomOf(lengths, p)
<1> DEFINE term == [p \in Pods |-> RoomOf(lengths, p)]
<1>1. PICK f : IsSum(f, MAXPODS, FirstPod, term)
  <2>1. MAXPODS \in Nat
    BY SbdAssumption
  <2> QED BY <2>1, SumExists
<1>2. f = [p \in 1..(MAXPODS + 1) |-> IF p = 1 THEN FirstPod ELSE f[p - 1] + RoomOf(lengths, p - 1)]
  <2>1. \A q \in Pods : term[q] = RoomOf(lengths, q)
    OBVIOUS
  <2> HIDE DEF term
  <2>2. ASSUME NEW p \in 1..(MAXPODS + 1), p # 1 PROVE f[p] = f[p - 1] + RoomOf(lengths, p - 1)
    <3>1. p - 1 \in 1..MAXPODS /\ (p - 1) + 1 = p
      BY <2>2, SbdAssumption
    <3> QED BY <1>1, <2>1, <3>1 DEF Pods, IsSum
  <2>3. ASSUME NEW p \in 1..(MAXPODS + 1)
        PROVE  f[p] = IF p = 1 THEN FirstPod ELSE f[p - 1] + RoomOf(lengths, p - 1)
    BY <1>1, <2>2 DEF IsSum
  <2> QED BY <1>1, <2>3 DEF IsSum
<1>3. Before(lengths) = [p \in 1..(MAXPODS + 1) |->
         IF p = 1 THEN FirstPod ELSE Before(lengths)[p - 1] + RoomOf(lengths, p - 1)]
  BY <1>2 DEF Before
<1> DEFINE b == Before(lengths)
<1> HIDE DEF b
<1>4. b = [p \in 1..(MAXPODS + 1) |-> IF p = 1 THEN FirstPod ELSE b[p - 1] + RoomOf(lengths, p - 1)]
  BY <1>3 DEF b
<1>5. b[1] = FirstPod
  BY <1>4, SbdAssumption
<1>6. ASSUME NEW p \in Pods PROVE b[p + 1] = b[p] + RoomOf(lengths, p)
  <2>1. p + 1 \in 1..(MAXPODS + 1) /\ p + 1 # 1 /\ (p + 1) - 1 = p
    BY SbdAssumption DEF Pods
  <2>2. b[p + 1] = b[(p + 1) - 1] + RoomOf(lengths, (p + 1) - 1)
    BY <1>4, <2>1
  <2> QED BY <2>1, <2>2
<1> QED BY <1>5, <1>6 DEF b

\* A pod's place is an address from FirstPod on.
LEMMA BeforeTypes ==
  ASSUME NEW lengths \in [Pods -> Nat]
  PROVE  \A p \in 1..(MAXPODS + 1) : Before(lengths)[p] \in Nat /\ FirstPod <= Before(lengths)[p]
<1> DEFINE b == Before(lengths)
           S == {p \in 1..(MAXPODS + 1) : b[p] \in Nat /\ FirstPod <= b[p]}
<1>1. MAXPODS \in Nat /\ FirstPod \in Nat
  BY SbdAssumption
<1>2. b[1] = FirstPod /\ \A p \in Pods : b[p + 1] = b[p] + RoomOf(lengths, p)
  BY BeforeIsSum
<1> HIDE DEF b
<1>3. 1 \in S
  BY <1>1, <1>2
<1>4. ASSUME NEW p \in 1..MAXPODS, p \in S PROVE p + 1 \in S
  <2>1. p \in Pods /\ RoomOf(lengths, p) \in Nat /\ p + 1 \in 1..(MAXPODS + 1)
    BY <1>1 DEF Pods, RoomOf
  <2> QED BY <1>1, <1>2, <1>4, <2>1
<1> HIDE DEF S
<1>5. 1..(MAXPODS + 1) \subseteq S
  BY <1>1, <1>3, <1>4, UpTo
<1> QED BY <1>5 DEF S, b

\* A pod's room ends before the place of any later one, and at the latest where
\* the message does.
LEMMA BeforeMonotone ==
  ASSUME NEW lengths \in [Pods -> Nat], NEW p \in Pods, NEW q \in 1..(MAXPODS + 1), p < q
  PROVE  Before(lengths)[p] + RoomOf(lengths, p) <= Before(lengths)[q]
<1> DEFINE b == Before(lengths)
           S == {r \in 1..(MAXPODS + 1) : p < r => b[p] + RoomOf(lengths, p) <= b[r]}
<1>1. MAXPODS \in Nat /\ p \in 1..MAXPODS
  BY SbdAssumption DEF Pods
<1>2. \A r \in Pods : b[r + 1] = b[r] + RoomOf(lengths, r)
  BY BeforeIsSum
<1>3. \A r \in 1..(MAXPODS + 1) : b[r] \in Nat
  BY BeforeTypes
<1>4. \A r \in Pods : RoomOf(lengths, r) \in Nat
  BY DEF RoomOf
<1> HIDE DEF b
<1>5. 1 \in S
  BY <1>1
<1>6. ASSUME NEW r \in 1..MAXPODS, r \in S PROVE r + 1 \in S
  <2>1. r \in Pods /\ r \in 1..(MAXPODS + 1) /\ r + 1 \in 1..(MAXPODS + 1) /\ p \in 1..(MAXPODS + 1)
    BY <1>1 DEF Pods
  <2>2. b[r + 1] = b[r] + RoomOf(lengths, r) /\ b[r] \in Nat /\ b[p] \in Nat
        /\ RoomOf(lengths, r) \in Nat /\ RoomOf(lengths, p) \in Nat
    BY <1>2, <1>3, <1>4, <2>1
  <2>3. CASE p < r
    BY <1>6, <2>1, <2>2, <2>3
  <2>4. CASE p = r
    BY <2>1, <2>2, <2>4
  <2>5. CASE r < p
    BY <1>1, <2>1, <2>5
  <2> QED BY <1>1, <2>3, <2>4, <2>5
<1> HIDE DEF S
<1>7. 1..(MAXPODS + 1) \subseteq S
  BY <1>1, <1>5, <1>6, UpTo
<1> QED BY <1>7 DEF S, b

\* There is only one function that goes through a message as its receiver does.
LEMMA FoundAtIs ==
  ASSUME NEW message, NEW f,
         f = [p \in 1..(MAXPODS + 1) |-> f[p]], f[1] = FirstPod,
         \A p \in Pods : f[p + 1] = f[p] + (IF PodBit(p) \in message.bits
                                              THEN 1 + Received(message, f[p]) ELSE 0)
  PROVE  \A p \in 1..(MAXPODS + 1) : FoundAt(message)[p] = f[p]
<1> DEFINE Room(at, p) == IF PodBit(p) \in message.bits THEN 1 + Received(message, at) ELSE 0
           found == FoundAt(message)
           S == {p \in 1..(MAXPODS + 1) : found[p] = f[p]}
<1>1. MAXPODS \in Nat
  BY SbdAssumption
<1>2. f = [p \in 1..(MAXPODS + 1) |-> IF p = 1 THEN FirstPod ELSE f[p - 1] + Room(f[p - 1], p - 1)]
  <2>1. \A p \in Pods : f[p + 1] = f[p] + Room(f[p], p)
    OBVIOUS
  <2> HIDE DEF Room
  <2>2. ASSUME NEW p \in 1..(MAXPODS + 1), p # 1 PROVE f[p] = f[p - 1] + Room(f[p - 1], p - 1)
    <3>1. p - 1 \in Pods /\ (p - 1) + 1 = p
      BY <1>1, <2>2 DEF Pods
    <3> QED BY <2>1, <3>1
  <2>3. ASSUME NEW p \in 1..(MAXPODS + 1)
        PROVE  f[p] = IF p = 1 THEN FirstPod ELSE f[p - 1] + Room(f[p - 1], p - 1)
    BY <2>2
  <2> QED BY <2>3
<1>3. found = [p \in 1..(MAXPODS + 1) |->
         IF p = 1 THEN FirstPod ELSE found[p - 1] + Room(found[p - 1], p - 1)]
  BY <1>2 DEF FoundAt
<1> HIDE DEF found, Room
<1>4. found[1] = FirstPod
  BY <1>1, <1>3
<1>5. 1 \in S
  BY <1>1, <1>4
<1>6. ASSUME NEW p \in 1..MAXPODS, p \in S PROVE p + 1 \in S
  <2>1. p + 1 \in 1..(MAXPODS + 1) /\ p + 1 # 1 /\ (p + 1) - 1 = p
    BY <1>1
  <2>2. found[p + 1] = found[(p + 1) - 1] + Room(found[(p + 1) - 1], (p + 1) - 1)
    BY <1>3, <2>1
  <2>3. f[p + 1] = f[(p + 1) - 1] + Room(f[(p + 1) - 1], (p + 1) - 1)
    BY <1>2, <2>1
  <2> QED BY <1>6, <2>1, <2>2, <2>3
<1> HIDE DEF S
<1>7. 1..(MAXPODS + 1) \subseteq S
  BY <1>1, <1>5, <1>6, UpTo
<1> QED BY <1>7 DEF S, found

\* Message m tells of the pods what lengths says.
Tells(m, lengths) ==
  /\ \A p \in Pods : PodBit(p) \in m.bits <=> lengths[p] > 0
  /\ \A p \in Pods : lengths[p] > 0 => Received(m, Before(lengths)[p]) = lengths[p]

\* The receiver of such a message finds every pod where it was put.
LEMMA ReceiverFollows ==
  ASSUME NEW m, NEW lengths \in [Pods -> Nat], Tells(m, lengths)
  PROVE  \A p \in 1..(MAXPODS + 1) : FoundAt(m)[p] = Before(lengths)[p]
<1> DEFINE b == [p \in 1..(MAXPODS + 1) |-> Before(lengths)[p]]
<1>1. MAXPODS \in Nat
  BY SbdAssumption
<1>2. b = [p \in 1..(MAXPODS + 1) |-> b[p]] /\ \A p \in 1..(MAXPODS + 1) : b[p] = Before(lengths)[p]
  OBVIOUS
<1> HIDE DEF b
<1>3. b[1] = FirstPod
  BY <1>1, <1>2, BeforeIsSum
<1>4. ASSUME NEW p \in Pods
      PROVE  b[p + 1] = b[p] + (IF PodBit(p) \in m.bits THEN 1 + Received(m, b[p]) ELSE 0)
  <2>1. p \in 1..(MAXPODS + 1) /\ p + 1 \in 1..(MAXPODS + 1)
    BY <1>1 DEF Pods
  <2>2. b[p + 1] = b[p] + RoomOf(lengths, p) /\ b[p] = Before(lengths)[p]
    BY <1>2, <2>1, BeforeIsSum
  <2>3. RoomOf(lengths, p) = IF PodBit(p) \in m.bits THEN 1 + Received(m, b[p]) ELSE 0
    BY <2>2 DEF Tells, RoomOf
  <2> QED BY <2>2, <2>3
<1>5. \A p \in 1..(MAXPODS + 1) : FoundAt(m)[p] = b[p]
  BY <1>2, <1>3, <1>4, FoundAtIs
<1> QED BY <1>2, <1>5

\* The array's bytes that pod p fills, its number of bytes first.
Filled(p) == IF podLengths[p] > 0
             THEN Before(podLengths)[p]..(Before(podLengths)[p] + podLengths[p]) ELSE {}

BufferTypes ==
  /\ podLengths \in [Pods -> 0..255]
  /\ registry \in [Pods -> 0..255 \cup {Unlinked}]
  /\ podData = [a \in Beyond |-> podData[a]]

\* No address is filled by two pods.
LEMMA FilledApart ==
  ASSUME BufferTypes, NEW p \in Pods, NEW q \in Pods, NEW a, a \in Filled(p), a \in Filled(q)
  PROVE  p = q
<1>1. MAXPODS \in Nat /\ POD_LENGTH \in Nat /\ podLengths \in [Pods -> Nat]
  BY SbdAssumption DEF BufferTypes
<1>2. ASSUME NEW r \in Pods, NEW t \in Pods, r < t, a \in Filled(r), a \in Filled(t) PROVE FALSE
  <2>1. t \in 1..(MAXPODS + 1) /\ r \in 1..(MAXPODS + 1)
    BY <1>1 DEF Pods
  <2>2. Before(podLengths)[r] + RoomOf(podLengths, r) <= Before(podLengths)[t]
    BY <1>1, <1>2, <2>1, BeforeMonotone
  <2>3. Before(podLengths)[r] \in Nat /\ Before(podLengths)[t] \in Nat
    BY <1>1, <2>1, BeforeTypes
  <2>4. podLengths[r] \in Nat /\ podLengths[t] \in Nat
    BY <1>1
  <2>5. /\ RoomOf(podLengths, r) = podLengths[r] + 1
        /\ a \in Before(podLengths)[r]..(Before(podLengths)[r] + podLengths[r])
        /\ a \in Before(podLengths)[t]..(Before(podLengths)[t] + podLengths[t])
    BY <1>2 DEF Filled, RoomOf
  <2> QED BY <2>2, <2>3, <2>4, <2>5
<1>3. p < q \/ p = q \/ q < p
  BY <1>1 DEF Pods
<1> QED BY <1>2, <1>3

\* No pod's room reaches beyond the length of the message.
LEMMA FilledBelow ==
  ASSUME BufferTypes, NEW p \in Pods, NEW a, a \in Filled(p)
  PROVE  a \in Nat /\ FirstPod <= a /\ a < UpdatedLength(podLengths) /\ UpdatedLength(podLengths) \in Nat
<1>1. MAXPODS \in Nat /\ FirstPod \in Nat /\ POD_LENGTH \in Nat /\ podLengths \in [Pods -> Nat]
  BY SbdAssumption DEF BufferTypes
<1>2. p \in 1..(MAXPODS + 1) /\ MAXPODS + 1 \in 1..(MAXPODS + 1) /\ p < MAXPODS + 1
  BY <1>1 DEF Pods
<1>3. Before(podLengths)[p] + RoomOf(podLengths, p) <= UpdatedLength(podLengths)
  BY <1>1, <1>2, BeforeMonotone DEF UpdatedLength
<1>4. Before(podLengths)[p] \in Nat /\ UpdatedLength(podLengths) \in Nat /\ FirstPod <= Before(podLengths)[p]
  BY <1>1, <1>2, BeforeTypes DEF UpdatedLength
<1>5. podLengths[p] \in Nat
  BY <1>1
<1>6. /\ RoomOf(podLengths, p) = podLengths[p] + 1
      /\ a \in Before(podLengths)[p]..(Before(podLengths)[p] + podLengths[p])
  BY DEF Filled, RoomOf
<1> QED BY <1>1, <1>3, <1>4, <1>5, <1>6

\* What generatePodBytes stores, address by address.
LEMMA Stores ==
  ASSUME BufferTypes, NEW old
  PROVE  /\ PodBytes(old) = [a \in Addresses |-> PodBytes(old)[a]]
         /\ \A a \in Addresses : (\A p \in Pods : a \notin Filled(p)) => PodBytes(old)[a] = old[a]
         /\ \A p \in Pods : \A a \in Addresses \cap Filled(p) :
              PodBytes(old)[a] = IF a = Before(podLengths)[p] THEN podLengths[p]
                                 ELSE Read(old, PodStart(p) + (a - Before(podLengths)[p] - 1))
<1> DEFINE at == Before(podLengths)
           Fills(p, a) == podLengths[p] > 0 /\ a \in at[p]..(at[p] + podLengths[p])
           Byte(p, a) == IF a = at[p] THEN podLengths[p] ELSE Read(old, PodStart(p) + (a - at[p] - 1))
<1>1. PodBytes(old) = [a \in Addresses |->
        IF \E p \in Pods : Fills(p, a) THEN Byte(CHOOSE q \in Pods : Fills(q, a), a) ELSE old[a]]
  BY DEF PodBytes
<1>2. \A p \in Pods : \A a : Fills(p, a) <=> a \in Filled(p)
  BY DEF Filled
<1> HIDE DEF Fills, Byte
<1>3. ASSUME NEW p \in Pods, NEW a \in Addresses, a \in Filled(p)
      PROVE  PodBytes(old)[a] = Byte(p, a)
  <2>1. Fills(p, a)
    BY <1>2, <1>3
  <2>2. \A q \in Pods : Fills(q, a) => q = p
    BY <1>2, <1>3, FilledApart
  <2>3. (CHOOSE q \in Pods : Fills(q, a)) = p
    BY <2>1, <2>2
  <2>4. PodBytes(old)[a] = Byte(CHOOSE q \in Pods : Fills(q, a), a)
    BY <1>1, <2>1
  <2> QED BY <2>3, <2>4
<1>4. ASSUME NEW a \in Addresses, \A p \in Pods : a \notin Filled(p)
      PROVE  PodBytes(old)[a] = old[a]
  BY <1>1, <1>2, <1>4
<1>5. PodBytes(old) = [a \in Addresses |-> PodBytes(old)[a]]
  BY <1>1
<1> QED BY <1>3, <1>4, <1>5 DEF Byte

\* The pods' buffers lie one behind the other, behind sbd.
LEMMA BuffersApart ==
  ASSUME NEW p \in Pods, NEW q \in Pods, p < q
  PROVE  /\ PodStart(p) \in Nat /\ PodStart(q) \in Nat
         /\ SBD_LENGTH <= PodStart(p)
         /\ PodStart(p) + POD_LENGTH <= PodStart(q)
<1>1. MAXPODS \in Nat /\ POD_LENGTH \in Nat /\ SBD_LENGTH \in Nat
  BY SbdAssumption
<1>2. \A k \in Nat : k * POD_LENGTH \in Nat
  BY <1>1
<1>3. (p - 1) * POD_LENGTH \in Nat /\ (q - 1) * POD_LENGTH \in Nat /\ (q - p - 1) * POD_LENGTH \in Nat
  <2>1. p - 1 \in Nat /\ q - 1 \in Nat /\ q - p - 1 \in Nat
    BY <1>1 DEF Pods
  <2> QED BY <1>2, <2>1
<1>4. (q - 1) * POD_LENGTH = (p - 1) * POD_LENGTH + POD_LENGTH + (q - p - 1) * POD_LENGTH
  BY <1>1 DEF Pods
<1> QED BY <1>1, <1>3, <1>4 DEF PodStart

\* Each of them is in the object's memory.
LEMMA BuffersBeyond ==
  ASSUME NEW p \in Pods, NEW j \in 1..POD_LENGTH
  PROVE  /\ PodStart(p) + (j - 1) \in Beyond /\ PodStart(p) \in Nat
         /\ SBD_LENGTH <= PodStart(p)
<1>1. MAXPODS \in Nat /\ POD_LENGTH \in Nat /\ SBD_LENGTH \in Nat
  BY SbdAssumption
<1>2. (p - 1) * POD_LENGTH \in Nat /\ (MAXPODS - p) * POD_LENGTH \in Nat
  <2>1. \A k \in Nat : k * POD_LENGTH \in Nat
    BY <1>1
  <2>2. p - 1 \in Nat /\ MAXPODS - p \in Nat
    BY <1>1 DEF Pods
  <2> QED BY <2>1, <2>2
<1>3. MAXPODS * POD_LENGTH = (p - 1) * POD_LENGTH + POD_LENGTH + (MAXPODS - p) * POD_LENGTH
  BY <1>1 DEF Pods
<1>4. MAXPODS * POD_LENGTH \in Nat
  BY <1>1
<1> QED BY <1>1, <1>2, <1>3, <1>4 DEF PodStart, Beyond

\* A message that is taken by the modem: its length, and where each pod is in it.
LEMMA TakenMessage ==
  ASSUME BufferTypes, SetMessage, ~UNCHANGED <<sent, own>>
  PROVE  /\ sent'.length = UpdatedLength(podLengths)
         /\ sent'.length <= SBD_LENGTH
         /\ Tells(sent', podLengths)
         /\ \A p \in Pods : \A j \in 1..podLengths[p] : j <= POD_LENGTH =>
              Received(sent', Before(podLengths)[p] + j) = podData[PodStart(p) + (j - 1)]
<1> DEFINE at == Before(podLengths)
           stored == PodBytes(ClearedBytes)
<1>1. /\ sent'.length = UpdatedLength(podLengths) /\ sent'.length <= SBD_LENGTH
      /\ sent'.bits = PodBits(GpsBits(ClearedBits(bits)))
      /\ sent'.bytes = [a \in FirstPod..(UpdatedLength(podLengths) - 1) |-> stored[a]]
  <2>1. msgLength' = UpdatedLength(podLengths) /\ bits' = PodBits(GpsBits(ClearedBits(bits)))
    BY DEF SetMessage
  <2>2. /\ msgLength' <= SBD_LENGTH
        /\ sent' = [bits |-> bits', gps |-> GpsBytes, length |-> msgLength',
                    bytes |-> [a \in FirstPod..(msgLength' - 1) |-> stored[a]]]
    BY DEF SetMessage
  <2> HIDE DEF stored
  <2> QED BY <2>1, <2>2
<1>2. ASSUME NEW p \in Pods PROVE PodBit(p) \in sent'.bits <=> podLengths[p] > 0
  <2>1. PodBit(p) # FixBit /\ \A q \in Pods : PodBit(p) = PodBit(q) => p = q
    BY SbdAssumption DEF Pods, PodBit, FixBit
  <2>2. GpsBits(ClearedBits(bits)) \subseteq {FixBit}
    BY DEF GpsBits, ClearedBits
  <2> HIDE DEF stored
  <2> QED BY <1>1, <2>1, <2>2 DEF PodBits
<1>3. ASSUME NEW p \in Pods, NEW a, a \in Filled(p)
      PROVE  /\ Received(sent', a) = stored[a]
             /\ a \in Addresses \cap Filled(p)
  <2>1. a \in Nat /\ FirstPod <= a /\ a < UpdatedLength(podLengths) /\ UpdatedLength(podLengths) \in Nat
    BY <1>3, FilledBelow
  <2>2. FirstPod \in Nat /\ SBD_LENGTH \in Nat /\ UpdatedLength(podLengths) <= SBD_LENGTH
    BY <1>1, SbdAssumption
  <2>3. a \in FirstPod..(UpdatedLength(podLengths) - 1) /\ a \in FirstPod..(SBD_LENGTH - 1)
    BY <2>1, <2>2
  <2> HIDE DEF stored
  <2> QED BY <1>1, <1>3, <2>3 DEF Received, Addresses
<1>4. ASSUME NEW p \in Pods, podLengths[p] > 0
      PROVE  /\ Received(sent', at[p]) = podLengths[p]
             /\ \A j \in 1..podLengths[p] : j <= POD_LENGTH =>
                  Received(sent', at[p] + j) = podData[PodStart(p) + (j - 1)]
  <2>1. podLengths[p] \in Nat /\ POD_LENGTH \in Nat /\ podLengths \in [Pods -> Nat]
    BY SbdAssumption DEF BufferTypes
  <2>2. at[p] \in Nat
    <3>1. p \in 1..(MAXPODS + 1)
      BY SbdAssumption DEF Pods
    <3> QED BY <2>1, <3>1, BeforeTypes
  <2>3. Filled(p) = at[p]..(at[p] + podLengths[p])
    BY <1>4 DEF Filled
  <2> HIDE DEF at
  <2>4. at[p] \in Filled(p) /\ \A j \in 1..podLengths[p] : at[p] + j \in Filled(p) /\ at[p] + j # at[p]
    BY <2>1, <2>2, <2>3
  <2>5. \A a \in Addresses \cap Filled(p) :
           stored[a] = IF a = at[p] THEN podLengths[p]
                       ELSE Read(ClearedBytes, PodStart(p) + (a - at[p] - 1))
    BY Stores DEF at
  <2> HIDE DEF stored
  <2>6. Received(sent', at[p]) = podLengths[p]
    BY <1>3, <2>4, <2>5
  <2>7. ASSUME NEW j \in 1..podLengths[p], j <= POD_LENGTH
        PROVE  Received(sent', at[p] + j) = podData[PodStart(p) + (j - 1)]
    <3>1. j \in 1..POD_LENGTH /\ (at[p] + j) - at[p] - 1 = j - 1
      BY <2>1, <2>2, <2>7
    <3>2. Received(sent', at[p] + j) = Read(ClearedBytes, PodStart(p) + (j - 1))
      BY <1>3, <2>4, <2>5, <3>1
    <3>3. PodStart(p) + (j - 1) \in Beyond
      BY <3>1, BuffersBeyond
    <3>4. PodStart(p) + (j - 1) \in Addresses /\ ~(PodStart(p) + (j - 1) < SBD_LENGTH)
      BY <3>3, SbdAssumption DEF Beyond, Addresses
    <3>5. Read(ClearedBytes, PodStart(p) + (j - 1)) = podData[PodStart(p) + (j - 1)]
      BY <3>4 DEF ClearedBytes, Read
    <3> QED BY <3>2, <3>5
  <2> QED BY <2>6, <2>7
<1>5. Tells(sent', podLengths)
  BY <1>2, <1>4 DEF Tells
<1>6. ASSUME NEW p \in Pods, NEW j \in 1..podLengths[p], j <= POD_LENGTH
      PROVE  Received(sent', at[p] + j) = podData[PodStart(p) + (j - 1)]
  <2>1. podLengths[p] > 0
    BY DEF BufferTypes
  <2> HIDE DEF at, stored
  <2> QED BY <1>4, <1>6, <2>1
<1> QED BY <1>1, <1>5, <1>6

\* A length is what a byte holds, of a pod that is linked or not.
LEMMA InitTypes == Init => BufferTypes
BY DEF Init, BufferTypes

LEMMA StepTypes == BufferTypes /\ [Next]_vars => BufferTypes'
<1> SUFFICES ASSUME BufferTypes, [Next]_vars PROVE BufferTypes'
  OBVIOUS
<1>1. POD_LENGTH \in Nat /\ Lengths \subseteq 0..255
  BY SbdAssumption
<1>2. UNCHANGED <<podLengths, podData, registry>> => BufferTypes'
  BY DEF BufferTypes
<1>3. CASE Transfer
  <2>1. PICK silent :
          podLengths' = [p \in Pods |-> IF p \in Linked
                           THEN (IF p \in Linked \ silent /\ p < MAX_FC THEN AnswerOf(p) ELSE 0)
                           ELSE podLengths[p]]
    <3>1. PICK silent \in SUBSET Linked :
            LET length == [p \in Pods |-> IF p \in Linked \ silent /\ p < MAX_FC THEN AnswerOf(p) ELSE 0]
            IN  podLengths' = [p \in Pods |-> IF p \in Linked THEN length[p] ELSE podLengths[p]]
      BY <1>3 DEF Transfer
    <3> QED BY <3>1 DEF Linked
  <2>2. registry' = registry /\ podData' = [a \in Beyond |-> podData'[a]]
    BY <1>3 DEF Transfer, radio
  <2>3. \A p \in Linked : AnswerOf(p) \in 0..255
    BY <1>1 DEF BufferTypes, AnswerOf, Linked
  <2> QED BY <2>1, <2>2, <2>3 DEF BufferTypes
<1>4. CASE SetMessage
  BY <1>4 DEF SetMessage, BufferTypes, radio
<1>5. CASE PodlinkOn
  <2>1. registry' \in [Pods -> 0..255 \cup {Unlinked}]
    BY <1>1, <1>5 DEF PodlinkOn
  <2>2. /\ podLengths' = [p \in Pods |-> IF registry'[p] = Unlinked THEN podLengths[p] ELSE registry'[p]]
        /\ podData' = podData
    BY <1>5 DEF PodlinkOn, Podlink
  <2> QED BY <2>1, <2>2 DEF BufferTypes
<1>6. CASE PodlinkOff
  BY <1>6 DEF PodlinkOff, Podlink, BufferTypes
<1>7. CASE UpdatePosition \/ Wait \/ NoMessage \/ Again \/ ReportEnds
  BY <1>2, <1>7 DEF UpdatePosition, Wait, NoMessage, Again, ReportEnds, buffers, radio
<1>8. CASE GpsData \/ GpsOff \/ \E p \in Pods : PodReports(p)
  BY <1>2, <1>8 DEF GpsData, GpsOff, PodReports, buffers, radio
<1>9. CASE UNCHANGED vars
  BY <1>2, <1>9 DEF vars, buffers, radio
<1> QED BY <1>3, <1>4, <1>5, <1>6, <1>7, <1>8, <1>9 DEF Next

\* The blank message ends where it begins.
LEMMA BlankIsWhole == Blank.length <= SBD_LENGTH /\ FoundAt(Blank)[MAXPODS + 1] = Blank.length
<1> DEFINE f == [p \in 1..(MAXPODS + 1) |-> FirstPod]
<1> SUFFICES ASSUME NEW m, m = Blank
             PROVE  m.length <= SBD_LENGTH /\ FoundAt(m)[MAXPODS + 1] = m.length
  OBVIOUS
<1>1. MAXPODS \in Nat /\ FirstPod \in Nat /\ FirstPod + MAXPODS <= SBD_LENGTH /\ SBD_LENGTH \in Nat
  BY SbdAssumption
<1>2. m.bits = {} /\ m.length = FirstPod
  BY DEF Blank
<1>3. f = [p \in 1..(MAXPODS + 1) |-> f[p]] /\ \A p \in 1..(MAXPODS + 1) : f[p] = FirstPod
  OBVIOUS
<1> HIDE DEF f
<1>4. ASSUME NEW p \in Pods
      PROVE  f[p + 1] = f[p] + (IF PodBit(p) \in m.bits THEN 1 + Received(m, f[p]) ELSE 0)
  <2>1. p \in 1..(MAXPODS + 1) /\ p + 1 \in 1..(MAXPODS + 1)
    BY <1>1 DEF Pods
  <2> QED BY <1>1, <1>2, <1>3, <2>1
<1>5. f[1] = FirstPod /\ f[MAXPODS + 1] = FirstPod
  BY <1>1, <1>3
<1>6. \A p \in 1..(MAXPODS + 1) : FoundAt(m)[p] = f[p]
  <2>1. f[1] = FirstPod
    BY <1>5
  <2>2. f = [p \in 1..(MAXPODS + 1) |-> f[p]]
    BY <1>3
  <2> QED BY ONLY <1>4, <2>1, <2>2, FoundAtIs
<1>7. MAXPODS + 1 \in 1..(MAXPODS + 1) /\ FirstPod <= SBD_LENGTH
  BY <1>1
<1>8. FoundAt(m)[MAXPODS + 1] = FirstPod
  BY <1>5, <1>6, <1>7
<1> QED BY <1>2, <1>7, <1>8

\* The message is whole at first, and whatever setMessage makes of the buffers.
LEMMA InitWhole == Init => MessageIsWhole
<1> SUFFICES ASSUME Init PROVE MessageIsWhole
  OBVIOUS
<1>1. sent = Blank
  BY DEF Init
<1> QED BY <1>1, BlankIsWhole DEF MessageIsWhole

LEMMA StepWhole == BufferTypes /\ MessageIsWhole /\ [Next]_vars => MessageIsWhole'
<1> SUFFICES ASSUME BufferTypes, MessageIsWhole, [Next]_vars PROVE MessageIsWhole'
  OBVIOUS
<1>1. CASE UNCHANGED sent
  BY <1>1 DEF MessageIsWhole
<1>2. CASE SetMessage /\ ~UNCHANGED <<sent, own>>
  <2>1. podLengths \in [Pods -> Nat] /\ MAXPODS + 1 \in 1..(MAXPODS + 1)
    BY SbdAssumption DEF BufferTypes
  <2>2. FoundAt(sent')[MAXPODS + 1] = Before(podLengths)[MAXPODS + 1]
    BY <1>2, <2>1, TakenMessage, ReceiverFollows
  <2> QED BY <1>2, <2>2, TakenMessage DEF MessageIsWhole, UpdatedLength
<1>3. CASE SetMessage /\ UNCHANGED <<sent, own>>
  BY <1>1, <1>3
<1>4. CASE UpdatePosition \/ Wait \/ Transfer \/ NoMessage \/ Again \/ ReportEnds
  BY <1>1, <1>4 DEF UpdatePosition, Wait, Transfer, NoMessage, Again, ReportEnds, told
<1>5. CASE GpsData \/ GpsOff \/ PodlinkOn \/ PodlinkOff \/ \E p \in Pods : PodReports(p)
  BY <1>1, <1>5 DEF GpsData, GpsOff, PodlinkOn, PodlinkOff, Podlink, PodReports, told
<1>6. CASE UNCHANGED vars
  BY <1>1, <1>6 DEF vars, told
<1> QED BY <1>2, <1>3, <1>4, <1>5, <1>6 DEF Next

\* A message that the modem took fits the array and ends where its receiver comes
\* out, for any lengths from 0 to 255 that pods are registered with.
THEOREM MessagesAreWhole == Spec => []MessageIsWhole
<1>1. Init => BufferTypes /\ MessageIsWhole
  BY InitTypes, InitWhole
<1>2. BufferTypes /\ MessageIsWhole /\ [Next]_vars => BufferTypes' /\ MessageIsWhole'
  BY StepTypes, StepWhole
<1> QED BY <1>1, <1>2, PTL DEF Spec

\* A pod's buffer holds what was taken from it, unless the array ran into it, and
\* its length is that of what was taken, unless a command changed it.
HeldFor(p, bytes) ==
  /\ \E n \in 0..POD_LENGTH : DOMAIN bytes = 1..n
  /\ p \notin overrun => \A j \in DOMAIN bytes : bytes[j] = podData[PodStart(p) + (j - 1)]
  /\ p \notin relinked => DOMAIN bytes = 1..podLengths[p]

BufferedAsTaken == \A p \in Pods : \A bytes \in taken[p] : HeldFor(p, bytes)

\* With the types, and a message only after the pods' data, it is inductive.
PodsInvariant ==
  /\ BufferTypes
  /\ doneLoading \in BOOLEAN
  /\ own => doneLoading
  /\ ~doneLoading => \A p \in Pods : taken[p] = {}
  /\ BufferedAsTaken
  /\ PodsAsTaken

\* transfer_pod_data_to_SBD loads each pod's buffer, and no other, with its bytes.
LEMMA TransferBuffers ==
  ASSUME PodsInvariant, Transfer
  PROVE  BufferedAsTaken'
<1> SUFFICES ASSUME NEW p \in Pods, NEW bytes \in taken'[p] PROVE HeldFor(p, bytes)'
  BY DEF BufferedAsTaken
<1>1. PICK silent \in SUBSET Linked :
        LET length == [q \in Pods |-> IF q \in Linked \ silent /\ q < MAX_FC THEN AnswerOf(q) ELSE 0]
            Loads(q, a) == a \in PodStart(q)..(PodStart(q) + length[q] - 1)
        IN
        /\ podLengths' = [q \in Pods |-> IF q \in Linked THEN length[q] ELSE podLengths[q]]
        /\ podData' = [a \in Beyond |->
             IF \E q \in Pods : Loads(q, a)
               THEN LET q == CHOOSE r \in Pods : Loads(r, a)
                    IN PodByte(q, reading[q], (a - PodStart(q)) + 1)
               ELSE podData[a]]
        /\ taken' = [q \in Pods |->
             IF q \in Linked THEN {[j \in 1..length[q] |-> PodByte(q, reading[q], j)]} ELSE {}]
  BY DEF Transfer
<1> DEFINE length == [q \in Pods |-> IF q \in Linked \ silent /\ q < MAX_FC THEN AnswerOf(q) ELSE 0]
           Loads(q, a) == a \in PodStart(q)..(PodStart(q) + length[q] - 1)
<1>2. length \in [Pods -> 0..POD_LENGTH] /\ POD_LENGTH \in Nat
  <2>1. \A q \in Linked : AnswerOf(q) \in 0..POD_LENGTH
    BY SbdAssumption DEF PodsInvariant, BufferTypes, AnswerOf, Linked
  <2> QED BY <2>1, SbdAssumption
<1>3. podLengths' = [q \in Pods |-> IF q \in Linked THEN length[q] ELSE podLengths[q]]
  BY <1>1
<1>4. \A a \in Beyond : (\E q \in Pods : Loads(q, a)) =>
        LET q == CHOOSE r \in Pods : Loads(r, a)
        IN  podData'[a] = PodByte(q, reading[q], (a - PodStart(q)) + 1)
  BY <1>1
<1>5. taken' = [q \in Pods |-> IF q \in Linked
                 THEN {[j \in 1..length[q] |-> PodByte(q, reading[q], j)]} ELSE {}]
  BY <1>1
<1> HIDE DEF length
<1>6. p \in Linked /\ bytes = [j \in 1..length[p] |-> PodByte(p, reading[p], j)]
  BY <1>5
<1>7. podLengths'[p] = length[p] /\ length[p] \in 0..POD_LENGTH
  BY <1>2, <1>3, <1>6
<1>8. ASSUME NEW j \in 1..length[p]
      PROVE  podData'[PodStart(p) + (j - 1)] = PodByte(p, reading[p], j)
  <2> DEFINE a == PodStart(p) + (j - 1)
  <2>1. j \in 1..POD_LENGTH
    BY <1>2, <1>7
  <2>2. a \in Beyond /\ PodStart(p) \in Nat
    BY <2>1, BuffersBeyond
  <2>3. Loads(p, a) /\ (a - PodStart(p)) + 1 = j
    BY <1>2, <1>7, <2>2
  <2>4. ASSUME NEW q \in Pods, Loads(q, a) PROVE q = p
    <3>1. MAXPODS \in Nat
      BY SbdAssumption
    <3>2. length[q] \in 0..POD_LENGTH
      BY <1>2
    <3>3. ~(q < p)
      <4> SUFFICES ASSUME q < p PROVE FALSE
        OBVIOUS
      <4>1. PodStart(q) \in Nat /\ PodStart(q) + POD_LENGTH <= PodStart(p)
        BY BuffersApart
      <4> QED BY <1>2, <2>2, <2>4, <3>2, <4>1
    <3>4. ~(p < q)
      <4> SUFFICES ASSUME p < q PROVE FALSE
        OBVIOUS
      <4>1. PodStart(q) \in Nat /\ PodStart(p) + POD_LENGTH <= PodStart(q)
        BY BuffersApart
      <4> QED BY <1>2, <2>1, <2>2, <2>4, <3>2, <4>1
    <3> QED BY <3>1, <3>3, <3>4 DEF Pods
  <2> HIDE DEF a, Loads
  <2>5. (CHOOSE r \in Pods : Loads(r, a)) = p
    BY <2>3, <2>4
  <2>6. podData'[a] = PodByte(p, reading[p], (a - PodStart(p)) + 1)
    BY <1>4, <2>2, <2>3, <2>5
  <2> QED BY <2>3, <2>6 DEF a
<1>9. DOMAIN bytes = 1..length[p] /\ length[p] \in 0..POD_LENGTH
  BY <1>6, <1>7
<1>10. \A j \in DOMAIN bytes : bytes[j] = podData'[PodStart(p) + (j - 1)]
  BY <1>6, <1>8
<1> QED BY <1>7, <1>9, <1>10 DEF HeldFor

\* setMessage: what the room of the message leaves of the buffers.  Those that the
\* array ran into are counted as overrun.
LEMMA SetMessageBuffers ==
  ASSUME PodsInvariant, SetMessage
  PROVE  BufferedAsTaken'
<1> SUFFICES ASSUME NEW p \in Pods, NEW bytes \in taken'[p] PROVE HeldFor(p, bytes)'
  BY DEF BufferedAsTaken
<1> DEFINE stored == PodBytes(ClearedBytes)
<1>1. BufferTypes
  BY DEF PodsInvariant
<1>2. /\ podData' = [a \in Beyond |-> stored[a]]
      /\ podLengths' = podLengths /\ taken' = taken /\ relinked' = relinked
      /\ overrun' = overrun \cup {q \in Pods : UpdatedLength(podLengths) > PodStart(q)}
  BY DEF SetMessage
<1>3. HeldFor(p, bytes)
  BY <1>2 DEF PodsInvariant, BufferedAsTaken
<1>4. ASSUME p \notin overrun', NEW j \in DOMAIN bytes
      PROVE  podData'[PodStart(p) + (j - 1)] = podData[PodStart(p) + (j - 1)]
  <2> DEFINE a == PodStart(p) + (j - 1)
  <2>1. ~(UpdatedLength(podLengths) > PodStart(p))
    BY <1>2, <1>4
  <2>2. j \in 1..POD_LENGTH
    BY <1>3, SbdAssumption DEF HeldFor
  <2>3. a \in Beyond /\ PodStart(p) \in Nat
    BY <2>2, BuffersBeyond
  <2>4. a \in Addresses /\ ~(a < SBD_LENGTH)
    BY <2>3, SbdAssumption DEF Beyond, Addresses
  <2>5. ASSUME NEW q \in Pods PROVE a \notin Filled(q)
    <3> SUFFICES ASSUME a \in Filled(q) PROVE FALSE
      OBVIOUS
    <3>1. a < UpdatedLength(podLengths) /\ UpdatedLength(podLengths) \in Nat
      BY <1>1, FilledBelow
    <3> QED BY <2>1, <2>2, <2>3, <3>1
  <2> HIDE DEF a
  <2>6. stored[a] = ClearedBytes[a]
    BY <1>1, <2>4, <2>5, Stores
  <2>7. ClearedBytes[a] = podData[a]
    BY <2>4 DEF ClearedBytes
  <2> HIDE DEF stored
  <2>8. podData'[a] = podData[a]
    BY <1>2, <2>3, <2>6, <2>7
  <2> QED BY <2>8 DEF a
<1>5. p \notin overrun' => p \notin overrun
  BY <1>2
<1> HIDE DEF stored
<1> QED BY <1>2, <1>3, <1>4, <1>5 DEF HeldFor

\* setMessage, taken by the modem: the message says what the buffers held.
LEMMA SetMessagePods ==
  ASSUME PodsInvariant, SetMessage, ~UNCHANGED <<sent, own>>
  PROVE  PodsAsTaken'
<1> SUFFICES ASSUME NEW p \in Pods, NEW bytes \in taken'[p]
             PROVE  /\ p \notin overrun' => Agree(Found(sent', p), bytes)
                    /\ p \notin relinked' => DOMAIN Found(sent', p) = DOMAIN bytes
  BY DEF PodsAsTaken
<1>1. BufferTypes
  BY DEF PodsInvariant
<1>2. HeldFor(p, bytes) /\ relinked' = relinked /\ (p \notin overrun' => p \notin overrun)
  BY DEF SetMessage, PodsInvariant, BufferedAsTaken
<1>3. /\ Tells(sent', podLengths)
      /\ \A j \in 1..podLengths[p] : j <= POD_LENGTH =>
           Received(sent', Before(podLengths)[p] + j) = podData[PodStart(p) + (j - 1)]
  BY <1>1, TakenMessage
<1>4. podLengths \in [Pods -> Nat] /\ p \in 1..(MAXPODS + 1) /\ podLengths[p] \in Nat
  <2>1. podLengths \in [Pods -> Nat]
    BY <1>1 DEF BufferTypes
  <2>2. p \in 1..(MAXPODS + 1)
    BY SbdAssumption DEF Pods
  <2>3. podLengths[p] \in Nat
    BY <2>1
  <2> QED BY <2>1, <2>2, <2>3
<1>5. FoundAt(sent')[p] = Before(podLengths)[p]
  BY <1>3, <1>4, ReceiverFollows
<1>6. CASE podLengths[p] > 0
  <2>1. PodBit(p) \in sent'.bits /\ Received(sent', Before(podLengths)[p]) = podLengths[p]
    BY <1>3, <1>6 DEF Tells
  <2>2. Found(sent', p) = [j \in 1..podLengths[p] |-> Received(sent', Before(podLengths)[p] + j)]
    BY <1>5, <2>1 DEF Found
  <2>3. ASSUME p \notin overrun', NEW j \in DOMAIN Found(sent', p) \cap DOMAIN bytes
        PROVE  Found(sent', p)[j] = bytes[j]
    <3>1. j \in 1..podLengths[p] /\ j \in DOMAIN bytes
      BY <2>2
    <3>2. j <= POD_LENGTH
      BY <1>2, <3>1, SbdAssumption DEF HeldFor
    <3>3. bytes[j] = podData[PodStart(p) + (j - 1)]
      BY <1>2, <2>3, <3>1 DEF HeldFor
    <3> QED BY <1>3, <2>2, <3>1, <3>2, <3>3
  <2>4. p \notin relinked' => DOMAIN Found(sent', p) = DOMAIN bytes
    BY <1>2, <2>2 DEF HeldFor
  <2> QED BY <2>3, <2>4 DEF Agree
<1>7. CASE ~(podLengths[p] > 0)
  <2>1. PodBit(p) \notin sent'.bits
    BY <1>3, <1>7 DEF Tells
  <2>2. DOMAIN Found(sent', p) = {}
    BY <2>1 DEF Found
  <2>3. 1..podLengths[p] = {}
    BY <1>4, <1>7
  <2> QED BY <1>2, <2>2, <2>3 DEF HeldFor, Agree
<1> QED BY <1>6, <1>7

\* PodsInvariant is inductive.
LEMMA InitPods == Init => PodsInvariant
<1> SUFFICES ASSUME Init PROVE PodsInvariant
  OBVIOUS
<1>1. BufferTypes
  BY InitTypes
<1>2. taken = [p \in Pods |-> {}] /\ own = FALSE /\ doneLoading = FALSE
  BY DEF Init
<1> QED BY <1>1, <1>2 DEF PodsInvariant, BufferedAsTaken, PodsAsTaken

LEMMA StepPods == PodsInvariant /\ [Next]_vars => PodsInvariant'
<1> SUFFICES ASSUME PodsInvariant, [Next]_vars PROVE PodsInvariant'
  OBVIOUS
<1>1. BufferTypes'
  BY StepTypes DEF PodsInvariant
<1>2. ASSUME UNCHANGED <<podLengths, podData, doneLoading, told>>
      PROVE  PodsInvariant'
  BY <1>1, <1>2 DEF PodsInvariant, BufferedAsTaken, HeldFor, PodsAsTaken, told
<1>3. CASE Transfer
  <2>1. own' = own /\ doneLoading' = TRUE /\ ~doneLoading
    BY <1>3 DEF Transfer
  <2>2. ~own'
    BY <2>1 DEF PodsInvariant
  <2>3. BufferedAsTaken'
    BY <1>3, TransferBuffers
  <2> QED BY <1>1, <2>1, <2>2, <2>3 DEF PodsInvariant, PodsAsTaken
<1>4. CASE SetMessage
  <2>1. /\ doneLoading' = doneLoading /\ doneLoading
        /\ taken' = taken /\ relinked' = relinked /\ overrun \subseteq overrun'
    BY <1>4 DEF SetMessage
  <2>2. BufferedAsTaken'
    BY <1>4, SetMessageBuffers
  <2>3. PodsAsTaken'
    <3>1. CASE UNCHANGED <<sent, own>>
      BY <2>1, <3>1 DEF PodsInvariant, PodsAsTaken
    <3>2. CASE ~UNCHANGED <<sent, own>>
      BY <1>4, <3>2, SetMessagePods
    <3> QED BY <3>1, <3>2
  <2> QED BY <1>1, <2>1, <2>2, <2>3 DEF PodsInvariant
<1>5. CASE ReportEnds
  <2>1. taken' = [p \in Pods |-> {}] /\ own' = FALSE /\ doneLoading' = FALSE
    BY <1>5 DEF ReportEnds
  <2> QED BY <1>1, <2>1 DEF PodsInvariant, BufferedAsTaken, PodsAsTaken
<1>6. CASE PodlinkOn \/ PodlinkOff
  <2>1. /\ relinked' = relinked \cup {p \in Pods : doneLoading /\ podLengths'[p] # podLengths[p]}
        /\ UNCHANGED <<podData, doneLoading, sent, own, taken, overrun>>
    BY <1>6 DEF PodlinkOn, PodlinkOff, Podlink, flags
  <2>2. ASSUME NEW p \in Pods, NEW bytes \in taken[p] PROVE HeldFor(p, bytes)'
    <3>1. HeldFor(p, bytes) /\ doneLoading
      BY <2>2 DEF PodsInvariant, BufferedAsTaken
    <3>2. p \notin relinked' => p \notin relinked /\ podLengths'[p] = podLengths[p]
      BY <2>1, <3>1
    <3> QED BY <2>1, <3>1, <3>2 DEF HeldFor
  <2>3. BufferedAsTaken'
    BY <2>1, <2>2 DEF BufferedAsTaken
  <2>4. PodsAsTaken'
    BY <2>1 DEF PodsInvariant, PodsAsTaken
  <2> QED BY <1>1, <2>1, <2>3, <2>4 DEF PodsInvariant
<1>7. CASE UpdatePosition \/ Wait \/ NoMessage \/ Again
  BY <1>2, <1>7 DEF UpdatePosition, Wait, NoMessage, Again, buffers, flags
<1>8. CASE GpsData \/ GpsOff \/ \E p \in Pods : PodReports(p)
  BY <1>2, <1>8 DEF GpsData, GpsOff, PodReports, buffers, flags
<1>9. CASE UNCHANGED vars
  BY <1>2, <1>9 DEF vars, buffers, flags
<1> QED BY <1>3, <1>4, <1>5, <1>6, <1>7, <1>8, <1>9 DEF Next

\* A message that the modem took gives every pod the bytes taken from it for this
\* report, as far as there are both, and as many of them unless a command changed
\* their number; for any lengths from 0 to 255, and whatever the pods have sent and
\* the commands have linked in between.  Pod numbers from 1 to MAXPODS only.
THEOREM PodsAreAsTaken == Spec => []PodsAsTaken
<1>1. PodsInvariant => PodsAsTaken
  BY DEF PodsInvariant
<1> QED BY <1>1, InitPods, StepPods, PTL DEF Spec
=============================================================================
