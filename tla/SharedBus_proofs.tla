--------------------------- MODULE SharedBus_proofs ---------------------------
(***************************************************************************)
(* Proofs about SharedBus, for any number of threads and any memory.  A    *)
(* thread inside an operation of the bridge holds the lock, so no other    *)
(* thread can do anything but fail the check of an address (LockedOut).    *)
(* The FRAM is read without the lock: there the argument is about what the *)
(* next byte on the wire is to the FRAM, and needs that only one thread    *)
(* uses it (OneReader).                                                    *)
(***************************************************************************)
EXTENDS SharedBus, SequenceTheorems, TLAPS

\* Where a thread holds the lock.
Locked == {"answer", "unlock", "sendByte", "sendEnd", "recvByte"}

\* Where a thread reads the FRAM, and where it has the address still to send.
Reading    == {"addressWrite", "high", "low", "restart", "addressRead", "byte",
               "stop"}
Addressing == {"addressWrite", "high", "low", "restart"}

LockIsHeld ==
  /\ owner = none <=> depth = 0
  /\ \A t \in Threads : pc[t] \in Locked => owner = t

JobsFit ==
  \A t \in Threads :
    /\ pc[t] \in Reading => t \in FramThreads
    /\ pc[t] \in Addressing => job[t].addr # none
    /\ pc[t] = "sendByte" => count[t] < job[t].len

QuestionStands ==
  \A t \in Threads : pc[t] = "answer" => pointer = job[t].op

SentInOrder ==
  \A t \in Threads :
    /\ pc[t] = "sendByte" => arrived = [i \in 1..count[t] |-> <<t, i>>]
    /\ pc[t] = "sendEnd" /\ Succeeded(t) =>
         arrived = [i \in 1..job[t].len |-> <<t, i>>]

(***************************************************************************)
(* The inductive invariant for any threads.                                *)
(***************************************************************************)
LockInvariant ==
  /\ TypeOK /\ LockIsHeld /\ JobsFit /\ QuestionStands /\ SentInOrder
  /\ AnswerIsToTheQuestion

(***************************************************************************)
(* The FRAM is the business of one thread at most.                         *)
(***************************************************************************)
OneReader == \A t, u \in FramThreads : t = u

\* What the next byte is to the FRAM, unless another driver has stopped the
\* transfer since the last call of the reader.
Expects(place) ==
  CASE place \in {"addressWrite", "addressRead"} -> "start"
    [] place = "high"    -> "high"
    [] place = "low"     -> "low"
    [] place = "restart" -> "data"
    [] place = "byte"    -> "out"
    [] OTHER             -> "idle"

BusAsExpected ==
  \A t \in FramThreads : bus \in {"idle", "bridge", Expects(pc[t])}

\* The cell a read was asked to begin at.
First(t) == <<Masked(job[t].addr[1]), job[t].addr[2]>>

CellsRead(t, n) == [k \in 1..n |-> memory[CellAt(First(t), k - 1)]]

OnCourse(t) ==
  /\ pc[t] \notin Reading /\ next # none => latch = next
  /\ pc[t] \in Reading =>
       /\ job[t].len \in 1..MaxLen
       /\ pc[t] \notin {"byte", "stop"} => data[t] = <<>>
  /\ pc[t] \in Reading /\ job[t].addr # none =>
       /\ (pc[t] = "stop" => Succeeded(t)) /\ job[t].addr[1] > MaxHigh =>
            job[t].op = "read_int16"
       /\ pc[t] = "low" => latch[1] = First(t)[1]
       /\ pc[t] \in {"restart", "addressRead"} => latch = First(t)
       /\ pc[t] = "byte" /\ Succeeded(t) /\ ~torn[t] =>
            /\ bus = "out" /\ Len(data[t]) < job[t].len
            /\ data[t] = CellsRead(t, Len(data[t]))
            /\ latch = CellAt(First(t), Len(data[t]))
       /\ pc[t] = "stop" /\ Succeeded(t) /\ ~torn[t] =>
            /\ data[t] = CellsRead(t, job[t].len)
            /\ latch = CellAt(First(t), job[t].len)

ReadOnCourse == \A t \in FramThreads : OnCourse(t)

(***************************************************************************)
(* The inductive invariant if one thread uses the FRAM.                    *)
(***************************************************************************)
ReaderInvariant == LockInvariant /\ BusAsExpected /\ ReadOnCourse

----------------------------------------------------------------------------
\* Every cell is within the memory, whatever address was sent.
LEMMA CellsWithin ==
  /\ \A b \in Byte : Masked(b) \in 0..MaxHigh
  /\ \A a \in Cells, k \in 0..MaxByte : CellAt(a, k) \in Cells
  /\ \A a \in Byte \X Byte, k \in 0..MaxByte :
       a[1] <= MaxHigh => CellAt(a, k) \in Cells
BY BusAssumption DEF Masked, CellAt, Cells, Byte, MaxByte

\* Cell by cell is the same as all at once.
LEMMA CellsFollow ==
  ASSUME NEW a \in Cells, NEW k \in 0..(MaxByte - 1)
  PROVE  CellAt(CellAt(a, k), 1) = CellAt(a, k + 1)
BY BusAssumption DEF CellAt, Cells, Byte, MaxByte

\* What the FRAM does with a byte keeps its types.
LEMMA OutcomesFit ==
  ASSUME TypeOK, NEW b \in Byte, NEW o \in Outcomes(b)
  PROVE  /\ o.bus \in {"idle", "start", "high", "low", "data", "out", "bridge"}
         /\ o.latch \in Cells /\ o.memory \in [Cells -> Byte] /\ o.ack \in {0, 1}
<1>1. /\ latch \in Cells /\ latch[1] \in 0..MaxHigh /\ latch[2] \in Byte
      /\ memory \in [Cells -> Byte] /\ 1 \in 0..MaxByte
  BY BusAssumption DEF TypeOK, Cells, MaxByte
<1>2. /\ CellAt(latch, 1) \in Cells
      /\ <<Masked(b), latch[2]>> \in Cells /\ <<latch[1], b>> \in Cells
  BY <1>1, CellsWithin DEF Cells
<1>3. [memory EXCEPT ![latch] = b] \in [Cells -> Byte]
  BY <1>1
<1> QED
  BY <1>1, <1>2, <1>3 DEF Outcomes, OnWire, Heard, Unheard


----------------------------------------------------------------------------
\* Being disturbed or not keeps its type.
LEMMA DisturbedFits ==
  ASSUME NEW t \in Threads, Disturb(t) \/ DisturbOthers(t), TypeOK
  PROVE  torn' \in [Threads -> BOOLEAN]
BY DEF Disturb, DisturbOthers, Disturbed, TypeOK

\* The lock is taken or given back within its bounds.
LEMMA LockFits ==
  ASSUME TypeOK, LockIsHeld, NEW t \in Threads,
         \/ Acquire(t) /\ depth <= MaxDepth
         \/ Release(t) /\ pc[t] \in Locked
  PROVE  owner' \in Threads \cup {none} /\ depth' \in 0..(MaxDepth + 1)
<1>1. MaxDepth \in Nat /\ none \notin Threads
  BY BusAssumption
<1> QED
  BY <1>1 DEF TypeOK, LockIsHeld, Acquire, Release

\* The jobs a thread is given are jobs.
LEMMA JobsAreJobs ==
  /\ NoJob \in Jobs
  /\ \A op \in AddressedReads \cup CurrentReads \cup Registers \cup {"send", "recv"},
        a \in (Byte \X Byte) \cup {none}, n \in 0..MaxLen :
       [op |-> op, addr |-> a, len |-> n] \in Jobs
  /\ \A op \in AddressedReads \cup CurrentReads :
       /\ Lengths(op) \subseteq 0..MaxLen
       /\ \A a \in Asked, n \in Lengths(op) : [op |-> op, addr |-> a, len |-> n] \in Jobs
<1>1. MaxLen \in Nat /\ Asked \subseteq Byte \X Byte
  BY BusAssumption DEF MaxByte
<1> QED
  BY <1>1 DEF NoJob, Jobs, Lengths

\* Nothing is a sequence of what is read.
LEMMA NothingRead == <<>> \in Seq(Byte \cup Registers \cup {none})
OBVIOUS

\* The calls of the FRAM driver keep the types.
LEMMA ReadTypes ==
  ASSUME LockInvariant, NEW t \in Threads,
         \/ ReadAt(t) \/ ReadNowhere(t) \/ ReadHere(t) \/ AddressWrite(t) \/ High(t)
         \/ Low(t) \/ Restart(t) \/ AddressRead(t) \/ ReadByte(t) \/ Stop(t)
  PROVE  TypeOK'
<1> USE DEF lockVars, fram, bridge, threadVars, observers, Goto
<1>a. TypeOK /\ JobsFit
  BY DEF LockInvariant
<1>b. ASSUME ReadAt(t) PROVE TypeOK'
  <2>1. PICK op \in AddressedReads, a \in Asked : \E n \in Lengths(op) :
          NewJob(t, op, a, n)
    BY <1>b DEF ReadAt
  <2>2. job' \in [Threads -> Jobs]
    BY <1>a, <2>1, JobsAreJobs DEF NewJob, TypeOK
  <2>3. data' \in [Threads -> Seq(Byte \cup Registers \cup {none})]
    BY <1>a, <2>1, NothingRead DEF NewJob, TypeOK
  <2> QED
    BY <1>a, <1>b, <2>2, <2>3, DisturbedFits DEF TypeOK, ReadAt, Places
<1>c. ASSUME ReadNowhere(t) PROVE TypeOK'
  <2>1. PICK op \in AddressedReads, a \in Asked : \E n \in Lengths(op) :
          NewJob(t, op, a, n)
    BY <1>c DEF ReadNowhere
  <2>2. job' \in [Threads -> Jobs]
    BY <1>a, <2>1, JobsAreJobs DEF NewJob, TypeOK
  <2>3. data' \in [Threads -> Seq(Byte \cup Registers \cup {none})]
    BY <1>a, <2>1, NothingRead DEF NewJob, TypeOK
  <2> QED
    BY <1>a, <1>c, <2>2, <2>3 DEF TypeOK, ReadNowhere, Places
<1>d. ASSUME ReadHere(t) PROVE TypeOK'
  <2>0. PICK op \in CurrentReads : \E n \in Lengths(op) : NewJob(t, op, next, n)
    BY <1>d DEF ReadHere
  <2>1. PICK n \in Lengths(op) : NewJob(t, op, next, n)
    BY <2>0
  <2>2. next \in (Byte \X Byte) \cup {none}
    BY <1>a, BusAssumption DEF TypeOK, Cells, Byte, MaxByte
  <2>3. n \in 0..MaxLen
    BY <2>1, JobsAreJobs
  <2>4. job' \in [Threads -> Jobs]
    BY <1>a, <2>1, <2>2, <2>3, JobsAreJobs DEF NewJob, TypeOK
  <2>5. data' \in [Threads -> Seq(Byte \cup Registers \cup {none})]
    BY <1>a, <2>1, NothingRead DEF NewJob, TypeOK
  <2> QED
    BY <1>a, <1>d, <2>4, <2>5, DisturbedFits DEF TypeOK, ReadHere, Places
<1>e. ASSUME NEW b \in Byte, NEW place \in Places, WriteByte(t, b, place) PROVE TypeOK'
  <2>1. /\ bus' \in {"idle", "start", "high", "low", "data", "out", "bridge"}
        /\ latch' \in Cells /\ memory' \in [Cells -> Byte]
        /\ ack' \in [Threads -> {0, 1, 3}]
    BY <1>a, <1>e, OutcomesFit DEF TypeOK, WriteByte
  <2>2. pc' \in [Threads -> Places]
    BY <1>a, <1>e DEF TypeOK, WriteByte, Places
  <2> QED
    BY <1>a, <1>e, <2>1, <2>2, DisturbedFits DEF TypeOK, WriteByte
<1>f. FramWrite \in Byte /\ FramRead \in Byte
  BY BusAssumption
<1>g. pc[t] \in Addressing => job[t].addr \in Byte \X Byte
  BY <1>a DEF TypeOK, JobsFit, Jobs
<1>h. ASSUME AddressWrite(t) PROVE TypeOK'
  BY <1>e, <1>f, <1>h DEF AddressWrite, Places
<1>i. ASSUME High(t) PROVE TypeOK'
  BY <1>e, <1>g, <1>i DEF High, Addressing, Places
<1>j. ASSUME Low(t) PROVE TypeOK'
  BY <1>e, <1>g, <1>j DEF Low, Addressing, Places
<1>k. ASSUME Restart(t) PROVE TypeOK'
  BY <1>a, <1>k, DisturbedFits DEF TypeOK, Restart, Places
<1>l. ASSUME AddressRead(t) PROVE TypeOK'
  BY <1>a, <1>f, <1>l, OutcomesFit, DisturbedFits DEF TypeOK, AddressRead, Places
<1>m. ASSUME ReadByte(t) PROVE TypeOK'
  <2>1. 1 \in 0..MaxByte
    BY BusAssumption DEF MaxByte
  <2>2. CellAt(latch, 1) \in Cells /\ memory[latch] \in Byte
    BY <1>a, <2>1, CellsWithin DEF TypeOK
  <2>3. PICK b \in Byte : data' = [data EXCEPT ![t] = Append(@, b)]
    BY <1>m, <2>2 DEF ReadByte
  <2>4. data' \in [Threads -> Seq(Byte \cup Registers \cup {none})]
    BY <1>a, <2>3 DEF TypeOK
  <2> QED
    BY <1>a, <1>m, <2>2, <2>4, DisturbedFits DEF TypeOK, ReadByte, Places
<1>n. ASSUME Stop(t) PROVE TypeOK'
  <2>1. next' \in Cells \cup {none}
    <3>1. SUFFICES ASSUME job[t].addr # none
                   PROVE  CellAt(<<Masked(job[t].addr[1]), job[t].addr[2]>>, job[t].len)
                            \in Cells
      BY <1>n DEF Stop
    <3>2. job[t].addr \in Byte \X Byte /\ job[t].len \in 0..MaxLen
      BY <1>a, <3>1 DEF TypeOK, Jobs
    <3>3. job[t].len \in 0..MaxByte
      BY <3>2, BusAssumption DEF MaxByte
    <3> QED
      BY <3>2, <3>3, CellsWithin DEF Cells
  <2> QED
    BY <1>a, <1>n, <2>1, JobsAreJobs, NothingRead, DisturbedFits DEF TypeOK, Stop, Places
<1> QED
  BY <1>b, <1>c, <1>d, <1>h, <1>i, <1>j, <1>k, <1>l, <1>m, <1>n

\* A write keeps the types, also one that goes past the last cell.
LEMMA WriteTypes ==
  ASSUME LockInvariant, NEW t \in Threads, Write(t)
  PROVE  TypeOK'
<1>1. TypeOK
  BY DEF LockInvariant
<1>2. PICK a \in Asked, n \in 1..MaxLen :
        /\ a[1] <= MaxHigh
        /\ \E bytes \in [1..n -> Data] :
             \/ /\ memory' = Stored(a, bytes)
                /\ latch' = CellAt(a, n) /\ next' = CellAt(a, n)
             \/ next' = none /\ UNCHANGED fram
  BY DEF Write
<1>3. CellAt(a, n) \in Cells
  <2>1. a \in Byte \X Byte /\ n \in 0..MaxByte
    BY BusAssumption DEF MaxByte
  <2> QED BY <1>2, <2>1, CellsWithin
<1>4. ASSUME NEW bytes \in [1..n -> Data] PROVE Stored(a, bytes) \in [Cells -> Byte]
  <2>1. SUFFICES ASSUME NEW c \in Cells,
                        \E k \in DOMAIN bytes : CellAt(a, k - 1) = c
                 PROVE  bytes[CHOOSE k \in DOMAIN bytes : CellAt(a, k - 1) = c] \in Byte
    BY <1>1 DEF Stored, TypeOK
  <2>2. (CHOOSE k \in DOMAIN bytes : CellAt(a, k - 1) = c) \in DOMAIN bytes
    BY <2>1
  <2> QED
    BY <2>2, BusAssumption
<1>5. latch' \in Cells /\ memory' \in [Cells -> Byte] /\ next' \in Cells \cup {none}
  BY <1>1, <1>2, <1>3, <1>4 DEF TypeOK, fram
<1>6. torn' \in [Threads -> BOOLEAN]
  BY <1>1, DisturbedFits DEF Write
<1> QED
  BY <1>1, <1>5, <1>6 DEF TypeOK, Write, lockVars, bridge, threadVars

\* The calls of the bridge driver keep the types.
LEMMA BridgeTypes ==
  ASSUME LockInvariant, NEW t \in Threads,
         \/ Configure(t) \/ Ask(t) \/ Answer(t) \/ Unlock(t)
         \/ SendBegin(t) \/ SendByte(t) \/ SendEnd(t) \/ RecvBegin(t) \/ RecvByte(t)
  PROVE  TypeOK'
<1> USE DEF lockVars, fram, bridge, threadVars, observers, Goto
<1>a. TypeOK /\ LockIsHeld /\ JobsFit
  BY DEF LockInvariant
<1>b. MaxLen \in Nat /\ TxSize \in Nat \ {0} /\ MaxDepth \in Nat \ {0}
  BY BusAssumption DEF MaxByte
<1>j1. /\ job \in [Threads -> Jobs] /\ count \in [Threads -> 0..MaxLen]
       /\ NoJob \in Jobs /\ 0 \in 0..MaxLen
  BY <1>a, <1>b, JobsAreJobs DEF TypeOK
<1>j2. /\ ack \in [Threads -> {0, 1, 3}] /\ arrived \in Seq(Threads \X (1..MaxLen))
       /\ tx \in 0..TxSize
  BY <1>a DEF TypeOK
<1>j3. <<>> \in Seq(Threads \X (1..MaxLen))
  OBVIOUS
<1>c. ASSUME Configure(t) PROVE TypeOK'
  <2>1. tx' \in 0..TxSize
    BY <1>a, <1>b, <1>c DEF TypeOK, Configure
  <2> QED
    BY <1>a, <1>c, <2>1, DisturbedFits DEF TypeOK, Configure
<1>d. ASSUME Ask(t) PROVE TypeOK'
  <2>1. job' \in [Threads -> Jobs]
    <3>1. PICK r \in Registers :
            job' = [job EXCEPT ![t] = [op |-> r, addr |-> none, len |-> 0]]
      BY <1>d DEF Ask
    <3>2. [op |-> r, addr |-> none, len |-> 0] \in Jobs
      BY <1>b DEF Jobs
    <3> QED
      BY <1>j1, <3>1, <3>2
  <2>2. /\ pointer' \in Registers \cup {none} /\ ack' \in [Threads -> {0, 1, 3}]
        /\ bus' \in {"idle", "bridge"}
    BY <1>a, <1>d DEF TypeOK, Ask
  <2>3. pc' \in [Threads -> Places]
    BY <1>a, <1>d DEF TypeOK, Ask, Places
  <2>4. owner' \in Threads \cup {none} /\ depth' \in 0..(MaxDepth + 1)
    BY <1>a, <1>d, LockFits DEF Ask
  <2> QED
    BY <1>a, <1>d, <2>1, <2>2, <2>3, <2>4, DisturbedFits DEF TypeOK, Ask
<1>e. ASSUME Answer(t) PROVE TypeOK'
  <2>1. <<pointer>> \in Seq(Byte \cup Registers \cup {none})
    BY <1>a DEF TypeOK
  <2>2. /\ data' \in [Threads -> Seq(Byte \cup Registers \cup {none})]
        /\ ack' \in [Threads -> {0, 1, 3}]
    BY <1>a, <1>e, <2>1, NothingRead DEF TypeOK, Answer
  <2>3. pc' \in [Threads -> Places]
    BY <1>a, <1>e DEF TypeOK, Answer, Places
  <2> QED
    BY <1>a, <1>e, <2>2, <2>3, DisturbedFits DEF TypeOK, Answer
<1>f. ASSUME Unlock(t) PROVE TypeOK'
  <2>1. owner' \in Threads \cup {none} /\ depth' \in 0..(MaxDepth + 1)
    BY <1>a, <1>f, LockFits DEF Unlock, Locked
  <2> QED
    BY <1>a, <1>f, <2>1, JobsAreJobs, NothingRead DEF TypeOK, Unlock, Places
<1>g. ASSUME SendBegin(t) PROVE TypeOK'
  <2>1. job' \in [Threads -> Jobs] /\ count' \in [Threads -> 0..MaxLen]
    <3>1. PICK n \in 1..MaxLen :
            /\ job' = [job EXCEPT ![t] = [op |-> "send", addr |-> none, len |-> n]]
            /\ count' = [count EXCEPT ![t] = 0]
      BY <1>g DEF SendBegin
    <3>2. [op |-> "send", addr |-> none, len |-> n] \in Jobs
      BY <1>b DEF Jobs
    <3> QED
      BY <1>j1, <3>1, <3>2
  <2>2. /\ arrived' \in {arrived, <<>>} /\ bus' \in {"idle", "bridge"}
        /\ ack' \in {[ack EXCEPT ![t] = 0], [ack EXCEPT ![t] = 1]}
    BY <1>g DEF SendBegin
  <2>5. arrived' \in Seq(Threads \X (1..MaxLen)) /\ ack' \in [Threads -> {0, 1, 3}]
    BY <1>j2, <1>j3, <2>2
  <2>3. pc' \in [Threads -> Places]
    BY <1>a, <1>g DEF TypeOK, SendBegin, Places
  <2>4. owner' \in Threads \cup {none} /\ depth' \in 0..(MaxDepth + 1)
    BY <1>a, <1>g, LockFits DEF SendBegin
  <2> QED
    BY <1>a, <1>g, <2>1, <2>2, <2>3, <2>4, <2>5, DisturbedFits DEF TypeOK, SendBegin
<1>h. ASSUME SendByte(t) PROVE TypeOK'
  <2>1. count[t] \in 0..MaxLen /\ count[t] + 1 \in 1..MaxLen
    BY <1>a, <1>b, <1>h DEF TypeOK, JobsFit, Jobs, SendByte
  <2>2. Append(arrived, <<t, count[t] + 1>>) \in Seq(Threads \X (1..MaxLen))
    BY <1>a, <2>1 DEF TypeOK
  <2>3. /\ arrived' \in Seq(Threads \X (1..MaxLen)) /\ tx' \in 0..TxSize
    <3>1. \/ arrived' = Append(arrived, <<t, count[t] + 1>>) /\ tx < TxSize /\ tx' = tx + 1
          \/ UNCHANGED <<tx, arrived>>
      BY <1>h DEF SendByte
    <3>2. arrived' \in Seq(Threads \X (1..MaxLen))
      BY <1>j2, <2>2, <3>1
    <3>3. tx' \in 0..TxSize
      BY <1>b, <1>j2, <3>1
    <3> QED
      BY <3>2, <3>3
  <2>4. count' \in [Threads -> 0..MaxLen] /\ ack' \in [Threads -> {0, 1, 3}]
    BY <1>a, <1>b, <1>h, <2>1 DEF TypeOK, SendByte, Advance
  <2>5. pc' \in [Threads -> Places]
    BY <1>a, <1>h DEF TypeOK, SendByte, Places
  <2> QED
    BY <1>a, <1>h, <2>3, <2>4, <2>5, DisturbedFits DEF TypeOK, SendByte
<1>i. ASSUME SendEnd(t) PROVE TypeOK'
  <2>1. owner' \in Threads \cup {none} /\ depth' \in 0..(MaxDepth + 1)
    BY <1>a, <1>i, LockFits DEF SendEnd, Locked
  <2>2. /\ job' \in [Threads -> Jobs] /\ count' \in [Threads -> 0..MaxLen]
        /\ arrived' \in Seq(Threads \X (1..MaxLen)) /\ ack' \in [Threads -> {0, 1, 3}]
    BY <1>a, <1>b, <1>i, JobsAreJobs DEF TypeOK, SendEnd
  <2> QED
    BY <1>a, <1>i, <2>1, <2>2, DisturbedFits DEF TypeOK, SendEnd, Places
<1>j. ASSUME RecvBegin(t) PROVE TypeOK'
  <2>1. job' \in [Threads -> Jobs]
    <3>1. \/ job' = job
          \/ \E n \in 1..MaxLen :
               job' = [job EXCEPT ![t] = [op |-> "recv", addr |-> none, len |-> n]]
      BY <1>j DEF RecvBegin
    <3>2. \A n \in 1..MaxLen : [op |-> "recv", addr |-> none, len |-> n] \in Jobs
      BY <1>b DEF Jobs
    <3> QED
      BY <1>j1, <3>1, <3>2
  <2>2. pc' \in [Threads -> Places] /\ bus' \in {"idle", "bridge"}
    BY <1>a, <1>j DEF TypeOK, RecvBegin, Places
  <2>3. depth <= MaxDepth
    BY <1>a, <1>b, <1>j DEF TypeOK, RecvBegin
  <2>4. owner' \in Threads \cup {none} /\ depth' \in 0..(MaxDepth + 1)
    BY <1>a, <1>j, <2>3, LockFits DEF RecvBegin
  <2> QED
    BY <1>a, <1>j, <2>1, <2>2, <2>4, DisturbedFits DEF TypeOK, RecvBegin
<1>k. ASSUME RecvByte(t) PROVE TypeOK'
  <2>1. /\ count' \in [Threads -> 0..MaxLen] /\ job' \in [Threads -> Jobs]
    <3>1. count[t] \in 0..MaxLen /\ job[t].len \in 0..MaxLen
      BY <1>a DEF TypeOK, Jobs
    <3>2. \/ count' = [count EXCEPT ![t] = 0] /\ job' = [job EXCEPT ![t] = NoJob]
          \/ /\ count[t] + 1 < job[t].len /\ job' = job
             /\ count' = [count EXCEPT ![t] = count[t] + 1]
      BY <1>a, <1>k DEF RecvByte, TypeOK
    <3>3. job' \in [Threads -> Jobs]
      BY <1>j1, <3>2
    <3>4. count[t] + 1 < job[t].len => count[t] + 1 \in 0..MaxLen
      BY <1>b, <3>1
    <3>5. count' \in [Threads -> 0..MaxLen]
      BY <1>j1, <3>2, <3>4
    <3> QED
      BY <3>3, <3>5
  <2>2. pc' \in [Threads -> Places]
    BY <1>a, <1>k DEF TypeOK, RecvByte, Places
  <2> QED
    BY <1>a, <1>k, <2>1, <2>2, DisturbedFits DEF TypeOK, RecvByte
<1> QED
  BY <1>c, <1>d, <1>e, <1>f, <1>g, <1>h, <1>i, <1>j, <1>k

----------------------------------------------------------------------------
\* A call of a thread changes the locals of no other thread.
LEMMA OthersKeep ==
  ASSUME TypeOK, NEW t \in Threads, Begin(t) \/ Proceed(t), NEW u \in Threads, u # t
  PROVE  /\ pc'[u] = pc[u] /\ job'[u] = job[u] /\ ack'[u] = ack[u]
         /\ data'[u] = data[u] /\ count'[u] = count[u]
<1> USE DEF Goto, threadVars
<1>1. /\ DOMAIN pc = Threads /\ DOMAIN job = Threads /\ DOMAIN ack = Threads
      /\ DOMAIN data = Threads /\ DOMAIN count = Threads
  BY DEF TypeOK
<1>2. CASE Begin(t)
  BY <1>1, <1>2 DEF Begin, ReadAt, ReadNowhere, ReadHere, NewJob, Write, Configure, Ask,
     SendBegin, RecvBegin
<1>3. CASE Proceed(t)
  <2>1. CASE AddressWrite(t) \/ High(t) \/ Low(t) \/ Restart(t) \/ AddressRead(t)
    BY <1>1, <2>1 DEF AddressWrite, High, Low, WriteByte, Restart, AddressRead
  <2>2. CASE ReadByte(t) \/ Stop(t) \/ Answer(t) \/ Unlock(t)
    BY <1>1, <2>2 DEF ReadByte, Stop, Answer, Unlock
  <2>3. CASE SendByte(t) \/ SendEnd(t) \/ RecvByte(t)
    BY <1>1, <2>3 DEF SendByte, SendEnd, RecvByte
  <2> QED
    BY <1>3, <2>1, <2>2, <2>3 DEF Proceed
<1> QED
  BY <1>2, <1>3

\* While a thread holds the lock inside an operation of the bridge, another can
\* do no more than fail the check of an address.
LEMMA LockedOut ==
  ASSUME TypeOK, LockIsHeld, NEW u \in Threads, pc[u] \in Locked,
         NEW t \in Threads, t # u, Begin(t) \/ Proceed(t)
  PROVE  UNCHANGED <<lockVars, bus, fram, bridge>>
<1>1. owner = u /\ u # none
  BY BusAssumption DEF LockIsHeld
<1>2. ~Free(t)
  BY <1>1 DEF Free
<1>3. pc[t] \notin Locked
  BY <1>1 DEF LockIsHeld
<1>4. CASE Begin(t)
  BY <1>2, <1>4 DEF Begin, ReadAt, ReadNowhere, ReadHere, Write, Configure, Ask, SendBegin,
     RecvBegin, Acquire
<1>5. CASE Proceed(t)
  BY <1>2, <1>3, <1>5 DEF Proceed, AddressWrite, High, Low, WriteByte, Restart, AddressRead,
     ReadByte, Stop, Answer, Unlock, SendByte, SendEnd, RecvByte, Locked
<1> QED
  BY <1>4, <1>5


\* What a call does to the lock, and to the place of its thread.
LEMMA LockSteps ==
  ASSUME TypeOK, NEW t \in Threads, Begin(t) \/ Proceed(t)
  PROVE  \/ UNCHANGED lockVars /\ (pc'[t] \in Locked => pc[t] \in Locked)
         \/ Acquire(t)
         \/ Release(t) /\ pc[t] \in Locked /\ pc'[t] = "idle"
<1> USE DEF Goto, threadVars
<1>1. DOMAIN pc = Threads
  BY DEF TypeOK
<1>2. CASE Begin(t)
  BY <1>1, <1>2 DEF Begin, ReadAt, ReadNowhere, ReadHere, Write, Configure, Ask, SendBegin,
     RecvBegin, Locked
<1>3. CASE Proceed(t)
  <2>1. CASE AddressWrite(t) \/ High(t) \/ Low(t) \/ Restart(t) \/ AddressRead(t)
    BY <1>1, <2>1 DEF AddressWrite, High, Low, WriteByte, Restart, AddressRead, Locked
  <2>2. CASE ReadByte(t) \/ Stop(t) \/ Answer(t) \/ Unlock(t)
    BY <1>1, <2>2 DEF ReadByte, Stop, Answer, Unlock, Locked
  <2>3. CASE SendByte(t) \/ SendEnd(t) \/ RecvByte(t)
    BY <1>1, <2>3 DEF SendByte, SendEnd, RecvByte, Locked
  <2> QED
    BY <1>3, <2>1, <2>2, <2>3 DEF Proceed
<1> QED
  BY <1>2, <1>3

\* The lock stays with the thread inside an operation of the bridge.
LEMMA LockKept ==
  ASSUME LockInvariant, NEW t \in Threads, Begin(t) \/ Proceed(t)
  PROVE  LockIsHeld'
<1>1. TypeOK /\ LockIsHeld
  BY DEF LockInvariant
<1>2. none \notin Threads /\ depth \in Nat
  BY <1>1, BusAssumption DEF TypeOK
<1>3. owner' = none <=> depth' = 0
  BY <1>1, <1>2, LockSteps DEF LockIsHeld, Acquire, Release, lockVars
<1>4. ASSUME NEW u \in Threads, pc'[u] \in Locked PROVE owner' = u
  <2>1. CASE u = t
    BY <1>1, <1>4, <2>1, LockSteps DEF LockIsHeld, Acquire, Locked, lockVars
  <2>2. CASE u # t
    <3>1. pc[u] \in Locked
      BY <1>1, <1>4, <2>2, OthersKeep
    <3>2. UNCHANGED lockVars
      BY <1>1, <2>2, <3>1, LockedOut
    <3> QED
      BY <1>1, <3>1, <3>2 DEF LockIsHeld, lockVars
  <2> QED
    BY <2>1, <2>2
<1> QED
  BY <1>3, <1>4 DEF LockIsHeld

\* What a thread is to do fits where it is.
LEMMA JobsKept ==
  ASSUME LockInvariant, NEW t \in Threads, Begin(t) \/ Proceed(t)
  PROVE  JobsFit'
<1> USE DEF Goto, threadVars
<1>1. TypeOK /\ JobsFit
  BY DEF LockInvariant
<1>2. /\ DOMAIN pc = Threads /\ DOMAIN job = Threads /\ DOMAIN count = Threads
  BY <1>1 DEF TypeOK
<1>3. /\ pc'[t] \in Reading => t \in FramThreads
      /\ pc'[t] \in Addressing => job'[t].addr # none
      /\ pc'[t] = "sendByte" => count'[t] < job'[t].len
  <2>1. CASE ReadAt(t) \/ ReadNowhere(t) \/ ReadHere(t)
    <3>1. \A a \in Asked : a # none
      BY BusAssumption
    <3>2. CASE ReadAt(t)
      <4>1. \E op \in AddressedReads, a \in Asked : \E n \in Lengths(op) : NewJob(t, op, a, n)
        BY <3>2 DEF ReadAt
      <4>2. job'[t].addr # none
        BY <1>2, <3>1, <4>1 DEF NewJob
      <4> QED
        BY <1>2, <3>2, <4>2 DEF ReadAt
    <3> QED
      BY <1>2, <2>1, <3>2 DEF ReadNowhere, ReadHere, Reading, Addressing
  <2>2. CASE Write(t) \/ Configure(t) \/ Ask(t) \/ RecvBegin(t)
    BY <1>2, <2>2 DEF Write, Configure, Ask, RecvBegin, Reading, Addressing
  <2>3. CASE SendBegin(t)
    <3>1. PICK n \in 1..MaxLen :
            /\ job' = [job EXCEPT ![t] = [op |-> "send", addr |-> none, len |-> n]]
            /\ count' = [count EXCEPT ![t] = 0] /\ pc[t] = "idle"
            /\ \/ pc' = [pc EXCEPT ![t] = "sendByte"]
               \/ pc' = [pc EXCEPT ![t] = "sendEnd"]
      BY <2>3 DEF SendBegin
    <3>2. n > 0
      OBVIOUS
    <3> QED
      BY <1>2, <3>1, <3>2 DEF Reading, Addressing
  <2>4. CASE AddressWrite(t) \/ High(t) \/ Low(t)
    BY <1>1, <1>2, <2>4 DEF AddressWrite, High, Low, WriteByte, JobsFit, Reading, Addressing
  <2>5. CASE Restart(t) \/ AddressRead(t) \/ ReadByte(t) \/ Stop(t)
    BY <1>1, <1>2, <2>5 DEF Restart, AddressRead, ReadByte, Stop, JobsFit, Reading, Addressing
  <2>6. CASE Answer(t) \/ Unlock(t) \/ SendEnd(t) \/ RecvByte(t)
    BY <1>1, <1>2, <2>6 DEF Answer, Unlock, SendEnd, RecvByte, Reading, Addressing
  <2>7. CASE SendByte(t)
    BY <1>1, <1>2, <2>7 DEF SendByte, Reading, Addressing
  <2> QED
    BY <2>1, <2>2, <2>3, <2>4, <2>5, <2>6, <2>7 DEF Begin, Proceed
<1>4. ASSUME NEW u \in Threads, u # t
      PROVE  /\ pc'[u] \in Reading => u \in FramThreads
             /\ pc'[u] \in Addressing => job'[u].addr # none
             /\ pc'[u] = "sendByte" => count'[u] < job'[u].len
  BY <1>1, <1>4, OthersKeep DEF JobsFit
<1> QED
  BY <1>3, <1>4 DEF JobsFit

\* Only Ask and Answer, of all calls, lead to where a query is answered.
LEMMA QueriesKept ==
  ASSUME LockInvariant, NEW t \in Threads, Begin(t) \/ Proceed(t)
  PROVE  QuestionStands' /\ AnswerIsToTheQuestion'
<1> USE DEF Goto, threadVars
<1>1. TypeOK /\ LockIsHeld /\ QuestionStands /\ AnswerIsToTheQuestion
  BY DEF LockInvariant
<1>2. /\ DOMAIN pc = Threads /\ DOMAIN job = Threads /\ DOMAIN ack = Threads
      /\ DOMAIN data = Threads
  BY <1>1 DEF TypeOK
<1>3. /\ pc'[t] = "answer" => pointer' = job'[t].op
      /\ pc'[t] = "unlock" /\ ack'[t] = 1 =>
           \/ data'[t] = <<job'[t].op>>
           \/ data'[t] = <<>> /\ job'[t].op = status
  <2>1. CASE Ask(t)
    BY <1>2, <2>1 DEF Ask
  <2>2. CASE Answer(t)
    BY <1>1, <1>2, <2>2 DEF Answer, QuestionStands
  <2>3. CASE /\ Begin(t) /\ ~Ask(t)
    BY <1>2, <2>3 DEF Begin, ReadAt, ReadNowhere, ReadHere, Write, Configure, SendBegin,
       RecvBegin
  <2>4. CASE AddressWrite(t) \/ High(t) \/ Low(t) \/ Restart(t) \/ AddressRead(t)
    BY <1>2, <2>4 DEF AddressWrite, High, Low, WriteByte, Restart, AddressRead
  <2>5. CASE ReadByte(t) \/ Stop(t) \/ Unlock(t)
    BY <1>2, <2>5 DEF ReadByte, Stop, Unlock
  <2>6. CASE SendByte(t) \/ SendEnd(t) \/ RecvByte(t)
    BY <1>2, <2>6 DEF SendByte, SendEnd, RecvByte
  <2> QED
    BY <2>1, <2>2, <2>3, <2>4, <2>5, <2>6 DEF Proceed
<1>4. ASSUME NEW u \in Threads, u # t
      PROVE  /\ pc'[u] = "answer" => pointer' = job'[u].op
             /\ u \in BridgeThreads /\ pc'[u] = "unlock" /\ ack'[u] = 1 =>
                  \/ data'[u] = <<job'[u].op>>
                  \/ data'[u] = <<>> /\ job'[u].op = status
  <2>1. pc'[u] = "answer" => pointer' = job'[u].op
    <3>1. SUFFICES ASSUME pc'[u] = "answer" PROVE pointer' = job'[u].op
      OBVIOUS
    <3>2. pc[u] = "answer" /\ job'[u] = job[u]
      BY <1>1, <1>4, <3>1, OthersKeep
    <3>3. pointer' = pointer
      BY <1>1, <1>4, <3>2, LockedOut DEF Locked, bridge
    <3> QED
      BY <1>1, <3>2, <3>3 DEF QuestionStands
  <2>2. u \in BridgeThreads /\ pc'[u] = "unlock" /\ ack'[u] = 1 =>
          \/ data'[u] = <<job'[u].op>>
          \/ data'[u] = <<>> /\ job'[u].op = status
    BY <1>1, <1>4, OthersKeep DEF AnswerIsToTheQuestion, Succeeded
  <2> QED
    BY <2>1, <2>2
<1>5. QuestionStands'
  BY <1>3, <1>4 DEF QuestionStands
<1>6. BridgeThreads \subseteq Threads
  BY DEF Threads
<1>7. AnswerIsToTheQuestion'
  BY <1>3, <1>4, <1>6 DEF AnswerIsToTheQuestion, Succeeded
<1> QED
  BY <1>5, <1>7

\* One more byte of a send continues the sequence.
LEMMA SentGrows ==
  ASSUME NEW t, NEW n \in Nat
  PROVE  Append([i \in 1..n |-> <<t, i>>], <<t, n + 1>>) = [i \in 1..(n + 1) |-> <<t, i>>]
<1> DEFINE s == [i \in 1..n |-> <<t, i>>]
<1>1. s \in Seq({<<t, i>> : i \in 1..n}) /\ Len(s) = n
  BY DEF s
<1>2. Append(s, <<t, n + 1>>) =
        [i \in 1..(n + 1) |-> IF i \in 1..n THEN s[i] ELSE <<t, n + 1>>]
  BY <1>1
<1> QED
  BY <1>2

\* What has arrived of a send is what has been counted.
LEMMA SendsKept ==
  ASSUME LockInvariant, NEW t \in Threads, Begin(t) \/ Proceed(t)
  PROVE  SentInOrder'
<1> USE DEF Goto, threadVars
<1>1. TypeOK /\ LockIsHeld /\ JobsFit /\ SentInOrder
  BY DEF LockInvariant
<1>2. /\ DOMAIN pc = Threads /\ DOMAIN job = Threads /\ DOMAIN ack = Threads
      /\ DOMAIN count = Threads
  BY <1>1 DEF TypeOK
<1>3. /\ pc'[t] = "sendByte" => arrived' = [i \in 1..count'[t] |-> <<t, i>>]
      /\ pc'[t] = "sendEnd" /\ ack'[t] = 1 => arrived' = [i \in 1..job'[t].len |-> <<t, i>>]
  <2>1. CASE SendBegin(t)
    <3>1. pc'[t] = "sendByte" => arrived' = <<>> /\ count'[t] = 0
      BY <1>2, <2>1 DEF SendBegin
    <3>2. pc'[t] = "sendEnd" => ack'[t] = 0
      BY <1>2, <2>1 DEF SendBegin
    <3>3. ASSUME NEW n, n = 0 PROVE [i \in 1..n |-> <<t, i>>] = <<>>
      BY <3>3
    <3>4. pc'[t] = "sendByte" => arrived' = [i \in 1..count'[t] |-> <<t, i>>]
      BY <3>1, <3>3
    <3>5. pc'[t] = "sendEnd" /\ ack'[t] = 1 => FALSE
      BY <3>2
    <3> QED
      BY <3>4, <3>5
  <2>2. CASE SendByte(t)
    <3>1. /\ count[t] \in Nat /\ job[t].len \in Nat /\ count[t] < job[t].len
          /\ arrived = [i \in 1..count[t] |-> <<t, i>>]
      BY <1>1, <2>2, BusAssumption DEF SendByte, TypeOK, Jobs, JobsFit, SentInOrder, MaxByte
    <3>2. /\ job' = job
          /\ pc'[t] = IF count'[t] < job[t].len THEN "sendByte" ELSE "sendEnd"
      BY <1>2, <2>2 DEF SendByte
    <3>3. \/ /\ arrived' = Append(arrived, <<t, count[t] + 1>>)
             /\ count'[t] = count[t] + 1
          \/ arrived' = arrived /\ count'[t] = count[t]
      BY <1>2, <2>2 DEF SendByte, Advance
    <3>4. arrived' = [i \in 1..count'[t] |-> <<t, i>>]
      BY <3>1, <3>3, SentGrows
    <3>5. pc'[t] = "sendEnd" => count'[t] = job[t].len
      BY <3>1, <3>2, <3>3
    <3> QED
      BY <3>2, <3>4, <3>5
  <2>3. CASE /\ Begin(t) /\ ~SendBegin(t)
    BY <1>2, <2>3 DEF Begin, ReadAt, ReadNowhere, ReadHere, Write, Configure, Ask, RecvBegin
  <2>4. CASE AddressWrite(t) \/ High(t) \/ Low(t) \/ Restart(t) \/ AddressRead(t)
    BY <1>2, <2>4 DEF AddressWrite, High, Low, WriteByte, Restart, AddressRead
  <2>5. CASE ReadByte(t) \/ Stop(t) \/ Answer(t) \/ Unlock(t)
    BY <1>2, <2>5 DEF ReadByte, Stop, Answer, Unlock
  <2>6. CASE SendEnd(t) \/ RecvByte(t)
    BY <1>2, <2>6 DEF SendEnd, RecvByte
  <2> QED
    BY <2>1, <2>2, <2>3, <2>4, <2>5, <2>6 DEF Proceed
<1>4. ASSUME NEW u \in Threads, u # t, pc'[u] \in {"sendByte", "sendEnd"}
      PROVE  /\ pc'[u] = "sendByte" => arrived' = [i \in 1..count'[u] |-> <<u, i>>]
             /\ pc'[u] = "sendEnd" /\ ack'[u] = 1 =>
                  arrived' = [i \in 1..job'[u].len |-> <<u, i>>]
  <2>1. /\ pc'[u] = pc[u] /\ count'[u] = count[u] /\ job'[u] = job[u] /\ ack'[u] = ack[u]
    BY <1>1, <1>4, OthersKeep
  <2>2. arrived' = arrived
    BY <1>1, <1>4, <2>1, LockedOut DEF Locked, bridge
  <2> QED
    BY <1>1, <2>1, <2>2 DEF SentInOrder, Succeeded
<1> QED
  BY <1>3, <1>4 DEF SentInOrder, Succeeded

----------------------------------------------------------------------------
\* At power-up.
LEMMA InitLock == Init => LockInvariant
<1> SUFFICES ASSUME Init PROVE LockInvariant
  OBVIOUS
<1>1. TypeOK
  <2>1. <<0, 0>> \in Cells /\ 0 \in 0..MaxLen /\ 0 \in 0..(MaxDepth + 1) /\ 0 \in 0..TxSize
    BY BusAssumption DEF Cells, Byte, MaxByte
  <2>2. MemoryAtPowerUp \in [Cells -> Byte]
    BY BusAssumption
  <2>3. <<>> \in Seq(Threads \X (1..MaxLen))
    OBVIOUS
  <2> QED
    BY <2>1, <2>2, <2>3, JobsAreJobs, NothingRead DEF Init, TypeOK, Places
<1>2. LockIsHeld /\ JobsFit /\ QuestionStands /\ SentInOrder
  BY DEF Init, LockIsHeld, JobsFit, QuestionStands, SentInOrder, Locked, Reading, Addressing
<1>3. AnswerIsToTheQuestion
  BY DEF Init, AnswerIsToTheQuestion, Threads
<1> QED
  BY <1>1, <1>2, <1>3 DEF LockInvariant

\* The serial line takes a byte.
LEMMA DrainLock == LockInvariant /\ Drain => LockInvariant'
<1> SUFFICES ASSUME LockInvariant, Drain PROVE LockInvariant'
  OBVIOUS
<1> USE DEF LockInvariant, Drain, lockVars, fram, threadVars, observers
<1>1. TypeOK'
  <2>1. tx' \in 0..TxSize
    BY BusAssumption DEF TypeOK
  <2> QED
    BY <2>1 DEF TypeOK
<1>2. LockIsHeld' /\ JobsFit' /\ QuestionStands' /\ SentInOrder' /\ AnswerIsToTheQuestion'
  BY DEF LockIsHeld, JobsFit, QuestionStands, SentInOrder, AnswerIsToTheQuestion, Succeeded
<1> QED
  BY <1>1, <1>2

\* Every step keeps the invariant.
LEMMA NextLock == LockInvariant /\ [Next]_vars => LockInvariant'
<1> SUFFICES ASSUME LockInvariant, [Next]_vars PROVE LockInvariant'
  OBVIOUS
<1>1. CASE UNCHANGED vars
  BY <1>1 DEF vars, lockVars, fram, bridge, threadVars, observers, LockInvariant, TypeOK,
     LockIsHeld, JobsFit, QuestionStands, SentInOrder, AnswerIsToTheQuestion, Succeeded
<1>2. ASSUME NEW t \in Threads, Begin(t) \/ Proceed(t) PROVE LockInvariant'
  <2>1. TypeOK'
    BY <1>2, ReadTypes, WriteTypes, BridgeTypes DEF Begin, Proceed
  <2> QED
    BY <1>2, <2>1, LockKept, JobsKept, QueriesKept, SendsKept DEF LockInvariant
<1> QED
  BY <1>1, <1>2, DrainLock DEF Next

\* The inductive invariant of the bus, for any threads.
LEMMA LockInvariantHolds == Spec => []LockInvariant
BY InitLock, NextLock, PTL DEF Spec

(***************************************************************************)
(* Every variable keeps its type for any number of threads of either       *)
(* driver: the lock is never released more often than it was taken, and    *)
(* the FRAM never points outside its memory, whatever is sent to it.       *)
(***************************************************************************)
THEOREM BusTypesHold == Spec => []TypeOK
<1>1. LockInvariant => TypeOK
  BY DEF LockInvariant
<1> QED
  BY <1>1, LockInvariantHolds, PTL

(***************************************************************************)
(* A query of the bridge returns the register that was asked for, however  *)
(* many threads query, send, receive and read the FRAM at the same time.   *)
(***************************************************************************)
THEOREM AnswersAreToTheQuestion == Spec => []AnswerIsToTheQuestion
<1>1. LockInvariant => AnswerIsToTheQuestion
  BY DEF LockInvariant
<1> QED
  BY <1>1, LockInvariantHolds, PTL

(***************************************************************************)
(* A send that reports success has arrived whole and in order, however     *)
(* often the buffer was full and whoever else used the bus.                *)
(***************************************************************************)
THEOREM SendsArriveWhole == Spec => []SendArrivesWhole
<1>1. LockInvariant => SendArrivesWhole
  BY DEF LockInvariant, SentInOrder, SendArrivesWhole, Threads
<1> QED
  BY <1>1, LockInvariantHolds, PTL

----------------------------------------------------------------------------
(***************************************************************************)
(* The reader of the FRAM.  The calls of both drivers, apart:              *)
(***************************************************************************)
FramCall(t) ==
  \/ ReadAt(t) \/ ReadNowhere(t) \/ ReadHere(t) \/ Write(t) \/ AddressWrite(t) \/ High(t)
  \/ Low(t) \/ Restart(t) \/ AddressRead(t) \/ ReadByte(t) \/ Stop(t)

BridgeCall(t) ==
  \/ Configure(t) \/ Ask(t) \/ Answer(t) \/ Unlock(t)
  \/ SendBegin(t) \/ SendByte(t) \/ SendEnd(t) \/ RecvBegin(t) \/ RecvByte(t)

LEMMA TwoDrivers ==
  ASSUME NEW t \in Threads, Begin(t) \/ Proceed(t)
  PROVE  FramCall(t) \/ BridgeCall(t)
BY DEF Begin, Proceed, FramCall, BridgeCall

\* Whoever calls the FRAM driver is its one thread.
LEMMA FramCaller ==
  ASSUME JobsFit, NEW t \in Threads, FramCall(t)
  PROVE  t \in FramThreads
BY DEF FramCall, JobsFit, Reading, ReadAt, ReadNowhere, ReadHere, Write, AddressWrite, High,
   Low, Restart, AddressRead, ReadByte, Stop

\* What the bridge driver may do to a reader: end its transfer, and mark it torn.
LEMMA BridgeCallDisturbs ==
  ASSUME LockInvariant, NEW t \in Threads, BridgeCall(t)
  PROVE  /\ UNCHANGED <<latch, memory, next>>
         /\ bus' \in {bus, "idle", "bridge"}
         /\ pc[t] \notin Reading /\ pc'[t] \notin Reading
         /\ \A u \in Threads : u # t /\ ~torn'[u] =>
              ~torn[u] /\ (pc[u] = "byte" => bus' = bus)
<1> USE DEF Goto, threadVars, fram, observers
<1>1. TypeOK
  BY DEF LockInvariant
<1>2. DOMAIN pc = Threads
  BY <1>1 DEF TypeOK
<1>3. UNCHANGED <<latch, memory, next>> /\ bus' \in {bus, "idle", "bridge"}
  BY DEF BridgeCall, Configure, Ask, Answer, Unlock, SendBegin, SendByte, SendEnd, RecvBegin,
     RecvByte
<1>4. pc[t] \notin Reading /\ pc'[t] \notin Reading
  BY <1>2 DEF BridgeCall, Configure, Ask, Answer, Unlock, SendBegin, SendByte, SendEnd,
     RecvBegin, RecvByte, Reading
<1>5. Disturb(t) \/ (torn' = torn /\ bus' = bus)
  <2>1. CASE Unlock(t)
    BY <2>1 DEF Unlock
  <2>2. CASE Configure(t) \/ Ask(t) \/ Answer(t) \/ RecvBegin(t) \/ RecvByte(t)
    BY <2>2 DEF Configure, Ask, Answer, RecvBegin, RecvByte
  <2>3. CASE SendBegin(t) \/ SendByte(t) \/ SendEnd(t)
    BY <2>3 DEF SendBegin, SendByte, SendEnd
  <2> QED
    BY <2>1, <2>2, <2>3 DEF BridgeCall
<1>6. \A u \in Threads : u # t /\ ~torn'[u] =>
        ~torn[u] /\ (pc[u] = "byte" => bus' = bus)
  BY <1>5 DEF Disturb, Disturbed
<1> QED
  BY <1>3, <1>4, <1>6

\* What the FRAM makes of the next byte of a read.
LEMMA BytesHeard ==
  ASSUME LockInvariant, BusAsExpected, NEW t \in FramThreads
  PROVE  /\ pc[t] = "addressWrite" => \A o \in Outcomes(FramWrite) :
              o = Unheard \/ o = Heard("high", latch)
         /\ pc[t] = "high" => \A b \in Byte : \A o \in Outcomes(b) :
              o = Unheard \/ o = Heard("low", <<Masked(b), latch[2]>>)
         /\ pc[t] = "low" => \A b \in Byte : \A o \in Outcomes(b) :
              o = Unheard \/ o = Heard("data", <<latch[1], b>>)
         /\ pc[t] = "addressRead" => \A o \in Outcomes(FramRead) :
              o = Unheard \/ o = Heard("out", latch)
<1>1. bus \in {"idle", "bridge", Expects(pc[t])}
  BY DEF BusAsExpected
<1>2. FramWrite # FramRead
  BY BusAssumption
<1>3. CASE pc[t] = "addressWrite"
  BY <1>1, <1>2, <1>3 DEF Expects, Outcomes, OnWire
<1>4. CASE pc[t] = "high"
  BY <1>1, <1>4 DEF Expects, Outcomes, OnWire
<1>5. CASE pc[t] = "low"
  BY <1>1, <1>5 DEF Expects, Outcomes, OnWire
<1>6. CASE pc[t] = "addressRead"
  BY <1>1, <1>2, <1>6 DEF Expects, Outcomes, OnWire
<1> QED
  BY <1>3, <1>4, <1>5, <1>6

\* The FRAM takes each byte of a read for what it is meant to be.
LEMMA BusKept ==
  ASSUME LockInvariant, BusAsExpected, OneReader, NEW t \in Threads, Begin(t) \/ Proceed(t)
  PROVE  BusAsExpected'
<1> USE DEF Goto, threadVars
<1>1. TypeOK /\ JobsFit
  BY DEF LockInvariant
<1>2. DOMAIN pc = Threads /\ DOMAIN ack = Threads
  BY <1>1 DEF TypeOK
<1>3. FramThreads \subseteq Threads
  BY DEF Threads
<1>4. CASE BridgeCall(t)
  <2>1. ASSUME NEW u \in FramThreads PROVE Expects(pc'[u]) = Expects(pc[u])
    <3>1. CASE u = t
      BY <1>4, <3>1, BridgeCallDisturbs DEF Expects, Reading
    <3>2. CASE u # t
      BY <1>1, <1>3, <3>2, OthersKeep
    <3> QED
      BY <3>1, <3>2
  <2>2. bus' \in {bus, "idle", "bridge"}
    BY <1>4, BridgeCallDisturbs
  <2> QED
    BY <2>1, <2>2 DEF BusAsExpected
<1>5. CASE FramCall(t)
  <2>1. t \in FramThreads /\ \A u \in FramThreads : u = t
    BY <1>1, <1>5, FramCaller DEF OneReader
  <2>2. bus \in {"idle", "bridge", Expects(pc[t])}
    BY <2>1 DEF BusAsExpected
  <2>3. pc[t] \in Addressing => job[t].addr \in Byte \X Byte
    BY <1>1 DEF TypeOK, JobsFit, Jobs
  <2>4. SUFFICES bus' \in {"idle", "bridge", Expects(pc'[t])}
    BY <2>1 DEF BusAsExpected
  <2>5. CASE ReadAt(t) \/ ReadHere(t) \/ Restart(t)
    BY <1>2, <2>5 DEF ReadAt, ReadHere, Restart, Expects
  <2>6. CASE ReadNowhere(t)
    BY <1>2, <2>2, <2>6 DEF ReadNowhere, Expects
  <2>7. CASE Write(t) \/ Stop(t)
    BY <2>7 DEF Write, Stop
  <2>8. CASE AddressWrite(t)
    BY <1>2, <2>1, <2>8, BytesHeard DEF AddressWrite, WriteByte, Heard, Unheard, Expects
  <2>9. CASE High(t)
    BY <1>2, <2>1, <2>3, <2>9, BytesHeard
       DEF High, WriteByte, Heard, Unheard, Expects, Addressing
  <2>10. CASE Low(t)
    BY <1>2, <2>1, <2>3, <2>10, BytesHeard
       DEF Low, WriteByte, Heard, Unheard, Expects, Addressing
  <2>11. CASE AddressRead(t)
    BY <1>2, <2>1, <2>11, BytesHeard DEF AddressRead, Heard, Unheard, Expects
  <2>12. CASE ReadByte(t)
    BY <1>2, <2>2, <2>12 DEF ReadByte, Expects
  <2> QED
    BY <1>5, <2>5, <2>6, <2>7, <2>8, <2>9, <2>10, <2>11, <2>12 DEF FramCall
<1> QED
  BY <1>4, <1>5, TwoDrivers

\* Nothing is stored but by a write.
LEMMA NothingStored ==
  ASSUME LockInvariant, BusAsExpected, OneReader, NEW t \in Threads, Begin(t) \/ Proceed(t)
  PROVE  (\E u \in Threads : pc'[u] # pc[u]) => memory' = memory
<1>1. TypeOK /\ JobsFit
  BY DEF LockInvariant
<1>2. CASE BridgeCall(t)
  BY <1>2, BridgeCallDisturbs
<1>3. CASE FramCall(t)
  <2>1. t \in FramThreads
    BY <1>1, <1>3, FramCaller
  <2>2. pc[t] \in Addressing => job[t].addr \in Byte \X Byte
    BY <1>1 DEF TypeOK, JobsFit, Jobs
  <2>3. CASE ReadAt(t) \/ ReadNowhere(t) \/ ReadHere(t) \/ Restart(t) \/ ReadByte(t) \/ Stop(t)
    BY <2>3 DEF ReadAt, ReadNowhere, ReadHere, Restart, ReadByte, Stop, fram
  <2>4. CASE Write(t)
    BY <2>4 DEF Write, threadVars
  <2>5. CASE AddressWrite(t)
    BY <2>1, <2>5, BytesHeard DEF AddressWrite, WriteByte, Heard, Unheard
  <2>6. CASE High(t)
    BY <2>1, <2>2, <2>6, BytesHeard DEF High, WriteByte, Heard, Unheard, Addressing
  <2>7. CASE Low(t)
    BY <2>1, <2>2, <2>7, BytesHeard DEF Low, WriteByte, Heard, Unheard, Addressing
  <2>8. CASE AddressRead(t)
    BY <2>1, <2>8, BytesHeard DEF AddressRead, Heard, Unheard
  <2> QED
    BY <1>3, <2>3, <2>4, <2>5, <2>6, <2>7, <2>8 DEF FramCall
<1> QED
  BY <1>2, <1>3, TwoDrivers

\* Other threads leave a read on course, or mark it torn.
LEMMA OthersOnCourse ==
  ASSUME LockInvariant, ReadOnCourse, NEW t \in Threads, BridgeCall(t),
         Begin(t) \/ Proceed(t)
  PROVE  ReadOnCourse'
<1> SUFFICES ASSUME NEW u \in FramThreads PROVE OnCourse(u)'
  BY DEF ReadOnCourse
<1>1. /\ TypeOK /\ OnCourse(u) /\ u \in Threads
  BY DEF LockInvariant, ReadOnCourse, Threads
<1>2. /\ UNCHANGED <<latch, memory, next>>
      /\ pc[t] \notin Reading /\ pc'[t] \notin Reading
      /\ u # t /\ ~torn'[u] => ~torn[u] /\ (pc[u] = "byte" => bus' = bus)
  BY <1>1, BridgeCallDisturbs
<1>3. CASE u = t
  BY <1>1, <1>2, <1>3 DEF OnCourse
<1>4. CASE u # t
  <2>1. /\ pc'[u] = pc[u] /\ job'[u] = job[u] /\ ack'[u] = ack[u] /\ data'[u] = data[u]
    BY <1>1, <1>4, OthersKeep
  <2>2. First(u)' = First(u) /\ \A n : CellsRead(u, n)' = CellsRead(u, n)
    BY <1>2, <2>1 DEF First, CellsRead
  <2> QED
    BY <1>1, <1>2, <1>4, <2>1, <2>2 DEF OnCourse, Succeeded
<1> QED
  BY <1>3, <1>4

\* A read or a write begins on course.
LEMMA BeginOnCourse ==
  ASSUME ReaderInvariant, NEW t \in FramThreads,
         ReadAt(t) \/ ReadNowhere(t) \/ ReadHere(t) \/ Write(t)
  PROVE  OnCourse(t)'
<1> USE DEF Goto, threadVars, Succeeded
<1>1. TypeOK /\ OnCourse(t)
  BY DEF ReaderInvariant, LockInvariant, ReadOnCourse
<1>2. /\ DOMAIN pc = Threads /\ DOMAIN job = Threads /\ DOMAIN ack = Threads
      /\ DOMAIN data = Threads /\ t \in Threads
  BY <1>1 DEF TypeOK, Threads
<1>3. \A op : Lengths(op) \subseteq 1..MaxLen
  BY DEF Lengths
<1>4. CASE ReadAt(t)
  <2>1. PICK op \in AddressedReads, a \in Asked :
          ~TooHigh(op, a) /\ \E n \in Lengths(op) : NewJob(t, op, a, n)
    BY <1>4 DEF ReadAt
  <2>2. /\ job'[t].op = op /\ job'[t].addr = a /\ job'[t].len \in 1..MaxLen
        /\ data'[t] = <<>> /\ pc'[t] = "addressWrite"
    BY <1>2, <1>3, <1>4, <2>1 DEF NewJob, ReadAt
  <2> QED
    BY <2>1, <2>2 DEF OnCourse, Reading, TooHigh
<1>5. CASE ReadNowhere(t)
  <2>1. PICK op \in AddressedReads, a \in Asked : \E n \in Lengths(op) : NewJob(t, op, a, n)
    BY <1>5 DEF ReadNowhere
  <2>2. job'[t].len \in 1..MaxLen /\ ack'[t] = 3 /\ pc'[t] = "stop"
    BY <1>2, <1>3, <1>5, <2>1 DEF NewJob, ReadNowhere
  <2> QED
    BY <2>2 DEF OnCourse, Reading
<1>6. CASE ReadHere(t)
  <2>1. PICK op \in CurrentReads : \E n \in Lengths(op) : NewJob(t, op, next, n)
    BY <1>6 DEF ReadHere
  <2>2. /\ job'[t].addr = next /\ job'[t].len \in 1..MaxLen
        /\ data'[t] = <<>> /\ pc'[t] = "addressRead" /\ pc[t] = "idle" /\ latch' = latch
    BY <1>2, <1>3, <1>6, <2>1 DEF NewJob, ReadHere, fram
  <2>3. ASSUME next # none
        PROVE  latch' = <<Masked(next[1]), next[2]>> /\ ~(next[1] > MaxHigh)
    <3>1. latch = next
      BY <1>1, <2>2, <2>3 DEF OnCourse, Reading
    <3>2. next \in (0..MaxHigh) \X Byte
      BY <1>1, <2>3 DEF TypeOK, Cells
    <3> QED
      BY <2>2, <3>1, <3>2, BusAssumption DEF Masked
  <2> QED
    BY <2>2, <2>3 DEF OnCourse, Reading, First
<1>7. CASE Write(t)
  <2>1. pc' = pc /\ pc[t] = "idle" /\ (latch' = next' \/ next' = none)
    BY <1>7 DEF Write
  <2> QED
    BY <2>1 DEF OnCourse, Reading
<1> QED
  BY <1>4, <1>5, <1>6, <1>7

\* Sending the address brings the FRAM to the cell asked for.
LEMMA AddressOnCourse ==
  ASSUME ReaderInvariant, NEW t \in FramThreads,
         AddressWrite(t) \/ High(t) \/ Low(t) \/ Restart(t)
  PROVE  OnCourse(t)'
<1> USE DEF Goto, Succeeded
<1>1. TypeOK /\ JobsFit /\ OnCourse(t)
  BY DEF ReaderInvariant, LockInvariant, ReadOnCourse
<1>2. /\ DOMAIN pc = Threads /\ DOMAIN ack = Threads /\ t \in Threads
  BY <1>1 DEF TypeOK, Threads
<1>3. /\ pc[t] \in Addressing /\ job' = job /\ data' = data /\ next' = next
  BY DEF AddressWrite, High, Low, WriteByte, Restart, Addressing
<1>4. /\ job[t].addr # none /\ job[t].addr \in Byte \X Byte
      /\ First(t)' = First(t) /\ First(t)[1] = Masked(job[t].addr[1])
      /\ First(t)[2] = job[t].addr[2]
  BY <1>1, <1>2, <1>3 DEF JobsFit, TypeOK, Jobs, First
<1>5. /\ job[t].len \in 1..MaxLen /\ data[t] = <<>>
      /\ job[t].addr[1] > MaxHigh => job[t].op = "read_int16"
  BY <1>1, <1>3, <1>4 DEF OnCourse, Reading, Addressing
<1>6. CASE AddressWrite(t)
  <2>1. pc'[t] = "high" \/ (pc'[t] = "stop" /\ ack'[t] = 0)
    BY <1>2, <1>6, BytesHeard DEF AddressWrite, WriteByte, Heard, Unheard, ReaderInvariant
  <2> QED
    BY <1>3, <1>5, <2>1 DEF OnCourse, Reading
<1>7. CASE High(t)
  <2>1. \/ pc'[t] = "low" /\ latch' = <<Masked(job[t].addr[1]), latch[2]>>
        \/ pc'[t] = "stop" /\ ack'[t] = 0
    BY <1>2, <1>4, <1>7, BytesHeard DEF High, WriteByte, Heard, Unheard, ReaderInvariant
  <2> QED
    BY <1>3, <1>4, <1>5, <2>1 DEF OnCourse, Reading
<1>8. CASE Low(t)
  <2>1. \/ pc'[t] = "restart" /\ latch' = <<latch[1], job[t].addr[2]>>
        \/ pc'[t] = "stop" /\ ack'[t] = 0
    BY <1>2, <1>4, <1>8, BytesHeard DEF Low, WriteByte, Heard, Unheard, ReaderInvariant
  <2>2. latch[1] = First(t)[1]
    BY <1>1, <1>4, <1>8 DEF Low, OnCourse, Reading
  <2>3. pc'[t] = "restart" => latch' = First(t)
    BY <1>4, <2>1, <2>2 DEF First
  <2> QED
    BY <1>3, <1>4, <1>5, <2>1, <2>3 DEF OnCourse, Reading
<1>9. CASE Restart(t)
  <2>1. pc'[t] = "addressRead" /\ latch' = latch /\ pc[t] = "restart"
    BY <1>2, <1>9 DEF Restart, fram
  <2>2. latch = First(t)
    BY <1>1, <1>4, <2>1 DEF OnCourse, Reading
  <2> QED
    BY <1>3, <1>4, <1>5, <2>1, <2>2 DEF OnCourse, Reading
<1> QED
  BY <1>6, <1>7, <1>8, <1>9

\* A sequence is its front and its last element.
LEMMA FrontAndLast ==
  ASSUME NEW S, NEW n \in Nat, NEW f \in [1..(n + 1) -> S]
  PROVE  /\ Len([k \in 1..n |-> f[k]]) = n
         /\ Append([k \in 1..n |-> f[k]], f[n + 1]) = f
<1> DEFINE s == [k \in 1..n |-> f[k]]
<1>1. s \in Seq(S) /\ Len(s) = n
  OBVIOUS
<1>2. Append(s, f[n + 1]) = [k \in 1..(n + 1) |-> IF k \in 1..n THEN s[k] ELSE f[n + 1]]
  BY <1>1
<1>3. \A k \in 1..(n + 1) : (IF k \in 1..n THEN s[k] ELSE f[n + 1]) = f[k]
  OBVIOUS
<1> QED
  BY <1>1, <1>2, <1>3

\* One more byte continues what has been read.
LEMMA ReadGrows ==
  ASSUME NEW t, NEW n \in Nat
  PROVE  /\ Len(CellsRead(t, n)) = n
         /\ Append(CellsRead(t, n), memory[CellAt(First(t), n)]) = CellsRead(t, n + 1)
<1> DEFINE f == CellsRead(t, n + 1)
           S == {f[k] : k \in 1..(n + 1)}
<1>1. f \in [1..(n + 1) -> S]
  BY DEF CellsRead
<1>2. f[n + 1] = memory[CellAt(First(t), n)]
  <2>1. n + 1 \in 1..(n + 1) /\ (n + 1) - 1 = n
    OBVIOUS
  <2> QED
    BY <2>1 DEF CellsRead
<1>3. [k \in 1..n |-> f[k]] = CellsRead(t, n)
  BY DEF CellsRead
<1> HIDE DEF f, S
<1> QED
  BY <1>1, <1>2, <1>3, FrontAndLast DEF f

\* The bytes are read from the cell asked for on, up to the stop.
LEMMA BytesOnCourse ==
  ASSUME ReaderInvariant, NEW t \in FramThreads,
         AddressRead(t) \/ ReadByte(t) \/ Stop(t)
  PROVE  OnCourse(t)'
<1> USE DEF Goto, Succeeded
<1>1. TypeOK /\ OnCourse(t)
  BY DEF ReaderInvariant, LockInvariant, ReadOnCourse
<1>2. /\ DOMAIN pc = Threads /\ DOMAIN ack = Threads /\ DOMAIN job = Threads
      /\ DOMAIN data = Threads /\ t \in Threads
  BY <1>1 DEF TypeOK, Threads
<1>3. /\ pc[t] \in Reading /\ job[t].len \in 1..MaxLen /\ memory' = memory
  <2>1. pc[t] \in Reading
    BY DEF AddressRead, ReadByte, Stop, Reading
  <2>2. memory' = memory
    BY <1>2, BytesHeard
       DEF AddressRead, ReadByte, Stop, fram, Heard, Unheard, ReaderInvariant
  <2> QED
    BY <1>1, <2>1, <2>2 DEF OnCourse
<1>4. job[t].addr # none =>
        /\ job[t].addr \in Byte \X Byte /\ First(t) \in Cells
        /\ CellAt(First(t), 0) = First(t)
  <2>1. SUFFICES ASSUME job[t].addr # none
                 PROVE  /\ job[t].addr \in Byte \X Byte /\ First(t) \in Cells
                        /\ CellAt(First(t), 0) = First(t)
    OBVIOUS
  <2>2. job[t].addr \in Byte \X Byte
    BY <1>1, <1>2, <2>1 DEF TypeOK, Jobs
  <2>3. First(t) \in Cells
    BY <2>2, CellsWithin DEF First, Cells
  <2>4. CellAt(First(t), 0) = First(t)
    BY <2>3, BusAssumption DEF CellAt, Cells, Byte, MaxByte
  <2> QED
    BY <2>2, <2>3, <2>4
<1>5. CASE AddressRead(t)
  <2>1. /\ pc'[t] \in {"byte", "stop"} /\ job' = job /\ data' = data /\ data[t] = <<>>
        /\ ack'[t] = 1 => bus' = "out" /\ pc'[t] = "byte"
        /\ latch' = latch
    <3>1. pc[t] = "addressRead" /\ data[t] = <<>>
      BY <1>1, <1>3, <1>5 DEF AddressRead, OnCourse
    <3> QED
      BY <1>2, <1>5, <3>1, BytesHeard DEF AddressRead, Heard, Unheard, ReaderInvariant
  <2>2. ASSUME job[t].addr # none
        PROVE  /\ latch = First(t)
               /\ job[t].addr[1] > MaxHigh => job[t].op = "read_int16"
    BY <1>1, <1>3, <1>5, <2>2 DEF AddressRead, OnCourse
  <2>3. First(t)' = First(t) /\ CellsRead(t, 0)' = <<>>
    BY <2>1 DEF First, CellsRead
  <2>4. Len(data[t]) = 0 /\ Len(data[t]) < job[t].len
    BY <1>3, <2>1
  <2>5. ASSUME job[t].addr # none, ack'[t] = 1
        PROVE  /\ bus' = "out" /\ Len(data'[t]) < job'[t].len
               /\ data'[t] = CellsRead(t, Len(data[t]))'
               /\ latch' = CellAt(First(t), Len(data[t]))'
    BY <1>4, <2>1, <2>2, <2>3, <2>4, <2>5
  <2> QED
    BY <1>3, <2>1, <2>2, <2>5 DEF OnCourse, Reading
<1>6. CASE ReadByte(t)
  <2> DEFINE n == Len(data[t])
             last == n + 1 = job[t].len
  <2>1. /\ job' = job /\ ack' = ack /\ pc[t] = "byte" /\ torn'[t] = torn[t]
        /\ pc'[t] = (IF last THEN "stop" ELSE "byte") /\ next' = next
        /\ bus' = (IF last THEN "idle" ELSE bus)
        /\ bus = "out" => /\ data'[t] = Append(data[t], memory[latch])
                          /\ latch' = CellAt(latch, 1)
    <3>1. torn'[t] = torn[t]
      <4>1. Disturbed(t, t) = torn[t] /\ torn[t] \in BOOLEAN
        BY <1>1, <1>2 DEF Disturbed, TypeOK
      <4> QED
        BY <1>2, <1>6, <4>1 DEF ReadByte, Disturb
    <3>2. bus = "out" => /\ data' = [data EXCEPT ![t] = Append(@, memory[latch])]
                        /\ latch' = CellAt(latch, 1)
      BY <1>6 DEF ReadByte
    <3>3. /\ job' = job /\ ack' = ack /\ pc[t] = "byte" /\ next' = next
          /\ bus' = (IF last THEN "idle" ELSE bus)
          /\ pc' = [pc EXCEPT ![t] = IF last THEN "stop" ELSE "byte"]
      BY <1>6 DEF ReadByte
    <3> HIDE DEF last
    <3> QED
      BY <1>2, <3>1, <3>2, <3>3
  <2>2. First(t)' = First(t) /\ \A k : CellsRead(t, k)' = CellsRead(t, k)
    BY <1>3, <2>1 DEF First, CellsRead
  <2>3. ASSUME job[t].addr # none, ack[t] = 1, ~torn[t]
        PROVE  /\ bus = "out" /\ n \in Nat /\ n < job[t].len
               /\ data'[t] = CellsRead(t, n + 1) /\ latch' = CellAt(First(t), n + 1)
               /\ Len(data'[t]) = n + 1
    <3>1. /\ bus = "out" /\ n < job[t].len /\ data[t] = CellsRead(t, n)
          /\ latch = CellAt(First(t), n)
      BY <1>1, <1>3, <2>1, <2>3 DEF OnCourse
    <3>2. n \in Nat
      BY <1>1, <1>2 DEF TypeOK
    <3>3. data'[t] = CellsRead(t, n + 1) /\ Len(data'[t]) = n + 1
      <4>1. data'[t] = Append(CellsRead(t, n), memory[CellAt(First(t), n)])
        BY <2>1, <3>1
      <4>2. data'[t] = CellsRead(t, n + 1)
        BY <3>2, <4>1, ReadGrows
      <4>3. Len(CellsRead(t, n + 1)) = n + 1
        BY <3>2, ReadGrows
      <4> QED
        BY <4>2, <4>3
    <3>4. n \in 0..(MaxByte - 1)
      BY <1>3, <3>1, <3>2, BusAssumption DEF MaxByte
    <3>5. latch' = CellAt(First(t), n + 1)
      BY <1>4, <2>1, <2>3, <3>1, <3>4, CellsFollow
    <3> QED
      BY <3>1, <3>2, <3>3, <3>5
  <2>4. job[t].addr # none /\ job[t].addr[1] > MaxHigh => job[t].op = "read_int16"
    BY <1>1, <1>3, <2>1 DEF OnCourse
  <2>5. CASE last
    BY <1>3, <2>1, <2>2, <2>3, <2>4, <2>5 DEF OnCourse, Reading
  <2>6. CASE ~last
    <3>1. ASSUME job[t].addr # none, ack[t] = 1, ~torn[t] PROVE n + 1 < job[t].len
      BY <1>3, <2>3, <2>6, <3>1
    <3> QED
      BY <1>3, <2>1, <2>2, <2>3, <2>4, <2>6, <3>1 DEF OnCourse, Reading
  <2> QED
    BY <2>5, <2>6
<1>7. CASE Stop(t)
  <2>1. /\ pc[t] = "stop" /\ pc'[t] = "idle" /\ latch' = latch
        /\ next' # none => /\ ack[t] = 1 /\ ~torn[t] /\ job[t].addr # none
                           /\ next' = CellAt(First(t), job[t].len)
    BY <1>2, <1>7 DEF Stop, fram, First
  <2>2. next' # none => latch = CellAt(First(t), job[t].len)
    BY <1>1, <1>3, <2>1 DEF OnCourse
  <2> QED
    BY <2>1, <2>2 DEF OnCourse, Reading
<1> QED
  BY <1>5, <1>6, <1>7

----------------------------------------------------------------------------
\* At power-up nothing is on the bus.
LEMMA InitReader == Init => ReaderInvariant
<1> SUFFICES ASSUME Init PROVE ReaderInvariant
  OBVIOUS
<1>1. BusAsExpected
  BY DEF Init, BusAsExpected
<1>2. ReadOnCourse
  BY DEF Init, ReadOnCourse, OnCourse, Reading, Threads
<1> QED
  BY <1>1, <1>2, InitLock DEF ReaderInvariant

\* A step that touches neither the bus nor a reader keeps the invariant.
LEMMA QuietStep ==
  ASSUME ReaderInvariant, UNCHANGED <<bus, latch, memory, pc, job, ack, data, torn, next>>
  PROVE  BusAsExpected' /\ ReadOnCourse'
<1>1. BusAsExpected'
  BY DEF ReaderInvariant, BusAsExpected
<1>2. ASSUME NEW t \in FramThreads PROVE OnCourse(t)'
  <2>1. First(t)' = First(t) /\ \A n : CellsRead(t, n)' = CellsRead(t, n)
    BY DEF First, CellsRead
  <2>2. OnCourse(t)
    BY DEF ReaderInvariant, ReadOnCourse
  <2> QED
    BY <2>1, <2>2 DEF OnCourse, Succeeded
<1> QED
  BY <1>1, <1>2 DEF ReadOnCourse

\* Every step of one reader, and of any other threads, keeps the invariant.
LEMMA NextReader ==
  ASSUME OneReader, ReaderInvariant, [Next]_vars
  PROVE  ReaderInvariant'
<1>1. LockInvariant'
  BY NextLock DEF ReaderInvariant
<1>2. CASE UNCHANGED vars
  BY <1>1, <1>2, QuietStep DEF vars, fram, threadVars, observers, ReaderInvariant
<1>3. CASE Drain
  BY <1>1, <1>3, QuietStep DEF Drain, fram, threadVars, observers, ReaderInvariant
<1>4. ASSUME NEW t \in Threads, Begin(t) \/ Proceed(t) PROVE ReaderInvariant'
  <2>1. BusAsExpected'
    BY <1>4, BusKept DEF ReaderInvariant
  <2>2. CASE BridgeCall(t)
    BY <1>1, <1>4, <2>1, <2>2, OthersOnCourse DEF ReaderInvariant
  <2>3. CASE FramCall(t)
    <3>1. t \in FramThreads /\ \A u \in FramThreads : u = t
      BY <2>3, FramCaller DEF OneReader, ReaderInvariant, LockInvariant
    <3>2. OnCourse(t)'
      BY <2>3, <3>1, BeginOnCourse, AddressOnCourse, BytesOnCourse DEF FramCall
    <3>3. ReadOnCourse'
      BY <3>1, <3>2 DEF ReadOnCourse
    <3> QED
      BY <1>1, <2>1, <3>3 DEF ReaderInvariant
  <2> QED
    BY <1>4, <2>2, <2>3, TwoDrivers
<1> QED
  BY <1>2, <1>3, <1>4 DEF Next

(***************************************************************************)
(* If one thread reads the FRAM, its partial writes store nothing, however *)
(* many other threads cut in between the calls of a read.                  *)
(***************************************************************************)
THEOREM NoReadStores ==
  ASSUME OneReader
  PROVE  Spec => ReadsStoreNothing
<1>1. ReaderInvariant /\ [Next]_vars => ReaderInvariant'
  BY NextReader
<1>2. ReaderInvariant /\ [Next]_vars =>
        [(\E t \in Threads : pc'[t] # pc[t]) => memory' = memory]_vars
  <2> SUFFICES ASSUME ReaderInvariant, Next
               PROVE  (\E t \in Threads : pc'[t] # pc[t]) => memory' = memory
    OBVIOUS
  <2>1. CASE Drain
    BY <2>1 DEF Drain, fram
  <2>2. ASSUME NEW t \in Threads, Begin(t) \/ Proceed(t)
        PROVE  (\E u \in Threads : pc'[u] # pc[u]) => memory' = memory
    BY <2>2, NothingStored DEF ReaderInvariant
  <2> QED
    BY <2>1, <2>2 DEF Next
<1> QED
  BY <1>1, <1>2, InitReader, PTL DEF Spec, ReadsStoreNothing

(***************************************************************************)
(* If one thread reads the FRAM, what a read reports as read is what the   *)
(* cells it was asked for hold, for every address, length and memory.      *)
(***************************************************************************)
THEOREM ReadsAreTrueOrReported ==
  ASSUME OneReader
  PROVE  Spec => []ReadIsTrueOrReported
<1>1. ReaderInvariant /\ [Next]_vars => ReaderInvariant'
  BY NextReader
<1>2. ReaderInvariant => ReadIsTrueOrReported
  BY DEF ReaderInvariant, ReadOnCourse, OnCourse, ReadIsTrueOrReported, CellsRead, First,
     Reading
<1> QED
  BY <1>1, <1>2, InitReader, PTL DEF Spec

=============================================================================
